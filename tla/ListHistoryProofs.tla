-------------------------- MODULE ListHistoryProofs --------------------------
(***************************************************************************)
(* No sequence of calls makes a LinkedList lose an element that nobody     *)
(* deleted, for any set of nodes and items.                                *)
(***************************************************************************)
EXTENDS ListHistory, LinkedListProofs

\* Beside the shape of the list: what nobody deleted is on the path.
HistoryInv ==
    /\ deleted \in SUBSET Nodes
    /\ WellLinked(list, order)
    /\ ToSet(order) \ deleted \subseteq Listed

\* Initially nothing was inserted.
LEMMA HistoryInit == Init => HistoryInv
BY EmptyWellLinked DEF Init, HistoryInv, ToSet

\* An insertion adds its node to the path and to the order.
LEMMA InsertionStep ==
    ASSUME HistoryInv, NEW n \in Nodes, NEW d \in Items,
           InsertBegin(n, d) \/ InsertEnd(n, d)
    PROVE  HistoryInv'
<1>1. /\ WellLinked(list, order) /\ n \notin Allocated(list)
      /\ order \in Seq(Nodes)
  BY DEF HistoryInv, InsertBegin, InsertEnd, WellLinked, Ordered
<1>2. Traverse(list) \in Seq(Nodes)
  BY <1>1, PathInOrder DEF WellLinked
<1>3. CASE InsertBegin(n, d)
  <2>1. /\ WellLinked(list', order')
        /\ Traverse(list') = <<n>> \o Traverse(list)
    BY <1>1, <1>3, InsertInBeginWellLinked DEF InsertBegin
  <2>2. /\ ToSet(order') = ToSet(order) \cup {n}
        /\ ToSet(<<n>> \o Traverse(list)) = ToSet(Traverse(list)) \cup {n}
    BY <1>1, <1>2, <1>3, BeforeGrows DEF InsertBegin
  <2> QED BY <1>3, <2>1, <2>2 DEF HistoryInv, InsertBegin, Listed
<1>4. CASE InsertEnd(n, d)
  <2>1. /\ WellLinked(list', order')
        /\ Traverse(list') = Append(Traverse(list), n)
    BY <1>1, <1>4, InsertAtEndWellLinked DEF InsertEnd
  <2>2. /\ ToSet(order') = ToSet(order) \cup {n}
        /\ ToSet(Append(Traverse(list), n)) = ToSet(Traverse(list)) \cup {n}
    BY <1>1, <1>2, <1>4, BeforeGrows DEF InsertEnd
  <2> QED BY <1>4, <2>1, <2>2 DEF HistoryInv, InsertEnd, Listed
<1> QED BY <1>3, <1>4

\* A deletion unlinks the node it found, or its prev leads to a deleted one.
LEMMA DeletionStep ==
    ASSUME HistoryInv, NEW d \in Items, Delete(d)
    PROVE  /\ HistoryInv'
           /\ \A n \in deleted' \ deleted :
                 n \in Listed' => list.prev[n] \in deleted \ Listed
<1> DEFINE p == Traverse(list)
           n == FirstMatch(list, {d})
<1>1. WellLinked(list, order) /\ list \in Lists /\ Ordered(list, order)
  BY DEF HistoryInv, WellLinked
<1>2. /\ p \in Seq(Nodes) /\ Len(p) \in Nat
      /\ \A j \in 1 .. Len(p) : p[j] \in Nodes
      /\ \A j, k \in 1 .. Len(p) : j < k => p[j] # p[k]
      /\ ToSet(p) \subseteq ToSet(order)
  <2>1. /\ p \in Seq(Nodes) /\ ToSet(p) \subseteq ToSet(order)
        /\ \A j, k \in 1 .. Len(p) : j < k => p[j] # p[k]
    BY <1>1, PathInOrder
  <2> QED BY <2>1
<1>3. PICK i \in 1 .. Len(p) : n = p[i]
  BY <1>2, FirstMatchOnPath DEF Delete
<1>4. /\ list' = DeleteNode(list, n)
      /\ deleted' = deleted \cup {n} /\ order' = order
  BY DEF Delete, DeleteByData
<1>5. /\ WellLinked(list', order)
      /\ \/ Traverse(list') = Cut(p, i)
         \/ /\ Traverse(list') = p
            /\ list.prev[n] \in ToSet(order) \ ToSet(p)
  <2> HIDE DEF n
  <2> QED BY <1>1, <1>3, <1>4, DeleteNodeWellLinked
<1> HIDE DEF p, n
<1>6. n \in Nodes /\ n \notin ToSet(Cut(p, i))
      /\ ToSet(p) \ {n} \subseteq ToSet(Cut(p, i))
  BY <1>2, <1>3, CutKeepsOthers
<1>7. HistoryInv'
  BY <1>4, <1>5, <1>6 DEF HistoryInv, Listed, p
<1>8. n \in Listed' => list.prev[n] \in deleted \ Listed
  BY <1>5, <1>6 DEF HistoryInv, Listed, p
<1> QED BY <1>4, <1>7, <1>8

\* Every call keeps it.
LEMMA HistoryStep == HistoryInv /\ [Next]_vars => HistoryInv'
<1> SUFFICES ASSUME HistoryInv, [Next]_vars PROVE HistoryInv'
  OBVIOUS
<1>1. CASE \E n \in Nodes, d \in Items : InsertBegin(n, d) \/ InsertEnd(n, d)
  BY <1>1, InsertionStep
<1>2. CASE \E d \in Items : Delete(d)
  BY <1>2, DeletionStep
<1>3. CASE UNCHANGED vars
  BY <1>3 DEF vars, HistoryInv, Listed
<1> QED BY <1>1, <1>2, <1>3 DEF Next

\* So it holds throughout.
LEMMA HistoryInvariant == Spec => []HistoryInv
BY HistoryInit, HistoryStep, PTL DEF Spec

-----------------------------------------------------------------------------
\* The list, its pointers and its history keep their types: no pointer ever
\* holds anything but a node or null (LinkedList.ts).
THEOREM ListTypesHold == Spec => []TypeOK
<1>1. HistoryInv => TypeOK
  BY DEF HistoryInv, TypeOK, WellLinked, Ordered
<1> QED BY <1>1, HistoryInvariant, PTL

\* Whatever calls insertInBegin, insertAtEnd and deleteByData are made, a
\* traversal meets every element nobody deleted, in the order of the list,
\* although deleteNode leaves the successor's prev pointer behind.
THEOREM NothingIsLost == Spec => []NothingLost
<1>1. HistoryInv => NothingLost
  <2> SUFFICES ASSUME HistoryInv
               PROVE  LiveOrder(Traverse(list)) = LiveOrder(order)
    BY DEF NothingLost
  <2> DEFINE p == Traverse(list)
             o == order
  <2>1. /\ p \in Seq(Nodes) /\ Len(p) \in Nat
        /\ o \in Seq(Nodes) /\ Len(o) \in Nat
        /\ \A i \in 1 .. Len(p) : p[i] \in Nodes
        /\ \A i \in 1 .. Len(o) : o[i] \in Nodes
        /\ \A i, j \in 1 .. Len(p) : i < j => Before(o, p[i], p[j])
        /\ ToSet(p) \subseteq ToSet(o)
        /\ \A i, j \in 1 .. Len(o) : o[i] = o[j] => i = j
        /\ ToSet(o) \ deleted \subseteq ToSet(p)
    <3>1. /\ p \in Seq(Nodes) /\ o \in Seq(Nodes)
          /\ ToSet(p) \subseteq ToSet(o)
          /\ \A i, j \in 1 .. Len(p) : i < j => Before(o, p[i], p[j])
      BY PathInOrder DEF HistoryInv, WellLinked, Ordered
    <3>2. /\ \A i, j \in 1 .. Len(o) : o[i] = o[j] => i = j
          /\ ToSet(o) \ deleted \subseteq ToSet(p)
      BY DEF HistoryInv, WellLinked, Ordered, Listed
    <3> HIDE DEF p, o
    <3> QED BY <3>1, <3>2
  <2> HIDE DEF p, o
  <2>2. DOMAIN p = 1 .. Len(p) /\ DOMAIN o = 1 .. Len(o)
    BY <2>1
  <2>3. ASSUME NEW i \in DOMAIN p, NEW j \in DOMAIN p, i <= j
        PROVE  \E a, b \in DOMAIN o : a <= b /\ o[a] = p[i] /\ o[b] = p[j]
    <3>1. CASE i = j
      <4>1. \E a \in DOMAIN o : o[a] = p[i]
        BY <2>1, <2>2 DEF ToSet
      <4> QED BY <2>2, <3>1, <4>1
    <3>2. CASE i < j
      <4>1. Before(o, p[i], p[j])
        BY <2>1, <2>2, <3>2
      <4> QED BY <2>2, <4>1 DEF Before
    <3> QED BY <2>2, <2>3, <3>1, <3>2
  <2>4. ASSUME NEW a \in DOMAIN o, NEW b \in DOMAIN o, a <= b,
               o[a] \notin deleted, o[b] \notin deleted
        PROVE  \E i, j \in DOMAIN p : i <= j /\ p[i] = o[a] /\ p[j] = o[b]
    <3>1. PICK i \in DOMAIN p : p[i] = o[a]
      BY <2>1, <2>4 DEF ToSet
    <3>2. PICK j \in DOMAIN p : p[j] = o[b]
      BY <2>1, <2>4 DEF ToSet
    <3>3. ~ (j < i)
      <4> SUFFICES ASSUME j < i PROVE FALSE
        OBVIOUS
      <4>1. Before(o, o[b], o[a])
        BY <2>1, <2>2, <3>1, <3>2
      <4>2. PICK x, y \in 1 .. Len(o) : x < y /\ o[x] = o[b] /\ o[y] = o[a]
        BY <4>1 DEF Before
      <4>3. x = b /\ y = a
        BY <2>1, <2>2, <4>2
      <4> QED BY <2>2, <2>4, <4>2, <4>3
    <3> QED BY <2>2, <3>1, <3>2, <3>3
  <2>5. LiveOrder(p) \subseteq LiveOrder(o)
    <3> SUFFICES ASSUME NEW mn \in LiveOrder(p) PROVE mn \in LiveOrder(o)
      OBVIOUS
    <3>1. PICK i, j \in DOMAIN p :
             /\ i <= j /\ p[i] \notin deleted /\ p[j] \notin deleted
             /\ mn = <<p[i], p[j]>> /\ mn \in Nodes \X Nodes
      BY DEF LiveOrder
    <3>2. PICK a, b \in DOMAIN o : a <= b /\ o[a] = p[i] /\ o[b] = p[j]
      BY <2>3, <3>1
    <3> QED BY <3>1, <3>2 DEF LiveOrder
  <2>6. LiveOrder(o) \subseteq LiveOrder(p)
    <3> SUFFICES ASSUME NEW mn \in LiveOrder(o) PROVE mn \in LiveOrder(p)
      OBVIOUS
    <3>1. PICK a, b \in DOMAIN o :
             /\ a <= b /\ o[a] \notin deleted /\ o[b] \notin deleted
             /\ mn = <<o[a], o[b]>> /\ mn \in Nodes \X Nodes
      BY DEF LiveOrder
    <3>2. PICK i, j \in DOMAIN p : i <= j /\ p[i] = o[a] /\ p[j] = o[b]
      BY <2>4, <3>1
    <3> QED BY <3>1, <3>2 DEF LiveOrder
  <2> QED BY <2>5, <2>6 DEF p, o
<1> QED BY <1>1, HistoryInvariant, PTL

\* deleteByData leaves the node it found on the list only if the node's prev
\* pointer leads to a node that was unlinked before.
THEOREM DeletionsFailBehindUnlinked == Spec => FailsBehindUnlinked
<1>1. HistoryInv /\ [Next]_vars =>
        [\A n \in deleted' \ deleted :
            n \in Listed' => list.prev[n] \in deleted \ Listed]_vars
  <2> SUFFICES ASSUME HistoryInv, Next
               PROVE  \A n \in deleted' \ deleted :
                         n \in Listed' => list.prev[n] \in deleted \ Listed
    OBVIOUS
  <2>1. CASE \E n \in Nodes, d \in Items : InsertBegin(n, d) \/ InsertEnd(n, d)
    BY <2>1 DEF InsertBegin, InsertEnd
  <2>2. CASE \E d \in Items : Delete(d)
    BY <2>2, DeletionStep
  <2> QED BY <2>1, <2>2 DEF Next
<1> QED BY <1>1, HistoryInvariant, PTL DEF Spec, FailsBehindUnlinked

=============================================================================
