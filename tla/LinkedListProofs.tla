-------------------------- MODULE LinkedListProofs --------------------------
(***************************************************************************)
(* What a traversal of a LinkedList meets, and what each operation does to *)
(* it, for any set of nodes.  A list whose next pointers run in a circle   *)
(* has no traversal, so every lemma is about lists with a rank that falls  *)
(* along them.                                                             *)
(***************************************************************************)
EXTENDS LinkedList, WellFoundedInduction, SequenceTheorems, TLAPS

Falls(l, rank) ==
    /\ rank \in [Nodes -> Nat]
    /\ \A n \in Nodes : l.next[n] \in Nodes => rank[l.next[n]] < rank[n]

\* s is what following next from n meets.
Path(l, n, s) ==
    /\ s \in Seq(Nodes)
    /\ n = NoNode <=> s = <<>>
    /\ n # NoNode => s[1] = n
    /\ \A i \in 1 .. Len(s) :
          l.next[s[i]] = IF i < Len(s) THEN s[i + 1] ELSE NoNode
-----------------------------------------------------------------------------
\* A set of naturals has a least element.
LEMMA Least ==
    ASSUME NEW C, C \subseteq Nat, C # {}
    PROVE  \E k \in C : \A i \in C : k <= i
<1>1. PICK k \in C : \A i \in C : <<i, k>> \notin OpToRel(<, Nat)
  BY NatLessThanWellFounded, WFMin
<1>2. \A i \in C : ~ (i < k)
  BY <1>1 DEF OpToRel
<1> QED BY <1>2

\* Only one path starts at a node.
LEMMA PathUnique ==
    ASSUME NEW l, NEW n, NEW s, NEW t, Path(l, n, s), Path(l, n, t)
    PROVE  s = t
<1>1. /\ s \in Seq(Nodes) /\ t \in Seq(Nodes)
      /\ Len(s) \in Nat /\ Len(t) \in Nat
      /\ \A i \in 1 .. Len(s) : s[i] \in Nodes
      /\ \A i \in 1 .. Len(t) : t[i] \in Nodes
  BY DEF Path
<1> DEFINE C == {i \in 1 .. Len(s) : i > Len(t) \/ s[i] # t[i]}
<1>2. C = {}
  <2> SUFFICES ASSUME C # {} PROVE FALSE
    OBVIOUS
  <2>1. PICK k \in C : \A i \in C : k <= i
    <3>1. C \subseteq Nat BY <1>1
    <3> HIDE DEF C
    <3> QED BY <3>1, Least
  <2>2. k # 1
    BY <1>1, <2>1 DEF Path
  <2>3. k - 1 \in 1 .. Len(s) /\ k - 1 \notin C
    BY <1>1, <2>1, <2>2
  <2>4. s[k - 1] = t[k - 1] /\ k - 1 \in 1 .. Len(t)
    BY <1>1, <2>3
  <2>5. l.next[s[k - 1]] = s[k] /\ s[k] \in Nodes
    BY <1>1, <2>1, <2>3 DEF Path
  <2>6. k <= Len(t) /\ l.next[t[k - 1]] = t[k]
    BY <1>1, <2>1, <2>4, <2>5, NoNodeAssumption DEF Path
  <2> QED BY <1>1, <2>1, <2>4, <2>5, <2>6
<1>3. Len(s) <= Len(t)
  BY <1>1, <1>2
<1>4. Len(t) <= Len(s)
  <2> SUFFICES ASSUME Len(s) < Len(t) PROVE FALSE
    BY <1>1
  <2>1. CASE Len(s) = 0
    BY <1>1, <2>1 DEF Path
  <2>2. CASE Len(s) > 0
    <3>1. s[Len(s)] = t[Len(s)]
      BY <1>1, <1>2, <2>2
    <3>2. l.next[s[Len(s)]] = NoNode /\ l.next[t[Len(s)]] \in Nodes
      BY <1>1, <2>2 DEF Path
    <3> QED BY <3>1, <3>2, NoNodeAssumption
  <2> QED BY <1>1, <2>1, <2>2
<1>5. \A i \in 1 .. Len(s) : s[i] = t[i]
  BY <1>1, <1>2, <1>3
<1> QED BY <1>1, <1>3, <1>4, <1>5, SeqEqual

\* A node in front of a path makes a path.
LEMMA PathExtends ==
    ASSUME NEW l, NEW n \in Nodes, NEW s, Path(l, l.next[n], s)
    PROVE  Path(l, n, <<n>> \o s)
<1> DEFINE t == <<n>> \o s
<1>1. /\ s \in Seq(Nodes) /\ Len(s) \in Nat
  BY DEF Path
<1>2. /\ t \in Seq(Nodes) /\ Len(t) = Len(s) + 1
      /\ t[1] = n
      /\ \A i \in 1 .. Len(s) : t[i + 1] = s[i]
  BY <1>1
<1>3. n # NoNode /\ t # <<>>
  BY <1>2, NoNodeAssumption
<1> HIDE DEF t
<1>4. ASSUME NEW i \in 1 .. Len(t)
      PROVE  l.next[t[i]] = IF i < Len(t) THEN t[i + 1] ELSE NoNode
  <2>1. CASE i = 1
    BY <1>1, <1>2, <2>1 DEF Path
  <2>2. CASE i > 1
    <3>1. i - 1 \in 1 .. Len(s) /\ t[i] = s[i - 1]
      BY <1>1, <1>2, <2>2
    <3>2. i < Len(t) => t[i + 1] = s[i]
      BY <1>1, <1>2, <2>2
    <3> QED BY <1>1, <1>2, <3>1, <3>2 DEF Path
  <2> QED BY <1>2, <2>1, <2>2
<1>5. Path(l, n, t)
  BY <1>2, <1>3, <1>4 DEF Path
<1> QED BY <1>5 DEF t

\* Every node starts one, because the rank cannot fall for ever.
LEMMA PathExists ==
    ASSUME NEW l \in Lists, NEW rank, Falls(l, rank),
           NEW n \in Nodes \cup {NoNode}
    PROVE  \E s : Path(l, n, s)
<1>1. Path(l, NoNode, <<>>)
  BY DEF Path
<1> DEFINE C == {rank[m] : m \in {m \in Nodes : ~ \E s : Path(l, m, s)}}
<1>2. C = {}
  <2> SUFFICES ASSUME C # {} PROVE FALSE
    OBVIOUS
  <2>1. PICK k \in C : \A i \in C : k <= i
    <3>1. C \subseteq Nat BY DEF Falls
    <3> HIDE DEF C
    <3> QED BY <3>1, Least
  <2>2. PICK m \in Nodes : rank[m] = k /\ ~ \E s : Path(l, m, s)
    OBVIOUS
  <2>3. l.next[m] \in Nodes \cup {NoNode}
    BY DEF Lists
  <2>4. PICK s : Path(l, l.next[m], s)
    <3>1. CASE l.next[m] = NoNode
      BY <1>1, <3>1
    <3>2. CASE l.next[m] \in Nodes
      <4>1. rank[l.next[m]] < rank[m]
        BY <3>2 DEF Falls
      <4>2. rank[l.next[m]] \notin C
        BY <2>1, <2>2, <3>2, <4>1 DEF Falls
      <4> QED BY <3>2, <4>2
    <3> QED BY <2>3, <3>1, <3>2
  <2> QED BY <2>2, <2>4, PathExtends
<1> QED BY <1>1, <1>2

\* A traversal follows the path from the head.
IsWalk(l, g) ==
    g = [n \in Nodes \cup {NoNode} |->
           IF n = NoNode THEN <<>> ELSE <<n>> \o g[l.next[n]]]

\* A walk that exists follows paths.
LEMMA WalkIsPath ==
    ASSUME NEW l \in Lists, NEW rank, Falls(l, rank), NEW g, IsWalk(l, g),
           NEW n \in Nodes \cup {NoNode}
    PROVE  Path(l, n, g[n])
<1>1. g[NoNode] = <<>> /\ Path(l, NoNode, g[NoNode])
  BY DEF Path, IsWalk
<1>2. \A m \in Nodes : g[m] = <<m>> \o g[l.next[m]]
  BY NoNodeAssumption DEF IsWalk
<1> DEFINE C == {rank[m] : m \in {m \in Nodes : ~ Path(l, m, g[m])}}
<1>3. C = {}
  <2> SUFFICES ASSUME C # {} PROVE FALSE
    OBVIOUS
  <2>1. PICK k \in C : \A i \in C : k <= i
    <3>1. C \subseteq Nat BY DEF Falls
    <3> HIDE DEF C
    <3> QED BY <3>1, Least
  <2>2. PICK m \in Nodes : rank[m] = k /\ ~ Path(l, m, g[m])
    OBVIOUS
  <2>3. l.next[m] \in Nodes \cup {NoNode}
    BY DEF Lists
  <2>4. Path(l, l.next[m], g[l.next[m]])
    <3>1. CASE l.next[m] = NoNode
      BY <1>1, <3>1
    <3>2. CASE l.next[m] \in Nodes
      <4>1. rank[l.next[m]] < rank[m]
        BY <3>2 DEF Falls
      <4>2. rank[l.next[m]] \notin C
        BY <2>1, <2>2, <3>2, <4>1 DEF Falls
      <4> QED BY <3>2, <4>2
    <3> QED BY <2>3, <3>1, <3>2
  <2>5. Path(l, m, <<m>> \o g[l.next[m]])
    BY <2>4, PathExtends
  <2> QED BY <1>2, <2>2, <2>5
<1> QED BY <1>1, <1>3

\* So does the traversal, since there is one.
LEMMA TraverseIsPath ==
    ASSUME NEW l \in Lists, NEW rank, Falls(l, rank)
    PROVE  Path(l, l.head, Traverse(l))
<1> DEFINE h == [n \in Nodes \cup {NoNode} |-> CHOOSE s : Path(l, n, s)]
<1>1. \A n \in Nodes \cup {NoNode} : Path(l, n, h[n])
  BY PathExists
<1>2. IsWalk(l, h)
  <2>1. ASSUME NEW n \in Nodes PROVE h[n] = <<n>> \o h[l.next[n]]
    <3>1. l.next[n] \in Nodes \cup {NoNode}
      BY DEF Lists
    <3>2. Path(l, n, <<n>> \o h[l.next[n]])
      BY <1>1, <3>1, PathExtends
    <3> HIDE DEF h
    <3> QED BY <1>1, <3>2, PathUnique
  <2>2. h[NoNode] = <<>>
    BY <1>1 DEF Path
  <2>3. h = [n \in Nodes \cup {NoNode} |-> h[n]]
    OBVIOUS
  <2> HIDE DEF h
  <2>4. \A n \in Nodes \cup {NoNode} :
            h[n] = IF n = NoNode THEN <<>> ELSE <<n>> \o h[l.next[n]]
    BY <2>1, <2>2
  <2> QED BY <2>3, <2>4 DEF IsWalk
<1>3. IsWalk(l, CHOOSE g : IsWalk(l, g))
  <2> HIDE DEF h
  <2> QED BY <1>2
<1>4. Traverse(l) = (CHOOSE g : IsWalk(l, g))[l.head]
  BY DEF Traverse, IsWalk
<1>5. l.head \in Nodes \cup {NoNode}
  BY DEF Lists
<1> QED BY <1>3, <1>4, <1>5, WalkIsPath

\* So whatever is a path from the head is the traversal.
LEMMA TraverseIs ==
    ASSUME NEW l \in Lists, NEW rank, Falls(l, rank),
           NEW s, Path(l, l.head, s)
    PROVE  Traverse(l) = s
BY TraverseIsPath, PathUnique

\* Along a path the rank falls, so no node is met twice.
LEMMA PathFalls ==
    ASSUME NEW l, NEW rank, Falls(l, rank), NEW n, NEW s, Path(l, n, s),
           NEW i \in 1 .. Len(s), NEW j \in 1 .. Len(s), i < j
    PROVE  rank[s[j]] < rank[s[i]]
<1>1. /\ s \in Seq(Nodes) /\ Len(s) \in Nat
      /\ \A k \in 1 .. Len(s) : s[k] \in Nodes /\ rank[s[k]] \in Nat
  BY DEF Path, Falls
<1> DEFINE C == {k \in 1 .. Len(s) : i < k /\ ~ (rank[s[k]] < rank[s[i]])}
<1>2. C = {}
  <2> SUFFICES ASSUME C # {} PROVE FALSE
    OBVIOUS
  <2>1. PICK k \in C : \A m \in C : k <= m
    <3>1. C \subseteq Nat BY <1>1
    <3> HIDE DEF C
    <3> QED BY <3>1, Least
  <2>2. k - 1 \in 1 .. Len(s) /\ i <= k - 1
    BY <1>1, <2>1
  <2>3. l.next[s[k - 1]] = s[k]
    <3>1. k - 1 < Len(s) /\ (k - 1) + 1 = k
      BY <1>1, <2>1
    <3>2. l.next[s[k - 1]] =
            IF k - 1 < Len(s) THEN s[(k - 1) + 1] ELSE NoNode
      BY <2>2 DEF Path
    <3> QED BY <3>1, <3>2
  <2>4. rank[s[k]] < rank[s[k - 1]]
    BY <1>1, <2>1, <2>2, <2>3 DEF Falls
  <2>5. k - 1 = i \/ rank[s[k - 1]] < rank[s[i]]
    <3>1. k - 1 \notin C BY <1>1, <2>1
    <3> QED BY <1>1, <2>1, <2>2, <3>1
  <2> QED BY <1>1, <2>1, <2>2, <2>4, <2>5
<1> QED BY <1>2

\* The nodes of a path differ.
LEMMA PathDistinct ==
    ASSUME NEW l, NEW rank, Falls(l, rank), NEW n, NEW s, Path(l, n, s),
           NEW i \in 1 .. Len(s), NEW j \in 1 .. Len(s), s[i] = s[j]
    PROVE  i = j
<1>1. /\ Len(s) \in Nat
      /\ \A k \in 1 .. Len(s) : s[k] \in Nodes /\ rank[s[k]] \in Nat
  BY DEF Path, Falls
<1>2. ~ (i < j)
  BY <1>1, PathFalls
<1>3. ~ (j < i)
  BY <1>1, PathFalls
<1> QED BY <1>1, <1>2, <1>3
-----------------------------------------------------------------------------
(* The fields of a list after an operation.                                *)

\* insertInBegin writes the head, its node and the old head's prev.
LEMMA InsertInBeginFields ==
    ASSUME NEW l \in Lists, NEW n \in Nodes, NEW d \in Items,
           NEW m, m = InsertInBegin(l, n, d)
    PROVE  /\ m \in Lists
           /\ m.head = n
           /\ \A x \in Nodes :
                 /\ m.next[x] = IF x = n THEN l.head ELSE l.next[x]
                 /\ m.prev[x] = IF x = l.head THEN n ELSE l.prev[x]
                 /\ m.data[x] = IF x = n THEN d ELSE l.data[x]
<1> DEFINE h == l.head  f == l.next  g == l.prev  e == l.data
           q == IF h = NoNode THEN g ELSE [g EXCEPT ![h] = n]
<1>1. /\ l = [head |-> h, next |-> f, prev |-> g, data |-> e]
      /\ h \in Nodes \cup {NoNode}
      /\ f \in [Nodes -> Nodes \cup {NoNode}]
      /\ g \in [Nodes -> Nodes \cup {NoNode}]
      /\ e \in [Nodes -> Items \cup {NoItem}]
  BY DEF Lists
<1>2. m = [l EXCEPT !.head = n, !.data[n] = d, !.next[n] = h,
                    !.prev = IF h = NoNode THEN @ ELSE [@ EXCEPT ![h] = n]]
  BY DEF InsertInBegin
<1> HIDE DEF h, f, g, e
<1>3. m = [[head |-> h, next |-> f, prev |-> g, data |-> e]
             EXCEPT !.head = n, !.data[n] = d, !.next[n] = h,
                    !.prev = IF h = NoNode THEN @ ELSE [@ EXCEPT ![h] = n]]
  BY <1>1, <1>2
<1>4. m = [head |-> n, next |-> [f EXCEPT ![n] = h], prev |-> q,
           data |-> [e EXCEPT ![n] = d]]
  BY <1>3
<1>5. /\ q \in [Nodes -> Nodes \cup {NoNode}]
      /\ \A x \in Nodes : q[x] = IF x = h THEN n ELSE g[x]
  BY <1>1, NoNodeAssumption
<1> HIDE DEF q
<1>6. m \in Lists
  BY <1>1, <1>4, <1>5 DEF Lists
<1>7. \A x \in Nodes : /\ m.next[x] = IF x = n THEN h ELSE f[x]
                       /\ m.prev[x] = IF x = h THEN n ELSE g[x]
                       /\ m.data[x] = IF x = n THEN d ELSE e[x]
  <2>1. /\ m.next = [f EXCEPT ![n] = h] /\ m.prev = q
        /\ m.data = [e EXCEPT ![n] = d]
    BY <1>4
  <2> QED BY <1>1, <1>5, <2>1
<1>8. m.head = n
  BY <1>4
<1> QED BY <1>6, <1>7, <1>8 DEF h, f, g, e

\* insertAtEnd writes its node and the last one, or the head.
LEMMA InsertAtEndFields ==
    ASSUME NEW l \in Lists, NEW n \in Nodes, NEW d \in Items,
           NEW last, last = Last(Traverse(l)),
           l.head # NoNode => last \in Nodes,
           NEW m, m = InsertAtEnd(l, n, d)
    PROVE  /\ m \in Lists
           /\ m.head = IF l.head = NoNode THEN n ELSE l.head
           /\ \A x \in Nodes :
                 /\ m.next[x] = IF l.head # NoNode /\ x = last
                                THEN n ELSE l.next[x]
                 /\ m.prev[x] = IF l.head # NoNode /\ x = n
                                THEN last ELSE l.prev[x]
                 /\ m.data[x] = IF x = n THEN d ELSE l.data[x]
<1> DEFINE h == l.head  f == l.next  g == l.prev  e == l.data
<1>1. /\ l = [head |-> h, next |-> f, prev |-> g, data |-> e]
      /\ h \in Nodes \cup {NoNode}
      /\ f \in [Nodes -> Nodes \cup {NoNode}]
      /\ g \in [Nodes -> Nodes \cup {NoNode}]
      /\ e \in [Nodes -> Items \cup {NoItem}]
      /\ h # NoNode => last \in Nodes
  BY DEF Lists
<1>2. m = IF h = NoNode THEN [l EXCEPT !.head = n, !.data[n] = d]
          ELSE [l EXCEPT !.next[last] = n, !.prev[n] = last, !.data[n] = d]
  BY DEF InsertAtEnd
<1> HIDE DEF h, f, g, e
<1> DEFINE r == [head |-> h, next |-> f, prev |-> g, data |-> e]
<1>3. m = IF h = NoNode THEN [r EXCEPT !.head = n, !.data[n] = d]
          ELSE [r EXCEPT !.next[last] = n, !.prev[n] = last, !.data[n] = d]
  BY <1>1, <1>2
<1>4. h = NoNode => m = [head |-> n, next |-> f, prev |-> g,
                         data |-> [e EXCEPT ![n] = d]]
  BY <1>3
<1>5. h # NoNode => m = [head |-> h, next |-> [f EXCEPT ![last] = n],
                         prev |-> [g EXCEPT ![n] = last],
                         data |-> [e EXCEPT ![n] = d]]
  BY <1>3
<1>6. m \in Lists
  BY <1>1, <1>4, <1>5 DEF Lists
<1>7. \A x \in Nodes :
         /\ m.next[x] = IF h # NoNode /\ x = last THEN n ELSE f[x]
         /\ m.prev[x] = IF h # NoNode /\ x = n THEN last ELSE g[x]
         /\ m.data[x] = IF x = n THEN d ELSE e[x]
  BY <1>1, <1>4, <1>5
<1>8. m.head = IF h = NoNode THEN n ELSE h
  BY <1>4, <1>5
<1> QED BY <1>6, <1>7, <1>8 DEF h, f, g, e

\* deleteNode writes the head or one next pointer.
LEMMA DeleteNodeFields ==
    ASSUME NEW l \in Lists, NEW n \in Nodes, NEW m, m = DeleteNode(l, n)
    PROVE  /\ m \in Lists
           /\ m.head = IF l.prev[n] = NoNode THEN l.next[n] ELSE l.head
           /\ m.prev = l.prev
           /\ m.data = l.data
           /\ \A x \in Nodes :
                 m.next[x] = IF x = l.prev[n] THEN l.next[n] ELSE l.next[x]
<1> DEFINE h == l.head  f == l.next  g == l.prev  e == l.data
           u == l.prev[n]
           v == l.next[n]
<1>1. /\ l = [head |-> h, next |-> f, prev |-> g, data |-> e]
      /\ h \in Nodes \cup {NoNode}
      /\ f \in [Nodes -> Nodes \cup {NoNode}]
      /\ g \in [Nodes -> Nodes \cup {NoNode}]
      /\ e \in [Nodes -> Items \cup {NoItem}]
      /\ u \in Nodes \cup {NoNode} /\ v \in Nodes \cup {NoNode}
  BY DEF Lists
<1>2. m = IF u = NoNode THEN [l EXCEPT !.head = v]
                        ELSE [l EXCEPT !.next[u] = v]
  BY DEF DeleteNode
<1> HIDE DEF h, f, g, e, u, v
<1> DEFINE r == [head |-> h, next |-> f, prev |-> g, data |-> e]
<1>3. m = IF u = NoNode THEN [r EXCEPT !.head = v]
                        ELSE [r EXCEPT !.next[u] = v]
  BY <1>1, <1>2
<1>4. u = NoNode => m = [head |-> v, next |-> f, prev |-> g, data |-> e]
  BY <1>3
<1>5. u # NoNode =>
        m = [head |-> h, next |-> [f EXCEPT ![u] = v], prev |-> g, data |-> e]
  BY <1>3
<1>6. m \in Lists
  BY <1>1, <1>4, <1>5 DEF Lists
<1>7. \A x \in Nodes : m.next[x] = IF x = u THEN v ELSE f[x]
  BY <1>1, <1>4, <1>5, NoNodeAssumption
<1>8. /\ m.head = IF u = NoNode THEN v ELSE h
      /\ m.prev = g /\ m.data = e
  BY <1>4, <1>5
<1> QED BY <1>6, <1>7, <1>8 DEF h, f, g, e, u, v

-----------------------------------------------------------------------------
(* What the operations do to the path from the head.                       *)

\* insertInBegin puts its node in front.
LEMMA InsertInBeginPath ==
    ASSUME NEW l \in Lists, NEW s, Path(l, l.head, s),
           NEW n \in Nodes, n \notin ToSet(s), NEW d
    PROVE  Path(InsertInBegin(l, n, d), n, <<n>> \o s)
<1> DEFINE m == InsertInBegin(l, n, d)
<1>1. /\ m.next = [l.next EXCEPT ![n] = l.head]
      /\ l.next \in [Nodes -> Nodes \cup {NoNode}]
  BY DEF InsertInBegin, Lists
<1> HIDE DEF m
<1>2. m.next[n] = l.head
  BY <1>1
<1>3. Path(m, l.head, s)
  <2>1. \A i \in 1 .. Len(s) : s[i] \in Nodes /\ s[i] # n
    BY DEF ToSet, Path
  <2> QED BY <1>1, <2>1 DEF Path
<1>4. Path(m, n, <<n>> \o s)
  BY <1>2, <1>3, PathExtends
<1> QED BY <1>4 DEF m

\* insertAtEnd puts its node behind the last one.
LEMMA InsertAtEndPath ==
    ASSUME NEW l \in Lists, NEW rank, Falls(l, rank),
           NEW s, Path(l, l.head, s),
           NEW n \in Nodes, n \notin ToSet(s), l.next[n] = NoNode,
           NEW d \in Items
    PROVE  /\ InsertAtEnd(l, n, d) \in Lists
           /\ Path(InsertAtEnd(l, n, d), InsertAtEnd(l, n, d).head,
                   Append(s, n))
<1> DEFINE m == InsertAtEnd(l, n, d)
           t == Append(s, n)
<1>1. /\ s \in Seq(Nodes) /\ Len(s) \in Nat
      /\ \A i \in 1 .. Len(s) : s[i] \in Nodes /\ s[i] # n
  BY DEF ToSet, Path
<1>2. Traverse(l) = s
  BY TraverseIs
<1>3. l.next \in [Nodes -> Nodes \cup {NoNode}] /\ l.next[n] = NoNode
  BY DEF Lists
<1>4. /\ t \in Seq(Nodes) /\ Len(t) = Len(s) + 1 /\ t # <<>>
      /\ \A i \in 1 .. Len(s) : t[i] = s[i]
      /\ t[Len(s) + 1] = n
  BY <1>1
<1> HIDE DEF t
<1>5. Last(Traverse(l)) = s[Len(s)] /\ (l.head # NoNode => s[Len(s)] \in Nodes)
  BY <1>1, <1>2 DEF Last, Path
<1> HIDE DEF m
<1> DEFINE last == s[Len(s)]
<1>6. /\ m \in Lists
      /\ m.head = IF l.head = NoNode THEN n ELSE l.head
      /\ \A x \in Nodes :
            m.next[x] = IF l.head # NoNode /\ x = last THEN n ELSE l.next[x]
  <2>1. /\ last = Last(Traverse(l)) /\ m = InsertAtEnd(l, n, d)
        /\ l.head # NoNode => last \in Nodes
    BY <1>5 DEF m
  <2> HIDE DEF last
  <2> QED BY <2>1, InsertAtEndFields
<1>7. CASE l.head = NoNode
  <2>1. Len(s) = 0
    BY <1>1, <1>7 DEF Path
  <2>2. Path(m, n, t)
    BY <1>4, <1>6, <1>7, <2>1, NoNodeAssumption DEF Path
  <2> QED BY <1>6, <1>7, <2>2 DEF m, t
<1>8. CASE l.head # NoNode
  <2>1. /\ m.head = l.head
        /\ \A x \in Nodes : m.next[x] = IF x = last THEN n ELSE l.next[x]
        /\ last \in Nodes /\ last # n /\ Len(s) > 0
    BY <1>1, <1>5, <1>6, <1>8 DEF Path
  <2> HIDE DEF last
  <2>2. \A i \in 1 .. Len(s) : i < Len(s) => s[i] # last
    BY <1>1, <2>1, PathDistinct DEF last
  <2>3. ASSUME NEW i \in 1 .. Len(t)
        PROVE  m.next[t[i]] = IF i < Len(t) THEN t[i + 1] ELSE NoNode
    <3>1. CASE i < Len(s)
      BY <1>1, <1>3, <1>4, <2>1, <2>2, <3>1 DEF Path
    <3>2. CASE i = Len(s)
      BY <1>1, <1>3, <1>4, <2>1, <3>2 DEF last
    <3>3. CASE i = Len(s) + 1
      BY <1>3, <1>4, <2>1, <3>3
    <3> QED BY <1>1, <1>4, <3>1, <3>2, <3>3
  <2>4. t[1] = l.head
    BY <1>1, <1>4, <1>8, <2>1 DEF Path
  <2>5. Path(m, m.head, t)
    BY <1>4, <1>8, <2>1, <2>3, <2>4 DEF Path
  <2> QED BY <1>6, <2>5 DEF m, t
<1> QED BY <1>7, <1>8

\* The path without its i-th node.
Cut(s, i) == [j \in 1 .. Len(s) - 1 |-> IF j < i THEN s[j] ELSE s[j + 1]]

\* It has the other nodes, in their order.
LEMMA CutProperties ==
    ASSUME NEW s \in Seq(Nodes), NEW i \in 1 .. Len(s)
    PROVE  /\ Cut(s, i) \in Seq(Nodes)
           /\ Len(Cut(s, i)) = Len(s) - 1
           /\ \A j \in 1 .. Len(Cut(s, i)) :
                 Cut(s, i)[j] = IF j < i THEN s[j] ELSE s[j + 1]
<1> DEFINE t == Cut(s, i)
<1>1. \A j \in 1 .. Len(s) - 1 : (IF j < i THEN s[j] ELSE s[j + 1]) \in Nodes
  OBVIOUS
<1>2. Len(s) - 1 \in Nat
  OBVIOUS
<1>3. t = [j \in 1 .. Len(s) - 1 |-> IF j < i THEN s[j] ELSE s[j + 1]]
  BY DEF Cut
<1> HIDE DEF t
<1>4. t \in [1 .. Len(s) - 1 -> Nodes]
  BY <1>1, <1>3
<1>5. t \in Seq(Nodes)
  BY <1>2, <1>4, SeqDef
<1>6. Len(t) = Len(s) - 1
  <2>1. DOMAIN t = 1 .. Len(t) /\ Len(t) \in Nat
    BY <1>5, LenProperties
  <2>2. DOMAIN t = 1 .. Len(s) - 1
    BY <1>3
  <2> QED BY <1>2, <2>1, <2>2
<1>7. \A j \in 1 .. Len(t) : t[j] = IF j < i THEN s[j] ELSE s[j + 1]
  BY <1>3, <1>6
<1> QED BY <1>5, <1>6, <1>7 DEF t

\* What is cut out is gone, and everything else stays.
LEMMA CutKeepsOthers ==
    ASSUME NEW s \in Seq(Nodes), NEW i \in 1 .. Len(s)
    PROVE  /\ ToSet(s) \ {s[i]} \subseteq ToSet(Cut(s, i))
           /\ (\A j, k \in 1 .. Len(s) : j < k => s[j] # s[k])
                 => s[i] \notin ToSet(Cut(s, i))
<1> DEFINE t == Cut(s, i)
<1>1. /\ t \in Seq(Nodes) /\ Len(t) = Len(s) - 1 /\ Len(s) \in Nat
      /\ \A j \in 1 .. Len(t) : t[j] = IF j < i THEN s[j] ELSE s[j + 1]
  BY CutProperties
<1> HIDE DEF t
<1>2. DOMAIN t = 1 .. Len(t) /\ DOMAIN s = 1 .. Len(s)
  BY <1>1
<1>3. ASSUME NEW k \in 1 .. Len(s), k # i
      PROVE  \E j \in 1 .. Len(t) : t[j] = s[k]
  <2>1. CASE k < i
    BY <1>1, <2>1
  <2>2. CASE k > i
    <3>1. k - 1 \in 1 .. Len(t) /\ ~ (k - 1 < i) /\ (k - 1) + 1 = k
      BY <1>1, <2>2
    <3>2. t[k - 1] = s[k]
      BY <1>1, <3>1
    <3> QED BY <3>1, <3>2
  <2> QED BY <1>3, <2>1, <2>2
<1>4. ToSet(s) \ {s[i]} \subseteq ToSet(t)
  BY <1>2, <1>3 DEF ToSet
<1>5. ASSUME \A j, k \in 1 .. Len(s) : j < k => s[j] # s[k]
      PROVE  \A j \in 1 .. Len(t) : t[j] # s[i]
  BY <1>1, <1>5
<1>6. (\A j, k \in 1 .. Len(s) : j < k => s[j] # s[k]) => s[i] \notin ToSet(t)
  BY <1>2, <1>5 DEF ToSet
<1> QED BY <1>4, <1>6 DEF t

\* deleteNode takes the i-th node off the path if prev leads to the node
\* before it, or nowhere from the first; if prev leads off the path, the path
\* stays as it is.
LEMMA DeleteNodePath ==
    ASSUME NEW l \in Lists, NEW rank, Falls(l, rank),
           NEW s, Path(l, l.head, s), NEW i \in 1 .. Len(s)
    PROVE  LET m == DeleteNode(l, s[i])
               u == l.prev[s[i]]
           IN  /\ m \in Lists
               /\ (IF i = 1 THEN u = NoNode ELSE u = s[i - 1])
                     => Path(m, m.head, Cut(s, i))
               /\ u \in Nodes \ ToSet(s) => Path(m, m.head, s)
<1> DEFINE m == DeleteNode(l, s[i])
           u == l.prev[s[i]]
           v == l.next[s[i]]
           t == Cut(s, i)
<1>1. /\ s \in Seq(Nodes) /\ Len(s) \in Nat
      /\ \A j \in 1 .. Len(s) : s[j] \in Nodes
      /\ s # <<>> /\ l.head # NoNode /\ s[1] = l.head
      /\ v = IF i < Len(s) THEN s[i + 1] ELSE NoNode
  BY DEF Path
<1>2. /\ l.next \in [Nodes -> Nodes \cup {NoNode}]
      /\ l.prev \in [Nodes -> Nodes \cup {NoNode}]
  BY DEF Lists
<1>3. u \in Nodes \cup {NoNode} /\ v \in Nodes \cup {NoNode}
  BY <1>1, <1>2
<1>4. /\ m \in Lists
      /\ m.head = IF u = NoNode THEN v ELSE l.head
      /\ \A x \in Nodes : m.next[x] = IF x = u THEN v ELSE l.next[x]
  <2>1. s[i] \in Nodes
    BY <1>1
  <2> QED BY <2>1, DeleteNodeFields
<1> HIDE DEF m, u, v
<1>6. /\ t \in Seq(Nodes) /\ Len(t) = Len(s) - 1
      /\ \A j \in 1 .. Len(t) : t[j] = IF j < i THEN s[j] ELSE s[j + 1]
  BY <1>1, CutProperties
<1> HIDE DEF t
<1>7. \A j \in 1 .. Len(s) :
          l.next[s[j]] = IF j < Len(s) THEN s[j + 1] ELSE NoNode
  BY DEF Path
<1>8. ASSUME i = 1, u = NoNode PROVE Path(m, m.head, t)
  <2>1. m.head = v /\ \A x \in Nodes : m.next[x] = l.next[x]
    BY <1>4, <1>8, NoNodeAssumption
  <2>2. \A j \in 1 .. Len(t) : t[j] = s[j + 1]
    BY <1>6, <1>8
  <2>3. \A j \in 1 .. Len(t) :
            m.next[t[j]] = IF j < Len(t) THEN t[j + 1] ELSE NoNode
    <3> TAKE j \in 1 .. Len(t)
    <3>1. t[j] = s[j + 1] /\ j + 1 \in 1 .. Len(s) /\ s[j + 1] \in Nodes
      BY <1>1, <1>6, <2>2
    <3>2. m.next[t[j]] = l.next[s[j + 1]]
      BY <2>1, <3>1
    <3>3. j < Len(t) => t[j + 1] = s[(j + 1) + 1]
      BY <1>1, <1>6, <2>2
    <3> QED BY <1>1, <1>6, <1>7, <3>1, <3>2, <3>3
  <2>4. v = NoNode <=> t = <<>>
    BY <1>1, <1>6, <1>8, NoNodeAssumption
  <2>5. v # NoNode => t[1] = v
    BY <1>1, <1>6, <1>8, <2>2
  <2> QED BY <1>6, <2>1, <2>3, <2>4, <2>5 DEF Path
<1>9. ASSUME i > 1, u = s[i - 1] PROVE Path(m, m.head, t)
  <2>1. /\ u \in Nodes /\ u # NoNode
    BY <1>1, <1>9, NoNodeAssumption
  <2>2. /\ m.head = l.head
        /\ \A x \in Nodes : m.next[x] = IF x = u THEN v ELSE l.next[x]
    BY <1>4, <2>1
  <2>3. \A j \in 1 .. Len(s) : j # i - 1 => s[j] # u
    BY <1>1, <1>9, PathDistinct
  <2>4. ASSUME NEW j \in 1 .. Len(t)
        PROVE  m.next[t[j]] = IF j < Len(t) THEN t[j + 1] ELSE NoNode
    <3>1. CASE j < i - 1
      <4>1. t[j] = s[j] /\ j \in 1 .. Len(s) /\ s[j] \in Nodes
        BY <1>1, <1>6, <3>1
      <4>2. s[j] # u
        BY <1>1, <1>9, <2>3, <3>1, <4>1
      <4>3. m.next[t[j]] = l.next[s[j]]
        BY <1>2, <2>2, <4>1, <4>2
      <4>4. j < Len(s) /\ j < Len(t) /\ t[j + 1] = s[j + 1]
        BY <1>1, <1>6, <3>1
      <4> QED BY <1>7, <4>1, <4>3, <4>4
    <3>2. CASE j = i - 1
      <4>1. t[j] = u
        BY <1>6, <1>9, <3>2
      <4>2. m.next[t[j]] = v
        BY <1>2, <2>1, <2>2, <4>1
      <4>3. j < Len(t) => t[j + 1] = s[i + 1]
        BY <1>1, <1>6, <3>2
      <4>4. j < Len(t) <=> i < Len(s)
        BY <1>1, <1>6, <3>2
      <4> QED BY <1>1, <4>2, <4>3, <4>4
    <3>3. CASE j >= i
      <4>1. t[j] = s[j + 1] /\ j + 1 \in 1 .. Len(s)
        BY <1>1, <1>6, <3>3
      <4>2. s[j + 1] # u /\ s[j + 1] \in Nodes
        BY <1>1, <1>9, <2>3, <3>3, <4>1
      <4>3. m.next[t[j]] = l.next[s[j + 1]]
        BY <1>2, <2>2, <4>1, <4>2
      <4>4. l.next[s[j + 1]] =
              IF j + 1 < Len(s) THEN s[(j + 1) + 1] ELSE NoNode
        BY <1>7, <4>1
      <4>5. j < Len(t) <=> j + 1 < Len(s)
        BY <1>1, <1>6
      <4>6. j < Len(t) => t[j + 1] = s[(j + 1) + 1]
        BY <1>1, <1>6, <3>3
      <4> QED BY <4>3, <4>4, <4>5, <4>6
    <3> QED BY <1>1, <1>6, <3>1, <3>2, <3>3
  <2>5. t # <<>> /\ t[1] = l.head
    BY <1>1, <1>6, <1>9
  <2> QED BY <1>1, <1>6, <2>2, <2>4, <2>5 DEF Path
<1>10. ASSUME u \in Nodes \ ToSet(s) PROVE Path(m, m.head, s)
  <2>1. /\ m.head = l.head
        /\ \A x \in Nodes : m.next[x] = IF x = u THEN v ELSE l.next[x]
    BY <1>4, <1>10, NoNodeAssumption
  <2>2. \A j \in 1 .. Len(s) : s[j] # u
    BY <1>1, <1>10 DEF ToSet
  <2> QED BY <1>1, <1>2, <1>7, <2>1, <2>2 DEF Path
<1> QED BY <1>1, <1>4, <1>8, <1>9, <1>10 DEF m, u, t

-----------------------------------------------------------------------------
(* The shape every sequence of calls keeps: the nodes ever allocated have  *)
(* an order that next follows and prev goes against, unlinked nodes too,   *)
(* and no prev pointer skips a node of the path.                           *)

Before(o, m, n) == \E i, j \in 1 .. Len(o) : i < j /\ o[i] = m /\ o[j] = n

\* o has every allocated node once, and the pointers agree with it.
Ordered(l, o) ==
    /\ o \in Seq(Nodes)
    /\ \A i, j \in 1 .. Len(o) : o[i] = o[j] => i = j
    /\ ToSet(o) = Allocated(l)
    /\ l.head \in ToSet(o) \cup {NoNode}
    /\ \A n \in Nodes :
          /\ l.next[n] \in Nodes => Before(o, n, l.next[n])
          /\ l.prev[n] \in Nodes => Before(o, l.prev[n], n)

\* A node of the path whose prev is null is the first, and one whose prev is
\* on the path follows it there.
BackLinked(l, p) ==
    \A i \in 1 .. Len(p) :
       /\ l.prev[p[i]] = NoNode => i = 1
       /\ \A k \in 1 .. Len(p) : l.prev[p[i]] = p[k] => k = i - 1

WellLinked(l, o) ==
    /\ l \in Lists
    /\ Ordered(l, o)
    /\ BackLinked(l, Traverse(l))

\* How far a node is from the end of an order.
RankIn(o) ==
    [n \in Nodes |-> IF n \in ToSet(o)
                     THEN Len(o) - CHOOSE i \in 1 .. Len(o) : o[i] = n
                     ELSE 0]

\* The rank of the i-th node.
LEMMA RankIs ==
    ASSUME NEW o \in Seq(Nodes),
           \A i, j \in 1 .. Len(o) : o[i] = o[j] => i = j,
           NEW k \in 1 .. Len(o)
    PROVE  RankIn(o)[o[k]] = Len(o) - k
<1>1. o[k] \in Nodes /\ o[k] \in ToSet(o)
  BY DEF ToSet
<1>2. (CHOOSE i \in 1 .. Len(o) : o[i] = o[k]) = k
  OBVIOUS
<1> QED BY <1>1, <1>2 DEF RankIn

\* In an ordered list the rank falls along next.
LEMMA OrderedFalls ==
    ASSUME NEW l \in Lists, NEW o, Ordered(l, o)
    PROVE  Falls(l, RankIn(o))
<1>1. o \in Seq(Nodes) /\ Len(o) \in Nat
  BY DEF Ordered
<1>2. RankIn(o) \in [Nodes -> Nat]
  <2>1. ASSUME NEW n \in ToSet(o)
        PROVE  Len(o) - (CHOOSE i \in 1 .. Len(o) : o[i] = n) \in Nat
    <3>1. \E i \in 1 .. Len(o) : o[i] = n
      BY <1>1, <2>1 DEF ToSet
    <3>2. (CHOOSE i \in 1 .. Len(o) : o[i] = n) \in 1 .. Len(o)
      BY <3>1
    <3> QED BY <1>1, <3>2
  <2> QED BY <2>1 DEF RankIn
<1>3. ASSUME NEW n \in Nodes, l.next[n] \in Nodes
      PROVE  RankIn(o)[l.next[n]] < RankIn(o)[n]
  <2>1. PICK i, j \in 1 .. Len(o) : i < j /\ o[i] = n /\ o[j] = l.next[n]
    BY <1>3 DEF Ordered, Before
  <2>2. RankIn(o)[n] = Len(o) - i /\ RankIn(o)[l.next[n]] = Len(o) - j
    BY <2>1, RankIs DEF Ordered
  <2> QED BY <1>1, <2>1, <2>2
<1> QED BY <1>2, <1>3 DEF Falls

\* So its traversal is the path from its head.
LEMMA OrderedPath ==
    ASSUME NEW l \in Lists, NEW o, Ordered(l, o)
    PROVE  Path(l, l.head, Traverse(l))
BY OrderedFalls, TraverseIsPath

\* The path visits allocated nodes, in their order.
LEMMA PathInOrder ==
    ASSUME NEW l \in Lists, NEW o, Ordered(l, o)
    PROVE  LET p == Traverse(l)
           IN  /\ p \in Seq(Nodes)
               /\ ToSet(p) \subseteq ToSet(o)
               /\ \A i, j \in 1 .. Len(p) :
                     i < j => p[i] # p[j] /\ Before(o, p[i], p[j])
<1> DEFINE p == Traverse(l)
<1>1. Path(l, l.head, p)
  BY OrderedPath
<1> HIDE DEF p
<1>2. /\ p \in Seq(Nodes) /\ Len(p) \in Nat
      /\ \A i \in 1 .. Len(p) : p[i] \in Nodes
  BY <1>1 DEF Path
<1>3. ASSUME NEW i \in 1 .. Len(p) PROVE p[i] \in ToSet(o)
  <2>1. CASE i = 1
    <3>1. p[1] = l.head /\ l.head # NoNode
      BY <1>1, <1>2 DEF Path
    <3> QED BY <2>1, <3>1 DEF Ordered
  <2>2. CASE i > 1
    <3>1. i - 1 \in 1 .. Len(p) /\ i - 1 < Len(p) /\ (i - 1) + 1 = i
      BY <1>2, <2>2
    <3>2. l.next[p[i - 1]] = p[i]
      BY <1>1, <3>1 DEF Path
    <3>3. Before(o, p[i - 1], p[i])
      BY <1>2, <3>1, <3>2 DEF Ordered
    <3> QED BY <3>3 DEF Before, ToSet, Ordered
  <2> QED BY <1>2, <2>1, <2>2
<1>4. ASSUME NEW i \in 1 .. Len(p), NEW j \in 1 .. Len(p), i < j
      PROVE  p[i] # p[j] /\ Before(o, p[i], p[j])
  <2>1. PICK a \in 1 .. Len(o) : o[a] = p[i]
    BY <1>3 DEF ToSet, Ordered
  <2>2. PICK b \in 1 .. Len(o) : o[b] = p[j]
    BY <1>3 DEF ToSet, Ordered
  <2>3. RankIn(o)[p[i]] = Len(o) - a /\ RankIn(o)[p[j]] = Len(o) - b
    BY <2>1, <2>2, RankIs DEF Ordered
  <2>4. RankIn(o)[p[j]] < RankIn(o)[p[i]]
    BY <1>1, <1>4, OrderedFalls, PathFalls
  <2>5. Len(o) \in Nat
    BY DEF Ordered
  <2>6. a < b
    BY <2>3, <2>4, <2>5
  <2> QED BY <2>1, <2>2, <2>4, <2>6, <2>3 DEF Before
<1>5. ToSet(p) \subseteq ToSet(o)
  BY <1>2, <1>3 DEF ToSet
<1> QED BY <1>2, <1>4, <1>5 DEF p

-----------------------------------------------------------------------------
(* What the operations do to a well-linked list.                           *)

\* An order keeps its pairs when it grows at either end.
LEMMA BeforeGrows ==
    ASSUME NEW o \in Seq(Nodes), NEW n \in Nodes
    PROVE  /\ <<n>> \o o \in Seq(Nodes) /\ Append(o, n) \in Seq(Nodes)
           /\ ToSet(<<n>> \o o) = ToSet(o) \cup {n}
           /\ ToSet(Append(o, n)) = ToSet(o) \cup {n}
           /\ \A a, b \in Nodes : Before(o, a, b)
                 => Before(<<n>> \o o, a, b) /\ Before(Append(o, n), a, b)
           /\ \A a \in ToSet(o) : /\ Before(<<n>> \o o, n, a)
                                  /\ Before(Append(o, n), a, n)
<1> DEFINE f == <<n>> \o o
           g == Append(o, n)
<1>1. /\ f \in Seq(Nodes) /\ Len(f) = Len(o) + 1 /\ Len(o) \in Nat
      /\ f[1] = n /\ \A i \in 1 .. Len(o) : f[i + 1] = o[i]
  OBVIOUS
<1>2. /\ g \in Seq(Nodes) /\ Len(g) = Len(o) + 1
      /\ g[Len(o) + 1] = n /\ \A i \in 1 .. Len(o) : g[i] = o[i]
  OBVIOUS
<1> HIDE DEF f, g
<1>3. \A i \in 1 .. Len(f) : f[i] = n \/ \E k \in 1 .. Len(o) : f[i] = o[k]
  <2> TAKE i \in 1 .. Len(f)
  <2>1. CASE i = 1
    BY <1>1, <2>1
  <2>2. CASE i > 1
    <3>1. i - 1 \in 1 .. Len(o) /\ (i - 1) + 1 = i
      BY <1>1, <2>2
    <3> QED BY <1>1, <3>1
  <2> QED BY <2>1, <2>2
<1>4. ToSet(f) = ToSet(o) \cup {n}
  <2>1. ToSet(f) \subseteq ToSet(o) \cup {n}
    BY <1>1, <1>3 DEF ToSet
  <2>2. n \in ToSet(f)
    BY <1>1 DEF ToSet
  <2>3. ASSUME NEW k \in 1 .. Len(o) PROVE o[k] \in ToSet(f)
    <3>1. k + 1 \in DOMAIN f /\ f[k + 1] = o[k]
      BY <1>1
    <3> QED BY <3>1 DEF ToSet
  <2>4. ToSet(o) \subseteq ToSet(f)
    BY <2>3 DEF ToSet
  <2> QED BY <2>1, <2>2, <2>4
<1>5. ToSet(g) = ToSet(o) \cup {n}
  <2>1. \A i \in 1 .. Len(g) : i = Len(o) + 1 \/ i \in 1 .. Len(o)
    BY <1>1, <1>2
  <2>2. \A i \in 1 .. Len(o) : i \in 1 .. Len(g)
    BY <1>1, <1>2
  <2>3. Len(o) + 1 \in 1 .. Len(g)
    BY <1>1, <1>2
  <2>4. DOMAIN g = 1 .. Len(g) /\ DOMAIN o = 1 .. Len(o)
    BY <1>2
  <2>5. ToSet(g) \subseteq ToSet(o) \cup {n}
    BY <1>2, <2>1, <2>4 DEF ToSet
  <2>6. ToSet(o) \subseteq ToSet(g)
    BY <1>2, <2>2, <2>4 DEF ToSet
  <2>7. n \in ToSet(g)
    BY <1>2, <2>3, <2>4 DEF ToSet
  <2> QED BY <2>5, <2>6, <2>7
<1>6. ASSUME NEW a \in Nodes, NEW b \in Nodes, Before(o, a, b)
      PROVE  Before(f, a, b) /\ Before(g, a, b)
  <2>1. PICK i, j \in 1 .. Len(o) : i < j /\ o[i] = a /\ o[j] = b
    BY <1>6 DEF Before
  <2>2. /\ i + 1 \in 1 .. Len(f) /\ j + 1 \in 1 .. Len(f) /\ i + 1 < j + 1
        /\ f[i + 1] = a /\ f[j + 1] = b
    BY <1>1, <2>1
  <2>3. /\ i \in 1 .. Len(g) /\ j \in 1 .. Len(g)
        /\ g[i] = a /\ g[j] = b
    BY <1>1, <1>2, <2>1
  <2> QED BY <2>1, <2>2, <2>3 DEF Before
<1>7. ASSUME NEW a \in ToSet(o) PROVE Before(f, n, a) /\ Before(g, a, n)
  <2>1. PICK i \in 1 .. Len(o) : o[i] = a
    BY <1>7 DEF ToSet
  <2>2. /\ 1 \in 1 .. Len(f) /\ i + 1 \in 1 .. Len(f) /\ 1 < i + 1
        /\ f[1] = n /\ f[i + 1] = a
    BY <1>1, <2>1
  <2>3. /\ i \in 1 .. Len(g) /\ Len(o) + 1 \in 1 .. Len(g) /\ i < Len(o) + 1
        /\ g[i] = a /\ g[Len(o) + 1] = n
    BY <1>1, <1>2, <2>1
  <2> QED BY <2>2, <2>3 DEF Before
<1> QED BY <1>1, <1>2, <1>4, <1>5, <1>6, <1>7 DEF f, g

\* The new list has nothing on it.
LEMMA EmptyWellLinked ==
    WellLinked(EmptyList, <<>>) /\ Traverse(EmptyList) = <<>>
<1>1. EmptyList \in Lists
  BY DEF EmptyList, Lists
<1>2. Ordered(EmptyList, <<>>)
  BY NoNodeAssumption DEF Ordered, EmptyList, Allocated, ToSet
<1>3. Path(EmptyList, NoNode, <<>>) /\ EmptyList.head = NoNode
  BY DEF Path, EmptyList
<1>4. Traverse(EmptyList) = <<>>
  BY <1>1, <1>2, <1>3, OrderedPath, PathUnique
<1> QED BY <1>1, <1>2, <1>4 DEF WellLinked, BackLinked

\* A node that is not allocated points nowhere and nothing points to it.
LEMMA FreeNode ==
    ASSUME NEW l \in Lists, NEW o, Ordered(l, o),
           NEW n \in Nodes \ Allocated(l)
    PROVE  /\ l.next[n] = NoNode /\ l.prev[n] = NoNode /\ l.head # n
           /\ \A x \in Nodes : l.next[x] # n /\ l.prev[x] # n
           /\ n \notin ToSet(Traverse(l)) /\ n \notin ToSet(o)
<1>1. n \notin ToSet(o) /\ n # NoNode
  BY NoNodeAssumption DEF Ordered
<1>2. \A a, b \in Nodes : Before(o, a, b) => a # n /\ b # n
  BY <1>1 DEF Before, ToSet, Ordered
<1>3. l.next[n] \in Nodes \cup {NoNode} /\ l.prev[n] \in Nodes \cup {NoNode}
  BY DEF Lists
<1> QED BY <1>1, <1>2, <1>3, PathInOrder DEF Ordered

\* insertInBegin puts its node in front of the path and of the order.
LEMMA InsertInBeginWellLinked ==
    ASSUME NEW l, NEW o, WellLinked(l, o),
           NEW n \in Nodes, n \notin Allocated(l), NEW d \in Items,
           NEW m, m = InsertInBegin(l, n, d)
    PROVE  /\ WellLinked(m, <<n>> \o o)
           /\ Traverse(m) = <<n>> \o Traverse(l)
           /\ Allocated(m) = Allocated(l) \cup {n}
<1> DEFINE p == Traverse(l)
           q == <<n>> \o p
           f == <<n>> \o o
<1>1. /\ l \in Lists /\ Ordered(l, o) /\ BackLinked(l, p)
      /\ o \in Seq(Nodes) /\ Len(o) \in Nat
  BY DEF WellLinked, Ordered
<1>2. /\ l.next[n] = NoNode /\ l.prev[n] = NoNode /\ l.head # n
      /\ \A x \in Nodes : l.next[x] # n /\ l.prev[x] # n
      /\ n \notin ToSet(p) /\ n \notin ToSet(o)
  BY <1>1, FreeNode
<1>3. /\ m \in Lists
      /\ m.head = n
      /\ \A x \in Nodes :
            /\ m.next[x] = IF x = n THEN l.head ELSE l.next[x]
            /\ m.prev[x] = IF x = l.head THEN n ELSE l.prev[x]
            /\ m.data[x] = IF x = n THEN d ELSE l.data[x]
  BY <1>1, InsertInBeginFields
<1>4. /\ f \in Seq(Nodes)
      /\ ToSet(f) = ToSet(o) \cup {n}
      /\ \A a, b \in Nodes : Before(o, a, b) => Before(f, a, b)
      /\ \A a \in ToSet(o) : Before(f, n, a)
  BY <1>1, BeforeGrows
<1>5. Path(l, l.head, p)
  BY <1>1, OrderedPath
<1>6. /\ p \in Seq(Nodes) /\ Len(p) \in Nat
      /\ \A i \in 1 .. Len(p) : p[i] \in Nodes /\ p[i] # n
      /\ \A i, j \in 1 .. Len(p) : i < j => p[i] # p[j]
      /\ Len(p) > 0 => p[1] = l.head
  <2>1. p \in Seq(Nodes) /\ \A i, j \in 1 .. Len(p) : i < j => p[i] # p[j]
    BY <1>1, PathInOrder
  <2> HIDE DEF p
  <2>2. \A i \in 1 .. Len(p) : p[i] \in Nodes /\ p[i] # n
    BY <1>2, <2>1 DEF ToSet
  <2>3. Len(p) > 0 => p[1] = l.head
    BY <1>5, <2>1 DEF Path
  <2> QED BY <2>1, <2>2, <2>3
<1>7. Allocated(m) = Allocated(l) \cup {n}
  BY <1>3, NoItemAssumption DEF Allocated
<1>8. \A i, j \in 1 .. Len(f) : f[i] = f[j] => i = j
  <2>1. /\ Len(f) = Len(o) + 1 /\ f[1] = n
        /\ \A i \in 1 .. Len(f) : i > 1 => f[i] = o[i - 1]
    BY <1>1
  <2>2. \A i \in 1 .. Len(o) : o[i] # n
    BY <1>1, <1>2 DEF ToSet
  <2>3. \A i, j \in 1 .. Len(o) : o[i] = o[j] => i = j
    BY <1>1 DEF Ordered
  <2> HIDE DEF f
  <2>4. \A i \in 1 .. Len(f) : i = 1 \/ (i > 1 /\ i - 1 \in 1 .. Len(o))
    BY <1>1, <2>1
  <2> QED BY <1>1, <2>1, <2>2, <2>3, <2>4
<1> HIDE DEF p, f
<1>9. ASSUME NEW x \in Nodes
      PROVE  /\ m.next[x] \in Nodes => Before(f, x, m.next[x])
             /\ m.prev[x] \in Nodes => Before(f, m.prev[x], x)
  <2>1. l.head \in Nodes => Before(f, n, l.head)
    BY <1>1, <1>4, NoNodeAssumption DEF Ordered
  <2>2. l.next[x] \in Nodes => Before(f, x, l.next[x])
    BY <1>1, <1>4 DEF Ordered
  <2>3. l.prev[x] \in Nodes => Before(f, l.prev[x], x)
    BY <1>1, <1>4 DEF Ordered
  <2> QED BY <1>3, <2>1, <2>2, <2>3
<1>10. Ordered(m, f)
  <2>1. ToSet(f) = Allocated(m)
    BY <1>1, <1>4, <1>7 DEF Ordered
  <2>2. m.head \in ToSet(f) \cup {NoNode}
    BY <1>3, <1>4
  <2> QED BY <1>4, <1>8, <1>9, <2>1, <2>2 DEF Ordered
<1>11. Path(m, m.head, q)
  <2>1. n \notin ToSet(p)
    BY <1>2
  <2>2. Path(InsertInBegin(l, n, d), n, <<n>> \o p)
    BY <1>1, <1>5, <2>1, InsertInBeginPath
  <2> QED BY <1>3, <2>2
<1>12. Traverse(m) = q
  <2> HIDE DEF q
  <2> QED BY <1>3, <1>10, <1>11, OrderedFalls, TraverseIs
<1>13. BackLinked(m, q)
  <2>1. /\ Len(q) = Len(p) + 1 /\ q[1] = n
        /\ \A i \in 1 .. Len(q) :
              i > 1 => i - 1 \in 1 .. Len(p) /\ q[i] = p[i - 1]
    BY <1>6
  <2> HIDE DEF q
  <2>2. \A i \in 1 .. Len(p) :
           /\ l.prev[p[i]] = NoNode => i = 1
           /\ \A k \in 1 .. Len(p) : l.prev[p[i]] = p[k] => k = i - 1
    BY <1>1 DEF BackLinked
  <2>3. m.prev[n] = NoNode
    BY <1>2, <1>3
  <2>4. \A k \in 1 .. Len(q) : q[k] \in Nodes /\ (q[k] = n => k = 1)
    BY <1>6, <2>1
  <2> SUFFICES ASSUME NEW i \in 1 .. Len(q)
               PROVE  /\ m.prev[q[i]] = NoNode => i = 1
                      /\ \A k \in 1 .. Len(q) :
                            m.prev[q[i]] = q[k] => k = i - 1
    BY DEF BackLinked
  <2>5. CASE i = 1
    BY <2>1, <2>3, <2>4, <2>5, NoNodeAssumption
  <2>6. CASE i = 2
    <3>1. q[2] = l.head /\ q[2] \in Nodes
      BY <1>6, <2>1, <2>4, <2>6
    <3>2. m.prev[q[2]] = n
      BY <1>3, <3>1
    <3> QED BY <2>4, <2>6, <3>2, NoNodeAssumption
  <2>7. CASE i > 2
    <3>1. q[i] = p[i - 1] /\ i - 1 \in 1 .. Len(p) /\ 1 \in 1 .. Len(p)
      BY <1>6, <2>1, <2>7
    <3>2. q[i] # l.head /\ q[i] \in Nodes
      BY <1>6, <2>4, <2>7, <3>1
    <3>3. m.prev[q[i]] = l.prev[p[i - 1]]
      BY <1>3, <3>1, <3>2
    <3>4. m.prev[q[i]] # NoNode
      BY <2>2, <2>7, <3>1, <3>3
    <3>5. ASSUME NEW k \in 1 .. Len(q), m.prev[q[i]] = q[k]
          PROVE  k = i - 1
      <4>1. k # 1
        BY <1>2, <2>1, <3>1, <3>2, <3>3, <3>5
      <4>2. k - 1 \in 1 .. Len(p) /\ q[k] = p[k - 1]
        BY <2>1, <4>1
      <4>3. k - 1 = (i - 1) - 1
        BY <2>2, <3>1, <3>3, <3>5, <4>2
      <4> QED BY <4>3
    <3> QED BY <3>4, <3>5
  <2> QED BY <2>5, <2>6, <2>7, <1>6, <2>1
<1> QED BY <1>3, <1>7, <1>10, <1>12, <1>13 DEF WellLinked, p, f

\* insertAtEnd puts its node behind the path and the order.
LEMMA InsertAtEndWellLinked ==
    ASSUME NEW l, NEW o, WellLinked(l, o),
           NEW n \in Nodes, n \notin Allocated(l), NEW d \in Items,
           NEW m, m = InsertAtEnd(l, n, d)
    PROVE  /\ WellLinked(m, Append(o, n))
           /\ Traverse(m) = Append(Traverse(l), n)
           /\ Allocated(m) = Allocated(l) \cup {n}
<1> DEFINE p == Traverse(l)
           q == Append(p, n)
           g == Append(o, n)
           last == p[Len(p)]
<1>1. /\ l \in Lists /\ Ordered(l, o) /\ BackLinked(l, p)
      /\ o \in Seq(Nodes) /\ Len(o) \in Nat
  BY DEF WellLinked, Ordered
<1>2. /\ l.next[n] = NoNode /\ l.prev[n] = NoNode /\ l.head # n
      /\ \A x \in Nodes : l.next[x] # n /\ l.prev[x] # n
      /\ n \notin ToSet(p) /\ n \notin ToSet(o)
  BY <1>1, FreeNode
<1>3. Path(l, l.head, p)
  BY <1>1, OrderedPath
<1>4. /\ p \in Seq(Nodes) /\ Len(p) \in Nat
      /\ \A i \in 1 .. Len(p) : p[i] \in Nodes /\ p[i] # n
      /\ \A i, j \in 1 .. Len(p) : i < j => p[i] # p[j]
      /\ ToSet(p) \subseteq ToSet(o)
      /\ l.head # NoNode => Len(p) > 0 /\ last \in Nodes
      /\ l.head = NoNode => Len(p) = 0
  <2>1. /\ p \in Seq(Nodes) /\ ToSet(p) \subseteq ToSet(o)
        /\ \A i, j \in 1 .. Len(p) : i < j => p[i] # p[j]
    BY <1>1, PathInOrder
  <2> HIDE DEF p
  <2>2. \A i \in 1 .. Len(p) : p[i] \in Nodes /\ p[i] # n
    BY <1>2, <2>1 DEF ToSet
  <2>3. /\ l.head # NoNode => Len(p) > 0
        /\ l.head = NoNode => Len(p) = 0
    BY <1>3, <2>1 DEF Path
  <2> QED BY <2>1, <2>2, <2>3
<1>5. /\ m \in Lists
      /\ m.head = IF l.head = NoNode THEN n ELSE l.head
      /\ \A x \in Nodes :
            /\ m.next[x] = IF l.head # NoNode /\ x = last THEN n ELSE l.next[x]
            /\ m.prev[x] = IF l.head # NoNode /\ x = n THEN last ELSE l.prev[x]
            /\ m.data[x] = IF x = n THEN d ELSE l.data[x]
  <2>1. last = Last(Traverse(l)) /\ (l.head # NoNode => last \in Nodes)
    BY <1>4 DEF Last
  <2> HIDE DEF last
  <2> QED BY <1>1, <2>1, InsertAtEndFields
<1>6. /\ g \in Seq(Nodes)
      /\ ToSet(g) = ToSet(o) \cup {n}
      /\ \A a, b \in Nodes : Before(o, a, b) => Before(g, a, b)
      /\ \A a \in ToSet(o) : Before(g, a, n)
  BY <1>1, BeforeGrows
<1>7. Allocated(m) = Allocated(l) \cup {n}
  BY <1>5, NoItemAssumption DEF Allocated
<1>8. \A i, j \in 1 .. Len(g) : g[i] = g[j] => i = j
  <2>1. /\ Len(g) = Len(o) + 1 /\ g[Len(o) + 1] = n
        /\ \A i \in 1 .. Len(o) : g[i] = o[i]
    BY <1>1
  <2>2. \A i \in 1 .. Len(o) : o[i] # n
    BY <1>1, <1>2 DEF ToSet
  <2>3. \A i, j \in 1 .. Len(o) : o[i] = o[j] => i = j
    BY <1>1 DEF Ordered
  <2> HIDE DEF g
  <2>4. \A i \in 1 .. Len(g) : i = Len(o) + 1 \/ i \in 1 .. Len(o)
    BY <1>1, <2>1
  <2> QED BY <1>1, <2>1, <2>2, <2>3, <2>4
<1>9. l.head # NoNode => last \in ToSet(o)
  BY <1>4 DEF ToSet
<1> HIDE DEF p, g
<1>10. ASSUME NEW x \in Nodes
       PROVE  /\ m.next[x] \in Nodes => Before(g, x, m.next[x])
              /\ m.prev[x] \in Nodes => Before(g, m.prev[x], x)
  <2>1. l.head # NoNode => Before(g, last, n)
    BY <1>6, <1>9
  <2>2. l.next[x] \in Nodes => Before(g, x, l.next[x])
    BY <1>1, <1>6 DEF Ordered
  <2>3. l.prev[x] \in Nodes => Before(g, l.prev[x], x)
    BY <1>1, <1>6 DEF Ordered
  <2> HIDE DEF last
  <2> QED BY <1>5, <2>1, <2>2, <2>3
<1>11. Ordered(m, g)
  <2>1. ToSet(g) = Allocated(m)
    BY <1>1, <1>6, <1>7 DEF Ordered
  <2>2. m.head \in ToSet(g) \cup {NoNode}
    BY <1>1, <1>5, <1>6 DEF Ordered
  <2> QED BY <1>6, <1>8, <1>10, <2>1, <2>2 DEF Ordered
<1>12. Path(m, m.head, q)
  BY <1>1, <1>2, <1>3, OrderedFalls, InsertAtEndPath
<1>13. Traverse(m) = q
  <2> HIDE DEF q
  <2> QED BY <1>5, <1>11, <1>12, OrderedFalls, TraverseIs
<1>14. BackLinked(m, q)
  <2>1. /\ Len(q) = Len(p) + 1 /\ q[Len(p) + 1] = n
        /\ \A i \in 1 .. Len(p) : q[i] = p[i]
    BY <1>4
  <2> HIDE DEF q
  <2>2. \A i \in 1 .. Len(p) :
           /\ l.prev[p[i]] = NoNode => i = 1
           /\ \A k \in 1 .. Len(p) : l.prev[p[i]] = p[k] => k = i - 1
    BY <1>1 DEF BackLinked
  <2>3. \A k \in 1 .. Len(q) : k = Len(p) + 1 \/ k \in 1 .. Len(p)
    BY <1>4, <2>1
  <2> SUFFICES ASSUME NEW i \in 1 .. Len(q)
               PROVE  /\ m.prev[q[i]] = NoNode => i = 1
                      /\ \A k \in 1 .. Len(q) :
                            m.prev[q[i]] = q[k] => k = i - 1
    BY DEF BackLinked
  <2>4. CASE i \in 1 .. Len(p)
    <3>1. q[i] = p[i] /\ p[i] \in Nodes /\ p[i] # n
      BY <1>4, <2>1, <2>4
    <3>2. m.prev[q[i]] = l.prev[p[i]]
      BY <1>5, <3>1
    <3>3. m.prev[q[i]] # n
      BY <1>2, <3>1, <3>2
    <3> QED BY <2>1, <2>2, <2>3, <2>4, <3>2, <3>3
  <2>5. CASE i = Len(p) + 1 /\ l.head = NoNode
    <3>1. m.prev[n] = NoNode
      BY <1>2, <1>5, <2>5
    <3> QED BY <1>4, <2>1, <2>3, <2>5, <3>1, NoNodeAssumption
  <2>6. CASE i = Len(p) + 1 /\ l.head # NoNode
    <3>1. m.prev[q[i]] = last
      BY <1>5, <2>1, <2>6
    <3>2. last \in Nodes /\ Len(p) \in 1 .. Len(p) /\ last # n
      BY <1>4, <2>6
    <3>3. ASSUME NEW k \in 1 .. Len(q), last = q[k] PROVE k = i - 1
      <4>1. k \in 1 .. Len(p)
        BY <2>1, <2>3, <3>2, <3>3
      <4>2. ~ (k < Len(p))
        BY <1>4, <2>1, <3>2, <3>3, <4>1
      <4> QED BY <1>4, <2>6, <4>1, <4>2
    <3> QED BY <3>1, <3>2, <3>3, NoNodeAssumption
  <2> QED BY <2>3, <2>4, <2>5, <2>6
<1> QED BY <1>5, <1>7, <1>11, <1>13, <1>14 DEF WellLinked, p, g

\* The order of a list is transitive.
LEMMA BeforeTransitive ==
    ASSUME NEW o \in Seq(Nodes),
           \A i, j \in 1 .. Len(o) : o[i] = o[j] => i = j,
           NEW a, NEW b, NEW c, Before(o, a, b), Before(o, b, c)
    PROVE  Before(o, a, c)
<1>1. PICK i, j \in 1 .. Len(o) : i < j /\ o[i] = a /\ o[j] = b
  BY DEF Before
<1>2. PICK k, h \in 1 .. Len(o) : k < h /\ o[k] = b /\ o[h] = c
  BY DEF Before
<1>3. j = k
  BY <1>1, <1>2
<1> QED BY <1>1, <1>2, <1>3 DEF Before

\* deleteNode takes a node of the path off it, and nothing else, unless the
\* node's prev leads to an allocated node that is not on the path: then the
\* path stays as it is.
LEMMA DeleteNodeWellLinked ==
    ASSUME NEW l, NEW o, WellLinked(l, o), NEW i \in 1 .. Len(Traverse(l)),
           NEW n, n = Traverse(l)[i],
           NEW m, m = DeleteNode(l, n)
    PROVE  /\ WellLinked(m, o)
           /\ m.data = l.data
           /\ \/ Traverse(m) = Cut(Traverse(l), i)
              \/ /\ Traverse(m) = Traverse(l)
                 /\ l.prev[n] \in ToSet(o) \ ToSet(Traverse(l))
<1> DEFINE p == Traverse(l)
           u == l.prev[n]
           v == l.next[n]
           t == Cut(p, i)
<1>1. /\ l \in Lists /\ Ordered(l, o) /\ BackLinked(l, p)
      /\ o \in Seq(Nodes) /\ Len(o) \in Nat
  BY DEF WellLinked, Ordered
<1>2. Path(l, l.head, p)
  BY <1>1, OrderedPath
<1>3. /\ p \in Seq(Nodes) /\ Len(p) \in Nat
      /\ \A j \in 1 .. Len(p) : p[j] \in Nodes
      /\ \A j, k \in 1 .. Len(p) : j < k => p[j] # p[k]
      /\ ToSet(p) \subseteq ToSet(o)
      /\ n = p[i] /\ n \in Nodes /\ i \in 1 .. Len(p)
  <2>1. /\ p \in Seq(Nodes) /\ ToSet(p) \subseteq ToSet(o)
        /\ \A j, k \in 1 .. Len(p) : j < k => p[j] # p[k]
    BY <1>1, PathInOrder
  <2> QED BY <2>1
<1>4. u \in Nodes \cup {NoNode} /\ v \in Nodes \cup {NoNode}
  BY <1>1, <1>3 DEF Lists
<1>5. /\ m \in Lists
      /\ m.head = IF u = NoNode THEN v ELSE l.head
      /\ m.prev = l.prev
      /\ m.data = l.data
      /\ \A x \in Nodes : m.next[x] = IF x = u THEN v ELSE l.next[x]
  <2>1. l \in Lists /\ n \in Nodes
    BY <1>1, <1>3
  <2> QED BY <2>1, DeleteNodeFields
<1>6. /\ u \in Nodes => Before(o, u, n) /\ u \in ToSet(o)
      /\ v \in Nodes => Before(o, n, v) /\ v \in ToSet(o)
  BY <1>1, <1>3 DEF Ordered, Before, ToSet
<1> HIDE DEF p, u, v
<1>7. Ordered(m, o)
  <2>1. Allocated(m) = Allocated(l)
    BY <1>5 DEF Allocated
  <2>2. m.head \in ToSet(o) \cup {NoNode}
    BY <1>1, <1>4, <1>5, <1>6 DEF Ordered
  <2>3. ASSUME NEW x \in Nodes, m.next[x] \in Nodes
        PROVE  Before(o, x, m.next[x])
    <3>1. CASE x = u
      <4>1. m.next[x] = v
        BY <1>5, <3>1
      <4>2. Before(o, u, n) /\ Before(o, n, v)
        BY <1>6, <2>3, <3>1, <4>1
      <4>3. \A j, k \in 1 .. Len(o) : o[j] = o[k] => j = k
        BY <1>1 DEF Ordered
      <4> QED BY <1>1, <3>1, <4>1, <4>2, <4>3, BeforeTransitive
    <3>2. CASE x # u
      BY <1>1, <1>5, <2>3, <3>2 DEF Ordered
    <3> QED BY <3>1, <3>2
  <2>4. \A x \in Nodes : m.prev[x] \in Nodes => Before(o, m.prev[x], x)
    BY <1>1, <1>5 DEF Ordered
  <2> QED BY <1>1, <2>1, <2>2, <2>3, <2>4 DEF Ordered
<1>8. \A j \in 1 .. Len(p) :
         /\ l.prev[p[j]] = NoNode => j = 1
         /\ \A k \in 1 .. Len(p) : l.prev[p[j]] = p[k] => k = j - 1
  BY <1>1 DEF BackLinked
<1>9. /\ (IF i = 1 THEN u = NoNode ELSE u = p[i - 1]) => Path(m, m.head, t)
      /\ u \in Nodes \ ToSet(p) => Path(m, m.head, p)
  <2>1. l.prev[p[i]] = u /\ m = DeleteNode(l, p[i])
    BY <1>3 DEF u
  <2> HIDE DEF t
  <2>2. /\ (IF i = 1 THEN l.prev[p[i]] = NoNode ELSE l.prev[p[i]] = p[i - 1])
              => Path(DeleteNode(l, p[i]), DeleteNode(l, p[i]).head, t)
        /\ l.prev[p[i]] \in Nodes \ ToSet(p)
              => Path(DeleteNode(l, p[i]), DeleteNode(l, p[i]).head, p)
    BY <1>1, <1>2, <1>3, OrderedFalls, DeleteNodePath DEF t
  <2> QED BY <2>1, <2>2
<1>10. \/ IF i = 1 THEN u = NoNode ELSE u = p[i - 1]
       \/ u \in Nodes \ ToSet(p)
  <2>1. CASE u = NoNode
    <3>1. i = 1
      BY <1>3, <1>8, <2>1 DEF u
    <3> QED BY <2>1, <3>1
  <2>2. CASE u \in ToSet(p)
    <3>1. PICK k \in 1 .. Len(p) : u = p[k]
      BY <1>3, <2>2 DEF ToSet
    <3>2. k = i - 1
      BY <1>3, <1>8, <3>1 DEF u
    <3>3. i # 1
      BY <3>1, <3>2
    <3> QED BY <3>1, <3>2, <3>3
  <2> QED BY <1>4, <2>1, <2>2
<1>11. CASE IF i = 1 THEN u = NoNode ELSE u = p[i - 1]
  <2>1. Traverse(m) = t
    <3>1. Path(m, m.head, t)
      BY <1>9, <1>11
    <3> HIDE DEF t
    <3> QED BY <1>5, <1>7, <3>1, OrderedFalls, TraverseIs
  <2>2. /\ t \in Seq(Nodes) /\ Len(t) = Len(p) - 1
        /\ \A j \in 1 .. Len(t) : t[j] = IF j < i THEN p[j] ELSE p[j + 1]
    BY <1>3, CutProperties
  <2> HIDE DEF t
  <2>3. BackLinked(m, t)
    <3> DEFINE at(j) == IF j < i THEN j ELSE j + 1
    <3>1. \A j \in 1 .. Len(t) : at(j) \in 1 .. Len(p) /\ t[j] = p[at(j)]
      BY <1>3, <2>2
    <3> SUFFICES ASSUME NEW j \in 1 .. Len(t)
                 PROVE  /\ l.prev[t[j]] = NoNode => j = 1
                        /\ \A k \in 1 .. Len(t) :
                              l.prev[t[j]] = t[k] => k = j - 1
      BY <1>5 DEF BackLinked
    <3>2. l.prev[t[j]] = NoNode => at(j) = 1
      BY <1>8, <3>1
    <3>3. \A k \in 1 .. Len(t) : l.prev[t[j]] = t[k] => at(k) = at(j) - 1
      <4> HIDE DEF at
      <4> QED BY <1>8, <3>1
    <3> QED BY <1>3, <2>2, <3>2, <3>3
  <2> QED BY <1>5, <1>7, <2>1, <2>3 DEF WellLinked, t, p
<1>12. CASE u \in Nodes \ ToSet(p)
  <2>1. Traverse(m) = p
    BY <1>5, <1>7, <1>9, <1>12, OrderedFalls, TraverseIs
  <2>2. BackLinked(m, p)
    BY <1>1, <1>5 DEF BackLinked
  <2> QED BY <1>5, <1>6, <1>7, <1>12, <2>1, <2>2 DEF WellLinked, p, u
<1> QED BY <1>10, <1>11, <1>12

\* A deletion finds its node on the path.
LEMMA FirstMatchOnPath ==
    ASSUME NEW l, Traverse(l) \in Seq(Nodes), NEW S, Search(l, S) # {}
    PROVE  \E i \in 1 .. Len(Traverse(l)) : FirstMatch(l, S) = Traverse(l)[i]
                                            /\ l.data[FirstMatch(l, S)] \in S
<1>1. Search(l, S) \subseteq Nat /\ Search(l, S) \subseteq 1 .. Len(Traverse(l))
  BY DEF Search
<1>2. \E k \in Search(l, S) : \A i \in Search(l, S) : k <= i
  BY <1>1, Least
<1>3. Min(Search(l, S)) \in Search(l, S)
  BY <1>2 DEF Min
<1> QED BY <1>1, <1>3 DEF FirstMatch, Search

=============================================================================
