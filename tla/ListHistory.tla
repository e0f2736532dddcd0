---------------------------- MODULE ListHistory ----------------------------
(***************************************************************************)
(* A LinkedList under any sequence of calls its users may make, with the   *)
(* history its users expect it to keep: the nodes inserted, in order, and  *)
(* those deleted.                                                          *)
(***************************************************************************)
EXTENDS LinkedList

VARIABLES
    list,     \* the list object
    order,    \* every node inserted so far, in list order
    deleted   \* nodes some call found and deleted

vars == <<list, order, deleted>>

Init ==
    /\ list = EmptyList
    /\ order = <<>>
    /\ deleted = {}

InsertBegin(n, d) ==
    /\ n \notin Allocated(list)
    /\ list' = InsertInBegin(list, n, d)
    /\ order' = <<n>> \o order
    /\ UNCHANGED deleted

InsertEnd(n, d) ==
    /\ n \notin Allocated(list)
    /\ list' = InsertAtEnd(list, n, d)
    /\ order' = Append(order, n)
    /\ UNCHANGED deleted

Delete(d) ==
    /\ Search(list, {d}) # {}
    /\ list' = DeleteByData(list, {d})
    /\ deleted' = deleted \cup {FirstMatch(list, {d})}
    /\ UNCHANGED order

Next ==
    \/ \E n \in Nodes, d \in Items : InsertBegin(n, d) \/ InsertEnd(n, d)
    \/ \E d \in Items : Delete(d)

Spec == Init /\ [][Next]_vars

-----------------------------------------------------------------------------
Listed == ToSet(Traverse(list))

\* The nodes of a sequence that nobody deleted, each paired with itself and
\* with those that follow it: their set and their order in one.
LiveOrder(s) ==
    LET live == {i \in DOMAIN s : s[i] \notin deleted}
    IN  {mn \in Nodes \X Nodes :
           \E i, j \in live : i <= j /\ mn = <<s[i], s[j]>>}

\* The list, its pointers and its history have their types.
TypeOK ==
    /\ list \in Lists
    /\ order \in Seq(Nodes)
    /\ deleted \in SUBSET Nodes

\* Deleting one element never hides another, although unlinked nodes stay in
\* the prev pointers of live ones: a traversal meets every element that was
\* not deleted, and no others but deleted ones, in the order of the list.
NothingLost == LiveOrder(Traverse(list)) = LiveOrder(order)

\* A deletion has no effect only on a node whose predecessor was unlinked
\* before it and never taken out of its prev pointer; no other deletion fails.
FailsBehindUnlinked ==
    [][\A n \in deleted' \ deleted :
          n \in Listed' => list.prev[n] \in deleted \ Listed]_vars

=============================================================================
