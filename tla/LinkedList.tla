----------------------------- MODULE LinkedList -----------------------------
(***************************************************************************)
(* The doubly linked list of src/utils as it lies in memory: a head and,   *)
(* for every node ever allocated, its data and its two pointers.  Nodes    *)
(* that were unlinked keep their pointers, and pointers to them may        *)
(* remain.  The operators take a list and return the list after the call.  *)
(***************************************************************************)
EXTENDS Naturals, SequencesExt

CONSTANTS Nodes,   \* node objects the run may allocate
          Items,   \* values stored in nodes
          NoNode,  \* null
          NoItem   \* data of a node that is not allocated

ASSUME NoNodeAssumption == NoNode \notin Nodes
ASSUME NoItemAssumption == NoItem \notin Items

Lists == [head : Nodes \cup {NoNode},
          next : [Nodes -> Nodes \cup {NoNode}],
          prev : [Nodes -> Nodes \cup {NoNode}],
          data : [Nodes -> Items \cup {NoItem}]]

EmptyList == [head |-> NoNode,
              next |-> [n \in Nodes |-> NoNode],
              prev |-> [n \in Nodes |-> NoNode],
              data |-> [n \in Nodes |-> NoItem]]

Allocated(l) == {n \in Nodes : l.data[n] # NoItem}

\* The nodes from the head along `next`, which every reader follows.
Traverse(l) ==
    LET walk[n \in Nodes \cup {NoNode}] ==
            IF n = NoNode THEN <<>> ELSE <<n>> \o walk[l.next[n]]
    IN  walk[l.head]

\* Where on that path the data satisfies a comparator, here the set of such
\* data, and the first node there, if there is one.
Search(l, matching) ==
    {i \in DOMAIN Traverse(l) : l.data[Traverse(l)[i]] \in matching}

FirstMatch(l, matching) == Traverse(l)[Min(Search(l, matching))]

-----------------------------------------------------------------------------
(* Slips that the properties of the users of the list must catch.          *)

\* insertInBegin forgets the rest of the list
SlipDropTail(l, n, d) == [l EXCEPT !.head = n, !.data[n] = d]

\* insertInBegin makes the data the head
SlipHeadIsData(l, n, d) == [l EXCEPT !.head = d, !.data[n] = d]

\* insertAtEnd looks one node too far back
SlipOverwriteLast(l, n, d) ==
    LET path == Traverse(l)
    IN  IF Len(path) < 2
        THEN [l EXCEPT !.head = n, !.data[n] = d]
        ELSE [l EXCEPT !.next[path[Len(path) - 1]] = n,
                       !.prev[n] = path[Len(path) - 1],
                       !.data[n] = d]

\* the head is not moved when it is the node to unlink
SlipKeepHead(l, n) ==
    IF l.prev[n] = NoNode THEN l ELSE [l EXCEPT !.next[l.prev[n]] = l.next[n]]

-----------------------------------------------------------------------------
(* Operations; n is the node object the call allocates.                    *)

InsertInBegin(l, n, d) ==
    [l EXCEPT !.head = n,
              !.data[n] = d,
              !.next[n] = l.head,
              !.prev = IF l.head = NoNode THEN @ ELSE [@ EXCEPT ![l.head] = n]]

InsertAtEnd(l, n, d) ==
    IF l.head = NoNode
    THEN [l EXCEPT !.head = n, !.data[n] = d]
    ELSE LET last == Last(Traverse(l))
         IN  [l EXCEPT !.next[last] = n, !.prev[n] = last, !.data[n] = d]

\* The successor's prev pointer is left as it is.
DeleteNode(l, n) ==
    IF l.prev[n] = NoNode THEN [l EXCEPT !.head = l.next[n]]
                          ELSE [l EXCEPT !.next[l.prev[n]] = l.next[n]]

\* The first matching node is unlinked, if there is one.
DeleteByData(l, matching) ==
    IF Search(l, matching) = {} THEN l
                                ELSE DeleteNode(l, FirstMatch(l, matching))

=============================================================================
