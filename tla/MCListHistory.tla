--------------------------- MODULE MCListHistory ---------------------------
(* A small instance of ListHistory for TLC. *)
EXTENDS ListHistory, TLC

CONSTANTS n1, n2, n3, n4, n5, i1, i2

\* Nodes and items are only compared for equality.
NodeSymmetry == Permutations(Nodes) \cup Permutations(Items)

=============================================================================
