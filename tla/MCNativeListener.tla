-------------------------- MODULE MCNativeListener --------------------------
(* Small instances of NativeListener for TLC. *)
EXTENDS NativeListener

CONSTANTS p1, p2, f1,    \* transfers; the last one fails on chain
          LateBlock      \* block of p2

MCBlockOf == [p \in Items |-> IF p = p2 THEN LateBlock ELSE 0]
MCSuccess == Items \ {f1}

=============================================================================
