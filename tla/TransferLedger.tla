--------------------------- MODULE TransferLedger ---------------------------
(***************************************************************************)
(* What the gateway promises about one on-chain transfer: it is stored     *)
(* once, and a stored transfer is credited to a balance once or, when the  *)
(* work on it is abandoned, never.                                         *)
(***************************************************************************)
CONSTANT Payments

VARIABLE fate    \* what has become of each transfer

Fates == {"unseen", "stored", "credited", "lost"}

Init == fate = [p \in Payments |-> "unseen"]

Store(p) ==
    /\ fate[p] = "unseen"
    /\ fate' = [fate EXCEPT ![p] = "stored"]

Credit(p) ==
    /\ fate[p] = "stored"
    /\ fate' = [fate EXCEPT ![p] = "credited"]

\* One failure abandons one transfer, a restart all that were in hand.
Abandon(S) ==
    /\ \A p \in S : fate[p] = "stored"
    /\ fate' = [p \in Payments |-> IF p \in S THEN "lost" ELSE fate[p]]

Next ==
    \/ \E p \in Payments : Store(p) \/ Credit(p)
    \/ \E S \in SUBSET Payments : Abandon(S)

Spec == Init /\ [][Next]_fate

=============================================================================
