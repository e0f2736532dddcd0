------------------------ MODULE PaymentsRefineLedger ------------------------
(***************************************************************************)
(* The payment core implements TransferLedger: the fate of a transfer is   *)
(* read off the transaction table, the balances and the callbacks in       *)
(* flight.                                                                 *)
(***************************************************************************)
EXTENDS PaymentRequests

\* Callbacks that have stored their transfer and have not returned.
PastStages == {"read", "update", "release", "callback", "credit"}

InHand(p) == \E w \in Workers : wpc[w] \in PastStages /\ wpay[w] = p

Fate == [p \in Payments |->
           IF credits[p] > 1 THEN "overpaid"
           ELSE IF credits[p] = 1 THEN "credited"
           ELSE IF p \notin Recorded THEN "unseen"
           ELSE IF InHand(p) THEN "stored" ELSE "lost"]

Ledger == INSTANCE TransferLedger WITH fate <- Fate

\* Each transfer is stored once and then credited once or abandoned for good:
\* what the merchants' balances promise, under overlap, faults and restarts.
ImplementsLedger == Ledger!Spec

=============================================================================
