------------------------- MODULE MCPaymentRequests -------------------------
(* Small instances of PaymentRequests for TLC. *)
EXTENDS PaymentsRefineLedger, TLC

CONSTANTS c1, c2, d1,     \* requests: two checkouts and a deposit
          p1, p2, p3,     \* transfers
          a1, a2, a3, w1, w2

\* A transfer of 2 is exactly the price of one checkout, which is not enough
\* to finish it; two of them or the transfer of 4 are, and each transfer
\* finishes the checkout of 1.
MCKind == [r \in Requests |-> IF r = d1 THEN "deposit" ELSE "checkout"]
MCPrice == [r \in Requests |-> IF r = c2 THEN 1 ELSE 2]
MCAmount == [p \in Payments |-> IF p = p3 THEN 4 ELSE 2]

\* Workers and addresses are interchangeable; used in runs without liveness.
PoolSymmetry == Permutations(Workers) \cup Permutations(Addresses)

=============================================================================
