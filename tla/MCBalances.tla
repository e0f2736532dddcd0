------------------------------ MODULE MCBalances ------------------------------
(* Small instances of Balances for TLC.                                    *)
EXTENDS Balances, TLC

CONSTANTS b1, b2, b3, u1, u2, k1, k2, c1, c2, r1, r2,
          Weekly  \* whether u2 has chosen the weekly interval

\* u1 and u2 share the key of the coin k1; k2 is a coin of the same network.
MCOwnerOf == [b \in Rows |-> IF b = b2 THEN u2 ELSE u1]
MCTokenOf == [b \in Rows |-> IF b = b3 THEN k2 ELSE k1]
MCNetwork == [k \in Tokens |-> "evm"]
MCWithdraw == [u \in Users |-> IF u = u1 THEN 1 ELSE IF Weekly THEN 7 ELSE 30]
MCMaxCredits == [b \in Rows |-> IF b = b1 THEN 2 ELSE 0]

\* Runs are alike, and so are calls.
Symmetry == Permutations(Runs)
CallSymmetry == Permutations(Calls)

===============================================================================
