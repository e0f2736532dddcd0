------------------------------ MODULE MCAccounts ------------------------------
(* The instance of Accounts that TLC checks.                               *)
EXTENDS Accounts, TLC

CONSTANTS u1, t1, t2, t3, r1, c1, c2

\* Tokens are alike, and so are calls.
Symmetry == Permutations(Tokens) \cup Permutations(Calls)

===============================================================================
