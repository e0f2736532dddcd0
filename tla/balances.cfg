\* Two owners of one coin, a daily and a monthly one, and two runs.
CONSTANTS
    b1 = b1  b2 = b2  b3 = b3  u1 = u1  u2 = u2  k1 = k1  k2 = k2
    c1 = c1  c2 = c2  r1 = r1  r2 = r2
    Rows = {b1, b2}
    OwnerOf <- MCOwnerOf
    TokenOf <- MCTokenOf
    Network <- MCNetwork
    Withdraw <- MCWithdraw
    Weekly = FALSE
    Contracts = {}
    Addressed = {b1, b2}
    TokenLoaded = TRUE
    Calls = {c1}
    Runs = {r1, r2}
    MaxCredits <- MCMaxCredits
    MaxFaults = 0
SPECIFICATION Spec
INVARIANTS TypeOK PaidAtMostCredited
SYMMETRY Symmetry
