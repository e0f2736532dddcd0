\* Two overlapping calls that enable or disable a coin or another token of one
\* owner, and an administrator; getBalances as it is.
CONSTANTS
    b1 = b1  b2 = b2  b3 = b3  u1 = u1  u2 = u2  k1 = k1  k2 = k2
    c1 = c1  c2 = c2  r1 = r1  r2 = r2
    Rows = {b1, b3}
    OwnerOf <- MCOwnerOf
    TokenOf <- MCTokenOf
    Network <- MCNetwork
    Withdraw <- MCWithdraw
    Weekly = FALSE
    Contracts = {}
    Addressed = {b1, b3}
    TokenLoaded = FALSE
    Calls = {c1, c2}
    Runs = {r1}
    MaxCredits <- MCMaxCredits
    MaxFaults = 0
SPECIFICATION Spec
INVARIANT CreditsLand
SYMMETRY CallSymmetry
