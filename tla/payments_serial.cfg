CONSTANTS
    c1 = c1  c2 = c2  d1 = d1
    p1 = p1  p2 = p2  p3 = p3  a1 = a1  a2 = a2  a3 = a3  w1 = w1  w2 = w2
    Requests = {c1, c2, d1}
    Addresses = {a1, a2, a3}
    Payments = {p1, p2, p3}
    Workers = {w1}
    Kind <- MCKind
    CheckoutAmount <- MCPrice
    Amount <- MCAmount
    CallerLoaded = TRUE
    SettingLoaded = TRUE
    MaxCalls = 1
    MaxOld = 0
    MaxFaults = 1
    NoAddress = NoAddress  NoRequest = NoRequest  NoPayment = NoPayment
SPECIFICATION Spec
INVARIANTS
    OwnAddress
    PendingIsReserved
    ProcessedShowsPrice
SYMMETRY PoolSymmetry
