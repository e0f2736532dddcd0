CONSTANTS
    c1 = c1  c2 = c2  d1 = d1
    p1 = p1  p2 = p2  p3 = p3  a1 = a1  a2 = a2  a3 = a3  w1 = w1  w2 = w2
    Requests = {c1, d1}
    Addresses = {a1, a2}
    Payments = {p1}
    Workers = {w1, w2}
    Kind <- MCKind
    CheckoutAmount <- MCPrice
    Amount <- MCAmount
    CallerLoaded = TRUE
    SettingLoaded = TRUE
    MaxCalls = 2
    MaxOld = 2
    MaxFaults = 1
    NoAddress = NoAddress  NoRequest = NoRequest  NoPayment = NoPayment
SPECIFICATION FairSpec
PROPERTIES
    StoredIsCredited
    CallsEnd
    OverdueIsSettled
