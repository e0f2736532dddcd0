\* One account, two overlapping calls, three tokens, one fault.
CONSTANTS
    u1 = u1  r1 = r1  c1 = c1  c2 = c2  t1 = t1  t2 = t2  t3 = t3
    Users = {u1}
    Tokens = {t1, t2, t3}
    Requests = {r1}
    Calls = {c1, c2}
    MaxFaults = 1
    NoUser = NoUser
    NoToken = NoToken
    NoRequest = NoRequest
SPECIFICATION Spec
INVARIANTS TypeOK FactorIsProved SessionIsProved LinkStaysGood
SYMMETRY Symmetry
CHECK_DEADLOCK FALSE
