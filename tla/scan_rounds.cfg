CONSTANTS
    k1 = k1  k2 = k2  t1 = t1  t2 = t2
    Tokens = {k1, k2}
    Transfers = {t1, t2}
    OnTron = {t1, t2}
    OnChain <- MCOnChain
    LogIds = {t1, t2}
    TokenOf <- MCTokenOf
    BlockOf <- MCBlockOf
    LogIdOf <- MCLogIdOf
    LateBlock = 2
    EmptyBlocks = {3}
    FirstBlock = 1
    MinBlockDiff = 1
    MaxBlock = 1
    Batch = 1
    MaxHeight = 3
    MaxJobs = 1
    MaxWrites = 2
    MaxFaults = 1
    NoToken = NoToken
SPECIFICATION Spec
INVARIANTS
    TypeOK
    NothingSkipped
PROPERTY ImplementsLedger
CHECK_DEADLOCK FALSE
