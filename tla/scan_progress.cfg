CONSTANTS
    k1 = k1  k2 = k2  t1 = t1  t2 = t2
    Tokens = {k1, k2}
    Transfers = {t1, t2}
    OnTron = {t1}
    OnChain <- MCOnChain
    LogIds = {t1, t2}
    TokenOf <- MCTokenOf
    BlockOf <- MCBlockOf
    LogIdOf <- MCLogIdOf
    LateBlock = 3
    EmptyBlocks = {4}
    FirstBlock = 1
    MinBlockDiff = 1
    MaxBlock = 1
    Batch = 1
    MaxHeight = 4
    MaxJobs = 1
    MaxWrites = 2
    MaxFaults = 1
    NoToken = NoToken
SPECIFICATION FairSpec
PROPERTIES
    EveryBlockScanned
    EventuallyApplied
CHECK_DEADLOCK FALSE
