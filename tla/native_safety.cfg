CONSTANTS
    p1 = p1  p2 = p2  f1 = f1
    Items = {p2, f1}
    LateBlock = 1
    BlockOf <- MCBlockOf
    Success <- MCSuccess
    Nodes = {1, 2}
    NoNode = 0  NoItem = NoItem
    FirstBlock = 0
    MinLag = 2
    MaxBatch = 2
    Confirmations = 1
    MaxHeight = 3
    MaxJobs = 3
    MaxRows = 1
    MaxFaults = 1
SPECIFICATION Spec
INVARIANTS
    TypeOK
    OnlyConfirmed
    NothingSkipped
