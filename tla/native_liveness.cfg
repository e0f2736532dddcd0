CONSTANTS
    p1 = p1  p2 = p2  f1 = f1
    Items = {p1, p2}
    LateBlock = 0
    BlockOf <- MCBlockOf
    Success <- MCSuccess
    Nodes = {1, 2}
    NoNode = 0  NoItem = NoItem
    FirstBlock = 0
    MinLag = 2
    MaxBatch = 2
    Confirmations = 1
    MaxHeight = 4
    MaxJobs = 2
    MaxRows = 1
    MaxFaults = 0
SPECIFICATION FairSpec
PROPERTY EventuallyApplied
