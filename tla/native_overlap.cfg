CONSTANTS
    p1 = p1  p2 = p2  f1 = f1
    Items = {p1}
    LateBlock = 0
    BlockOf <- MCBlockOf
    Success <- MCSuccess
    Nodes = {1, 2}
    NoNode = 0  NoItem = NoItem
    FirstBlock = 0
    MinLag = 2
    MaxBatch = 2
    Confirmations = 1
    MaxHeight = 5
    MaxJobs = 2
    MaxRows = 2
    MaxFaults = 0
SPECIFICATION Spec
INVARIANT StoredOnce
