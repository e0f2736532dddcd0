CONSTANTS
    n1 = n1  n2 = n2  n3 = n3  n4 = n4  n5 = n5  i1 = i1  i2 = i2
    Nodes = {n1, n2, n3, n4, n5}
    Items = {i1, i2}
    NoNode = NoNode  NoItem = NoItem
SPECIFICATION Spec
INVARIANTS
    TypeOK
    NothingLost
PROPERTY FailsBehindUnlinked
SYMMETRY NodeSymmetry
CHECK_DEADLOCK FALSE
