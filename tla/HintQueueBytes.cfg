SPECIFICATION Spec
CONSTANTS
    t1 = t1
    t2 = t2
    t3 = t3
    w1 = w1
    w2 = w2
    Targets <- MCTwoTargets
    Writers <- MCOneWriter
    Sizes = {1, 2, 3}
    MaxPerNode = 1
    MaxTotal = 0
    MaxBytes = 3
    MaxHints = 4
INVARIANTS
    BytesBounded
