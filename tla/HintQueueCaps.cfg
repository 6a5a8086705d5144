SPECIFICATION FairSpec
CONSTANTS
    t1 = t1
    t2 = t2
    t3 = t3
    w1 = w1
    w2 = w2
    Targets <- MCThreeTargets
    Writers <- MCOneWriter
    Sizes = {1, 2}
    MaxPerNode = 1
    MaxTotal = 2
    MaxBytes = 0
    MaxHints = 3
INVARIANTS
    TypeOK
    Accounting
    CapsHold
    CountersAddUp
PROPERTIES
    EveryHintLeaves
    GaugeCatchesUp
