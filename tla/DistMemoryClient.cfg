SPECIFICATION FairSpec
CONSTANTS
    k = k
    p1 = p1
    p2 = p2
    Nodes <- MCNodes
    Keys <- MCKeys
    Procs <- MCProcs
    Owners <- MCOwners2
    WriteConsistency = "ALL"
    ReadConsistency = "ONE"
    ParallelReads = FALSE
    MaxSets = 1
    MaxRemoves = 1
    MaxGets = 1
    MaxCuts = 1
    MaxTimeouts = 0
    MaxExpiries = 1
    MaxDrains = 0
INVARIANTS
    OnlyOwnersStore
    RefusedLeavesNoCopy
PROPERTIES
    CallsReturn
    HintsReachOwners
CHECK_DEADLOCK FALSE
