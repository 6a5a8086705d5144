SPECIFICATION Spec
CONSTANTS
    k = k
    p1 = p1
    p2 = p2
    Nodes <- MCNodes
    Keys <- MCKeys
    Procs <- MCOneProc
    Owners <- MCOwners3
    WriteConsistency = "ALL"
    ReadConsistency = "ONE"
    ParallelReads = FALSE
    MaxSets = 1
    MaxRemoves = 0
    MaxGets = 0
    MaxCuts = 1
    MaxTimeouts = 0
    MaxExpiries = 0
    MaxDrains = 0
INVARIANTS
    SuccessMeansAcknowledged
CHECK_DEADLOCK FALSE
