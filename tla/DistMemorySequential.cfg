SPECIFICATION Spec
CONSTANTS
    k = k
    p1 = p1
    p2 = p2
    Nodes <- MCNodes
    Keys <- MCKeys
    Procs <- MCOneProc
    Owners <- MCOwners3
    WriteConsistency = "QUORUM"
    ReadConsistency = "QUORUM"
    ParallelReads = TRUE
    MaxSets = 3
    MaxRemoves = 2
    MaxGets = 2
    MaxCuts = 0
    MaxTimeouts = 0
    MaxExpiries = 0
    MaxDrains = 1
INVARIANT
    SequentialCallsTakeEffect
CHECK_DEADLOCK FALSE
