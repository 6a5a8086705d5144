SPECIFICATION Spec
CONSTANTS
    k = k
    p1 = p1
    p2 = p2
    Nodes <- MCNodes
    Keys <- MCKeys
    Procs <- MCProcs
    Owners <- MCOwners3
    WriteConsistency = "QUORUM"
    ReadConsistency = "QUORUM"
    ParallelReads = FALSE
    MaxSets = 2
    MaxRemoves = 0
    MaxGets = 0
    MaxCuts = 1
    MaxTimeouts = 1
    MaxExpiries = 1
    MaxDrains = 0
SYMMETRY MCSymmetry
INVARIANTS
    TypeOK
    StampUnique
    AckedMeansStored
    NoOwnerForgotten
CHECK_DEADLOCK FALSE
