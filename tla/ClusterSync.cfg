SPECIFICATION FairSpec
CONSTANTS
    Nodes = {1, 2, 3}
    Keys = {1, 2}
    Tokens <- MCTokens
    KeyHash <- MCKeyHash
    Space = 12
    Scenarios <- MCScenarios
    ChunkSize = 1
    MaxBackoff = 2
    MaxBatchSize = 2
    Lister = 1
    MaxResults = 2
INVARIANTS
    TypeOK
    RingFollowsMembership
    NothingVanishes
    ListKeysComplete
PROPERTIES
    Rebalanced
    PullCatchesUp
    RepairsDispatched
CHECK_DEADLOCK FALSE
