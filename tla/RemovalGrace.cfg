SPECIFICATION GraceSpec
CONSTANTS
    Nodes = {1, 2, 3}
    Keys = {1, 2}
    Tokens <- MCTokens
    KeyHash <- MCKeyHash
    Space = 12
    Scenarios <- GraceScenarios
    ChunkSize = 1
    MaxBackoff = 2
    MaxBatchSize = 2
    Lister = 1
    MaxResults = 2
PROPERTY GraceBeforeShedding
CHECK_DEADLOCK FALSE
