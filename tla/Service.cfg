SPECIFICATION FairSpec
CONSTANTS
    Nodes = {1, 2}
    Scenarios <- MCScenarios
    Policy <- MCPolicy
    Keys = {1, 2}
    Host = 1
    Streams = {1, 2}
    Buffer = 2
    PoolSize = 1
INVARIANTS
    AnswersTrue
    HealthyEndpointAnswers
PROPERTIES
    StreamCatchesUp
    ShutdownCompletes
CHECK_DEADLOCK FALSE
