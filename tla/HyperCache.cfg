SPECIFICATION FairSpec
CONSTANTS
    c1 = c1
    w1 = w1
    k1 = k1
    k2 = k2
    NoKey = NoKey
    NoJob = NoJob
    Keys <- MCKeys
    ShardOf <- MCShardOf
    Clients <- MCClients
    Workers <- MCWorkers
    Senders <- MCSenders
    Configs <- MCConfigs
    KeySets <- MCKeySets
    Expiring <- MCExpiring
    Sizes = {2}
    Capacities = {2}
    InitCapacity = 1
    TriggerBuffer = 1
INVARIANTS
    TypeOK
    MemoryLimit
    NoSendOnClosed
PROPERTIES
    ImplementsJobPool
    InsertKeepsCapacity
    EvictsOldestTracked
    ExpiryDeletesOnlyStale
    ExpiredLeaves
    StopReturns
CHECK_DEADLOCK FALSE
