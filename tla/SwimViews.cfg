SPECIFICATION FairSpec
CONSTANTS
    n1 = n1
    n2 = n2
    n3 = n3
    Nodes <- MCNodes
    StartUp <- MCNodes
    Seeds <- MCJoin
    Heartbeating <- MCOne
    Gossiping <- MCTwo
    SampleSize = 1
    IndirectK = 1
    MaxEvents = 1
INVARIANTS
    TypeOK
    SelfAlive
PROPERTIES
    HigherIncarnationWins
    SuspicionClears
