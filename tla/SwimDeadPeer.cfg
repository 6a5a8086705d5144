SPECIFICATION FairSpec
CONSTANTS
    n1 = n1
    n2 = n2
    n3 = n3
    Nodes <- MCNodes
    StartUp <- MCTwo
    Seeds <- MCFull
    Heartbeating <- MCTwo
    Gossiping <- MCTwo
    SampleSize = 1
    IndirectK = 1
    MaxEvents = 0
PROPERTIES
    DeadPeerLeaves
