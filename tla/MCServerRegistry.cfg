\* Two ids, which wrap, and a program that uses every operation of the server.
CONSTANTS
    LastId = 1
    FirstId = 1
    MaxConnections = 3
    MaxQueued = 1
SPECIFICATION FairSpec
INVARIANTS
    TypeOK
    IdsMatch
    AcceptsWholeIdSpace
PROPERTIES
    ErasedAreClosedOrReuseIds
    BroadcastReachesAll
    ClosedArePruned
