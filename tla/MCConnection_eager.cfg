\* A client that sends at any time, from the moment it connects.
CONSTANTS
    MaxSends = 2
    MaxBroadcasts = 0
    MisreadLens <- MCMisreadLens
    Eager = TRUE
    Pipelined = TRUE
    Quitters = {"client", "server"}
SPECIFICATION Spec
CHECK_DEADLOCK FALSE
VIEW EagerView
INVARIANTS
    TypeOK
    OutQueueDrained
    OneReadAtATime
    NeverDeaf
    HeardOnlyIfValidated
    WordsInOrder
PROPERTIES
    ImplementsServerConnection
