\* A client that waits for ServerAccept and for each echo.
CONSTANTS
    MaxSends = 2
    MaxBroadcasts = 0
    MisreadLens <- MCMisreadLens
    Eager = FALSE
    Pipelined = FALSE
    Quitters = {"client", "server"}
SPECIFICATION FairSpec
CHECK_DEADLOCK FALSE
INVARIANTS
    PatientClientAccepted
PROPERTIES
    SendsKeptApart
    AttemptResolved
    PeerLossNoticed
    EchoArrives
    ClosedComesToRest
