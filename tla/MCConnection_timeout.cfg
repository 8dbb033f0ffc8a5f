\* The connect time-out.
CONSTANTS
    MaxSends = 0
    MaxBroadcasts = 0
    MisreadLens <- MCMisreadLens
    Eager = FALSE
    Pipelined = FALSE
    Quitters = {}
SPECIFICATION Spec
CHECK_DEADLOCK FALSE
PROPERTIES
    TimeOutOnlyUnconnected
