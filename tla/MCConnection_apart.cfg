\* Sends at any time and broadcasts, that keep apart: the behaviours of ApartSpec, by
\* an action constraint, with which TLC still reports every action of Next.
CONSTANTS
    MaxSends = 1
    MaxBroadcasts = 1
    MisreadLens <- MCMisreadLens
    Eager = TRUE
    Pipelined = TRUE
    Quitters = {"client", "server"}
SPECIFICATION Spec
CHECK_DEADLOCK FALSE
VIEW EagerView
ACTION_CONSTRAINT SendsApart
INVARIANTS
    HandshakeComesFirst
PROPERTIES
    ImplementsChannel
