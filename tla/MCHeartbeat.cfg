\* A client's heartbeat, with a server that may stop or end at any time.
CONSTANT Capacity = 2
SPECIFICATION FairSpec
CHECK_DEADLOCK FALSE
INVARIANTS
    TypeOK
    ChainUnbroken
    StartComesFirst
PROPERTIES
    EchoesGoOn
    ServerLossNoticed
    ProgramEnds
