\* A consumer that waits (server_Interface::Update(-1, true)) or one that polls
\* (the main loop of NetClient): Init chooses.
CONSTANTS
    Producers = {p1, p2}
    Consumer = c
    Items = {m1, m2}
    NoItem = NoItem
    NoThread = NoThread
    MaxLen = 2
SPECIFICATION FairSpec
INVARIANTS
    TypeOK
    LockOwnership
    PopHasMessage
PROPERTIES
    ImplementsQueue
    MessageHandled
    PushReturns
