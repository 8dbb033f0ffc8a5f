\* What "READ Finished." promises.
CONSTANTS
    Chunk = 2
    MaxPage = 5
SPECIFICATION Spec
CHECK_DEADLOCK FALSE
INVARIANTS
    FinishedMeansAll
