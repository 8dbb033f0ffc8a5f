\* Pages of up to five bytes, read two at a time.
CONSTANTS
    Chunk = 2
    MaxPage = 5
SPECIFICATION FairSpec
CHECK_DEADLOCK FALSE
INVARIANTS
    TypeOK
    NothingInFlight
PROPERTIES
    PrintsUnlessMultiple
