\* The structs, with up to two players in a room.
CONSTANTS
    Texts <- MCTexts
    Words <- MCWords
    Times <- MCTimes
    Players <- MCPlayers
    PlayerSize = 2
    MaxPlayers = 2
SPECIFICATION Spec
CHECK_DEADLOCK FALSE
INVARIANTS
    TypeOK
    RoundTrip
    OutsideOnlyIfMislabelled
