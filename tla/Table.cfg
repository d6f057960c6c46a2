CONSTANTS
    anna = anna
    bert = bert
    gast = gast
    NoPlayer = NoPlayer
    Players <- MCPlayers
    Guests <- MCGuests
    InitialScore <- MCInitialScore
    ChecksMax = 1
    EffectiveMax = 2
    MaxMoves = 5
    MaxGames = 2
SPECIFICATION Spec
INVARIANTS
    Seating
    FreshBoard
    LimitsEndTheGame
    SavedMatchesLedger
PROPERTIES
    PaidOnce
    GameSpec
\* After a NULL dereference the process is gone: the table really stops.
CHECK_DEADLOCK FALSE
