CONSTANTS
    anna = anna
    bert = bert
    gast = gast
    NoPlayer = NoPlayer
    Players <- MCPlayers
    Guests <- MCGuests
    InitialScore <- MCInitialScore
    ChecksMax = 1
    EffectiveMax = 2
    MaxMoves = 4
    MaxGames = 1
SPECIFICATION Spec
PROPERTY
    ResigningLoses
CHECK_DEADLOCK FALSE
