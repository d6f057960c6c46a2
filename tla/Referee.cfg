SPECIFICATION Spec
CONSTANTS
    rK = rK
    rA = rA
    rR = rR
    rH = rH
    rP = rP
    bK = bK
    bE = bE
    bC = bC
    bP = bP
    bR = bR
    None = none
    Pieces <- Men
    type <- TypeOf
    color <- ColorOf
    Starts <- Endgames
    MaxMoves = 2
INVARIANTS
    BoardAgrees
    KingsLive
    RulesOfPieces
    MateIsRight
PROPERTIES
    NoTrace
