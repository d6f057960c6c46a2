CONSTANTS
    TimeInfos <- MCTimeInfos
    Horizon = 6
    MaxMoves = 6
SPECIFICATION Spec
PROPERTIES
    LateMoveLoses
