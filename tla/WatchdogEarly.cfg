SPECIFICATION EarlySpec
CONSTANTS
    VpCount = 2
    PipeSize = 1
    MaxPids = 9
    MaxCrashes = 1
    MaxForkFails = 1
    MaxSignals = 3
    EarlySignals = TRUE
PROPERTIES TermEndsAll
CHECK_DEADLOCK FALSE
