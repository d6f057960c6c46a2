SPECIFICATION FairSpec
CONSTANTS
    VpCount = 2
    PipeSize = 1
    MaxPids = 9
    MaxCrashes = 1
    MaxForkFails = 2
    MaxSignals = 3
    EarlySignals = FALSE
INVARIANTS EveryChildKnown
PROPERTIES ReplacedUnlessGivenUp TermEndsAll LogsFollow
CHECK_DEADLOCK FALSE
