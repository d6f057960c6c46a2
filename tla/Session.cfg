SPECIFICATION FairSpec
CONSTANTS
    Conns = {c1, c2}
    ClientTypes = {"HOXCHESS", "TEST"}
    Guests = {FALSE}
    Overlap = FALSE
    SlowClients = FALSE
    Manager = manager
    None = none
CHECK_DEADLOCK FALSE
INVARIANTS
    OneSession
    OneWriter
PROPERTIES
    JoinsEnd
    Purged
