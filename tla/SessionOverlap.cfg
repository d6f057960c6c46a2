SPECIFICATION Spec
CONSTANTS
    Conns = {c1, c2}
    ClientTypes = {"HOXCHESS", "TEST"}
    Guests = {TRUE, FALSE}
    Overlap = TRUE
    SlowClients = TRUE
    Manager = manager
    None = none
CHECK_DEADLOCK FALSE
SYMMETRY Alike
INVARIANTS
    ActiveServed
    ActiveListed
    NoGhost
