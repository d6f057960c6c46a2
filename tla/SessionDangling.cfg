SPECIFICATION Spec
CONSTANTS
    Conns = {c1, c2}
    ClientTypes = {"HOXCHESS", "FLASH", "TEST"}
    Guests = {FALSE}
    Overlap = FALSE
    SlowClients = FALSE
    Manager = manager
    None = none
CHECK_DEADLOCK FALSE
SYMMETRY Alike
INVARIANTS
    NoDangling
