CONSTANTS
    Players = {p1, p2, p3}
    MaxCreated = 5
SYMMETRY PlayerSymmetry
SPECIFICATION Spec
INVARIANTS
    IdsPartition
    MembershipAgrees
