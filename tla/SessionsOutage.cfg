SPECIFICATION Spec
CONSTANTS
    Grants = {g1, g2}
    Requests = {p1, p2}
    None = None
    AccessTtl = 1
    RefreshTtl = 3
    RevocationTtl = 2
    MaxTime = 1
    RedisMayFail = TRUE
    RequestsMayFail = TRUE
CHECK_DEADLOCK FALSE
SYMMETRY Symmetry
INVARIANT RotationRetiresParent
