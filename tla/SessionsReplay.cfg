SPECIFICATION Spec
CONSTANTS
    Grants = {g1, g2, g3}
    Requests = {p1, p2}
    None = None
    AccessTtl = 2
    RefreshTtl = 3
    RevocationTtl = 2
    MaxTime = 0
    RedisMayFail = FALSE
    RequestsMayFail = FALSE
CHECK_DEADLOCK FALSE
SYMMETRY Symmetry
INVARIANT RotationSingleUse
