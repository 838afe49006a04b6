SPECIFICATION HSpec
CONSTANTS
    Grants = {g1, g2}
    Requests = {p1, p2}
    None = None
    AccessTtl = 2
    RefreshTtl = 3
    RevocationTtl = 2
    MaxTime = 1
    RedisMayFail = FALSE
    RequestsMayFail = FALSE
CHECK_DEADLOCK FALSE
PROPERTY RevokedSessionsStayRevoked
