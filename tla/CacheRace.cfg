SPECIFICATION Spec
CONSTANTS
    Requests = {p1, p2}
    None = None
    UserTtl = 2
    MaxUpdates = 1
    RedisMayFail = FALSE
    RequestsMayFail = FALSE
INVARIANT ProfileBustedOnUpdate
