SPECIFICATION Spec
CONSTANTS
    Parts = {"lockout", "links", "history", "cache"}
    Requests = {p1, p2}
    LoginRequests = {a, b, c}
    None = None
    MaxAttempts = 3
    Lockout = 3
    MaxLost = 1
    Tokens = {a, b, c}
    LinkRequestsMayFail = TRUE
    Passwords = {a, b, c}
    Limit = 2
    MaxChanges = 5
    UserTtl = 2
    MaxUpdates = 2
    Grants = {g1}
    AccessTtl = 2
    RefreshTtl = 3
    RevocationTtl = 2
    MaxTime = 2
    RedisMayFail = TRUE
    RequestsMayFail = TRUE
    SessionOps = {}
CHECK_DEADLOCK FALSE
SYMMETRY Symmetry
INVARIANTS
    TypeOK
    AttemptsBounded
    LockStopsLaterLogins
    LiveLinksBounded
    RedemptionsBounded
    HistoryBounded
