SPECIFICATION FairSpec
CONSTANTS
    Parts = {"lockout", "links", "cache", "sessions"}
    Requests = {p1, p2}
    LoginRequests = {l1, l2}
    None = None
    MaxAttempts = 3
    Lockout = 3
    MaxLost = 1
    Tokens = {t1, t2}
    LinkRequestsMayFail = FALSE
    Passwords = {w1}
    Limit = 2
    MaxChanges = 2
    UserTtl = 2
    MaxUpdates = 2
    Grants = {g1, g2}
    AccessTtl = 2
    RefreshTtl = 3
    RevocationTtl = 2
    MaxTime = 1
    RedisMayFail = TRUE
    RequestsMayFail = TRUE
    SessionOps = {"logoutAll", "changePassword"}
CHECK_DEADLOCK FALSE
PROPERTIES
    TimedRelease
    RedemptionTakesEffect
    CacheConverges
    RevocationTakesHold
