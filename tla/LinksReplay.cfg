SPECIFICATION Spec
CONSTANTS
    Tokens = {t1, t2}
    Requests = {p1, p2}
    None = None
    RequestsMayFail = FALSE
CHECK_DEADLOCK FALSE
INVARIANT OneTimeUse
