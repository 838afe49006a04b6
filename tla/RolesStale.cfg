SPECIFICATION HSpec
CONSTANTS
    Roles = {r1}
    Features = {f1}
    Admins = {a1, a2}
    Tokens = {t1}
    None = None
    MaxTime = 2
    MaxVersion = 3
    MaxRows = 2
    RequestsMayFail = FALSE
CHECK_DEADLOCK FALSE
INVARIANTS
    RoleChangeDetected
