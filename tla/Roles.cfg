SPECIFICATION Spec
CONSTANTS
    Roles = {r1}
    Features = {f1}
    Admins = {a1, a2}
    Tokens = {t1}
    None = None
    MaxTime = 2
    MaxVersion = 2
    MaxRows = 2
    RequestsMayFail = TRUE
CHECK_DEADLOCK FALSE
SYMMETRY Symmetry
INVARIANTS
    TypeOK
    OutdatedOnlyInFlight
