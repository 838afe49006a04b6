SPECIFICATION Spec
CONSTANTS
    Codes = {c1}
    Requests = {h1, h2}
    Uris = {u1, u2}
    RequestsMayFail = FALSE
CHECK_DEADLOCK FALSE
INVARIANTS
    OneTimeCode
