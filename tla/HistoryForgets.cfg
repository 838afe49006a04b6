SPECIFICATION Spec
CONSTANTS
    Passwords = {w1, w2, w3, w4}
    Requests = {p1}
    None = None
    Limit = 2
    MaxChanges = 4
    RequestsMayFail = FALSE
CHECK_DEADLOCK FALSE
INVARIANT LastPasswordsOnRecord
