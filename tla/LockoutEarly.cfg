SPECIFICATION Spec
CONSTANTS
    Requests = {p1, p2}
    MaxAttempts = 3
    Lockout = 3
    MaxLost = 1
PROPERTY OnlyTimeUnlocks
