SPECIFICATION Spec
CONSTANTS
    Handlers = {h1, h2}
    Syncs = {s1}
    Keys = {k1, k2}
    HandlersMayFail = FALSE
CHECK_DEADLOCK FALSE
INVARIANTS
    DecidedOnce
