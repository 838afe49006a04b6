SPECIFICATION Spec
CONSTANTS
    Jobs = {j1}
    MaxAttempts = 3
    Concurrency = 1
    MaxCrashes = 0
    LogMayFail = FALSE
CHECK_DEADLOCK FALSE
INVARIANT AttemptsAreLogged
