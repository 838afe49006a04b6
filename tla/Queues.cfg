SPECIFICATION FairSpec
CONSTANTS
    Jobs = {j1, j2}
    MaxAttempts = 2
    Concurrency = 1
    MaxCrashes = 2
    LogMayFail = TRUE
CHECK_DEADLOCK FALSE
INVARIANTS
    TypeOK
    SuccessOnRecordIsReal
    RepeatsHaveCause
    SettledIsOnRecord
PROPERTY KeepsContract
