SPECIFICATION FairSpec
CONSTANTS
    Jobs = {j1, j2}
    MaxAttempts = 3
    Concurrency = 1
    MaxCrashes = 0
    LogMayFail = FALSE
CHECK_DEADLOCK FALSE
PROPERTY EveryDeliverySettles
