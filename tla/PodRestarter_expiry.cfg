SPECIFICATION FairSpec
CONSTANTS
    Pods = {p1, p2}
    Expiries <- Mixed
    Bad = Bad
    None = None
    RetryDelay = 1
    MinAvailable = 1
    MaxTime = 3
    EditsAllowed = TRUE
    MaxDisturbances = 1
INVARIANTS
    TypeOK
    ExpiryIsScheduled
PROPERTIES
    BudgetRespected
    EvictionsDecidedOnExpired
    ExpiredIsEvicted
\* The clock stops, and with it the system.
CHECK_DEADLOCK FALSE
