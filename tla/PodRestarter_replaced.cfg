SPECIFICATION Spec
CONSTANTS
    Pods = {p1, p2}
    Expiries <- Parsable
    Bad = Bad
    None = None
    RetryDelay = 1
    MinAvailable = 0
    MaxTime = 2
    EditsAllowed = FALSE
    MaxDisturbances = 0
PROPERTY OnlyExpiredEvicted
\* The clock stops, and with it the system.
CHECK_DEADLOCK FALSE
