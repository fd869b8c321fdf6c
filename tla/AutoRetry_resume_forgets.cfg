SPECIFICATION Spec
CONSTANTS
    Tests = {t1, t2}
    Configs <- DefaultConfig
    Budgets <- OneResume
    None = None
    Corrupt = Corrupt
INVARIANT FailedMeansNeverPassed
\* The last process ends.
CHECK_DEADLOCK FALSE
