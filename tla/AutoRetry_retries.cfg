SPECIFICATION FairSpec
CONSTANTS
    Tests = {t1, t2}
    Configs <- AllConfigs
    Budgets <- SomeBudgets
    None = None
    Corrupt = Corrupt
INVARIANTS
    TypeOK
    VerdictsAreRight
    NamespacesManaged
    GreenMeansPassed
PROPERTIES
    NoRetryAfterPass
    LoopsAreBounded
    ImplementsLedger
    Terminates
\* The last process ends.
CHECK_DEADLOCK FALSE
