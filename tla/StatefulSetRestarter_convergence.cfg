SPECIFICATION FairSpec
CONSTANTS
    cm = cm
    secret = secret
    Objects = {cm}
    KindOf <- KindMap
    Templates <- CmEnv
    IgnoreSets <- CmMayBeIgnored
    None = None
    ChangesIgnored = ChangesIgnored
    Labelled = {TRUE, FALSE}
    Budgets <- LivenessBudgets
PROPERTIES
    OptOutHonoured
    Converges
    PodsEventuallyCurrent
    DeletionsFollowed
    EventuallyQuiet
\* The system rests when users have used up their changes.
CHECK_DEADLOCK FALSE
