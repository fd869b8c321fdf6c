SPECIFICATION Spec
CONSTANTS
    cm = cm
    secret = secret
    Objects = {cm}
    KindOf <- KindMap
    Templates <- CmEnv
    IgnoreSets <- NothingIgnored
    None = None
    ChangesIgnored = ChangesIgnored
    Labelled = {TRUE}
    Budgets <- OneRestart
PROPERTY UpToDateAnnotationStays
\* The system rests when users have used up their changes.
CHECK_DEADLOCK FALSE
