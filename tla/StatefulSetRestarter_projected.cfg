SPECIFICATION FairSpec
CONSTANTS
    cm = cm
    secret = secret
    Objects = {cm}
    KindOf <- KindMap
    Templates <- CmProjected
    IgnoreSets <- NothingIgnored
    None = None
    ChangesIgnored = ChangesIgnored
    Labelled = {TRUE}
    Budgets <- OneChange
PROPERTY AllReferencesFollowed
\* The system rests when users have used up their changes.
CHECK_DEADLOCK FALSE
