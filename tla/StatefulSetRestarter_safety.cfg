SPECIFICATION Spec
CONSTANTS
    cm = cm
    secret = secret
    Objects = {cm, secret}
    KindOf <- KindMap
    Templates <- BothUsed
    IgnoreSets <- NothingIgnored
    None = None
    ChangesIgnored = ChangesIgnored
    Labelled = {TRUE}
    Budgets <- SafetyBudgets
INVARIANTS
    TypeOK
    AnnotationsAreReal
    PodsHonourAnnotation
    RestIsCurrent
PROPERTIES
    NoForeignPatch
    AnnotationMonotone
    UpToDateUntilRestart
\* The system rests when users have used up their changes.
CHECK_DEADLOCK FALSE
