SPECIFICATION Spec
CONSTANTS
    Tests = {t1, t2}
    MAX_RUNTIME_HISTORY = 2
    Parallel = 2
    None = None
    Unreadable = Unreadable
    Garbled <- Overlong
    MaxRuns = 5
    MaxStarts = 2
SYMMETRY Symmetry
INVARIANTS
    TypeOK
    NewestRunsKept
    BoundedHistory
    LoneUpdateIsSaved
    DroppedOnlyByNewTest
\* No process starts after the last one.
CHECK_DEADLOCK FALSE
