SPECIFICATION FairSpec
CONSTANTS
    g1 = g1  g2 = g2  g3 = g3  t1 = t1  t2 = t2
    Getters = {g1, g2, g3}
    Tasks = {t1, t2}
    TaskOf <- SplitTasks
    Values = {v1, v2}
    InitDropped = InitDropped
    None = None
    Waiting = Waiting
INVARIANTS
    TypeOK
    Agreement
    NoDeadlock
PROPERTIES
    ImplementsWriteOnce
    PollTerminates
    RegisteredTaskReturns
\* A run ends when every getter has its result and no caller asks again.
CHECK_DEADLOCK FALSE
