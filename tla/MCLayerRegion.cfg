CONSTANTS
    NULL = NULL
    c1 = c1
    c2 = c2
    s1 = s1
    s2 = s2
    Callers = {c1, c2}
    Threads = {t1, t2}
    Surfaces = {s1, s2}
    Setups <- MCSetups
    MaxFrames = 4
    MaxConfigs = 3
    MaxFailures = 2
SPECIFICATION FairSpec
INVARIANTS
    Consistent
    DoneOnce
    RunsAsAssumed
PROPERTIES
    CallsReturn
    TasksEndOrStay
CHECK_DEADLOCK FALSE
