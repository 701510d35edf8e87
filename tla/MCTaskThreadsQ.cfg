CONSTANTS
    t1 = t1
    t2 = t2
    t3 = t3
    t4 = t4
    t5 = t5
    q1 = q1
    q2 = q2
    Tasks <- MCTasks
    Qids <- MCQids
    Qid <- MCQid
    Master <- MCMaster
    Runners = {r1, r2}
    NULL = NULL
SPECIFICATION FairSpec
INVARIANTS
    TypeOK
    SerialPerQid
    NoDanglingTask
    FinaliseAsserts
PROPERTIES
    EveryPushedTaskRuns
    ImplementsSerialQueues
CHECK_DEADLOCK FALSE
