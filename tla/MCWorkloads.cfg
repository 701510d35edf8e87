CONSTANTS
    t1 = t1
    t2 = t2
    t3 = t3
    t4 = t4
    t5 = t5
    t6 = t6
    f1 = f1
    d1 = d1
    d2 = d2
    e1 = e1
    e2 = e2
    a1 = a1
    a2 = a2
    a3 = a3
    cpu = cpu
    gpu = gpu
    layer = layer
    NULL = NULL
    Tasks <- AllTasks
    Allocs = {a1, a2}
    Accessors = {cpu, gpu, layer}
    Master <- SomeMaster
    Tile <- SomeTile
    Display = {d1, d2, e1, e2}
    Workloads <- SomeWorkloads
    InitFlags <- SomeFlags
    TsEmit <- SomeTime
SPECIFICATION FairSpec
INVARIANTS
    Consistent
    BlockCountMatches
PROPERTIES
    ImplementsAccessOrder
    EveryFlushedTaskEnds
CHECK_DEADLOCK FALSE
