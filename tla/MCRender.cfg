CONSTANTS
    t1 = t1
    t2 = t2
    t3 = t3
    t4 = t4
    t5 = t5
    t6 = t6
    f1 = f1
    d1 = d1
    d2 = d2
    e1 = e1
    e2 = e2
    a1 = a1
    a2 = a2
    a3 = a3
    cpu = cpu
    gpu = gpu
    layer = layer
    NULL = NULL
    Tasks <- RenderTasks
    Allocs = {a1, a2}
    Accessors = {cpu, gpu}
    Master <- NoMaster
    Tile <- NoTile
    Display = {}
    Workloads <- AnyWorkload
    InitFlags <- NoFlags
    TsEmit <- NoTime
SPECIFICATION Spec
SYMMETRY RenderSymmetry
INVARIANTS
    Consistent
    FlushedBeforeForeignAccess
PROPERTIES
    ImplementsAccessOrder
CHECK_DEADLOCK FALSE
