CONSTANTS
    NULL = NULL
    Clients = {c1, c2}
    Pools = {"shared", "video", "local"}
    PoolAccess <- MCPoolAccess
    Callable <- MCCallable
    Volatile = {"shared"}
    Backup <- MCBackup
    Setups <- MCSetups
    Accesses = {{"read"}, {"read", "write"}}
    MaxAllocs = 3
    MaxCalls = 4
SPECIFICATION Spec
INVARIANTS
    Consistent
    UpToDateIsLatest
    ContentIsKept
PROPERTIES
    LocksInterlock
CHECK_DEADLOCK FALSE
SYMMETRY Symmetry
