CONSTANTS
    Users = {u1, u2}
    Dispatcher = d
    o1 = o1
    o2 = o2
    p1 = p1
    p2 = p2
    Objects = {o1, o2}
    Pools = {p1, p2}
    NoObject = NoObject
    NoThread = NoThread
    MaxRefs = 2
    MaxCalls = 3
    PoolOf <- MCPoolOf
    Child <- MCChild
    Destroyable = {p1}
SPECIFICATION FairSpec
INVARIANTS
    Consistent
    NeverDestroyedWhileHeld
PROPERTIES
    UnreferencedIsFreed
CHECK_DEADLOCK FALSE
