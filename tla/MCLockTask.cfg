CONSTANTS
    Clients = {c1, c2, c3}
    MaxLocks = 2
SPECIFICATION FairSpec
INVARIANTS
    Consistent
PROPERTIES
    WaitReturns
CHECK_DEADLOCK FALSE
