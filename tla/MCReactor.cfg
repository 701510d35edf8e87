CONSTANTS
    NULL = NULL
    Reactions = {r1, r2, r3}
    Setups <- AllSetups
    MaxMsgs = 3
SPECIFICATION FairSpec
INVARIANTS
    Consistent
    DetachedIsNotCalled
    NobodyIsSkipped
PROPERTIES
    DetachReturns
CHECK_DEADLOCK FALSE
