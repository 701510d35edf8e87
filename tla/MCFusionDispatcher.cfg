CONSTANTS
    c1 = c1
    c2 = c2
    c3 = c3
    Callers = {c1, c2, c3}
    Setups <- MCSetups
    Lengths = {0, 2, 3}
    Header = 2
    Capacity = 4
    MaxBuffers = 1
    MaxCalls = 2
    MaxPosts = 1
    Nobody = Nobody
SPECIFICATION FairSpec
INVARIANTS
    Consistent
    BufferKeptForCaller
PROPERTIES
    Progress
    DeliversInOrder
CHECK_DEADLOCK FALSE
