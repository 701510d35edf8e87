CONSTANTS
    Readers = {r1, r2}
    Setups <- MCSetups
    MaxEvents = 3
    Capacity = 1
SPECIFICATION ReadingSpec
INVARIANTS
    Consistent
    DeliveredOnce
    NobodySleepsOnEvents
PROPERTIES
    Progress
CHECK_DEADLOCK FALSE
