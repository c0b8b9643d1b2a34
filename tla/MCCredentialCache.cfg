CONSTANTS
    c1 = c1
    c2 = c2
    c3 = c3
    c4 = c4
    k1 = k1
    k2 = k2
    Calls <- MCCalls
    KeyOf <- MCKeyOf
    MaxLifetime = 2
    RefreshWindow = 1
    AllowFallback = TRUE
    MultiThreaded = TRUE
    Droppable <- MCCalls
    None = None
SPECIFICATION Spec
INVARIANTS
    SingleFlight
    RefreshIsNeeded
CHECK_DEADLOCK FALSE
