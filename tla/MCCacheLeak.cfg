CONSTANTS
    c1 = c1
    c2 = c2
    c3 = c3
    c4 = c4
    k1 = k1
    k2 = k2
    Calls <- MCLiveCalls
    KeyOf <- MCLiveKeyOf
    MaxLifetime = 2
    RefreshWindow = 1
    AllowFallback = TRUE
    MultiThreaded = FALSE
    Droppable = {c1}
    None = None
SPECIFICATION FairSpec
PROPERTY CallsAnswered
CHECK_DEADLOCK FALSE
