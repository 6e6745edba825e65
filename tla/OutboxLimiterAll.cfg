SPECIFICATION FairSpec
CONSTANTS
    RateLimit = 1
    Window = 2
    Keys = {k1, k2}
    MaxCalls = 3
    MaxFlood = 1
INVARIANTS
    WaitsOnce
    LatestShown
PROPERTIES
    AllAnswered
CHECK_DEADLOCK FALSE
