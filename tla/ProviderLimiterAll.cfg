SPECIFICATION LimiterFairSpec
CONSTANTS
    RateLimit = 1
    Window = 2
    Requests = {r1, r2, r3}
    MaxConcurrency = 2
    MaxTries = 1
    MaxReopens = 1
    MaxBlock = 2
INVARIANTS
    UpstreamBound
PROPERTIES
    SeenBlockHolds
    AllEnd
CHECK_DEADLOCK FALSE
