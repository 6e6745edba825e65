SPECIFICATION FairSpec
CONSTANTS
    Requests = {q1, q2}
    Applies = {a1, a2}
    Providers = {p1}
    None = none
    MaxMade = 5
    MaxRestarts = 1
INVARIANTS
    NothingOpen
    InEffect
PROPERTIES
    RestartWorks
CHECK_DEADLOCK FALSE
