SPECIFICATION FairSpec
CONSTANTS
    Calls = {c1, c2}
    TaskCalls = {c1}
    AliasedCalls = {c2}
    MaxRetries = 1
    MaxChunks = 3
INVARIANTS
    OneAttempt
    EndIsOfUse
PROPERTIES
    Contract
    Answered
CHECK_DEADLOCK FALSE
