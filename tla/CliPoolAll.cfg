SPECIFICATION MCSpec
CONSTANTS
    First = t1
    Turns = {t1, t2}
    Keys = {k1, k2}
    Known = k1
    All = all
    None = none
    MaxStops = 1
INVARIANTS
    NoProcessLeft
PROPERTIES
    StopReaches
    EveryTurnEnds
CHECK_DEADLOCK FALSE
