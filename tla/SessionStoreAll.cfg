SPECIFICATION FairSpec
CONSTANTS
    Roots = {t1}
    Nodes = {n1}
    None = None
    Ids = {i1, i2}
    Cap = 1
    MaxEdits = 3
    MaxFailures = 1
    MaxCrashes = 1
INVARIANTS
    LogAgrees
    Persisted
PROPERTIES
    ChangesGetWritten
CHECK_DEADLOCK FALSE
