SPECIFICATION Spec
CONSTANTS
    Msgs = {m1, m2, m3}
    None = None
    Commands = {"stopNode", "stopAll", "clearBranch", "clearAll"}
    MaxCommands = 1
    MaxRestarts = 0
SYMMETRY Symmetry
INVARIANTS
    NoOrphans
    InArrivalOrder
    OneTurnPerTree
PROPERTIES
    StopCancels
CHECK_DEADLOCK FALSE
