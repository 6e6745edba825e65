SPECIFICATION FairSpec
CONSTANTS
    Msgs = {m1, m2}
    None = None
    Commands = {"stopAll", "clearAll"}
    MaxCommands = 2
    MaxRestarts = 1
PROPERTIES
    CompletedIsFinal
    NoStarvation
CHECK_DEADLOCK FALSE
