\* Two messages: each makes one request of a sample of files, or is handled in up to two
\* turns of one act, and the process ends once.
SPECIFICATION DesktopSpec
CONSTANTS
    Messages = {m1, m2}
    Editors = {t1, t2}
    MaxTurns = 2
    MaxNotes = 2
    MaxCalls = 1
    MaxKills = 1
INVARIANTS
    OnlyGrantedRuns
    Remembered
PROPERTIES
    EditsAreExact
SYMMETRY Symmetry
CHECK_DEADLOCK FALSE
