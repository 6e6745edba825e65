\* Two messages of a user, one command; four events of a turn in pieces of text.
\* A conversation ends: every message is answered and the platform is stopped.
SPECIFICATION WindowSpec
CONSTANTS
    Notes = {n1, n2}
    Commands = {c1}
    MaxEvents = 4
    Blocks = {b1, b2}
    Limit = 4
    TailMax = 3
    MinBudget = 1
INVARIANTS
    NothingLeftBehind
    TranscriptTrue
    EndShown
PROPERTIES
    CancelledNeverRuns
SYMMETRY Symmetry
CHECK_DEADLOCK FALSE
