CONSTANTS
    Writers = {w1, w2}
    Paths <- MCTwoPaths
    LockKey <- MCOneKey
    Entries = {e1, e2, e3, e4}
    Sweeper = Sweeper
    None = None
    Callers = {c1}
    Asks = {q1}
    SameId <- OneId
    MaxNotes = 1
    MaxDiags = 2
    NotifyQueue = 1
SPECIFICATION LiveSpec
PROPERTIES EveryCallEnds CallsEnd
CHECK_DEADLOCK FALSE
