CONSTANTS
    Callers = {c1, c2}
    Asks = {q1}
    SameId <- OneId
    MaxNotes = 1
    MaxDiags = 1
    NotifyQueue = 1
SPECIFICATION RpcSpec
INVARIANTS ResultIsReply
CHECK_DEADLOCK FALSE
