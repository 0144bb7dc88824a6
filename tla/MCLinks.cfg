CONSTANTS
    Procs = {p1, p2, p3}
    MaxConns = 3
    MaxSecrets = 4
    MaxMishaps = 1
    FailureLimit = 2
    Callers = {c1}
    Asks = {q1}
    SameId <- OneId
    MaxNotes = 2
    MaxDiags = 2
    NotifyQueue = 1
SPECIFICATION LinksSpec
INVARIANTS LinksTypeOK OneClaimant OneHolder ConsumedForSuccessor
    CancelFollowsRequest MessagesInOrder
CONSTRAINT Small
CHECK_DEADLOCK FALSE
SYMMETRY Symmetry
