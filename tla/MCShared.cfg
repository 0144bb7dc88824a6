CONSTANTS
    Writers = {w1, w2}
    Paths <- MCPaths
    LockKey <- MCLockKey
    Entries = {e1, e2, e3, e4}
    Sweeper = Sweeper
    None = None
    Users = {u1, u2, u3}
    Watches = {u1, u2, u3}
    NoWatch = None
SPECIFICATION SharedSpec
INVARIANTS SharedTypeOK MutualExclusionUnlessRaced NoWaitCycle
    SubscribersShare NoWatcherLeaks FailureReachesAll
SYMMETRY Symmetry
