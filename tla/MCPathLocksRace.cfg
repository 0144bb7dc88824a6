CONSTANTS
    Writers = {w1, w2}
    Paths <- MCTwoPaths
    LockKey <- MCTwoKeys
    Entries = {e1, e2, e3, e4}
    Sweeper = Sweeper
    None = None
SPECIFICATION Spec
INVARIANTS MutualExclusion
