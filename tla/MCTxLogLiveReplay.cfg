CONSTANTS
    Txs = {t1}
    Files = {f1, f2}
    Conns = {c1, c2}
    Allowed <- AllFiles
    Exts = {}
    Worlds <- Overlapping
    Torn = Torn
    None = None
SPECIFICATION Spec
INVARIANTS LiveNeverReplayed
