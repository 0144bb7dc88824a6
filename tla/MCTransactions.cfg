CONSTANTS
    Txs = {t1, t2}
    Files = {f1, f2}
    Conns = {c1, c2}
    Exts = {x1}
    Allowed <- AllFiles
    Worlds <- SomeWorlds
    Torn = Torn
    None = None
SPECIFICATION Spec
INVARIANTS TypeOK AllOrNothing CommittedStays RefusedLeavesNothing
PROPERTIES RevertKeepsExternal ImplementsAtomicTx
SYMMETRY Symmetry
