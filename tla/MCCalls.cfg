CONSTANTS
    Calls = {s1, s2}
    Hello = Hello
    MaxGen = 3
    MaxPid = 2
    MaxTry = 1
    Races = {}
    None = None
    Sessions = {s1, s2}
    MaxText = 3
    MaxTime = 2
    MaxOther = 1
    MaxTries = 2
    QueueSize = 1
    OverflowCap = 1
    BatchSize = 2
    MaxQueuedBytes = 2
    MaxItems = 3
    MaxFaults = 2
    MetaFaults <- AnyStatements
SPECIFICATION CallsSpec
INVARIANTS CallsTypeOK AnsweredOnceUnlessRaced NothingForgotten NoLossUncounted HistoryInOrder
PROPERTIES ErrorIsFinal ErrorOnlyForDead KillsOnlyProbed
    OverwritesOnlySeen EditsAreNotLost UndoIsInverse RollbackKeepsOthers
CONSTRAINT Small
CHECK_DEADLOCK FALSE
SYMMETRY Symmetry
