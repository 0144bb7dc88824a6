CONSTANTS
    Sessions = {s1, s2}
    Keys = {k1, k2}
    Entries = {e1, e2}
    MaxStarts = 3
    MaxRunning = 1
    Races = {}
    Pool = Pool
    None = None
SPECIFICATION Spec
INVARIANTS CallKeepsServer LeasesCounted FailureHasReader ActiveIsPublished HibernatedIsStopped
PROPERTIES EvictionIsDeserved
CONSTRAINT Small
SYMMETRY Symmetry
