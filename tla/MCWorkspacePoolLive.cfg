CONSTANTS
    Sessions = {s1, s2}
    Keys = {k1}
    Entries = {e1}
    MaxStarts = 2
    MaxRunning = 0
    Races = {}
    Pool = Pool
    None = None
SPECIFICATION FairSpec
PROPERTIES IdleServersStop
