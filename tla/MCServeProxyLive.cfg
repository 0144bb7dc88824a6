CONSTANTS
    Calls = {r1}
    Hello = Hello
    MaxGen = 3
    MaxPid = 3
    MaxTry = 1
    Races = {}
    None = None
SPECIFICATION FairSpec

PROPERTIES EveryRequestAnswered
