SPECIFICATION FairSpec
CONSTANTS
    p1 = p1
    p2 = p2
    a1 = a1
    a2 = a2
    Callers <- OneCaller
    Adfs <- TwoAdfs
    NoAdf = NoAdf
    Nothing = Nothing
    MaxCalls = 2
    MaxKills = 1
    MaxHDOperations = 1
    MaxRaces = 0
INVARIANTS
    TypeOK
    InSync
PROPERTIES
    CommandsTaken
CHECK_DEADLOCK FALSE
