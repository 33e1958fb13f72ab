SPECIFICATION Spec
CONSTANTS
    p1 = p1
    p2 = p2
    a1 = a1
    a2 = a2
    Callers <- TwoCallers
    Adfs <- OneAdf
    NoAdf = NoAdf
    Nothing = Nothing
    MaxCalls = 2
    MaxKills = 0
    MaxHDOperations = 0
    MaxRaces = 2
SYMMETRY Symmetry
INVARIANTS
    NoLostWakeUp
CHECK_DEADLOCK FALSE
