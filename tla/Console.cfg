SPECIFICATION FairSpec
CONSTANTS
    Keyboards = {"kbd0", "kbd1"}
    None = None
    Success = 1
    Failure = 1
    MaxTyped = 2
    MaxKeys = 1
    MaxFaults = 1
INVARIANTS
    TypeOK
    SettingKept
PROPERTIES
    CommandEnds
    LEDsSteady
\* Nobody must type.
CHECK_DEADLOCK FALSE
