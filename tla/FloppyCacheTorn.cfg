SPECIFICATION Spec
CONSTANTS
    d1 = d1
    d2 = d2
    f1 = f1
    f2 = f2
    f3 = f3
    b1 = b1
    b2 = b2
    Drives <- OneDrive
    Floppies <- MCFloppies
    Blocks <- TwoBlocks
    NoFloppy = NoFloppy
    BootBlock = b1
    Quota = 2
    OtherHost <- CachedHost
    MaxWrites = 2
    MaxUuids = 2
    MaxTime = 2
    MaxCrashes = 1
    MaxFailures = 0
INVARIANTS
    AcceptedNotOlder
CHECK_DEADLOCK FALSE
