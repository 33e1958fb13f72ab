SPECIFICATION Spec
CONSTANTS
    d1 = d1
    d2 = d2
    f1 = f1
    f2 = f2
    f3 = f3
    b1 = b1
    b2 = b2
    Drives <- OneDrive
    Floppies <- MCFloppies
    Blocks <- TwoBlocks
    NoFloppy = NoFloppy
    BootBlock = b1
    Quota = 1
    OtherHost <- NoHost
    MaxWrites = 3
    MaxUuids = 2
    MaxTime = 2
    MaxCrashes = 1
    MaxFailures = 1
SYMMETRY FloppySymmetry
INVARIANTS
    CrashLosesOnlyUnstored
CHECK_DEADLOCK FALSE
