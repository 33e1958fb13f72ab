SPECIFICATION Spec
CONSTANTS
    d1 = d1
    d2 = d2
    f1 = f1
    f2 = f2
    f3 = f3
    b1 = b1
    b2 = b2
    Drives <- TwoDrives
    Floppies <- ThreeFloppies
    Blocks <- OneBlock
    NoFloppy = NoFloppy
    BootBlock = b1
    Quota = 1
    OtherHost <- CachedHost
    MaxWrites = 2
    MaxUuids = 3
    MaxTime = 2
    MaxCrashes = 0
    MaxFailures = 0
SYMMETRY ThreeSymmetry
INVARIANTS
    TypeOK
    ReadsNewest
    QuotaKept
CHECK_DEADLOCK FALSE
