SPECIFICATION Spec
CONSTANTS
    None = None
    Missing = Missing
    m1 = m1
    m2 = m2
    m3 = m3
    f1 = f1
    f2 = f2
    f3 = f3
    f4 = f4
    x1 = x1
    Devices = {x1}
    Keyboards = {"keyboard"}
    Rounds = 4
    ClearsTail = FALSE
    NumDrives <- MixDrives
    Media = {m1, m2, m3}
    Home <- MixHome
    Files <- MixFiles
    Default <- MixDefault
    Dirs <- MixDirs
    DeviceDrive <- MixDevice
    MaxPlugs = 3
    MaxCommands = 2
    MaxFailures = 1
    MaxCopies = 0
    MaxOverlaps = 1
INVARIANTS
    TypeOK
    MountedKnown
    ListedOnce
    DeviceNotDangling
    UnmountAllUnmounts
    RerunRestored
\* The counters are used up, or the program has ended.
CHECK_DEADLOCK FALSE
