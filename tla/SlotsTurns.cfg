SPECIFICATION Spec
CONSTANTS
    None = None
    Missing = Missing
    m1 = m1
    m2 = m2
    m3 = m3
    f1 = f1
    f2 = f2
    f3 = f3
    f4 = f4
    x1 = x1
    Devices = {x1}
    Keyboards = {"keyboard"}
    Rounds = 8
    ClearsTail = TRUE
    NumDrives <- FourDrives
    Media = {m1, m2, m3}
    Home <- AllHome
    Files <- AllFiles
    Default <- AllDefault
    Dirs = {}
    DeviceDrive <- AllDevice
    MaxPlugs = 3
    MaxCommands = 2
    MaxFailures = 1
    MaxCopies = 1
    MaxOverlaps = 0
INVARIANTS
    MountsMatch
    UnmountLeavesNothing
    KeyboardsSpareDevices
\* The counters are used up, or the program has ended.
CHECK_DEADLOCK FALSE
