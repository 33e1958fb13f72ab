SPECIFICATION FairSpec
CONSTANTS
    None = None
    ENOENT = ENOENT
    EIO = EIO
    Blank = "blank"
    Looks = {"blank", "x", "y"}
    Devices = {"sda", "sdb"}
    Wants <- MCWants
    Threads = {"fuse1", "fuse2"}
    MaxEvents = 3
    MaxCalls = 2
    MaxFaults = 1
INVARIANTS
    TypeOK
    ServedByOwnDisk
    OneHandle
    NoNilMedium
PROPERTIES
    CallsEnd
    ListCatchesUp
\* The users may stop.
CHECK_DEADLOCK FALSE
