SPECIFICATION FairSpec
CONSTANTS
    Media = {"dh"}
    Files = {"hdf"}
    Hard = {"dh", "hdf"}
    None = None
    Rounds = 2
    MaxPlugs = 1
    MaxFailures = 1
INVARIANTS
    TypeOK
    BootMediaAttached
    EndsUnmounted
PROPERTIES
    EmulatorRuns
    ProgramEnds
\* The program ends.
CHECK_DEADLOCK FALSE
