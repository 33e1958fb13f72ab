SPECIFICATION FairSpec
CONSTANTS
    b1 = b1
    b2 = b2
    Blocks <- MCBlocks
    Header = Header
    NoBlock = NoBlock
    MaxOps = 4
    MaxFaults = 1
INVARIANTS
    TypeOK
    NewestStoredOrDue
    DirectReadOnlyInFront
    IInv
PROPERTIES
    HeaderNeverGoesBack
    KeepsPromise
    DataReachesDevice
    HeaderReachesDevice
CHECK_DEADLOCK FALSE
