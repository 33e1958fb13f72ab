SPECIFICATION Spec
CONSTANTS
    b1 = b1
    b2 = b2
    Blocks <- MCBlocks
    Header = Header
    NoBlock = NoBlock
    MaxOps = 2
    MaxFaults = 0
INVARIANT NoWriteLost
CHECK_DEADLOCK FALSE
