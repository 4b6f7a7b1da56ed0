CONSTANTS
    AddrSpace = 8
    MaxIps = 3
    Blocks <- MCBlocks
SPECIFICATION Spec
INVARIANT NoOverlap
CHECK_DEADLOCK FALSE
