CONSTANTS
    AddrSpace = 8
    MaxIps = 3
    Blocks <- MCBlocks
SPECIFICATION Spec
INVARIANTS
    IdIsIndex
    FindTargetExact
    OverlapsOnlyFromBelow
    RefusedForItsAddresses
CHECK_DEADLOCK FALSE
