CONSTANTS
    AddrSpace = 8
    NumClients = 1
    Ips <- MCTwoSlaves
    Buffers <- MCOneBuffer
    FaultyAddrs = {4}
    EarlyTerminate = FALSE
    Crashing = {}
    MaxOps = 1
    SockCap = 1
SPECIFICATION Spec
INVARIANT TargetIsSet
CHECK_DEADLOCK FALSE
