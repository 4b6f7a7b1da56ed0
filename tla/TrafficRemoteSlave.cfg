CONSTANTS
    AddrSpace = 8
    NumClients = 2
    Ips <- MCRemoteSlave
    Buffers <- MCFewBuffers
    FaultyAddrs = {4}
    EarlyTerminate = FALSE
    Crashing = {}
    MaxOps = 1
    SockCap = 1
SPECIFICATION Spec
INVARIANT RequestReachesOwner
CHECK_DEADLOCK FALSE
