CONSTANTS
    AddrSpace = 8
    NumClients = 1
    Ips <- MCTwoMasters
    Buffers <- MCFewBuffers
    FaultyAddrs = {4}
    EarlyTerminate = FALSE
    Crashing = {}
    MaxOps = 1
    SockCap = 1
SPECIFICATION Spec
INVARIANT TerminateEndsOneMaster
CHECK_DEADLOCK FALSE
