CONSTANTS
    AddrSpace = 8
    NumClients = 1
    Ips <- MCTest02
    Buffers <- MCFewBuffers
    FaultyAddrs = {4}
    EarlyTerminate = TRUE
    Crashing = {}
    MaxOps = 1
    SockCap = 1
SPECIFICATION Spec
INVARIANT CompletionIsHonest
CHECK_DEADLOCK FALSE
