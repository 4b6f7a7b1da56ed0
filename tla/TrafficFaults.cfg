CONSTANTS
    AddrSpace = 8
    NumClients = 2
    Ips <- MCMixed
    Buffers <- MCFewBuffers
    FaultyAddrs = {4}
    EarlyTerminate = FALSE
    Crashing = {0, 1}
    MaxOps = 1
    SockCap = 1
SPECIFICATION FairSpec
INVARIANT AtMostOnce
PROPERTY FailureIsSeen
CHECK_DEADLOCK FALSE
