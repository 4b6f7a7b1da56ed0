CONSTANTS
    AddrSpace = 8
    NumClients = 2
    Ips <- MCTest02
    Buffers <- MCBuffers
    FaultyAddrs = {4}
    EarlyTerminate = FALSE
    Crashing = {}
    MaxOps = 2
    SockCap = 1
SPECIFICATION FairSpec
INVARIANTS
    TypeOK
    EveryRequestOnce
    NoReaderError
    CleanExit
    CompletionIsHonest
PROPERTIES
    Completes
    BusSpec
CHECK_DEADLOCK FALSE
