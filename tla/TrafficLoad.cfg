CONSTANTS
    AddrSpace = 8
    NumClients = 1
    Ips <- MCTest02
    Buffers <- MCOneCell
    FaultyAddrs = {4}
    EarlyTerminate = FALSE
    Crashing = {}
    MaxOps = 6
    SockCap = 1
SPECIFICATION AlternatingSpec
PROPERTY OperationsComplete
CHECK_DEADLOCK FALSE
