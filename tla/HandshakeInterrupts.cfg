CONSTANTS
    AddrSpace = 8
    sw = sw
    sv = sv
    Bridges <- MCBridges
    NumClients = 2
    Offers <- MCInterrupts
    Quitters <- MCSteady
    RouterDies = FALSE
    MaxRegs = 1
    SockCap = 2
SPECIFICATION Spec
INVARIANT ListedAsRegistered
CHECK_DEADLOCK FALSE
