CONSTANTS
    AddrSpace = 8
    sw = sw
    sv = sv
    Bridges <- MCBridges
    NumClients = 2
    Offers <- MCOffers
    Quitters <- MCQuitters
    RouterDies = TRUE
    MaxRegs = 2
    SockCap = 2
SPECIFICATION FairSpec
INVARIANTS
    TypeOK
    NoUnexpectedMessage
    StartedKnowsAll
    IdsArePartitioned
    MasterCountIsExact
PROPERTIES
    RegistryIsFrozen
    CallsAsPromised
    CallsReturn
CHECK_DEADLOCK FALSE
