CONSTANTS
    Base = 2
    HeaderLen = 2
    Message <- MCMessage
    SockCap = 4
    MaxMsgs = 3
SPECIFICATION FairSpec
INVARIANTS
    InStep
PROPERTIES
    ChannelSpec
    Delivered
    EofIsSeen
CHECK_DEADLOCK FALSE
