CONSTANTS
    Base = 2
    HeaderLen = 2
    Message <- MCMessage
    SockCap = 4
    MaxMsgs = 1
SPECIFICATION FairSpec
PROPERTY ReadReturns
CHECK_DEADLOCK FALSE
