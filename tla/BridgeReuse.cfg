SPECIFICATION Spec
CONSTANTS
    Orderly = TRUE
    Faults = FALSE
    ListLen = 1
    MaxSessions = 2
    MaxOps = 1
    MaxRequests = 0
CHECK_DEADLOCK FALSE
PROPERTY FuturesComplete
