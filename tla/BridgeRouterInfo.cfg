SPECIFICATION Spec
CONSTANTS
    Orderly = TRUE
    Faults = TRUE
    ListLen = 1
    MaxSessions = 1
    MaxOps = 0
    MaxRequests = 0
CHECK_DEADLOCK FALSE
INVARIANT RouterInfoWhenConnected
