SPECIFICATION Spec
CONSTANTS
    Orderly = FALSE
    Faults = FALSE
    ListLen = 1
    MaxSessions = 1
    MaxOps = 0
    MaxRequests = 0
CHECK_DEADLOCK FALSE
INVARIANT NeverAborts
