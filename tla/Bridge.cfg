SPECIFICATION Spec
CONSTANTS
    Orderly = TRUE
    Faults = TRUE
    ListLen = 1
    MaxSessions = 2
    MaxOps = 1
    MaxRequests = 1
CHECK_DEADLOCK FALSE
INVARIANT SessionIsItsOwn
INVARIANT NoUseAfterFree
INVARIANT NeverAborts
INVARIANT EarlyLogoutIsStale
PROPERTY WaitReturns
PROPERTY OperationsEnd
