SPECIFICATION Spec
CONSTANTS
    Reconnects = FALSE
    ListLen = 2
    Handles = {1, 2, 3, 4}
    MaxSessions = 2
CHECK_DEADLOCK FALSE
INVARIANT NoDanglingHandle
INVARIANT TerminatesOnlyWithoutClient
INVARIANT NothingLeaks
