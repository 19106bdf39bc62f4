SPECIFICATION Spec
CONSTANTS
    Sessions = {1}
    MaxSessions = 1
    MaxSuspends = 1
    MaxRestarts = 0
    HasCallback = FALSE
    ContextEnds = FALSE
    InitialBackoff = 1
    MaximumBackoff = 1
    ReconnectTimeout = 1
CHECK_DEADLOCK FALSE
INVARIANTS
    SuspensionTakesLogin
