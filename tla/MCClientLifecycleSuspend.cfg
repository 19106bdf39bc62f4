SPECIFICATION FairSpec
CONSTANTS
    Sessions <- SessionNumbers
    MaxSessions = 2
    MaxSuspends = 2
    MaxRestarts = 0
    HasCallback = FALSE
    ContextEnds = TRUE
    InitialBackoff = 1
    MaximumBackoff = 2
    ReconnectTimeout = 2
CHECK_DEADLOCK FALSE
INVARIANTS
    TunnelInsideLogin
    ReconnectBudget
PROPERTIES
    TheEndIsReached
    SuspensionReleasesLogin
