SPECIFICATION Spec
CONSTANTS
    Sessions <- SessionNumbers
    MaxSessions = 2
    MaxSuspends = 0
    MaxRestarts = 1
    HasCallback = TRUE
    ContextEnds = TRUE
    InitialBackoff = 1
    MaximumBackoff = 1
    ReconnectTimeout = 1
CHECK_DEADLOCK FALSE
INVARIANTS
    TypeOK
    CloseLeavesNothing
    NoForgottenWaiter
    NoLostEventWake
    EventsTellTheTunnel
