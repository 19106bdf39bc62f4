SPECIFICATION Spec
CONSTANTS
    Interval = 3
    Timeout = 5
    WriteTimeout = 1
    Delay = 1
    Horizon = 15
CHECK_DEADLOCK FALSE
INVARIANTS
    DropsOnlyWhileProbing
