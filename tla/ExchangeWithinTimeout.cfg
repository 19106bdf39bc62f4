SPECIFICATION Spec
CONSTANTS
    Interval = 2
    Timeout = 1
    Second = 2
    Uptimes <- WithinASecond
    Horizon = 9
    InboxBound = 2
CHECK_DEADLOCK FALSE
INVARIANTS
    ExchangeWithinTimeout
