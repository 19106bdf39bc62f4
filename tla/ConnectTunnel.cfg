SPECIFICATION ConnectFairSpec
CHECK_DEADLOCK FALSE
INVARIANTS
    NoConnectionLeaks
    SessionIsWhole
PROPERTIES
    ConnectReturns
