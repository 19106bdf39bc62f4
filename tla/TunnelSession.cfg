SPECIFICATION FairSpec
CONSTANTS
    Packets = {p1, p2}
    QueueLength = 1
    HasProbe = TRUE
CHECK_DEADLOCK FALSE
INVARIANTS
    TypeOK
    BuffersOwnedOnce
PROPERTIES
    ImplementsClientSession
    CloseEndsSession
