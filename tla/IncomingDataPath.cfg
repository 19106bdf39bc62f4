SPECIFICATION FairSpec
CONSTANTS
    Readers = {r1, r2}
    QueueLength = 2
    LastSession = 2
    LastPacket = 3
CHECK_DEADLOCK FALSE
INVARIANTS
    TypeOK
    IncomingOwnedOnce
    DeliveredInOrder
PROPERTIES
    ReadersEnd
    SessionCloseReturns
