SPECIFICATION Spec
CONSTANTS
    Packets = {p1}
    QueueLength = 1
    HasProbe = FALSE
CHECK_DEADLOCK FALSE
INVARIANTS
    CommandChannelReports
