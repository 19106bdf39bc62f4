SPECIFICATION FairSpec
CONSTANTS
    Capacity = 2
    Items = {i1, i2}
    NoItem = NoItem
    Pushers = {p1, p2}
    Consumers = {c1}
    MaxBatch = 3
INVARIANTS
    NoLostWakeup
    OnlyLiveSlotsHeld
PROPERTIES
    FifoSpec
    EveryWaitEnds
