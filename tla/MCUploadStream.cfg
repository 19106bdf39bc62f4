SPECIFICATION Spec
CONSTANTS
    Packets = {1, 2, 3, 4, 5}
    Size <- SmallSize
    Cramped = {2, 4, 5}
    Refused = {5}
    Probe = 1
    Obfuscated = TRUE
    MaximumPayload = 3
CHECK_DEADLOCK FALSE
INVARIANTS
    TypeOK
    ReadsWhatWasSent
    TearIsContained
    FramedBuffersReleasedOnce
