SPECIFICATION Spec
CONSTANTS
    Width = 4
    Ids = {1, 2}
    HostTexts <- Hosts
    PortTexts <- PortRanges
    RecordTexts <- HostRecords
    ServerTexts <- Servers
    MaxPort = 2
    Destinations <- Configured
    MaxRcs = 2
    MaxHosts = 2
    MaxRecords = 2
    MaxServers = 1
CHECK_DEADLOCK FALSE
INVARIANTS
    RefusedListCarries
