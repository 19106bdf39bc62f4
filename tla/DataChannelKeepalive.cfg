SPECIFICATION Spec
CONSTANTS
    Interval = 2
    Timeout = 6
    WriteTimeout = 1
    Delay = 3
    Horizon = 17
CHECK_DEADLOCK FALSE
INVARIANTS
    UploadStaysWarm
    SilenceIsNoticed
    PromptGatewayKept
