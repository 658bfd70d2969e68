SPECIFICATION FairSpec
CONSTANTS
    CaptureCap = 2
    FrameCap = 1
    EncodedCap = 2
    Latency = 1
    Burst = 1
    MaxClients = 1
    MaxErrors = 1
INVARIANTS JoinSafe RequestKept
PROPERTIES StopEnds KeyframeServed DeadEncoderStops
CHECK_DEADLOCK FALSE
