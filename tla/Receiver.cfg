SPECIFICATION Spec
CONSTANTS
    MaxFrames = 4
    Count = 2
    MaxPending = 2
    ChannelCap = 1
    Reorder = 1
INVARIANTS Complete OncePerRound ChannelIsNewest
CHECK_DEADLOCK FALSE
