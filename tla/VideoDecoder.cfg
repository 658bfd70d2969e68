SPECIFICATION FairSpec
CONSTANTS
    MaxPending = 1
    MayOverlap = TRUE
    MayBreak = TRUE
INVARIANTS OneActive NoLeak
PROPERTIES Recovers
CHECK_DEADLOCK FALSE
