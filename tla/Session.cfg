SPECIFICATION Spec
CONSTANTS
    MaxConns = 2
    MaxWork = 1
    MaxBeats = 3
    MsgCap = 1
    OutCap = 2
    MayCut = TRUE
    MayBeOld = TRUE
    MayStall = TRUE
    MayGiveUp = FALSE
INVARIANTS OnlyClientSends RefusedStaysOut BlockedByCut
PROPERTIES NoReturn OneAtATime
