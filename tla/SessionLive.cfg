SPECIFICATION FairSpec
CONSTANTS
    MaxConns = 2
    MaxWork = 0
    MaxBeats = 1
    MsgCap = 1
    OutCap = 2
    MayCut = TRUE
    MayBeOld = FALSE
    MayStall = FALSE
    MayGiveUp = TRUE
PROPERTIES GoneIsNoticed PortIsLearned DisplacedFindsOut
