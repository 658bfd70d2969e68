SPECIFICATION FairSpec
CONSTANTS
    MaxServers = 2
    Period = 3
    MaxFrames = 2

PROPERTIES LeftIsHidden
