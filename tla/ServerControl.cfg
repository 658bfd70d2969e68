SPECIFICATION FairSpec
CONSTANTS
    MaxServers = 3
    Period = 3
    MaxFrames = 2
INVARIANTS OneServer Undisturbed AtRest
PROPERTY Restartable
