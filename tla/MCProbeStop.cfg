CONSTANTS
    Ids <- MCNoIds
    Keys <- MCKeys
    Reasons <- MCReasons
    MaxGuestFrames = 4
    MaxTicks = 3
    MaxRequests = 0
    MaxSigterms = 2
    AllowGarbage = FALSE
    GarbageByte = 2
    TimerMayFail = TRUE
    MayDisconnect = FALSE

SPECIFICATION Spec

PROPERTY ProbeLoopEnds

CHECK_DEADLOCK FALSE
