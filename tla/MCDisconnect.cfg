CONSTANTS
    Ids <- MCOneId
    Keys <- MCKeys
    Reasons <- MCReasons
    MaxGuestFrames = 2
    MaxTicks = 2
    MaxRequests = 1
    MaxSigterms = 0
    AllowGarbage = FALSE
    GarbageByte = 2
    TimerMayFail = FALSE
    MayDisconnect = TRUE

SPECIFICATION Spec

INVARIANT OneProbeLoopWhileMonitored

PROPERTY LinkRefinement
PROPERTY LostGuestDetected

CHECK_DEADLOCK FALSE
