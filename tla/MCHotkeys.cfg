CONSTANTS
    Ids <- MCIds
    Keys <- MCKeys
    Reasons <- MCReasons
    MaxGuestFrames = 3
    MaxTicks = 0
    MaxRequests = 1
    MaxSigterms = 0
    AllowGarbage = FALSE
    GarbageByte = 2
    TimerMayFail = FALSE
    MayDisconnect = FALSE

SPECIFICATION Spec

PROPERTY HotkeysRouted

CHECK_DEADLOCK FALSE
