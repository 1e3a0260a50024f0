CONSTANTS
    Ids <- MCIds
    Keys <- MCKeys
    Reasons <- MCReasons
    MaxGuestFrames = 3
    MaxTicks = 0
    MaxRequests = 0
    MaxSigterms = 0
    AllowGarbage = TRUE
    GarbageByte = 2
    TimerMayFail = FALSE
    MayDisconnect = FALSE

SPECIFICATION Spec

INVARIANT InboundInOrder
PROPERTY InboundDelivered

CHECK_DEADLOCK FALSE
