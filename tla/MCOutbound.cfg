CONSTANTS
    Ids <- MCOneId
    Keys <- MCKeys
    Reasons <- MCReasons
    MaxGuestFrames = 2
    MaxTicks = 2
    MaxRequests = 2
    MaxSigterms = 0
    AllowGarbage = FALSE
    GarbageByte = 2
    TimerMayFail = FALSE
    MayDisconnect = FALSE

SPECIFICATION Spec

INVARIANT TypeOK
INVARIANT OutboundInOrder
PROPERTY OutboundDelivered
PROPERTY LinkRefinement

CHECK_DEADLOCK FALSE
