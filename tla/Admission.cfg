CONSTANTS
    r1 = r1
    r2 = r2
    a = a
    b = b
    f = f
    g = g
    NoChannel = NoChannel
    Requests <- TwoRequests
    Primary <- AB
    Fallback <- TwoFallbacks
    MaxRPM <- AllButF
    MaxConcurrency <- AAndF
    Allowed <- EveryChannel
    Supports <- OnlyA
    Protected <- OnlyA
    LimitedInput <- OnlyB
    Affinity <- JustR1
    Oversize <- JustR2
    OverloadLimit = 1
    DailyLimit = TRUE
    MayCancel <- JustR1
    WindowPasses = TRUE
SPECIFICATION FairSpec
INVARIANTS
    SlotsAccounted
    WaitersHoldNothing
    AdmittedWithSlots
    CalledOnce
    WaitersAreTracked
PROPERTIES
    EveryRequestEnds
