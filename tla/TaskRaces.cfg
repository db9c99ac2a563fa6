CONSTANTS
    p1 = p1
    p2 = p2
    u1 = u1
    c1 = c1
    Quota <- Charged
    Estimate <- Estimated
    Actual <- Costs
    SweepLimit = 100
    NumTasks = 1
    Pollers <- TwoPollers
    Fetchers <- None
    Channels <- OneChannel
    Channel <- OnC1
    Suno <- None
    Realtime <- None
    Tokened <- AllTasks
    Legacy <- None
    SweepEnabled = TRUE
    QueryLimit = 100
    MaxErrors = 2
    MaxCrashes = 1
SPECIFICATION Spec
INVARIANTS
    NeverRefundedTwice
    FailedIsRefunded
    SucceededPaysCost
PROPERTIES
    TerminalIsFinal
SYMMETRY PollerSymmetry
