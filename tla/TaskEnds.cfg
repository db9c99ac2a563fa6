CONSTANTS
    p1 = p1
    p2 = p2
    u1 = u1
    c1 = c1
    Quota <- Charged
    Estimate <- Estimated
    Actual <- Costs
    SweepLimit = 100
    NumTasks = 2
    Pollers <- OnePoller
    Fetchers <- OneUser
    Channels <- OneChannel
    Channel <- OnC1
    Suno <- Task2
    Realtime <- Task1
    Tokened <- AllTasks
    Legacy <- Task2
    SweepEnabled = TRUE
    QueryLimit = 1
    MaxErrors = 0
    MaxCrashes = 0
SPECIFICATION FairSpec
INVARIANTS
    FailedIsRefunded

    
