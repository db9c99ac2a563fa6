\* Three attempts, two quits and three windows, every order of events.
SPECIFICATION Spec
CONSTANTS
    DevModes <- Both
    Platforms <- AllPlatforms
    MaxRetries = 3
    MaxQuits = 2
    Windows = {w1, w2, w3}
INVARIANTS NoOrphanServer NeverUnreachable MainWindowExists AttemptsBounded
PROPERTIES QuitEnds StartSettles
CHECK_DEADLOCK FALSE
