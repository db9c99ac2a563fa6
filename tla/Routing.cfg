\* A channel of one call, probed or not, two workers, three events, one fault.
SPECIFICATION Spec
CONSTANTS
    Channels = {channel}
    Probings <- AnyProbing
    MaxCallCount <- OneCall
    Workers = {w1, w2}
    MaxEvents = 3
    MaxFaults = 1
INVARIANTS RoutesAgree
PROPERTIES EverythingEnds CacheHeals
CHECK_DEADLOCK FALSE
