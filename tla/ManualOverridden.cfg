\* A probed channel, two workers, three events, no fault.
SPECIFICATION Spec
CONSTANTS
    Channels = {channel}
    Probings <- AllProbed
    MaxCallCount <- OneCall
    Workers = {w1, w2}
    MaxEvents = 3
    MaxFaults = 0
PROPERTIES AdministratorDecides
CHECK_DEADLOCK FALSE
