\* Two users, two changes of one unit, two refills at a time, one fault.
SPECIFICATION Spec
CONSTANTS
    Users = {u1, u2}
    Amounts = {1}
    Initial = 1
    BatchModes <- WithAndWithout
    MaxOps = 2
    MaxRefills = 2
    MaxFaults = 1
PROPERTIES ImplementsAccount CacheConverges
CHECK_DEADLOCK FALSE
