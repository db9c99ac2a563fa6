\* A request turns the week while the task resets it.
SPECIFICATION Spec
CONSTANTS
    Subs = {1, 2, 3}
    Plan <- Plans
    r1 = r1
    r2 = r2
    Requests = {r1, r2}
    Cases <- Shared
    Groups = {"vip", "default", "guest"}
    Amounts = {1, 2}
    Changes = {1}
    Week = 1
    MaxTime = 2
    MaxDeltas = 1
    MaxOvertaken = 1
PROPERTY WeeklyResetSafe
CHECK_DEADLOCK FALSE
