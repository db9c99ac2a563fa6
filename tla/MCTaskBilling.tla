--------------------------- MODULE MCTaskBilling ---------------------------
(* Instances of TaskBilling for TLC.                                       *)
EXTENDS TaskBilling, TLC

CONSTANTS p1, p2, u1, c1

OnePoller == {p1}
TwoPollers == {p1, p2}
OneUser == {u1}
OneChannel == {c1}
None == {}
Task1 == {1}
Task2 == {2}
AllTasks == Tasks

OnC1 == [t \in Tasks |-> c1]

\* Task 1 costs more in the end than it was charged, task 2 less.
Charged == [t \in Tasks |-> 2]
Estimated == [t \in Tasks |-> 1]
Costs == [t \in Tasks |-> IF t = 1 THEN 3 ELSE 1]

PollerSymmetry == Permutations(TwoPollers)
=============================================================================
