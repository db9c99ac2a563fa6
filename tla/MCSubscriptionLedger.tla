------------------------ MODULE MCSubscriptionLedger ------------------------
(* A special plan for one group, a normal one for all but guests, and a larger one that   *)
(* ends last: two requests share one of the first two, or one request finds all of them.  *)
EXTENDS SubscriptionLedger

CONSTANTS r1, r2

SpecialPlan == [special |-> TRUE, groups |-> {"vip"}, denied |-> {}, total |-> 0, weekly |-> 0, reset |-> 0,
                hours |-> 1, weeks |-> 2, hourLimit |-> 1, weekLimit |-> 2, end |-> 3]
NormalPlan == [special |-> FALSE, groups |-> {}, denied |-> {"guest"}, total |-> 1, weekly |-> 2, reset |-> 1,
               hours |-> 1, weeks |-> 1, hourLimit |-> 0, weekLimit |-> 0, end |-> 8]
LargePlan == [NormalPlan EXCEPT !.total = 2, !.weekly = 0, !.reset = 0, !.end = 9]
Plans == <<SpecialPlan, NormalPlan, LargePlan>>
Shared == {[subs |-> {1}, requests |-> {r1, r2}], [subs |-> {2}, requests |-> {r1, r2}],
           [subs |-> {1, 2, 3}, requests |-> {r1}]}
=============================================================================
