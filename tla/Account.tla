------------------------------ MODULE Account ------------------------------
(***************************************************************************)
(* What the quota of a user promises: every credit and every deduction that *)
(* was accepted changes the balance by its amount, once.  A fault of the    *)
(* database or of the process may lose amounts; nothing else changes what   *)
(* was accepted in total.                                                   *)
(***************************************************************************)
EXTENDS Integers

CONSTANTS
    Users,
    Deltas     \* amounts, negative for a deduction

VARIABLES
    balance,   \* what each user may spend
    accepted,  \* the sum of the changes accepted for each user
    lost       \* what was accepted for each user and then lost

Init ==
    /\ balance \in [Users -> Int]
    /\ accepted = [u \in Users |-> 0]
    /\ lost = [u \in Users |-> 0]

Book(u, d) ==
    /\ balance' = [balance EXCEPT ![u] = @ + d]
    /\ accepted' = [accepted EXCEPT ![u] = @ + d]
    /\ UNCHANGED lost

Lose ==
    /\ lost' \in [Users -> Int]
    /\ balance' = [u \in Users |-> balance[u] + lost[u] - lost'[u]]
    /\ UNCHANGED accepted

Next == (\E u \in Users, d \in Deltas : Book(u, d)) \/ Lose

Spec == Init /\ [][Next]_<<balance, accepted, lost>>
=============================================================================
