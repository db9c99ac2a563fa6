-------------------------- MODULE MCRelayAdmission --------------------------
(* Instances of RelayAdmission for TLC.                                    *)
EXTENDS RelayAdmission, TLC

CONSTANTS r1, r2, a, b, f, g

TwoRequests == {r1, r2}
OnlyA == {a}
OnlyB == {b}
AB == {a, b}
TwoFallbacks == <<f, g>>

\* Limits: in the mixed instance a has both, f only concurrency, b and g only RPM.
AllButF == [c \in Channels |-> IF c = f THEN 0 ELSE 1]
AAndF == [c \in Channels |-> IF c \in {a, f} THEN 1 ELSE 0]

EveryChannel == [r \in Requests |-> Primary]
JustR1 == {r1}
JustR2 == {r2}
=============================================================================
