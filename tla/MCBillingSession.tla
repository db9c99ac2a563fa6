-------------------------- MODULE MCBillingSession --------------------------
(* Instances of BillingSession for TLC, with balances of a few units so    *)
(* that every check can fail.                                              *)
EXTENDS BillingSession

CONSTANTS r1, r2

Ordinary(pref, quota) ==
    [gptGroup |-> FALSE, pref |-> pref, playground |-> FALSE, unlimited |-> FALSE,
     force |-> FALSE, free |-> FALSE, quota |-> quota]

Balances(wallet, gpt, sub, token) ==
    [a \in Accounts |-> CASE a = "wallet" -> wallet [] a = "gpt" -> gpt
                          [] a = "sub" -> sub [] a = "token" -> token]

MCTrustQuota == 3

\* Refused at once, for want of quota.
Refused == Ordinary("wallet_only", 9)

\* One request that matters and several database errors: each preference, a GPT
\* group, the playground, an unlimited token, a forced pre-consume, a free model,
\* and a pre-consumed quota of 0.
AllProfiles ==
    {Ordinary("subscription_first", 2),
     Ordinary("wallet_first", 2),
     Ordinary("wallet_first", 5),
     [Ordinary("subscription_only", 0) EXCEPT !.playground = TRUE],
     [Ordinary("wallet_only", 2) EXCEPT !.force = TRUE],
     [Ordinary("wallet_only", 0) EXCEPT !.unlimited = TRUE],
     [Ordinary("wallet_only", 2) EXCEPT !.gptGroup = TRUE],
     [Ordinary("wallet_only", 2) EXCEPT !.free = TRUE]}
FaultCases == {[profile |-> [r \in {r1, r2} |-> IF r = r1 THEN p ELSE Refused], faults |-> 3] : p \in AllProfiles}

\* Two requests that race for the same accounts, without database errors.
RacingProfiles ==
    {Ordinary("subscription_first", 2),
     Ordinary("wallet_only", 2),
     [Ordinary("wallet_only", 2) EXCEPT !.gptGroup = TRUE]}
RacingCases == {[profile |-> p, faults |-> 0] : p \in [{r1, r2} -> RacingProfiles]}

AllCases == FaultCases \union RacingCases
FewActuals == {0, 1, 3}
FewUnits == Balances(4, 3, 5, 4)
=============================================================================
