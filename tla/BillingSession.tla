--------------------------- MODULE BillingSession ---------------------------
(***************************************************************************)
(* The billing session of a relay request (service/billing_session.go over *)
(* service/funding_source.go): what NewBillingSession, Reserve, Settle and *)
(* Refund take from and give back to the four accounts a request touches,  *)
(* the wallet, the GPT wallet, the subscription and the token, while the   *)
(* other requests of the same user run and while database calls fail.      *)
(*                                                                         *)
(* Every database statement is a step of its own, so the check of a        *)
(* balance and the deduction that relies on it interleave with the other   *)
(* requests.  balance[a] is what is left on account a (AmountTotal -       *)
(* AmountUsed for the subscription) and taken[r][a] is the net amount that *)
(* request r has removed from it.                                          *)
(***************************************************************************)
EXTENDS Integers

CONSTANTS
    Requests,     \* the requests of one user, all made with one token
    Cases,        \* what the requests bring to NewBillingSession, with a bound: how many
                  \* database errors may strike them
    Actuals,      \* what a served response may really cost
    Balance0,     \* what is on the four accounts at the start
    TrustQuota,   \* common.GetTrustQuota()
    MaxOpens      \* bound: NewBillingSession calls of a request (the primary
                  \* channel and the fallback channels tried after it)

Accounts == {"wallet", "gpt", "sub", "token"}
Sources == {"wallet", "gpt", "sub"}
Preferences == {"subscription_only", "wallet_only", "wallet_first", "subscription_first"}

Profile == [gptGroup : BOOLEAN, pref : Preferences, playground : BOOLEAN,
            unlimited : BOOLEAN, force : BOOLEAN, free : BOOLEAN, quota : Nat]

ASSUME CasesAssumption == Cases \subseteq [profile : [Requests -> Profile], faults : Nat]
ASSUME ActualsAssumption == Actuals \subseteq Nat
ASSUME Balance0Assumption == Balance0 \in [Accounts -> Nat]
ASSUME BoundsAssumption == TrustQuota \in Int /\ MaxOpens \in Nat

Unheard == "unheard"

\* refundWithRetry's maxAttempts
MaxAttempts == 3

VARIABLES
    profile,    \* profile[r]: the RelayInfo fields that billing reads
    balance,    \* what is left on each account
    subActive,  \* the user's subscription is active and not past its end_time
    record,     \* record[r]: r's subscription_pre_consume_records row
    sess,       \* sess[r]: r's control point and BillingSession
    taken,      \* taken[r][a]: net amount r has removed from account a
    lost,       \* lost[r]: accounts on which an error left r's amount unrepaired, and
                \* Unheard if r's source gave something back and the session was told
                \* that it had not
    faults      \* database errors still to come

vars == <<profile, balance, subActive, record, sess, taken, lost, faults>>

PCs == {"auth", "new", "check", "token", "tokenDec", "fund", "rollback", "failed",
        "free", "freeToken", "active", "reserveToken", "reserveUndo", "adjust",
        "unsettled", "settled", "refundFund", "refundExtra", "refundToken", "returned", "done"}

Session ==
    [pc : PCs, src : Sources, next : Sources \cup {"none"}, opens : Nat, seenToken : Int,
     want : Nat, insufficient : BOOLEAN, actual : Nat, attempts : Nat,
     pre : Nat, tokenConsumed : Nat, fundConsumed : Int, extra : Nat,
     trusted : BOOLEAN, fundingSettled : BOOLEAN, settled : BOOLEAN, refunded : BOOLEAN]

Fresh ==
    [pc |-> "auth", src |-> "wallet", next |-> "none", opens |-> 0, seenToken |-> 0,
     want |-> 0, insufficient |-> FALSE, actual |-> 0, attempts |-> 0,
     pre |-> 0, tokenConsumed |-> 0, fundConsumed |-> 0, extra |-> 0,
     trusted |-> FALSE, fundingSettled |-> FALSE, settled |-> FALSE, refunded |-> FALSE]

TypeOK ==
    /\ profile \in [Requests -> Profile]
    /\ balance \in [Accounts -> Int]
    /\ subActive \in BOOLEAN
    /\ record \in [Requests -> {"none", "consumed", "refunded"}]
    /\ sess \in [Requests -> Session]
    /\ taken \in [Requests -> [Accounts -> Int]]
    /\ lost \in [Requests -> SUBSET (Accounts \cup {Unheard})]
    /\ faults \in Nat

Init ==
    /\ \E case \in Cases : profile = case.profile /\ faults = case.faults
    /\ balance = Balance0
    /\ subActive \in BOOLEAN
    /\ record = [r \in Requests |-> "none"]
    /\ sess = [r \in Requests |-> Fresh]
    /\ taken = [r \in Requests |-> [a \in Accounts |-> 0]]
    /\ lost = [r \in Requests |-> {}]

-----------------------------------------------------------------------------
(* Database statements.                                                    *)

\* UPDATE ... SET quota = quota - amt (amt < 0 gives back).
Move(r, a, amt) ==
    /\ balance' = [balance EXCEPT ![a] = @ - amt]
    /\ taken' = [taken EXCEPT ![r][a] = @ + amt]

\* A statement that does nothing, and one that returns an error.
NoMove == UNCHANGED <<balance, taken>>
DbError == faults > 0 /\ faults' = faults - 1
DbOk == faults' = faults

\* An error the code can only log: the amount stays where it is.
Lose(r, a) == lost' = [lost EXCEPT ![r] = @ \cup {a}]

\* A deduction is reported as an error: it was not made, or it was and the
\* answer is lost; what was taken then stays taken.
Unanswered(r, a, amt, possible) ==
    /\ DbError
    /\ \/ NoMove /\ UNCHANGED lost
       \/ possible /\ Move(r, a, amt) /\ Lose(r, a)

\* The request's control point and session become s.
Goto(r, s) == sess' = [sess EXCEPT ![r] = s]

TokenSkipped(r) == profile[r].playground

\* A statement whose failure is only logged, skipped when nothing is due.  A
\* lost answer is logged like any other error.
TryMove(r, a, amt, due) ==
    \/ due /\ Move(r, a, amt) /\ (DbOk \/ DbError) /\ UNCHANGED lost
    \/ due /\ NoMove /\ DbError /\ Lose(r, a)
    \/ ~due /\ NoMove /\ DbOk /\ UNCHANGED lost

-----------------------------------------------------------------------------
(* NewBillingSession: choose the sources, then try them in order.          *)

\* The auth middleware stores the token's remaining quota on the context.
Authenticate(r) ==
    /\ sess[r].pc = "auth"
    /\ Goto(r, [sess[r] EXCEPT !.pc = "new", !.seenToken = balance["token"]])
    /\ UNCHANGED <<profile, balance, subActive, record, taken, lost, faults>>

\* The source tried first, and the one tried if the first is short of quota:
\* a GPT group overrides the user's preference and has no second source.
FirstSource(r) ==
    CASE profile[r].gptGroup -> "gpt"
      [] ~profile[r].gptGroup /\ profile[r].pref \in {"wallet_only", "wallet_first"} -> "wallet"
      [] ~profile[r].gptGroup /\ profile[r].pref = "subscription_only" -> "sub"
      [] OTHER -> IF subActive THEN "sub" ELSE "wallet"

SecondSource(r) ==
    CASE ~profile[r].gptGroup /\ profile[r].pref = "wallet_first" -> "sub"
      [] ~profile[r].gptGroup /\ profile[r].pref = "subscription_first" /\ subActive -> "wallet"
      [] OTHER -> "none"

\* ensureRelayPreConsume: a free model opens no session; otherwise
\* NewBillingSession picks the order (HasActiveUserSubscription may fail).
Open(r) ==
    /\ sess[r].pc = "new"
    /\ sess[r].opens < MaxOpens
    /\ \/ /\ profile[r].free
          /\ Goto(r, [sess[r] EXCEPT !.pc = "free"])
          /\ DbOk
       \/ /\ ~profile[r].free
          /\ Goto(r, [sess[r] EXCEPT !.pc = "check", !.src = FirstSource(r),
                                     !.next = SecondSource(r), !.opens = @ + 1])
          /\ DbOk
       \/ /\ ~profile[r].free /\ ~profile[r].gptGroup
          /\ profile[r].pref = "subscription_first"
          /\ Goto(r, [sess[r] EXCEPT !.pc = "failed", !.opens = @ + 1])
          /\ DbError
    /\ UNCHANGED <<profile, balance, subActive, record, taken, lost>>

\* The error of this attempt goes to the caller; only an insufficient-quota
\* error lets NewBillingSession try the next source.  The session of the
\* attempt is dropped.
GiveUp(r, insufficient) ==
    LET again == insufficient /\ sess[r].next # "none"
    IN  Goto(r, [Fresh EXCEPT !.pc = IF again THEN "check" ELSE "failed",
                              !.src = IF again THEN sess[r].next ELSE @,
                              !.opens = sess[r].opens,
                              !.seenToken = sess[r].seenToken])

\* shouldTrust, on the user quota just read and the token quota seen at
\* authentication; only the wallet is ever trusted.
ShouldTrust(r, src) ==
    /\ ~profile[r].force
    /\ TrustQuota > 0
    /\ profile[r].unlimited \/ sess[r].seenToken > TrustQuota
    /\ src = "wallet"
    /\ balance["wallet"] > TrustQuota

\* subConsume: the subscription is asked for at least 1.
Wanted(r, src) ==
    IF src = "sub" /\ profile[r].quota = 0 THEN 1 ELSE profile[r].quota

\* tryWallet, tryGptWallet and trySubscription up to the token step.
CheckFunds(r) ==
    /\ sess[r].pc = "check"
    /\ LET src == sess[r].src
           short == /\ src # "sub"
                    /\ balance[src] <= 0 \/ balance[src] - profile[r].quota < 0
       IN  \/ /\ ~short
              /\ Goto(r, [sess[r] EXCEPT
                    !.pc = "token", !.trusted = ShouldTrust(r, src),
                    !.want = IF ShouldTrust(r, src) THEN 0 ELSE Wanted(r, src)])
              /\ DbOk
           \/ short /\ GiveUp(r, TRUE) /\ DbOk
           \/ src # "sub" /\ GiveUp(r, FALSE) /\ DbError
    /\ UNCHANGED <<profile, balance, subActive, record, taken, lost>>

\* PreConsumeTokenQuota, the read: the playground has no token.
CheckToken(r) ==
    /\ sess[r].pc = "token"
    /\ LET skip == sess[r].want = 0 \/ TokenSkipped(r)
           short == ~profile[r].unlimited /\ balance["token"] < sess[r].want
       IN  \/ /\ skip
              /\ Goto(r, [sess[r] EXCEPT !.pc = "fund", !.tokenConsumed = sess[r].want])
              /\ DbOk
           \/ ~skip /\ ~short /\ Goto(r, [sess[r] EXCEPT !.pc = "tokenDec"]) /\ DbOk
           \/ ~skip /\ short /\ GiveUp(r, FALSE) /\ DbOk
           \/ ~skip /\ GiveUp(r, FALSE) /\ DbError
    /\ UNCHANGED <<profile, balance, subActive, record, taken, lost>>

\* PreConsumeTokenQuota, the deduction: unconditional, whatever happened since
\* the read.
TakeToken(r) ==
    /\ sess[r].pc = "tokenDec"
    /\ \/ /\ Move(r, "token", sess[r].want)
          /\ Goto(r, [sess[r] EXCEPT !.pc = "fund", !.tokenConsumed = sess[r].want])
          /\ DbOk /\ UNCHANGED lost
       \/ Unanswered(r, "token", sess[r].want, TRUE) /\ GiveUp(r, FALSE)
    /\ UNCHANGED <<profile, subActive, record>>

\* Mutant: the caller's preConsumedQuota is booked, not the amount asked for.
OpenedAsEstimated(r) ==
    Goto(r, [sess[r] EXCEPT !.pc = "active", !.pre = profile[r].quota, !.fundConsumed = sess[r].want])

\* funding.PreConsume took (or found) the amount: the session is open.
Opened(r) ==
    Goto(r, [sess[r] EXCEPT !.pc = "active", !.pre = sess[r].want, !.fundConsumed = sess[r].want])

FundFailed(r, insufficient) ==
    Goto(r, [sess[r] EXCEPT !.pc = "rollback", !.insufficient = insufficient])

\* Mutant: the GPT wallet is deducted without the balance check in the WHERE.
TakeWalletUnchecked(r) ==
    /\ sess[r].pc = "fund" /\ sess[r].src # "sub"
    /\ Move(r, sess[r].src, sess[r].want) /\ Opened(r) /\ DbOk
    /\ UNCHANGED <<profile, subActive, record, lost>>

\* WalletFunding.PreConsume (unconditional) and GptWalletFunding.PreConsume
\* (WHERE gpt_quota >= amount).
TakeWallet(r) ==
    /\ sess[r].pc = "fund" /\ sess[r].src # "sub"
    /\ LET short == sess[r].src = "gpt" /\ balance["gpt"] < sess[r].want
       IN  \/ sess[r].want = 0 /\ NoMove /\ Opened(r) /\ DbOk /\ UNCHANGED lost
           \/ /\ sess[r].want > 0 /\ ~short
              /\ Move(r, sess[r].src, sess[r].want) /\ Opened(r) /\ DbOk /\ UNCHANGED lost
           \/ sess[r].want > 0 /\ short /\ NoMove /\ FundFailed(r, FALSE) /\ DbOk /\ UNCHANGED lost
           \/ /\ sess[r].want > 0
              /\ Unanswered(r, sess[r].src, sess[r].want, ~short) /\ FundFailed(r, FALSE)
    /\ UNCHANGED <<profile, subActive, record>>

\* PreConsumeUserSubscription, one transaction keyed by the request id: an
\* existing record is answered without charging again.  The transaction may
\* commit and the answer be lost.
TakeSubscription(r) ==
    /\ sess[r].pc = "fund" /\ sess[r].src = "sub"
    /\ LET fits == subActive /\ balance["sub"] >= sess[r].want
       IN  \/ /\ record[r] = "consumed"
              /\ Opened(r) /\ NoMove /\ DbOk
              /\ lost' = [lost EXCEPT ![r] = @ \ {"sub"}]
              /\ UNCHANGED record
           \/ /\ record[r] = "none" /\ fits
              /\ Move(r, "sub", sess[r].want)
              /\ record' = [record EXCEPT ![r] = "consumed"]
              /\ \/ Opened(r) /\ DbOk /\ UNCHANGED lost
                 \/ FundFailed(r, FALSE) /\ DbError /\ Lose(r, "sub")
           \/ /\ record[r] = "none" /\ ~fits
              /\ FundFailed(r, TRUE) /\ NoMove /\ DbOk
              /\ UNCHANGED <<record, lost>>
           \/ /\ \E insufficient \in BOOLEAN : FundFailed(r, insufficient)
              /\ NoMove /\ DbError
              /\ UNCHANGED <<record, lost>>
    /\ UNCHANGED <<profile, subActive>>

\* Mutant: a failed funding source does not give the token back.
RollbackTokenForgotten(r) ==
    /\ sess[r].pc = "rollback"
    /\ NoMove /\ DbOk /\ UNCHANGED lost
    /\ GiveUp(r, sess[r].insufficient)
    /\ UNCHANGED <<profile, subActive, record>>

\* preConsume's rollback of the token deduction.
RollbackToken(r) ==
    /\ sess[r].pc = "rollback"
    /\ TryMove(r, "token", -sess[r].tokenConsumed,
               ~TokenSkipped(r) /\ sess[r].tokenConsumed > 0)
    /\ GiveUp(r, sess[r].insufficient)
    /\ UNCHANGED <<profile, subActive, record>>

\* A fallback channel is tried after the pre-consume failed: it calls
\* ensureRelayPreConsume again, with the same request id.
Reopen(r) ==
    /\ sess[r].pc = "failed"
    /\ sess[r].opens < MaxOpens
    /\ Goto(r, [sess[r] EXCEPT !.pc = "new"])
    /\ UNCHANGED <<profile, balance, subActive, record, taken, lost, faults>>

-----------------------------------------------------------------------------
(* The open session.                                                       *)

\* Reserve(target): the funding source first ...
Reserve(r, target) ==
    /\ sess[r].pc = "active"
    /\ ~sess[r].trusted
    /\ target > sess[r].pre
    /\ LET src == sess[r].src
           delta == target - sess[r].pre
           short == src \in {"gpt", "sub"} /\ balance[src] < delta
       IN  \/ /\ ~short
              /\ Move(r, src, delta) /\ DbOk /\ UNCHANGED lost
              /\ Goto(r, [sess[r] EXCEPT
                    !.pc = "reserveToken", !.want = delta,
                    !.fundConsumed = IF src = "sub" THEN @ ELSE @ + delta])
           \/ short /\ NoMove /\ DbOk /\ UNCHANGED <<sess, lost>>
           \/ Unanswered(r, src, delta, ~short) /\ UNCHANGED sess
    /\ UNCHANGED <<profile, subActive, record>>

\* ... then the token ...
ReserveToken(r) ==
    /\ sess[r].pc = "reserveToken"
    /\ LET s == sess[r]
           short == ~profile[r].unlimited /\ balance["token"] < s.want
           booked == [s EXCEPT !.pc = "active", !.pre = @ + s.want,
                               !.tokenConsumed = @ + s.want, !.extra = @ + s.want]
       IN  \/ TokenSkipped(r) /\ NoMove /\ DbOk /\ Goto(r, booked) /\ UNCHANGED lost
           \/ /\ ~TokenSkipped(r) /\ ~short
              /\ Move(r, "token", s.want) /\ DbOk /\ Goto(r, booked) /\ UNCHANGED lost
           \/ /\ ~TokenSkipped(r)
              /\ Goto(r, [sess[r] EXCEPT !.pc = "reserveUndo"])
              /\ \/ short /\ NoMove /\ DbOk /\ UNCHANGED lost
                 \/ Unanswered(r, "token", s.want, ~short)
    /\ UNCHANGED <<profile, subActive, record>>

\* ... and rollbackFundingReserve when the token refused.  What a wallet is to
\* be given back at a refund is lowered only when the undo is answered.
ReserveUndo(r) ==
    /\ sess[r].pc = "reserveUndo"
    /\ \/ /\ Move(r, sess[r].src, -sess[r].want) /\ DbOk /\ UNCHANGED lost
          /\ Goto(r, [sess[r] EXCEPT
                !.pc = "active",
                !.fundConsumed = IF sess[r].src = "sub" THEN @ ELSE @ - sess[r].want])
       \/ /\ NoMove /\ DbError /\ Lose(r, sess[r].src)
          /\ Goto(r, [sess[r] EXCEPT !.pc = "active"])
       \/ /\ Move(r, sess[r].src, -sess[r].want) /\ DbError
          /\ lost' = [lost EXCEPT ![r] =
                @ \cup IF sess[r].src = "sub" THEN {} ELSE {sess[r].src, Unheard}]
          /\ Goto(r, [sess[r] EXCEPT !.pc = "active"])
    /\ UNCHANGED <<profile, subActive, record>>

\* Settle(actual): nothing to do when the pre-consumed amount was right,
\* otherwise funding.Settle first.  The subscription refuses a delta beyond
\* its total; the wallets always take it.  If the answer is lost the session
\* stays unsettled although the source has changed.
Settle(r, actual) ==
    /\ sess[r].pc = "active"
    /\ LET src == sess[r].src
           delta == actual - sess[r].pre
           short == src = "sub" /\ delta > 0 /\ balance["sub"] < delta
       IN  \/ /\ delta = 0 /\ NoMove /\ DbOk /\ UNCHANGED lost
              /\ Goto(r, [sess[r] EXCEPT !.pc = "settled", !.actual = actual,
                                      !.settled = TRUE])
           \/ /\ delta # 0 /\ ~short /\ Move(r, src, delta) /\ DbOk /\ UNCHANGED lost
              /\ Goto(r, [sess[r] EXCEPT !.pc = "adjust", !.actual = actual,
                                      !.fundingSettled = TRUE])
           \/ /\ delta # 0
              /\ Goto(r, [sess[r] EXCEPT !.pc = "unsettled", !.actual = actual])
              /\ \/ short /\ NoMove /\ DbOk /\ UNCHANGED lost
                 \/ NoMove /\ DbError /\ UNCHANGED lost
                 \/ /\ ~short /\ Move(r, src, delta) /\ DbError
                    /\ lost' = [lost EXCEPT ![r] = @ \cup {src} \cup IF delta < 0 THEN {Unheard} ELSE {}]
    /\ UNCHANGED <<profile, subActive, record>>

\* Settle, the token half: an error is only logged.
SettleToken(r) ==
    /\ sess[r].pc = "adjust"
    /\ TryMove(r, "token", sess[r].actual - sess[r].pre, ~TokenSkipped(r))
    /\ Goto(r, [sess[r] EXCEPT !.pc = "settled", !.settled = TRUE])
    /\ UNCHANGED <<profile, subActive, record>>

\* SettleBilling without a session (a free model): PostConsumeQuota takes the
\* whole cost from the wallet, then from the token.
SettleFree(r, actual) ==
    /\ sess[r].pc = "free"
    /\ \/ /\ actual # 0 /\ Move(r, "wallet", actual) /\ DbOk /\ UNCHANGED lost
          /\ Goto(r, [sess[r] EXCEPT !.pc = "freeToken", !.actual = actual])
       \/ /\ actual = 0 /\ NoMove /\ DbOk /\ UNCHANGED lost
          /\ Goto(r, [sess[r] EXCEPT !.pc = "done"])
       \/ /\ actual # 0 /\ Unanswered(r, "wallet", actual, TRUE)
          /\ Goto(r, [sess[r] EXCEPT !.pc = "done"])
    /\ UNCHANGED <<profile, subActive, record>>

SettleFreeToken(r) ==
    /\ sess[r].pc = "freeToken"
    /\ TryMove(r, "token", sess[r].actual, ~TokenSkipped(r))
    /\ Goto(r, [sess[r] EXCEPT !.pc = "done"])
    /\ UNCHANGED <<profile, subActive, record>>

\* The handler answered: the request ends whether or not Settle succeeded.
Complete(r) ==
    /\ sess[r].pc \in {"settled", "unsettled"}
    /\ Goto(r, [sess[r] EXCEPT !.pc = "done"])
    /\ UNCHANGED <<profile, balance, subActive, record, taken, lost, faults>>

-----------------------------------------------------------------------------
(* Refund, called when the request ends with an error.                     *)

\* Mutant: a committed settlement does not stop the refund.
NeedsRefundAlways(r) == sess[r].tokenConsumed > 0

NeedsRefund(r) ==
    /\ ~(sess[r].settled \/ sess[r].refunded \/ sess[r].fundingSettled)
    /\ sess[r].tokenConsumed > 0 \/ (sess[r].src = "sub" /\ sess[r].fundConsumed > 0)

\* Refund marks the session and hands the work to a goroutine.
Refund(r) ==
    /\ sess[r].pc \in {"active", "unsettled", "settled"}
    /\ IF NeedsRefund(r)
       THEN Goto(r, [sess[r] EXCEPT !.pc = "refundFund", !.refunded = TRUE])
       ELSE Goto(r, [sess[r] EXCEPT !.pc = "returned"])
    /\ UNCHANGED <<profile, balance, subActive, record, taken, lost, faults>>

\* Mutant: the wallet refund is retried like the subscription's.
RefundWalletRetried(r) ==
    /\ sess[r].pc = "refundFund" /\ sess[r].src # "sub"
    /\ Move(r, sess[r].src, -sess[r].fundConsumed)
    /\ \/ DbOk /\ Goto(r, [sess[r] EXCEPT !.pc = "refundExtra"])
       \/ DbError /\ UNCHANGED sess
    /\ UNCHANGED <<profile, subActive, record, lost>>

\* funding.Refund of the wallets: one attempt, because the statement is not
\* idempotent.
RefundWallet(r) ==
    /\ sess[r].pc = "refundFund" /\ sess[r].src # "sub"
    /\ TryMove(r, sess[r].src, -sess[r].fundConsumed, sess[r].fundConsumed > 0)
    /\ Goto(r, [sess[r] EXCEPT !.pc = "refundExtra"])
    /\ UNCHANGED <<profile, subActive, record>>

\* RefundSubscriptionPreConsume under refundWithRetry: a transaction that does
\* nothing when the record is already refunded.  It may fail, or commit with
\* the answer lost; either way it is tried up to MaxAttempts times.
RefundSubscription(r) ==
    /\ sess[r].pc = "refundFund" /\ sess[r].src = "sub"
    /\ LET apply == IF record[r] = "consumed"
                    THEN /\ Move(r, "sub", -sess[r].fundConsumed)
                         /\ record' = [record EXCEPT ![r] = "refunded"]
                    ELSE NoMove /\ UNCHANGED record
           again == sess[r].attempts + 1 < MaxAttempts
           next == [sess[r] EXCEPT !.attempts = @ + 1,
                                   !.pc = IF again THEN "refundFund" ELSE "refundExtra"]
       IN  \/ apply /\ DbOk /\ UNCHANGED lost
              /\ Goto(r, [sess[r] EXCEPT !.pc = "refundExtra"])
           \/ apply /\ DbError /\ UNCHANGED lost /\ Goto(r, next)
           \/ /\ NoMove /\ DbError /\ UNCHANGED record /\ Goto(r, next)
              /\ IF again \/ record[r] = "refunded" THEN UNCHANGED lost ELSE Lose(r, "sub")
    /\ UNCHANGED <<profile, subActive>>

\* Mutants: the reserved amount is forgotten; the goroutine stops when there
\* is none.
RefundExtraForgotten(r) ==
    /\ sess[r].pc = "refundExtra"
    /\ NoMove /\ DbOk /\ UNCHANGED lost
    /\ Goto(r, [sess[r] EXCEPT !.pc = "refundToken"])
    /\ UNCHANGED <<profile, subActive, record>>

RefundExtraOrStop(r) ==
    /\ sess[r].pc = "refundExtra"
    /\ sess[r].extra > 0
    /\ NoMove /\ DbOk /\ UNCHANGED lost
    /\ Goto(r, [sess[r] EXCEPT !.pc = "refundToken"])
    /\ UNCHANGED <<profile, subActive, record>>

\* The subscription amount added by Reserve is not in the record: it is given
\* back by a delta of its own.
RefundExtra(r) ==
    /\ sess[r].pc = "refundExtra"
    /\ TryMove(r, "sub", -sess[r].extra, sess[r].extra > 0 /\ sess[r].src = "sub")
    /\ Goto(r, [sess[r] EXCEPT !.pc = "refundToken"])
    /\ UNCHANGED <<profile, subActive, record>>

RefundToken(r) ==
    /\ sess[r].pc = "refundToken"
    /\ TryMove(r, "token", -sess[r].tokenConsumed,
               sess[r].tokenConsumed > 0 /\ ~TokenSkipped(r))
    /\ Goto(r, [sess[r] EXCEPT !.pc = "done"])
    /\ UNCHANGED <<profile, subActive, record>>

\* ExpireDueSubscriptions, seen from billing.
ExpireSubscription ==
    /\ subActive
    /\ subActive' = FALSE
    /\ UNCHANGED <<profile, balance, record, sess, taken, lost, faults>>

Finished == \A r \in Requests : sess[r].pc \in {"done", "failed", "returned"}
AllDone == Finished /\ UNCHANGED vars

-----------------------------------------------------------------------------
(* The specification.                                                      *)

OpenSession(r) ==
    \/ Authenticate(r) \/ Open(r) \/ CheckFunds(r) \/ CheckToken(r) \/ TakeToken(r)
    \/ TakeWallet(r) \/ TakeSubscription(r) \/ RollbackToken(r) \/ Reopen(r)

UseSession(r) ==
    \/ \E target \in Actuals : Reserve(r, target)
    \/ ReserveToken(r) \/ ReserveUndo(r)
    \/ \E actual \in Actuals : Settle(r, actual)
    \/ SettleToken(r)
    \/ \E actual \in Actuals : SettleFree(r, actual)
    \/ SettleFreeToken(r) \/ Complete(r) \/ Refund(r)

\* The goroutine that Refund starts.
RefundGoroutine(r) ==
    RefundWallet(r) \/ RefundSubscription(r) \/ RefundExtra(r) \/ RefundToken(r)

Next ==
    \/ \E r \in Requests : OpenSession(r) \/ UseSession(r) \/ RefundGoroutine(r)
    \/ ExpireSubscription
    \/ AllDone

\* gopool runs every goroutine it is given.
Fairness == \A r \in Requests : WF_vars(RefundGoroutine(r))

Spec == Init /\ [][Next]_vars
FairSpec == Spec /\ Fairness

-----------------------------------------------------------------------------
(* Properties.                                                             *)

\* On every account no error has struck, r has taken exactly amt from its
\* funding source and from its token, and nothing from anywhere else.
Holds(r, amt) ==
    \A a \in Accounts \ lost[r] :
        taken[r][a] = IF a = sess[r].src \/ (a = "token" /\ ~profile[r].playground)
                      THEN amt ELSE 0

\* preConsumedQuota is what an open session really holds, on the funding
\* source and on the token alike, whichever sources were tried before and
\* whatever Reserve did: Settle computes its delta from that figure.
OpenHoldsPreConsumed ==
    \A r \in Requests : sess[r].pc \in {"active", "unsettled"} => Holds(r, sess[r].pre)

\* A settled session has paid what the response really cost, no more and no
\* less (Settle's two halves and the pre-consumed amount add up).
SettledPaysActual ==
    \A r \in Requests : sess[r].settled => Holds(r, sess[r].actual)

\* A request that ended in an error without a settlement has nothing left on
\* any account, the amounts added by Reserve included: either Refund's
\* goroutine has ended, or needsRefundLocked was right that there was nothing.
ErrorHoldsNothing ==
    \A r \in Requests :
        \/ sess[r].pc = "done" /\ sess[r].refunded
        \/ sess[r].pc = "returned" /\ ~sess[r].fundingSettled /\ ~sess[r].settled
        => Holds(r, 0)

\* A request that NewBillingSession refuses has paid nothing, after any number
\* of sources and of calls ("atomic rollback" in preConsume's comment).
FailedHoldsNothing ==
    \A r \in Requests : sess[r].pc = "failed" => Holds(r, 0)

\* No account is given back more than the request took from it, whatever errors,
\* lost answers and retries happen on the way, with one exception: the funding
\* source, if it gave something back in Settle or in the undo of a Reserve and
\* the answer was lost.  The session counts that amount as still held, and the
\* deferred Refund gives it back again.
NeverOverRefunded ==
    \A r \in Requests, a \in Accounts :
        taken[r][a] < 0 => Unheard \in lost[r] /\ a = sess[r].src

\* Only Settle may drive the GPT wallet below zero: pre-consuming and
\* reserving carry the balance check in the statement itself.
GptOverdrawnOnlyBySettle ==
    [][balance'["gpt"] < balance["gpt"] /\ balance'["gpt"] < 0
        => \E r \in Requests : sess[r].pc = "active" /\ sess'[r].pc \in {"adjust", "unsettled"}]_vars

\* A refund that was started is carried to its end.
RefundEnds ==
    \A r \in Requests : sess[r].refunded ~> sess[r].pc = "done"

-----------------------------------------------------------------------------
(* The inductive invariant: what a request holds at every control point,   *)
(* as a predicate on the request's own state (p, s, rec, t, l stand for    *)
(* profile[r], sess[r], record[r], taken[r] and lost[r]).                  *)

BeforeOpen == {"auth", "new", "check", "token", "tokenDec", "fund", "rollback", "failed", "free"}
InSession == {"active", "unsettled", "reserveToken", "reserveUndo"}
InRefund == {"refundFund", "refundExtra", "refundToken"}

\* The amount on account a when the funding source has given f and the token
\* k (the playground has no token).
Due(p, s, a, f, k) ==
    IF a = s.src THEN f ELSE IF a = "token" /\ ~p.playground THEN k ELSE 0

\* The accounts have given that, exactly where no error struck ...
Exactly(p, s, t, l, f, k) == \A a \in Accounts \ l : t[a] = Due(p, s, a, f, k)

\* ... and at least that everywhere, so that it can be given back, unless the
\* source gave something back unheard.
Balanced(p, s, t, l, f, k) ==
    /\ Exactly(p, s, t, l, f, k)
    /\ \A a \in Accounts : t[a] >= Due(p, s, a, f, k) \/ (Unheard \in l /\ a = s.src)

LedgerOf(p, s, rec, t, l) ==
    /\ \A a \in Accounts : t[a] >= 0 \/ (Unheard \in l /\ a = s.src)
    /\ s.pc \in BeforeOpen \cup {"freeToken"} => Unheard \notin l
    /\ Unheard \in l => s.src \in l
    /\ s.pc \in BeforeOpen \ {"fund", "rollback"} => Balanced(p, s, t, l, 0, 0)
    /\ s.pc \in {"fund", "rollback"} => Balanced(p, s, t, l, 0, s.tokenConsumed)
    /\ s.pc \in {"active", "unsettled"} => Balanced(p, s, t, l, s.pre, s.pre)
    /\ s.pc \in {"reserveToken", "reserveUndo"} => Balanced(p, s, t, l, s.pre + s.want, s.pre)
    /\ s.pc = "adjust" => Balanced(p, s, t, l, s.actual, s.pre)
    /\ s.pc = "freeToken" => Balanced(p, s, t, l, s.actual, 0)
    /\ s.pc = "refundFund" /\ s.src # "sub"
          => Balanced(p, s, t, l, s.fundConsumed, s.tokenConsumed)
    /\ s.pc = "refundFund" /\ s.src = "sub" /\ rec = "consumed"
          => Balanced(p, s, t, l, s.fundConsumed + s.extra, s.tokenConsumed)
    /\ s.pc = "refundFund" /\ s.src = "sub" /\ rec # "consumed"
          => Balanced(p, s, t, l, s.extra, s.tokenConsumed)
    /\ s.pc = "refundExtra" /\ s.src # "sub" => Balanced(p, s, t, l, 0, s.tokenConsumed)
    /\ s.pc = "refundExtra" /\ s.src = "sub" => Balanced(p, s, t, l, s.extra, s.tokenConsumed)
    /\ s.pc = "refundToken" => Balanced(p, s, t, l, 0, s.tokenConsumed)
    /\ s.settled => Exactly(p, s, t, l, s.actual, s.actual)
    /\ s.pc = "done" /\ s.refunded => Exactly(p, s, t, l, 0, 0)
    /\ s.pc = "returned" /\ ~s.fundingSettled /\ ~s.settled => Exactly(p, s, t, l, 0, 0)

FlagsOf(s) ==
    /\ s.pc \in BeforeOpen \cup InSession \cup {"freeToken"}
          => ~s.settled /\ ~s.refunded /\ ~s.fundingSettled
    /\ s.pc = "adjust" => ~s.settled /\ ~s.refunded
    /\ s.pc = "settled" => s.settled /\ ~s.refunded
    /\ s.pc \in InRefund => s.refunded /\ ~s.settled
    /\ s.pc = "returned" => ~s.refunded
    /\ ~(s.settled /\ s.refunded)

\* The session's own figures agree with one another and with the record.
SessionOf(p, s, rec, t, l) ==
    /\ s.pc \in {"auth", "new", "failed", "free", "freeToken"} => s.src = "wallet"
    /\ s.pc \in {"token", "tokenDec", "fund"} /\ s.src = "sub"
          => s.want = (IF p.quota = 0 THEN 1 ELSE p.quota)
    /\ s.pc \in BeforeOpen /\ rec = "consumed"
          => t["sub"] = (IF p.quota = 0 THEN 1 ELSE p.quota)
    /\ s.pc \in BeforeOpen => s.extra = 0 /\ (rec = "consumed" \/ "sub" \notin l)
    /\ s.pc = "tokenDec" => ~p.playground
    /\ s.pc = "fund" => s.tokenConsumed = s.want
    /\ s.pc \in InSession => s.tokenConsumed = s.pre
    /\ s.pc \in InSession /\ s.src = "sub" => rec = "consumed" /\ s.fundConsumed + s.extra = s.pre
    /\ s.pc \in InSession \cup {"refundFund"} => s.fundConsumed >= 0
    /\ s.pc \in {"active", "unsettled"} /\ s.src # "sub"
          => /\ t[s.src] >= s.fundConsumed \/ Unheard \in l
             /\ s.fundConsumed >= s.pre
             /\ s.src \notin l => s.fundConsumed = s.pre
    /\ s.pc \in {"reserveToken", "reserveUndo"} /\ s.src # "sub"
          => /\ t[s.src] >= s.fundConsumed \/ Unheard \in l
             /\ s.fundConsumed >= s.pre + s.want
             /\ s.src \notin l => s.fundConsumed = s.pre + s.want

RequestInv(r) ==
    /\ LedgerOf(profile[r], sess[r], record[r], taken[r], lost[r])
    /\ FlagsOf(sess[r])
    /\ SessionOf(profile[r], sess[r], record[r], taken[r], lost[r])

LedgerInv == \A r \in Requests : RequestInv(r)
=============================================================================
