------------------------- MODULE SubscriptionLedger -------------------------
(***************************************************************************)
(* The usage a user's subscriptions keep (model/subscription.go): the total *)
(* with its reset period, the weekly limit of normal plans, and the hourly  *)
(* and weekly buckets of special plans.  Requests pre-consume, reserve,     *)
(* settle and refund while time passes and the maintenance task of          *)
(* service/subscription_reset_task.go works through its lists.              *)
(*                                                                          *)
(* A transaction is two steps, its reads and its commit, and computes what  *)
(* it writes from what it read: the FOR UPDATE of the code is given as the  *)
(* option gorm:query_option, which gorm v2 ignores, so that nothing is      *)
(* locked in between.  The database may also refuse it (SQLite does, when   *)
(* another one committed in between).  Plans do not change and records are  *)
(* not cleaned up.                                                          *)
(***************************************************************************)
EXTENDS Integers, FiniteSets, FiniteSetsExt

CONSTANTS
    Subs,         \* ids of the subscriptions of one user
    Plan,         \* Plan[s]: the plan of s, see PlanType
    Requests,
    Groups,       \* target groups of requests
    Amounts,      \* amounts of pre-consumption
    Changes,      \* amounts of reservations, settlements and adjustments
    Cases,        \* the subscriptions that are active and the requests they are charged for, at the start
    Week,         \* seven days, in units of the clock
    MaxTime,      \* bound: the clock
    MaxDeltas,    \* bound: reservations, settlements and adjustments of a request
    MaxOvertaken  \* bound: transactions on a subscription that save what has changed since they read it

(* total, weekly, hourLimit and weekLimit are 0 when unlimited; reset is 0 for   *)
(* "never"; hours and weeks are the lengths of the windows of a special plan;    *)
(* groups is empty for a plan that serves every group but the denied ones.       *)
PlanType == [special : BOOLEAN, groups : SUBSET Groups, denied : SUBSET Groups,
             total : Nat, weekly : Nat, reset : Nat, hours : Nat \ {0}, weeks : Nat \ {0},
             hourLimit : Nat, weekLimit : Nat, end : Nat \ {0}]

ASSUME SubsAssumption == Subs \subseteq Nat \ {0}
ASSUME PlanAssumption == Plan \in [Subs -> PlanType]
ASSUME AmountsAssumption == Amounts \union Changes \subseteq Nat \ {0}
ASSUME TimeAssumption == Week \in Nat \ {0} /\ MaxTime \in Nat \ {0} /\ MaxDeltas \in Nat /\ MaxOvertaken \in Nat
ASSUME CasesAssumption == Cases \subseteq [subs : SUBSET Subs, requests : SUBSET Requests]
ASSUME RequestsAssumption == IsFiniteSet(Requests)

VARIABLES
    now,          \* GetDBTimestamp; subscriptions start at 1
    row,          \* UserSubscription
    bucket,       \* SubscriptionUsageBucket by type and period_start
    record,       \* SubscriptionPreConsumeRecord
    session,      \* what the billing session of a request remembers
    view,         \* the transaction of a request: its timestamp and what it read
    task,         \* the maintenance task: its list, its timestamp and its transaction
    resets,       \* history: how often the total of a subscription was reset
    overtaken     \* history: how often a subscription was saved although it had changed since it was read

vars == <<now, row, bucket, record, session, view, task, resets, overtaken>>

Start == 1
None == 0         \* no bucket, no subscription, no reset any more
NoRow == <<>>
Kinds == {"hour", "week"}
AtLeast0(n) == IF n < 0 THEN 0 ELSE n

(***************************************************************************)
(* Periods                                                                  *)
(***************************************************************************)
(* calcNextResetTime *)
CalcNext(s, base) ==
    IF Plan[s].reset = 0 \/ base + Plan[s].reset > Plan[s].end THEN None ELSE base + Plan[s].reset

(* The resets of s that fell due after its last one. *)
Missed(s, r, at) ==
    IF Plan[s].reset = 0 THEN {}
    ELSE {t \in (r.last + 1) .. at : t <= Plan[s].end /\ (t - r.last) % Plan[s].reset = 0}

(* maybeResetUserSubscriptionWithPlanTx *)
MaybeReset(s, r, at) ==
    IF r.next > at \/ Missed(s, r, at) = {} THEN r
    ELSE LET base == Max(Missed(s, r, at))
         IN  [r EXCEPT !.used = 0, !.last = base, !.next = CalcNext(s, base)]

(* maybeResetWeeklyQuotaTx *)
MaybeResetWeekly(s, r, at) ==
    IF Plan[s].weekly = 0 \/ r.weekEnd > at THEN r
    ELSE [r EXCEPT !.weekly = 0, !.weekEnd = @ + Week * ((at - @) \div Week + 1)]

(* What transaction v makes of the row of s before it looks at the limits. *)
Refreshed(s, v) == MaybeResetWeekly(s, MaybeReset(s, v.row[s], v.at), v.at)

(* What the row of s is then: a reset of the total saves every column it read, one *)
(* of the week only its own.                                                       *)
Rewritten(s, v) ==
    IF Refreshed(s, v).last # v.row[s].last THEN Refreshed(s, v)
    ELSE IF Refreshed(s, v) # v.row[s] THEN [row[s] EXCEPT !.weekly = 0, !.weekEnd = Refreshed(s, v).weekEnd]
    ELSE row[s]

(* specialBucketWindow and getSpecialUsageBucketTx: the start of the window, None *)
(* for the weekly window in the last days of the subscription.                    *)
Window(s, kind, at) ==
    LET length == IF kind = "hour" THEN Plan[s].hours ELSE Plan[s].weeks * Week
        first == Start + ((at - Start) \div length) * length
        partial == Plan[s].end - at < length \/ first + length > Plan[s].end
    IN  IF ~Plan[s].special \/ (kind = "week" /\ partial) THEN None ELSE first

(* adjustUsageBucketByIdTx and the same lines of PostConsumeUserSubscriptionDelta *)
InBuckets(s, v, win, d) ==
    [bucket EXCEPT ![s] = [k \in Kinds |-> [t \in DOMAIN bucket[s][k] |->
        IF t = win[k] /\ t # None THEN AtLeast0(v.bucket[s][k][t] + d) ELSE bucket[s][k][t]]]]

Windows(s, at) == [k \in Kinds |-> Window(s, k, at)]

FirstRow(s, active) ==
    [used |-> 0, weekly |-> 0, last |-> Start, next |-> CalcNext(s, Start),
     weekEnd |-> Start + Week, hourly |-> TRUE, active |-> active]
NoBuckets == [s \in Subs |-> [k \in Kinds |-> [t \in 0 .. MaxTime |-> 0]]]
NoTask == [doing |-> "totals", listed |-> {}, at |-> Start, running |-> FALSE, sub |-> None, row |-> NoRow]
NoView == [open |-> FALSE, at |-> Start, row |-> [s \in Subs |-> FirstRow(s, FALSE)], bucket |-> NoBuckets]

(* A request that the wallet pays for stays "elsewhere". *)
Init ==
    /\ now = Start
    /\ \E c \in Cases :
           /\ row = [s \in Subs |-> FirstRow(s, s \in c.subs)]
           /\ session = [r \in Requests |-> [phase |-> IF r \in c.requests THEN "idle" ELSE "elsewhere",
                                             extra |-> 0, deltas |-> 0]]
    /\ bucket = NoBuckets
    /\ record = [r \in Requests |-> [status |-> "none", sub |-> None, pre |-> 0,
                                     win |-> [k \in Kinds |-> None]]]
    /\ view = [r \in Requests |-> NoView]
    /\ task = NoTask
    /\ resets = [s \in Subs |-> 0]
    /\ overtaken = [s \in Subs |-> 0]

(***************************************************************************)
(* The transaction of a request                                             *)
(***************************************************************************)
HasWork(r) ==
    \/ session[r].phase \in {"idle", "open"}
    \/ session[r].phase = "settled" /\ session[r].deltas < MaxDeltas
    \/ session[r].phase = "refunding" /\ (record[r].status = "consumed" \/ session[r].extra > 0)

(* Before it has a record a request looks at every subscription, then only at its own. *)
Reads(r, s) == record[r].sub \in {s, None}

Begin(r) ==
    /\ ~view[r].open /\ HasWork(r)
    /\ view' = [view EXCEPT ![r] =
                   [open |-> TRUE, at |-> now,
                    row |-> [s \in Subs |-> IF Reads(r, s) THEN row[s] ELSE FirstRow(s, FALSE)],
                    bucket |-> [s \in Subs |-> IF Reads(r, s) THEN bucket[s] ELSE NoBuckets[s]]]]
    /\ UNCHANGED <<now, row, bucket, record, session, task, resets, overtaken>>

(* No subscription has room, a total would be exceeded, or the database refuses. *)
Refuse(r) ==
    /\ view[r].open
    /\ view' = [view EXCEPT ![r] = NoView]
    /\ UNCHANGED <<now, row, bucket, record, session, task, resets, overtaken>>

Stale(s, v) == v.row[s] # row[s] \/ v.bucket[s] # bucket[s]

Overtake(stale) ==
    /\ \A s \in stale : overtaken[s] < MaxOvertaken
    /\ overtaken' = [s \in Subs |-> overtaken[s] + (IF s \in stale THEN 1 ELSE 0)]

(* The commit of a transaction that saves the rows of the given subscriptions. *)
Commit(r, written) ==
    /\ view' = [view EXCEPT ![r] = NoView]
    /\ Overtake({s \in written : Stale(s, view[r])})

(***************************************************************************)
(* PreConsumeUserSubscription                                               *)
(***************************************************************************)
(* subscriptionPlanMatchesGroup *)
Serves(s, g) == g \notin Plan[s].denied /\ (Plan[s].groups = {} \/ g \in Plan[s].groups)
Restricted(s) == Plan[s].groups # {}

Usable(s, v, g) == v.row[s].active /\ Plan[s].end > v.at /\ Serves(s, g)

(* Restricted subscriptions first, then the one that ends first. *)
Before(s, t) ==
    IF Restricted(s) # Restricted(t) THEN Restricted(s)
    ELSE Plan[s].end < Plan[t].end \/ (Plan[s].end = Plan[t].end /\ s < t)

Fits(limit, used, n) == limit = 0 \/ limit - used >= n

HasRoom(s, v, n) ==
    LET win == Windows(s, v.at)
        r == Refreshed(s, v)
        byHour == r.hourly \/ win["week"] = None
    IN  IF ~Plan[s].special
        THEN Fits(Plan[s].total, r.used, n) /\ Fits(Plan[s].weekly, r.weekly, n)
        ELSE IF byHour THEN Fits(Plan[s].hourLimit, v.bucket[s]["hour"][win["hour"]], n)
                       ELSE Fits(Plan[s].weekLimit, v.bucket[s]["week"][win["week"]], n)

(* The subscriptions tried before s stay refreshed. *)
Tried(s, v, g) == {t \in Subs : Usable(t, v, g) /\ Before(t, s)}

Chosen(s, v, g, n) ==
    /\ Usable(s, v, g) /\ HasRoom(s, v, n)
    /\ \A t \in Tried(s, v, g) : ~HasRoom(t, v, n)

Consumed(s, v, n) ==
    [Refreshed(s, v) EXCEPT !.used = @ + n,
                            !.weekly = IF ~Plan[s].special /\ Plan[s].weekly > 0 THEN @ + n ELSE @]

(* A transaction that refreshed these subscriptions counts the resets it made. *)
NewResets(seen, v) ==
    [t \in Subs |-> resets[t] + (IF t \in seen /\ Refreshed(t, v).last # v.row[t].last THEN 1 ELSE 0)]

Consume(r, s, g, n) ==
    LET v == view[r]
        tried == Tried(s, v, g)
    IN  /\ row' = [t \in Subs |-> IF t = s THEN Consumed(s, v, n)
                                  ELSE IF t \in tried THEN Rewritten(t, v) ELSE row[t]]
        /\ resets' = NewResets(tried \union {s}, v)
        /\ bucket' = InBuckets(s, v, Windows(s, v.at), n)
        /\ record' = [record EXCEPT ![r] = [status |-> "consumed", sub |-> s, pre |-> n,
                                            win |-> Windows(s, v.at)]]
        /\ session' = [session EXCEPT ![r].phase = "open"]
        /\ Commit(r, {s} \union {t \in tried : Refreshed(t, v) # v.row[t]})
        /\ UNCHANGED <<now, task>>

(* A request whose record exists gets the answer it got before. *)
PreConsume(r, g, n) ==
    /\ view[r].open
    /\ session[r].phase \in {"idle", "open"}
    /\ record[r].status = "none"
    /\ \E s \in Subs : Chosen(s, view[r], g, n) /\ Consume(r, s, g, n)

(***************************************************************************)
(* PostConsumeUserSubscriptionDelta: no reset, current buckets, and an error *)
(* when a normal plan would exceed its total.                               *)
(***************************************************************************)
(* Mutant: the total is not checked. *)
ExceedsNever(s, v, d) == FALSE

Exceeds(s, v, d) == ~Plan[s].special /\ Plan[s].total > 0 /\ v.row[s].used + d > Plan[s].total

Adjusted(s, v, d) ==
    [v.row[s] EXCEPT !.used = AtLeast0(@ + d),
                     !.weekly = IF ~Plan[s].special /\ Plan[s].weekly > 0 THEN AtLeast0(@ + d) ELSE @]

PostConsume(r, s, d) ==
    LET v == view[r] IN
    /\ v.open /\ ~Exceeds(s, v, d)
    /\ bucket' = InBuckets(s, v, Windows(s, v.at), d)
    /\ row' = [row EXCEPT ![s] = Adjusted(s, v, d)]
    /\ Commit(r, {s})
    /\ UNCHANGED <<now, record, task, resets>>

(* What a request is charged at the moment. *)
Charge(r) == session[r].extra + (IF record[r].status = "consumed" THEN record[r].pre ELSE 0)

Change(r, d, phase) ==
    /\ PostConsume(r, record[r].sub, d)
    /\ session' = [session EXCEPT ![r] = [phase |-> phase, extra |-> @.extra + d, deltas |-> @.deltas + 1]]

Signed == Changes \union {-n : n \in Changes}

(* BillingSession.Reserve *)
Reserve(r, d) ==
    /\ session[r].phase = "open" /\ session[r].deltas < MaxDeltas
    /\ Change(r, d, "open")

(* SubscriptionFunding.Settle; with an error the session stays unsettled. *)
Settle(r, d) ==
    /\ session[r].phase = "open" /\ session[r].deltas < MaxDeltas /\ Charge(r) + d >= 0
    /\ Change(r, d, "settled")

SettleExactly(r) ==
    /\ session[r].phase = "open" /\ ~view[r].open
    /\ session' = [session EXCEPT ![r].phase = "settled"]
    /\ UNCHANGED <<now, row, bucket, record, view, task, resets, overtaken>>

(* taskAdjustFunding: the poller settles or refunds an asynchronous task later. *)
AdjustTask(r, d) ==
    /\ session[r].phase = "settled" /\ session[r].deltas < MaxDeltas /\ Charge(r) + d >= 0
    /\ Change(r, d, "settled")

(***************************************************************************)
(* BillingSession.Refund: the record's refund, repeated by refundWithRetry   *)
(* also when only the answer was lost, and then the reserved amount.        *)
(***************************************************************************)
BeginRefund(r) ==
    /\ session[r].phase = "open" /\ ~view[r].open
    /\ session' = [session EXCEPT ![r].phase = "refunding"]
    /\ UNCHANGED <<now, row, bucket, record, view, task, resets, overtaken>>

Returned(s, v, n) == [v.row[s] EXCEPT !.used = AtLeast0(@ - n)]

(* Mutant: the record is not marked. *)
RefundRecordAgain(r) ==
    LET rec == record[r]
        v == view[r]
    IN  /\ v.open /\ session[r].phase = "refunding" /\ rec.status = "consumed"
        /\ bucket' = InBuckets(rec.sub, v, rec.win, -rec.pre)
        /\ row' = [row EXCEPT ![rec.sub] = Returned(rec.sub, v, rec.pre)]
        /\ Commit(r, {rec.sub})
        /\ UNCHANGED <<now, session, task, resets, record>>

(* Mutant: the buckets of the record are forgotten. *)
RefundRecordTotal(r) ==
    LET rec == record[r]
        v == view[r]
    IN  /\ v.open /\ session[r].phase = "refunding" /\ rec.status = "consumed"
        /\ row' = [row EXCEPT ![rec.sub] = Returned(rec.sub, v, rec.pre)]
        /\ record' = [record EXCEPT ![r].status = "refunded"]
        /\ Commit(r, {rec.sub})
        /\ UNCHANGED <<now, bucket, session, task, resets>>

(* RefundSubscriptionPreConsume and adjustSubscriptionUsageByRecordTx *)
RefundRecord(r) ==
    LET rec == record[r]
        v == view[r]
    IN  /\ v.open /\ session[r].phase = "refunding" /\ rec.status = "consumed"
        /\ bucket' = InBuckets(rec.sub, v, rec.win, -rec.pre)
        /\ row' = [row EXCEPT ![rec.sub] = Returned(rec.sub, v, rec.pre)]
        /\ record' = [record EXCEPT ![r].status = "refunded"]
        /\ Commit(r, {rec.sub})
        /\ UNCHANGED <<now, session, task, resets>>

ReturnReserved(r) ==
    /\ session[r].phase = "refunding" /\ session[r].extra > 0
    /\ Change(r, -session[r].extra, "refunding")

(***************************************************************************)
(* The maintenance task: ExpireDueSubscriptions, then a list of due rows and *)
(* one transaction for each of them, which reads the row again and leaves it *)
(* alone when it is not due any more.  A round that finds nothing to do      *)
(* changes nothing.  Expiry is one step with the list: requests look at the  *)
(* end of a subscription as well as its status.                              *)
(***************************************************************************)
DueTotal(s, at) == row[s].next # None /\ row[s].next <= at
DueWeekly(s, at) == Plan[s].weekly > 0 /\ row[s].weekEnd <= at

Listing(doing, listed) ==
    [doing |-> doing, listed |-> listed, at |-> now, running |-> TRUE, sub |-> None, row |-> NoRow]

ListTotals ==
    LET kept == [s \in Subs |-> row[s].active /\ Plan[s].end > now]
    IN  /\ ~task.running
        /\ row' = [s \in Subs |-> [row[s] EXCEPT !.active = kept[s]]]
        /\ task' = Listing("totals", {s \in Subs : kept[s] /\ DueTotal(s, now)})
        /\ \E s \in Subs : row[s].active # kept[s] \/ (kept[s] /\ (DueTotal(s, now) \/ DueWeekly(s, now)))
        /\ UNCHANGED <<now, bucket, record, session, view, resets, overtaken>>

ListWeekly ==
    /\ task.running /\ task.doing = "totals" /\ task.listed = {} /\ task.sub = None
    /\ task' = Listing("weekly", {s \in Subs : row[s].active /\ DueWeekly(s, now)})
    /\ UNCHANGED <<now, row, bucket, record, session, view, resets, overtaken>>

(* The transaction reads the row of the next subscription. *)
ReadAgain(s) ==
    LET due == IF task.doing = "totals" THEN DueTotal(s, task.at) ELSE DueWeekly(s, task.at)
    IN  /\ task.running /\ task.sub = None /\ s \in task.listed
        /\ task' = [task EXCEPT !.listed = @ \ {s}, !.sub = IF due THEN s ELSE None,
                                !.row = IF due THEN row[s] ELSE NoRow]
        /\ UNCHANGED <<now, row, bucket, record, session, view, resets, overtaken>>

EndReset == task' = [task EXCEPT !.sub = None, !.row = NoRow]

(* Mutant: the period is not advanced. *)
ResetTotalInPlace(s) ==
    /\ task.running /\ task.doing = "totals" /\ task.sub = s
    /\ row' = [row EXCEPT ![s] = [task.row EXCEPT !.used = 0]]
    /\ resets' = [resets EXCEPT ![s] = @ + 1]
    /\ Overtake(IF task.row # row[s] THEN {s} ELSE {})
    /\ EndReset
    /\ UNCHANGED <<now, bucket, record, session, view>>

ResetTotal(s) ==
    /\ task.running /\ task.doing = "totals" /\ task.sub = s
    /\ row' = [row EXCEPT ![s] = MaybeReset(s, task.row, task.at)]
    /\ resets' = [resets EXCEPT ![s] = @ + (IF row'[s].last # task.row.last THEN 1 ELSE 0)]
    /\ Overtake(IF task.row # row[s] THEN {s} ELSE {})
    /\ EndReset
    /\ UNCHANGED <<now, bucket, record, session, view>>

(* Mutant: the week is not advanced. *)
ResetWeeklyInPlace(s) ==
    /\ task.running /\ task.doing = "weekly" /\ task.sub = s
    /\ row' = [row EXCEPT ![s].weekly = 0]
    /\ EndReset
    /\ UNCHANGED <<now, bucket, record, session, view, resets, overtaken>>

(* Only the columns of the week are written. *)
ResetWeekly(s) ==
    /\ task.running /\ task.doing = "weekly" /\ task.sub = s
    /\ row' = [row EXCEPT ![s].weekly = 0, ![s].weekEnd = MaybeResetWeekly(s, task.row, task.at).weekEnd]
    /\ EndReset
    /\ UNCHANGED <<now, bucket, record, session, view, resets, overtaken>>

(* The database refuses the transaction, since another one committed: the round ends. *)
TaskFails ==
    /\ task.running /\ task.sub # None /\ task.row # row[task.sub]
    /\ task' = NoTask
    /\ UNCHANGED <<now, row, bucket, record, session, view, resets, overtaken>>

EndTask ==
    /\ task.running /\ task.doing = "weekly" /\ task.listed = {} /\ task.sub = None
    /\ task' = NoTask
    /\ UNCHANGED <<now, row, bucket, record, session, view, resets, overtaken>>

(* The user switches between the limits of a special plan. *)
SwitchLimit(s) ==
    /\ Plan[s].special /\ row[s].active /\ Plan[s].end > now
    /\ row' = [row EXCEPT ![s].hourly = ~@]
    /\ UNCHANGED <<now, bucket, record, session, view, task, resets, overtaken>>

Tick ==
    /\ now < MaxTime
    /\ now' = now + 1
    /\ UNCHANGED <<row, bucket, record, session, view, task, resets, overtaken>>

Request == \E r \in Requests :
              \/ Begin(r) \/ Refuse(r)
              \/ \E g \in Groups, n \in Amounts : PreConsume(r, g, n)
              \/ \E d \in Changes : Reserve(r, d)
              \/ \E d \in Signed : Settle(r, d) \/ AdjustTask(r, d)
              \/ SettleExactly(r) \/ BeginRefund(r) \/ RefundRecord(r) \/ ReturnReserved(r)
Maintain == ListTotals \/ ListWeekly \/ TaskFails \/ EndTask
               \/ \E s \in Subs : ReadAgain(s) \/ ResetTotal(s) \/ ResetWeekly(s)

Next == Request \/ Maintain \/ Tick \/ \E s \in Subs : SwitchLimit(s)

(* The task runs on a ticker of a minute; no request need succeed. *)
Spec == Init /\ [][Next]_vars /\ WF_vars(Maintain)

(***************************************************************************)
(* Properties                                                               *)
(***************************************************************************)
RowType == [used : Nat, weekly : Nat, last : Nat, next : Nat, weekEnd : Nat,
            hourly : BOOLEAN, active : BOOLEAN]
BucketType == [Subs -> [Kinds -> [0 .. MaxTime -> Nat]]]
RecordType == [status : {"none", "consumed", "refunded"}, sub : Subs \union {None},
               pre : Nat, win : [Kinds -> 0 .. MaxTime]]
SessionType == [phase : {"elsewhere", "idle", "open", "settled", "refunding"}, extra : Int, deltas : Nat]
ViewType == [open : BOOLEAN, at : Start .. MaxTime, row : [Subs -> RowType], bucket : BucketType]
TaskType == [doing : {"totals", "weekly"}, listed : SUBSET Subs, at : Nat, running : BOOLEAN,
             sub : Subs \union {None}, row : RowType \union {NoRow}]

(* Every variable has the values the code gives it. *)
TypeOK ==
    /\ now \in Start .. MaxTime
    /\ row \in [Subs -> RowType]
    /\ bucket \in BucketType
    /\ record \in [Requests -> RecordType]
    /\ session \in [Requests -> SessionType]
    /\ view \in [Requests -> ViewType]
    /\ task \in TaskType
    /\ resets \in [Subs -> Nat]
    /\ overtaken \in [Subs -> Nat]

(* The sum of f, for natural numbers: the size of a disjoint union. *)
Total(f) == Cardinality(UNION {{r} \X (1 .. f[r]) : r \in Requests})

Held(s) == Total([r \in Requests |-> IF record[r].sub = s THEN Charge(r) ELSE 0])

(* As long as no transaction saved a row or a bucket that another one had changed  *)
(* after it was read (SQLite refuses that, MySQL and PostgreSQL do not), a         *)
(* subscription is not charged for more than its requests hold, neither in the     *)
(* total nor in a bucket of the moment: a repeated pre-consume, a refund in a      *)
(* later period (it goes to the buckets of the record), a settlement after a reset *)
(* (it goes to those of the settlement) and the clamping at zero leave no usage    *)
(* behind that would refuse the next request.                                      *)
NotOvercharged ==
    \A s \in Subs : overtaken[s] = 0 =>
        /\ row[s].used <= Held(s)
        /\ \A k \in Kinds : Window(s, k, now) # None => bucket[s][k][Window(s, k, now)] <= Held(s)

(* As long as no such transaction was overtaken and nothing was reset, the total   *)
(* is exactly what the requests hold: no refund is given twice and no usage is     *)
(* forgotten.                                                                      *)
ExactUntilReset == \A s \in Subs : overtaken[s] = 0 /\ resets[s] = 0 => row[s].used = Held(s)

(* The total of a normal plan is never exceeded, also by requests that pre-consumed  *)
(* together and settle for more, and also when one update of two is lost.            *)
WithinTotal == \A s \in Subs : ~Plan[s].special /\ Plan[s].total > 0 => row[s].used <= Plan[s].total

(* The requests and the task together reset a total at most once per period, as long *)
(* as no transaction on the subscription was overtaken between its read and its write. *)
ResetOncePerPeriod ==
    \A s \in Subs : overtaken[s] = 0 /\ Plan[s].reset > 0 => resets[s] <= (now - Start) \div Plan[s].reset

(* The weekly usage of an active subscription does not stay in a week that is over. *)
WeekTurns == \A s \in Subs : DueWeekly(s, now) ~> (~DueWeekly(s, now) \/ ~row[s].active)

(* RefundSubscriptionPreConsume "refunds pre-consumed subscription quota": what  *)
(* was refunded does not count against the weekly limit either.                  *)
WeeklyNotOvercharged ==
    \A s \in Subs : ~Plan[s].special /\ Plan[s].weekly > 0 => row[s].weekly <= Held(s)

(* ResetDueWeeklyQuotas uses "the FOR UPDATE transaction pattern ..., which makes it  *)
(* safe under concurrency": it leaves the usage of a week alone that a request began. *)
WeeklyResetSafe ==
    [][\A s \in Subs : ResetWeekly(s) /\ ~DueWeekly(s, task.at) => row'[s].weekly = row[s].weekly]_vars
=============================================================================
