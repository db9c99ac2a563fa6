---------------------------- MODULE TaskBilling ----------------------------
(***************************************************************************)
(* The life of an asynchronous task (a song, a video) after the upstream   *)
(* accepted it: RelayTask records it with the quota it was charged, the    *)
(* polling loop of every master node asks the upstream how it is doing,    *)
(* a sweep fails what is too old, and the end of the task settles or       *)
(* refunds its quota (service/task_polling.go, service/task_billing.go,    *)
(* model/task.go).  A user who looks at a Gemini or Vertex task makes      *)
(* relay/relay_task.go ask the upstream and write the row, too.            *)
(*                                                                         *)
(* A step is one database statement or one upstream call.  Pollers share   *)
(* nothing but the database: each works on copies it read when its round   *)
(* began.                                                                  *)
(***************************************************************************)
EXTENDS Integers, FiniteSets

CONSTANTS
    NumTasks,
    Pollers,        \* processes that run TaskPollingLoop
    Fetchers,       \* requests of users that look at a task
    Channels,
    Channel,        \* Channel[t]: where t was submitted
    Suno,           \* tasks of the Suno platform, the others are videos
    Realtime,       \* videos on Gemini or Vertex channels
    Tokened,        \* tasks with a TokenId
    Legacy,         \* tasks submitted before legacyTaskCutoff
    Quota,          \* Quota[t]: result.Quota, recorded as task.Quota
    Estimate,       \* Estimate[t]: what was pre-consumed before the submission
    Actual,         \* Actual[t]: cost computed at completion, 0 keeps Quota[t]
    SweepEnabled,   \* constant.TaskTimeoutMinutes > 0
    SweepLimit,     \* 100 in the code
    QueryLimit,     \* constant.TaskQueryLimit
    MaxErrors,      \* bound: failing statements
    MaxCrashes      \* bound: polling processes that die

Tasks == 1 .. NumTasks
NoTask == 0
NoChannel == "no channel"

ASSUME TasksAssumption ==
    /\ NumTasks \in Nat
    /\ IsFiniteSet(Pollers)
    /\ Channel \in [Tasks -> Channels] /\ NoChannel \notin Channels
    /\ Suno \subseteq Tasks /\ Realtime \subseteq Tasks \ Suno
    /\ Tokened \subseteq Tasks /\ Legacy \subseteq Tasks
    /\ Quota \in [Tasks -> Nat] /\ Estimate \in [Tasks -> Nat] /\ Actual \in [Tasks -> Nat]
ASSUME BoundsAssumption ==
    /\ SweepEnabled \in BOOLEAN
    /\ SweepLimit \in Nat \ {0} /\ QueryLimit \in Nat \ {0}
    /\ MaxErrors \in Nat /\ MaxCrashes \in Nat

VARIABLES
    row,        \* row[t]: the status of t in the database, and whether progress is 100%
    fund,       \* fund[t], tok[t]: what t has taken from its funding source and its
    tok,        \*   token, less what was given back
    upstream,   \* upstream[t]: how the provider is doing with t
    aged,       \* tasks submitted before the cutoff of the sweep
    gone,       \* channels an administrator deleted
    poller,     \* poller[p]: control point and locals of p's polling loop
    fetcher,    \* fetcher[u]: locals of tryRealtimeFetch
    excuse,     \* history: excuse[t], what happened to t that the code only logs
    errors, crashes

vars == <<row, fund, tok, upstream, aged, gone, poller, fetcher, excuse, errors, crashes>>
ledger == <<fund, tok>>
world == <<upstream, aged, gone>>

\* NOT_START stands for SUBMITTED and QUEUED as well: what the compare-and-set
\* tells apart is two unfinished states.
Unfinished == {"NOT_START", "IN_PROGRESS"}
Terminal == {"SUCCESS", "FAILURE"}
Statuses == Unfinished \cup Terminal
Row == [status : Statuses \cup {"absent", "unrecorded"}, full : BOOLEAN]
Excuses == {"unsettled", "logged", "legacy", "bulk", "crash"}

PCs == {"sleep", "sweep", "poll", "batch", "write", "funding", "token", "save"}
Poller ==
    [pc : PCs, ret : {"sweep", "batch", "save"},
     todo : [Tasks -> Statuses \cup {"none"}],
     chan : Channels \cup {NoChannel},
     task : Tasks \cup {NoTask},
     new : Statuses \cup {"REASON"},
     delta : Int]
Asleep ==
    [pc |-> "sleep", ret |-> "sweep", todo |-> [t \in Tasks |-> "none"],
     chan |-> NoChannel, task |-> NoTask, new |-> "NOT_START", delta |-> 0]

NoFetch == [task |-> NoTask, snap |-> "NOT_START", new |-> "NOT_START"]
Fetcher == [task : Tasks \cup {NoTask}, snap : Statuses, new : Statuses]

Init ==
    /\ row = [t \in Tasks |-> [status |-> "absent", full |-> FALSE]]
    /\ fund = [t \in Tasks |-> 0]
    /\ tok = [t \in Tasks |-> 0]
    /\ upstream = [t \in Tasks |-> "IN_PROGRESS"]
    /\ aged = {}
    /\ gone = {}
    /\ poller = [p \in Pollers |-> Asleep]
    /\ fetcher = [u \in Fetchers |-> NoFetch]
    /\ excuse = [t \in Tasks |-> {}]
    /\ errors = 0
    /\ crashes = 0

-----------------------------------------------------------------------------
\* Statements of the database.

Works == UNCHANGED errors
DbError == errors < MaxErrors /\ errors' = errors + 1

Excuse(t, why) == excuse' = [excuse EXCEPT ![t] = @ \cup {why}]
ExcuseIf(t, cond, why) == IF cond THEN Excuse(t, why) ELSE UNCHANGED excuse

\* Mutant: RowsAffected is not looked at.
WinsAlways(t, from) == TRUE

\* UpdateWithStatus: the row is written only if its status is still the one read.
Wins(t, from) == row[t].status = from

\* Mutant: the update without its WHERE clause.
CasUnguarded(t, from, to) == [row EXCEPT ![t] = [status |-> to, full |-> to \in Terminal]]

Cas(t, from, to) ==
    IF Wins(t, from) THEN [row EXCEPT ![t] = [status |-> to, full |-> to \in Terminal]] ELSE row

\* ORDER BY id LIMIT n.
FirstOf(S, n) == {t \in S : Cardinality({u \in S : u < t}) < n}
Open == {t \in Tasks : row[t].status \in Unfinished /\ ~row[t].full}

GetAllUnFinishSyncTasks == FirstOf(Open, QueryLimit)


GetTimedOutUnfinishedTasks ==
    IF SweepEnabled THEN FirstOf(Open \cap aged, SweepLimit) ELSE {}

\* The copies a poller works on; a failing query returns no tasks.
Reads(p, S, pc) ==
    \E T \in {S, {}} :
        /\ IF T = S THEN Works ELSE DbError
        /\ poller' = [poller EXCEPT ![p] =
             [@ EXCEPT !.pc = pc, !.todo = [t \in Tasks |-> IF t \in T THEN row[t].status ELSE "none"]]]

Pending(p) == {t \in Tasks : poller[p].todo[t] # "none"}
InBatch(p) == {t \in Pending(p) : Channel[t] = poller[p].chan}
IsFirst(t, S) == t \in S /\ \A u \in S : t <= u

\* The poller goes on with its list, or with the write a Suno task still lacks.
GoesOn(l, ret) ==
    IF ret = "save"
    THEN [l EXCEPT !.pc = "save"]
    ELSE [l EXCEPT !.pc = ret, !.todo[l.task] = "none", !.task = NoTask, !.new = "NOT_START", !.delta = 0]

\* What the end of a task asks of its accounts: RefundTaskQuota returns at once
\* when the quota is 0, RecalculateTaskQuota when the cost is what was charged.
Refunded(t) == - Quota[t]

\* Mutant: the whole cost is charged instead of the difference.
SettledInFull(t) == Actual[t]

Settled(t) == IF Actual[t] = 0 THEN 0 ELSE Actual[t] - Quota[t]

Bills(l, t, delta, ret) ==
    LET billing == [l EXCEPT !.pc = "funding", !.task = t, !.delta = delta, !.ret = ret]
    IN  IF delta = 0 THEN GoesOn(billing, ret) ELSE billing

-----------------------------------------------------------------------------
\* Submission.  The statements that charge the task are BillingSession's; here is
\* what they leave behind when they work, when the settlement of the difference
\* to the estimate fails (the error is logged and task.Quota is recorded all the
\* same), and when the row cannot be inserted.
Charge(t, f, k) ==
    /\ fund' = [fund EXCEPT ![t] = f]
    /\ tok' = [tok EXCEPT ![t] = IF t \in Tokened THEN k ELSE 0]

Submit(t) ==
    /\ row[t].status = "absent"
    /\ row' = [row EXCEPT ![t].status = "NOT_START"]
    /\ \/ /\ Charge(t, Quota[t], Quota[t])
          /\ Works
          /\ UNCHANGED excuse
       \/ /\ Estimate[t] # Quota[t]
          /\ Charge(t, Estimate[t], Estimate[t]) \/ Charge(t, Quota[t], Estimate[t])
          /\ DbError
          /\ Excuse(t, "unsettled")
    /\ UNCHANGED <<world, poller, fetcher, crashes>>

SubmitUnrecorded(t) ==
    /\ row[t].status = "absent"
    /\ row' = [row EXCEPT ![t].status = "unrecorded"]
    /\ Charge(t, Quota[t], Quota[t])
    /\ DbError
    /\ UNCHANGED <<world, poller, fetcher, excuse, crashes>>

-----------------------------------------------------------------------------
\* A round of TaskPollingLoop: the sweep, then the list of unfinished tasks.

BeginRound(p) ==
    /\ poller[p].pc = "sleep"
    /\ Reads(p, GetTimedOutUnfinishedTasks, "sweep")
    /\ UNCHANGED <<row, ledger, world, fetcher, excuse, crashes>>

\* Mutant: the sweep refunds only tasks it takes to be legacy.
SweepDueInverted(t, won) == IF won /\ t \in Legacy THEN Refunded(t) ELSE 0

SweepDue(t, won) == IF won /\ t \notin Legacy THEN Refunded(t) ELSE 0

\* One iteration of sweepTimedOutTasks.  A failed UpdateWithStatus may have written.
Sweep(p, t) ==
    /\ poller[p].pc = "sweep"
    /\ IsFirst(t, Pending(p))
    /\ LET from == poller[p].todo[t]
           won == Wins(t, from)
       IN  \/ /\ Works
              /\ row' = Cas(t, from, "FAILURE")
              /\ poller' = [poller EXCEPT ![p] = Bills(@, t, SweepDue(t, won), "sweep")]
              /\ ExcuseIf(t, won /\ t \in Legacy, "legacy")
           \/ /\ DbError
              /\ row' \in {row, Cas(t, from, "FAILURE")}
              /\ poller' = [poller EXCEPT ![p] = Bills(@, t, 0, "sweep")]
              /\ ExcuseIf(t, row' # row, "logged")
    /\ UNCHANGED <<ledger, world, fetcher, crashes>>

EndSweep(p) ==
    /\ poller[p].pc = "sweep"
    /\ Pending(p) = {}
    /\ Reads(p, GetAllUnFinishSyncTasks, "poll")
    /\ UNCHANGED <<row, ledger, world, fetcher, excuse, crashes>>

EndRound(p) ==
    /\ poller[p].pc = "poll"
    /\ Pending(p) = {}
    /\ poller' = [poller EXCEPT ![p] = Asleep]
    /\ UNCHANGED <<row, ledger, world, fetcher, excuse, errors, crashes>>

\* The channel of the next group of tasks is read ...
StartBatch(p, c) ==
    /\ poller[p].pc = "poll"
    /\ \E t \in Pending(p) : Channel[t] = c
    /\ c \notin gone
    /\ poller' = [poller EXCEPT ![p].pc = "batch", ![p].chan = c]
    /\ UNCHANGED <<row, ledger, world, fetcher, excuse, errors, crashes>>

\* ... or cannot be read, and TaskBulkUpdateByID fails all of them.
BulkFail(p, c) ==
    LET failed == {t \in Pending(p) : Channel[t] = c}
    IN  /\ poller[p].pc = "poll"
        /\ failed # {}
        /\ \/ c \in gone /\ Works
           \/ DbError
        /\ \/ row' = [t \in Tasks |-> IF t \in failed THEN [status |-> "FAILURE", full |-> TRUE] ELSE row[t]]
           \/ row' = row /\ errors' # errors
        /\ poller' = [poller EXCEPT ![p].todo = [t \in Tasks |-> IF t \in failed THEN "none" ELSE @[t]]]
        /\ excuse' = [t \in Tasks |-> IF t \in failed /\ row' # row THEN excuse[t] \cup {"bulk"} ELSE excuse[t]]
        /\ UNCHANGED <<ledger, world, fetcher, crashes>>

EndBatch(p) ==
    /\ poller[p].pc = "batch"
    /\ InBatch(p) = {}
    /\ poller' = [poller EXCEPT ![p].pc = "poll", ![p].chan = NoChannel]
    /\ UNCHANGED <<row, ledger, world, fetcher, excuse, errors, crashes>>

\* What a poll may bring: nothing usable (no answer, 429, an unknown status); how
\* the task is doing; for a video also a failure, because an error message counts
\* as one; for Suno also a failReason without a new status.
Answers(t) ==
    {"none", upstream[t]} \cup
    (IF t \notin Suno THEN {"FAILURE"} ELSE IF upstream[t] = "FAILURE" THEN {"REASON"} ELSE {})

\* Mutant: only a failReason counts as a failure.
SunoDueOnReason(t, a) == IF a = "REASON" THEN Refunded(t) ELSE 0

SunoDue(t, a) == IF a \in {"FAILURE", "REASON"} THEN Refunded(t) ELSE 0

\* The upstream is asked.  A failed Suno task is refunded before its row is written.
Poll(p, t) ==
    /\ poller[p].pc = "batch"
    /\ IF t \in Suno THEN t \in InBatch(p) ELSE IsFirst(t, InBatch(p))
    /\ \E a \in Answers(t) :
         poller' = [poller EXCEPT ![p] =
           IF a = "none" THEN Bills(@, t, 0, "batch")
           ELSE IF t \notin Suno THEN [@ EXCEPT !.pc = "write", !.task = t, !.new = a]
           ELSE Bills([@ EXCEPT !.new = a], t, SunoDue(t, a), "save")]
    /\ UNCHANGED <<row, ledger, world, fetcher, excuse, errors, crashes>>

\* The end of updateVideoSingleTask: the row is written by compare-and-set and only
\* the poller that won it settles or refunds.
VideoDue(t, new, won) ==
    IF ~won THEN 0 ELSE CASE new = "SUCCESS" -> Settled(t) [] new = "FAILURE" -> Refunded(t) [] OTHER -> 0

WriteVideo(p) ==
    /\ poller[p].pc = "write"
    /\ LET t == poller[p].task
           from == poller[p].todo[t]
           new == poller[p].new
       IN  \/ /\ Works
              /\ row' = Cas(t, from, new)
              /\ poller' = [poller EXCEPT ![p] = Bills(@, t, VideoDue(t, new, Wins(t, from)), "batch")]
              /\ UNCHANGED excuse
           \/ /\ DbError
              /\ row' \in {row, Cas(t, from, new)}
              /\ poller' = [poller EXCEPT ![p] = Bills(@, t, 0, "batch")]
              /\ ExcuseIf(t, row' # row /\ new \in Terminal, "logged")
    /\ UNCHANGED <<ledger, world, fetcher, crashes>>

SavedStatus(l) == IF l.new = "REASON" THEN l.todo[l.task] ELSE l.new

\* The end of updateSunoTasks: Task.Update saves the copy, whatever the row is by now.
SaveSuno(p) ==
    /\ poller[p].pc = "save"
    /\ LET t == poller[p].task
           saved == [row EXCEPT ![t] = [status |-> SavedStatus(poller[p]),
                                        full |-> poller[p].new \notin Unfinished]]
       IN  /\ \/ row' = saved /\ Works /\ UNCHANGED excuse
              \/ row' \in {row, saved} /\ DbError /\ Excuse(t, "logged")
           /\ poller' = [poller EXCEPT ![p] = GoesOn(@, "batch")]
    /\ UNCHANGED <<ledger, world, fetcher, crashes>>

-----------------------------------------------------------------------------
\* RefundTaskQuota and RecalculateTaskQuota: first the funding source, where an
\* error ends it, then the token.  task.Quota = actualQuota changes only the copy.

AdjustFunding(p) ==
    /\ poller[p].pc = "funding"
    /\ LET t == poller[p].task
           moved == [fund EXCEPT ![t] = @ + poller[p].delta]
       IN  \/ /\ Works
              /\ fund' = moved
              /\ poller' = [poller EXCEPT ![p].pc = "token"]
              /\ UNCHANGED excuse
           \/ /\ DbError
              /\ fund' \in {fund, moved}
              /\ poller' = [poller EXCEPT ![p] = GoesOn(@, poller[p].ret)]
              /\ Excuse(t, "logged")
    /\ UNCHANGED <<row, tok, world, fetcher, crashes>>

AdjustToken(p) ==
    /\ poller[p].pc = "token"
    /\ LET t == poller[p].task
           moved == IF t \in Tokened THEN [tok EXCEPT ![t] = @ + poller[p].delta] ELSE tok
       IN  \/ tok' = moved /\ Works /\ UNCHANGED excuse
           \/ t \in Tokened /\ tok' \in {tok, moved} /\ DbError /\ Excuse(t, "logged")
    /\ poller' = [poller EXCEPT ![p] = GoesOn(@, poller[p].ret)]
    /\ UNCHANGED <<row, fund, world, fetcher, crashes>>

\* A polling process dies and is started again.  What it owed a task is forgotten.
Crash(p) ==
    /\ poller[p].pc # "sleep"
    /\ crashes < MaxCrashes
    /\ crashes' = crashes + 1
    /\ poller' = [poller EXCEPT ![p] = Asleep]
    /\ IF poller[p].pc \in {"funding", "token", "save"} THEN Excuse(poller[p].task, "crash") ELSE UNCHANGED excuse
    /\ UNCHANGED <<row, ledger, world, fetcher, errors>>

-----------------------------------------------------------------------------
\* Bound: nobody looks at a task any more that was given back more than it took.
MayFetch(t) == fund[t] >= 0

\* tryRealtimeFetch: the row as the request read it and the upstream's answer ...
FetchTask(u, t) ==
    /\ fetcher[u].task = NoTask
    /\ t \in Realtime /\ MayFetch(t)
    /\ row[t].status \in Statuses
    /\ Channel[t] \notin gone
    /\ \E a \in {"FAILURE", upstream[t]} :
         fetcher' = [fetcher EXCEPT ![u] = [task |-> t, snap |-> row[t].status, new |-> a]]
    /\ UNCHANGED <<row, ledger, world, poller, excuse, errors, crashes>>

\* ... are written back by a compare-and-set whose result nobody looks at.
FetchUpdate(u) ==
    /\ fetcher[u].task # NoTask
    /\ fetcher' = [fetcher EXCEPT ![u] = NoFetch]
    /\ \/ row' = Cas(fetcher[u].task, fetcher[u].snap, fetcher[u].new) /\ Works
       \/ row' = row /\ DbError
    /\ UNCHANGED <<ledger, world, poller, excuse, crashes>>

-----------------------------------------------------------------------------
\* The provider ends a task; time passes; an administrator deletes a channel.
UpstreamEnds(t) ==
    /\ row[t].status # "absent"
    /\ upstream[t] = "IN_PROGRESS"
    /\ \E s \in Terminal : upstream' = [upstream EXCEPT ![t] = s]
    /\ UNCHANGED <<row, ledger, aged, gone, poller, fetcher, excuse, errors, crashes>>

Age(t) ==
    /\ row[t].status \notin {"absent", "unrecorded"}
    /\ t \notin aged
    /\ aged' = aged \cup {t}
    /\ UNCHANGED <<row, ledger, upstream, gone, poller, fetcher, excuse, errors, crashes>>

DeleteChannel(c) ==
    /\ c \notin gone
    /\ gone' = gone \cup {c}
    /\ UNCHANGED <<row, ledger, upstream, aged, poller, fetcher, excuse, errors, crashes>>

PollerStep(p) ==
    \/ BeginRound(p) \/ EndSweep(p) \/ EndRound(p) \/ EndBatch(p)
    \/ \E t \in Tasks : Sweep(p, t) \/ Poll(p, t)
    \/ \E c \in Channels : StartBatch(p, c) \/ BulkFail(p, c)
    \/ WriteVideo(p) \/ SaveSuno(p)
    \/ AdjustFunding(p) \/ AdjustToken(p)

Next ==
    \/ \E t \in Tasks : Submit(t) \/ SubmitUnrecorded(t) \/ UpstreamEnds(t) \/ Age(t)
    \/ \E c \in Channels : DeleteChannel(c)
    \/ \E p \in Pollers : PollerStep(p) \/ Crash(p)
    \/ \E u \in Fetchers : FetchUpdate(u) \/ \E t \in Tasks : FetchTask(u, t)

Spec == Init /\ [][Next]_vars

\* The loop runs for ever (a goroutine that sleeps 15 seconds), and time passes.
FairSpec ==
    /\ Spec
    /\ \A p \in Pollers : WF_vars(PollerStep(p))
    /\ \A t \in Tasks : WF_vars(Age(t))

-----------------------------------------------------------------------------
\* Properties.

TypeOK ==
    /\ row \in [Tasks -> Row]
    /\ fund \in [Tasks -> Int] /\ tok \in [Tasks -> Int]
    /\ upstream \in [Tasks -> {"IN_PROGRESS"} \cup Terminal]
    /\ aged \subseteq Tasks /\ gone \subseteq Channels
    /\ poller \in [Pollers -> Poller]
    /\ fetcher \in [Fetchers -> Fetcher]
    /\ excuse \in [Tasks -> SUBSET Excuses]
    /\ errors \in 0 .. MaxErrors /\ crashes \in 0 .. MaxCrashes

\* Videos that no user request writes: only compare-and-set ends them.
Guarded == Tasks \ (Suno \cup Realtime)

\* No poller owes t a statement.
AtRest(t) == \A p \in Pollers : poller[p].task = t => poller[p].pc \notin {"funding", "token", "save"}

\* Tasks whose accounts must come out exactly: nothing about them was only logged;
\* a Suno row is written without compare-and-set, so one process must do it alone.
Exact(t) == excuse[t] = {} /\ t \notin Realtime /\ (t \in Suno => Cardinality(Pollers) = 1)

\* A video that no user request writes (not Gemini, not Vertex), and whose settlement
\* at submission worked, gives back at most what it was charged, whatever polling
\* processes, the timeout sweep, their failing statements and lost answers, bulk
\* failures and crashes do to one another (sweepTimedOutTasks and
\* updateVideoSingleTask bill only after a won UpdateWithStatus).  Of a video whose
\* settlement failed, RelayTask still records result.Quota, which is then given back
\* although less may have been paid.
NeverRefundedTwice ==
    \A t \in Guarded : "unsettled" \notin excuse[t] => fund[t] >= 0 /\ tok[t] >= 0

\* Once nobody works on it, a failed task has paid nothing: RefundTaskQuota has run,
\* for the funding source and for the token, after a poll (of a video, or of a Suno
\* task that one process polls alone) as after the sweep.
FailedIsRefunded ==
    \A t \in Tasks : Exact(t) /\ AtRest(t) /\ row[t].status = "FAILURE" => fund[t] = 0 /\ tok[t] = 0

\* Once nobody works on it, a task that succeeded has paid its cost exactly once
\* (settleTaskBillingOnComplete), although several pollers saw it succeed.
SucceededPaysCost ==
    \A t \in Tasks : Exact(t) /\ AtRest(t) /\ row[t].status = "SUCCESS" =>
        LET cost == IF t \in Suno \/ Actual[t] = 0 THEN Quota[t] ELSE Actual[t]
        IN  fund[t] = cost /\ tok[t] = IF t \in Tokened THEN cost ELSE 0

\* A poller or a sweep that works on an old copy never moves a video that no user
\* request writes out of SUCCESS or FAILURE (UpdateWithStatus); only the bulk update may turn a success into a failure.
TerminalIsFinal ==
    [][\A t \in Guarded : row[t].status \in Terminal =>
         row'[t].status = row[t].status \/ "bulk" \in excuse'[t]]_vars

=============================================================================
