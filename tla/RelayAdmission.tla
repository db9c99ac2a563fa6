--------------------------- MODULE RelayAdmission ---------------------------
(***************************************************************************)
(* How a relay request gets onto an upstream channel and off it again      *)
(* (controller/relay.go over service/rpm_queue.go, rpm_tracker.go and      *)
(* concurrency_tracker.go): the distributor's choice, the RPM and          *)
(* concurrency slots, the FIFO queue of requests that found every channel  *)
(* full, overload protection, the fallback chain after a failure, and the  *)
(* deferred release that wakes one waiter.                                 *)
(*                                                                         *)
(* A request is one goroutine; a step is what it does under one lock, or   *)
(* between two.  rpm[c] is the number of unexpired timestamps of channel   *)
(* c's tracker; that the 60 s window passes is an action.                  *)
(***************************************************************************)
EXTENDS Integers, Sequences, FiniteSets

CONSTANTS
    Requests,
    Primary,         \* the channels of ordinary selection
    Fallback,        \* the fallback channels, in the order they are tried
    NoChannel,
    MaxRPM,          \* MaxRPM[c], MaxConcurrency[c]: 0 is unlimited
    MaxConcurrency,
    Allowed,         \* Allowed[r]: channels of r's group, model and user
    Supports,        \* channels with SupportFallback or EmergencyPlanEnabled
    Protected,       \* channels that count for overload protection
    LimitedInput,    \* channels with an input-token cap
    Affinity,        \* requests with a channel-affinity key
    Oversize,        \* requests whose prompt exceeds the cap
    OverloadLimit,   \* common.OverloadProtectionRPM, 0 is off
    DailyLimit,      \* common.DailyUsageLimit is set
    MayCancel,       \* bound: requests whose client may disconnect
    WindowPasses     \* bound: a request may outlast the RPM window

FallbackSet == {Fallback[i] : i \in DOMAIN Fallback}
Channels == Primary \cup FallbackSet

ASSUME ChannelsAssumption ==
    /\ Fallback \in Seq(FallbackSet)
    /\ Primary \cap FallbackSet = {}
    /\ NoChannel \notin Channels
    /\ MaxRPM \in [Channels -> Nat]
    /\ MaxConcurrency \in [Channels -> Nat]
    /\ Supports \subseteq Primary /\ Protected \subseteq Primary /\ LimitedInput \subseteq Primary
ASSUME RequestsAssumption ==
    /\ IsFiniteSet(Requests)
    /\ NoChannel \notin Requests
    /\ Allowed \in [Requests -> (SUBSET Primary) \ {{}}]
    /\ Affinity \subseteq Requests /\ Oversize \subseteq Requests /\ MayCancel \subseteq Requests
ASSUME LimitsAssumption ==
    OverloadLimit \in Nat /\ DailyLimit \in BOOLEAN /\ WindowPasses \in BOOLEAN

VARIABLES
    rpm,        \* rpm[c]: timestamps in c's RpmTracker
    conc,       \* conc[c]: c's ConcurrencyTracker
    global,     \* timestamps in the GlobalRpmTracker
    queue,      \* the RpmQueueManager's queue, as the requests that wait in it
    req,        \* req[r]: r's control point and the locals of Relay
    cancelled   \* requests whose context is cancelled

vars == <<rpm, conc, global, queue, req, cancelled>>

PCs == {"distribute", "select", "overload", "rpm", "conc", "giveBack", "refused", "enqueue",
        "queued", "waiting", "admit", "serve", "after", "retry", "chain", "release", "close", "done"}

BeforeAdmission == {"select", "overload", "rpm", "conc", "giveBack", "refused", "enqueue", "queued", "waiting"}

Request ==
    [pc : PCs, chan : Channels \cup {NoChannel},
     used : SUBSET Channels, called : SUBSET Channels,
     rpmHeld : SUBSET Channels, concHeld : SUBSET Channels,
     deadline : {"unset", "set", "passed"}, closes : Requests \cup {NoChannel},
     notified : BOOLEAN, meta : BOOLEAN, hit : BOOLEAN, checked : BOOLEAN, counted : BOOLEAN,
     selected : BOOLEAN, source : BOOLEAN, transfer : BOOLEAN, onFallback : BOOLEAN,
     inChain : BOOLEAN, wrote : BOOLEAN, err : BOOLEAN, served : BOOLEAN]

Fresh ==
    [pc |-> "distribute", chan |-> NoChannel,
     used |-> {}, called |-> {}, rpmHeld |-> {}, concHeld |-> {},
     deadline |-> "unset", closes |-> NoChannel,
     notified |-> FALSE, meta |-> FALSE, hit |-> FALSE, checked |-> FALSE, counted |-> FALSE,
     selected |-> FALSE, source |-> FALSE, transfer |-> FALSE, onFallback |-> FALSE,
     inChain |-> FALSE, wrote |-> FALSE, err |-> FALSE, served |-> FALSE]

TypeOK ==
    /\ rpm \in [Channels -> Nat]
    /\ conc \in [Channels -> Nat]
    /\ global \in Nat
    /\ queue \in Seq(Requests)
    /\ req \in [Requests -> Request]
    /\ cancelled \subseteq Requests

Init ==
    /\ rpm = [c \in Channels |-> 0]
    /\ conc = [c \in Channels |-> 0]
    /\ global = 0
    /\ queue = <<>>
    /\ req = [r \in Requests |-> Fresh]
    /\ cancelled = {}

-----------------------------------------------------------------------------
At(r, pc) == req[r].pc = pc
Become(r, s) == req' = [req EXCEPT ![r] = s]
Cancelled(r) == r \in cancelled
Limited(c) == MaxRPM[c] > 0 \/ MaxConcurrency[c] > 0

\* CheckChannelRpmFullFunc: the RPM or the concurrency tracker is full.
IsFull(c) ==
    \/ MaxRPM[c] > 0 /\ rpm[c] >= MaxRPM[c]
    \/ MaxConcurrency[c] > 0 /\ conc[c] >= MaxConcurrency[c]

\* Decrement of either sliding window: the oldest timestamp, if one is left.
Minus1(n) == IF n > 0 THEN n - 1 ELSE 0

InQueue(r) == \E i \in DOMAIN queue : queue[i] = r
Without(s, k) == [i \in 1 .. (Len(s) - 1) |-> IF i < k THEN s[i] ELSE s[i + 1]]
RemoveItem(r) == IF InQueue(r) THEN Without(queue, CHOOSE k \in DOMAIN queue : queue[k] = r) ELSE queue

\* Only waiters whose selected channel is protected count for the overload.
GetOverloadQueueLength == Cardinality({i \in DOMAIN queue : req[queue[i]].chan \in Protected})
IsOverloaded == OverloadLimit > 0 /\ global + GetOverloadQueueLength >= OverloadLimit

UnusedFallback(r) == FallbackSet \ req[r].used

\* The first fallback channel, in order, that the request has not used.
NextFallback(r) ==
    Fallback[CHOOSE i \in DOMAIN Fallback :
                /\ Fallback[i] \notin req[r].used
                /\ \A j \in 1 .. (i - 1) : Fallback[j] \in req[r].used]

\* A failure in the main loop: newAPIError is set and the loop is left.
Failed(s) == [s EXCEPT !.pc = "after", !.err = TRUE]

-----------------------------------------------------------------------------
(* The distributor middleware: an affinity entry pins its channel even if  *)
(* that is full; otherwise one that is not full; or none (RpmQueuePending).*)
Distribute(r) ==
    /\ At(r, "distribute")
    /\ \/ \E c \in Allowed[r] :
            /\ r \in Affinity \/ ~IsFull(c)
            /\ Become(r, [req[r] EXCEPT !.pc = "select", !.chan = c, !.hit = r \in Affinity])
       \/ /\ \A c \in Allowed[r] : IsFull(c)
          /\ Become(r, [req[r] EXCEPT !.pc = "select"])
    /\ UNCHANGED <<rpm, conc, global, queue, cancelled>>

\* getChannel when a fallback is forced: SetupContext may fail, and the channel
\* then counts as used.  Either way it is the selected one from here on.
GetFallback(r, s, failed) ==
    LET first == NextFallback(r) IN
    \/ Become(r, [s EXCEPT !.pc = "rpm", !.chan = first, !.onFallback = TRUE, !.meta = TRUE])
    \/ Become(r, [failed EXCEPT !.chan = first, !.used = @ \cup {first}])

\* getChannel otherwise: the preselected channel the first time, without a
\* look at its slots, and afterwards any channel that is not full, whose set-up
\* may fail.  The error of a pinned request keeps the fallback policy of the
\* channel selected last.
GetPrimary(r) ==
    LET s == req[r]
        Lost(c) == [s EXCEPT !.chan = c, !.source = IF s.hit THEN c \in Supports ELSE @]
    IN  \/ /\ ~s.meta /\ s.chan # NoChannel
           /\ Become(r, [s EXCEPT !.pc = "overload"])
        \/ /\ s.meta \/ s.chan = NoChannel
           /\ \E c \in Allowed[r] \ s.used :
                /\ ~IsFull(c)
                /\ \/ Become(r, [s EXCEPT !.pc = "overload", !.chan = c,
                                          !.hit = @ \/ (~s.meta /\ r \in Affinity)])
                   \/ Become(r, Failed(Lost(c)))
        \/ /\ s.meta \/ s.chan = NoChannel
           /\ \A c \in Allowed[r] \ s.used : IsFull(c)
           /\ Become(r, [Lost(s.chan) EXCEPT !.pc = "enqueue"])

\* The top of the main loop.
Select(r) ==
    /\ At(r, "select")
    /\ \/ Cancelled(r) /\ Become(r, Failed(req[r]))
       \/ ~Cancelled(r) /\ GetPrimary(r)
       \/ /\ ~Cancelled(r) /\ DailyLimit /\ Fallback # <<>>
          /\ LET s == [req[r] EXCEPT !.transfer = TRUE] IN GetFallback(r, s, Failed(s))
    /\ UNCHANGED <<rpm, conc, global, queue, cancelled>>

\* The input-token cap, then the read-only overload check, made once.
CheckOverload(r) ==
    LET s == req[r]
        tooLong == s.chan \in LimitedInput /\ r \in Oversize
        check == s.chan \in Protected /\ ~s.checked
        t == [s EXCEPT !.checked = @ \/ check]
    IN  /\ At(r, "overload")
        /\ \/ tooLong /\ Become(r, Failed(s))
           \/ /\ ~tooLong /\ check /\ IsOverloaded /\ Fallback # <<>>
              /\ LET u == [t EXCEPT !.transfer = TRUE] IN GetFallback(r, u, Failed(u))
           \/ /\ ~tooLong /\ ~(check /\ IsOverloaded /\ Fallback # <<>>)
              /\ Become(r, [t EXCEPT !.pc = "rpm", !.meta = TRUE])
        /\ UNCHANGED <<rpm, conc, global, queue, cancelled>>

-----------------------------------------------------------------------------
(* acquireChannelSlots.                                                    *)

TryIncrement(r) ==
    LET s == req[r]  c == s.chan IN
    /\ At(r, "rpm")
    /\ \/ /\ MaxRPM[c] > 0 /\ rpm[c] < MaxRPM[c]
          /\ rpm' = [rpm EXCEPT ![c] = @ + 1]
          /\ Become(r, [s EXCEPT !.pc = "conc", !.rpmHeld = @ \cup {c}])
       \/ MaxRPM[c] = 0 /\ Become(r, [s EXCEPT !.pc = "conc"]) /\ UNCHANGED rpm
       \/ /\ MaxRPM[c] > 0 /\ rpm[c] >= MaxRPM[c]
          /\ Become(r, [s EXCEPT !.pc = "refused"]) /\ UNCHANGED rpm
    /\ UNCHANGED <<conc, global, queue, cancelled>>

\* Mutants: a request refused by the concurrency limit keeps its RPM slot, and
\* one that is not refused at all.
TryAcquireNoRollback(r) ==
    LET s == req[r]  c == s.chan  free == MaxConcurrency[c] = 0 \/ conc[c] < MaxConcurrency[c] IN
    /\ At(r, "conc")
    /\ conc' = [conc EXCEPT ![c] = IF free /\ MaxConcurrency[c] > 0 THEN @ + 1 ELSE @]
    /\ Become(r, IF ~free THEN [s EXCEPT !.pc = "refused"]
                 ELSE [s EXCEPT !.pc = "admit", !.concHeld = IF MaxConcurrency[c] > 0 THEN @ \cup {c} ELSE @])
    /\ UNCHANGED <<rpm, global, queue, cancelled>>

TryAcquireIgnored(r) ==
    LET s == req[r]  c == s.chan  take == MaxConcurrency[c] > 0 /\ conc[c] < MaxConcurrency[c] IN
    /\ At(r, "conc")
    /\ conc' = [conc EXCEPT ![c] = IF take THEN @ + 1 ELSE @]
    /\ Become(r, [s EXCEPT !.pc = "admit", !.concHeld = IF take THEN @ \cup {c} ELSE @])
    /\ UNCHANGED <<rpm, global, queue, cancelled>>

TryAcquire(r) ==
    LET s == req[r]  c == s.chan IN
    /\ At(r, "conc")
    /\ \/ /\ MaxConcurrency[c] > 0 /\ conc[c] < MaxConcurrency[c]
          /\ conc' = [conc EXCEPT ![c] = @ + 1]
          /\ Become(r, [s EXCEPT !.pc = "admit", !.concHeld = @ \cup {c}])
       \/ MaxConcurrency[c] = 0 /\ Become(r, [s EXCEPT !.pc = "admit"]) /\ UNCHANGED conc
       \/ /\ MaxConcurrency[c] > 0 /\ conc[c] >= MaxConcurrency[c]
          /\ Become(r, [s EXCEPT !.pc = IF MaxRPM[c] > 0 THEN "giveBack" ELSE "refused"])
          /\ UNCHANGED conc
    /\ UNCHANGED <<rpm, global, queue, cancelled>>

\* Mutant: the rollback forgets the tracker's Decrement.
GiveBackForgotten(r) ==
    /\ At(r, "giveBack")
    /\ Become(r, [req[r] EXCEPT !.pc = "refused", !.rpmHeld = @ \ {req[r].chan}])
    /\ UNCHANGED <<rpm, conc, global, queue, cancelled>>

\* The partial failure: the RPM slot goes back, and no waiter is told.
GiveBackRpm(r) ==
    LET s == req[r]  c == s.chan IN
    /\ At(r, "giveBack")
    /\ rpm' = [rpm EXCEPT ![c] = Minus1(@)]
    /\ Become(r, [s EXCEPT !.pc = "refused", !.rpmHeld = @ \ {c}])
    /\ UNCHANGED <<conc, global, queue, cancelled>>

\* No slot: the next fallback, the end of the loop for a transferred request,
\* or the queue, where a pinned request keeps its channel's fallback policy.
Refused(r) ==
    LET s == req[r]  u == s.used \cup {s.chan} IN
    /\ At(r, "refused")
    /\ \/ s.inChain /\ Become(r, [s EXCEPT !.pc = "chain", !.used = u])
       \/ /\ ~s.inChain /\ s.onFallback
          /\ Become(r, [s EXCEPT !.pc = "after", !.used = u, !.onFallback = FALSE])
       \/ /\ ~s.onFallback /\ s.hit
          /\ Become(r, [s EXCEPT !.pc = "enqueue", !.source = s.chan \in Supports])
       \/ ~s.onFallback /\ ~s.hit /\ Become(r, [s EXCEPT !.pc = "enqueue", !.used = u])
    /\ UNCHANGED <<rpm, conc, global, queue, cancelled>>

-----------------------------------------------------------------------------
(* The RPM queue: waitForRpmQueue and waitRpmQueueTurn.                    *)

Enqueue(r) ==
    LET s == req[r]  late == Cancelled(r) \/ s.deadline = "passed" IN
    /\ At(r, "enqueue")
    /\ \/ late /\ Become(r, Failed(s)) /\ UNCHANGED queue
       \/ /\ ~late
          /\ queue' = Append(queue, r)
          /\ Become(r, [s EXCEPT !.pc = "queued", !.deadline = "set", !.meta = TRUE, !.notified = FALSE])
    /\ UNCHANGED <<rpm, conc, global, cancelled>>

\* The notice has been sent; a deadline that passed meanwhile ends the wait.
StartWait(r) ==
    LET s == req[r] IN
    /\ At(r, "queued")
    /\ \/ s.deadline = "passed" /\ queue' = RemoveItem(r) /\ Become(r, Failed(s))
       \/ s.deadline # "passed" /\ Become(r, [s EXCEPT !.pc = "waiting"]) /\ UNCHANGED queue
    /\ UNCHANGED <<rpm, conc, global, cancelled>>

\* The wait returned true: start over, unless the client has gone.
Woken(r) ==
    Become(r, IF Cancelled(r) THEN Failed(req[r]) ELSE [req[r] EXCEPT !.pc = "select", !.used = {}])

Wake(r) ==
    /\ At(r, "waiting") /\ req[r].notified
    /\ Woken(r)
    /\ UNCHANGED <<rpm, conc, global, queue, cancelled>>

\* The timer fires; an item that is no longer queued is being notified.
Timeout(r) ==
    /\ At(r, "waiting") /\ req[r].deadline = "passed"
    /\ IF InQueue(r) THEN Become(r, Failed(req[r])) ELSE Woken(r)
    /\ queue' = RemoveItem(r)
    /\ UNCHANGED <<rpm, conc, global, cancelled>>

CancelWait(r) ==
    /\ At(r, "waiting") /\ Cancelled(r)
    /\ queue' = RemoveItem(r)
    /\ Become(r, Failed(req[r]))
    /\ UNCHANGED <<rpm, conc, global, cancelled>>

-----------------------------------------------------------------------------
(* Admission, the upstream call and the fallback chain.                    *)

\* Mutant: a fallback channel is not marked as used when it is admitted.
AdmitUnmarked(r) ==
    LET s == req[r]  count == s.chan \in Protected /\ ~s.counted IN
    /\ At(r, "admit")
    /\ global' = IF count THEN global + 1 ELSE global
    /\ Become(r, [s EXCEPT !.pc = "serve", !.counted = @ \/ count,
                           !.selected = @ \/ ~s.inChain \/ Limited(s.chan)])
    /\ UNCHANGED <<rpm, conc, queue, cancelled>>

\* The slots are held: count the request once for the overload protection.
Admit(r) ==
    LET s == req[r]  count == s.chan \in Protected /\ ~s.counted IN
    /\ At(r, "admit")
    /\ global' = IF count THEN global + 1 ELSE global
    /\ Become(r, [s EXCEPT !.pc = "serve", !.counted = @ \/ count,
                           !.selected = @ \/ ~s.inChain \/ Limited(s.chan),
                           !.used = IF s.onFallback THEN @ \cup {s.chan} ELSE @])
    /\ UNCHANGED <<rpm, conc, queue, cancelled>>

\* The upstream answers.
Succeed(r) ==
    LET s == req[r] IN
    /\ At(r, "serve")
    /\ Become(r, [s EXCEPT !.pc = "release", !.err = FALSE, !.served = TRUE, !.called = @ \cup {s.chan}])
    /\ UNCHANGED <<rpm, conc, global, queue, cancelled>>

\* Pricing, the pre-consume or the request body fails before the call.
PreflightFails(r) ==
    LET s == req[r] IN
    /\ At(r, "serve")
    /\ \/ s.inChain /\ ~Cancelled(r) /\ Become(r, [s EXCEPT !.pc = "chain"])
       \/ s.inChain /\ Cancelled(r) /\ Become(r, [s EXCEPT !.pc = "release", !.err = TRUE])
       \/ ~s.inChain /\ Become(r, Failed(s))
    /\ UNCHANGED <<rpm, conc, global, queue, cancelled>>

\* The upstream call fails, possibly after part of a stream went out (wrote);
\* a cancelled call (aborted) ends the request.
UpstreamFails(r) ==
    /\ At(r, "serve")
    /\ \E wrote, aborted \in BOOLEAN :
         LET s == [req[r] EXCEPT !.called = @ \cup {req[r].chan}, !.wrote = @ \/ wrote,
                                 !.used = IF req[r].onFallback THEN @ ELSE @ \cup {req[r].chan}]
         IN  \/ /\ aborted \/ Cancelled(r)
                /\ Become(r, [s EXCEPT !.pc = "release", !.err = TRUE])
             \/ /\ ~aborted /\ ~Cancelled(r) /\ s.inChain
                /\ Become(r, [s EXCEPT !.pc = "chain"])
             \/ /\ ~aborted /\ ~Cancelled(r) /\ ~s.inChain
                /\ Become(r, [Failed(s) EXCEPT !.source = IF s.onFallback THEN @ ELSE s.chan \in Supports])
    /\ UNCHANGED <<rpm, conc, global, queue, cancelled>>

CanFallback(r) ==
    /\ ~Cancelled(r)
    /\ ~req[r].wrote
    /\ req[r].source \/ req[r].transfer
    /\ UnusedFallback(r) # {}

\* After the main loop.
After(r) ==
    LET s == req[r] IN
    /\ At(r, "after")
    /\ \/ CanFallback(r) /\ r \in Oversize /\ Become(r, [s EXCEPT !.pc = "retry"])
       \/ CanFallback(r) /\ r \notin Oversize /\ Become(r, [s EXCEPT !.pc = "chain", !.inChain = TRUE])
       \/ ~CanFallback(r) /\ Become(r, [s EXCEPT !.pc = "release"])
    /\ UNCHANGED <<rpm, conc, global, queue, cancelled>>

\* retryCurrentChannelOnce: newAPIError keeps the error of the first attempt.
RetryOnce(r) ==
    LET s == [req[r] EXCEPT !.pc = "release", !.called = @ \cup {req[r].chan}] IN
    /\ At(r, "retry")
    /\ \/ Become(r, [s EXCEPT !.served = TRUE])
       \/ Become(r, [s EXCEPT !.err = TRUE])
    /\ UNCHANGED <<rpm, conc, global, queue, cancelled>>

\* One round of the fallback chain; at its end the primary's error stands.
Chain(r) ==
    LET s == req[r] IN
    /\ At(r, "chain")
    /\ \/ /\ UnusedFallback(r) = {} \/ Cancelled(r)
          /\ Become(r, [s EXCEPT !.pc = "release", !.err = TRUE])
       \/ UnusedFallback(r) # {} /\ ~Cancelled(r) /\ GetFallback(r, s, s)
    /\ UNCHANGED <<rpm, conc, global, queue, cancelled>>

-----------------------------------------------------------------------------
(* The deferred release: RPM slots, concurrency slots, the overload count, *)
(* and then one waiter is dequeued and its channel closed.                 *)

ReleaseRpm(r) ==
    /\ At(r, "release")
    /\ \E c \in req[r].rpmHeld :
         /\ rpm' = [rpm EXCEPT ![c] = Minus1(@)]
         /\ Become(r, [req[r] EXCEPT !.rpmHeld = @ \ {c}])
    /\ UNCHANGED <<conc, global, queue, cancelled>>

ReleaseConc(r) ==
    /\ At(r, "release") /\ req[r].rpmHeld = {}
    /\ \E c \in req[r].concHeld :
         /\ conc' = [conc EXCEPT ![c] = Minus1(@)]
         /\ Become(r, [req[r] EXCEPT !.concHeld = @ \ {c}])
    /\ UNCHANGED <<rpm, global, queue, cancelled>>

ReleaseGlobal(r) ==
    /\ At(r, "release") /\ req[r].rpmHeld = {} /\ req[r].concHeld = {} /\ req[r].counted
    /\ global' = Minus1(global)
    /\ Become(r, [req[r] EXCEPT !.counted = FALSE])
    /\ UNCHANGED <<rpm, conc, queue, cancelled>>

\* Mutant: the item is dequeued and its channel never closed.
NotifyOnlyDequeues(r) ==
    LET s == req[r] IN
    /\ At(r, "release") /\ s.rpmHeld = {} /\ s.concHeld = {} /\ ~s.counted
    /\ queue' = IF s.selected /\ queue # <<>> THEN Tail(queue) ELSE queue
    /\ Become(r, [s EXCEPT !.pc = "done"])
    /\ UNCHANGED <<rpm, conc, global, cancelled>>

\* A request that was never admitted wakes nobody.
NotifyRpmRelease(r) ==
    LET s == req[r] IN
    /\ At(r, "release") /\ s.rpmHeld = {} /\ s.concHeld = {} /\ ~s.counted
    /\ \/ /\ ~s.selected \/ queue = <<>>
          /\ Become(r, [s EXCEPT !.pc = "done"]) /\ UNCHANGED queue
       \/ /\ s.selected /\ queue # <<>>
          /\ queue' = Tail(queue)
          /\ Become(r, [s EXCEPT !.pc = "close", !.closes = Head(queue)])
    /\ UNCHANGED <<rpm, conc, global, cancelled>>

CloseNotify(r) ==
    /\ At(r, "close")
    /\ req' = [req EXCEPT ![req[r].closes].notified = TRUE, ![r].pc = "done", ![r].closes = NoChannel]
    /\ UNCHANGED <<rpm, conc, global, queue, cancelled>>

-----------------------------------------------------------------------------
(* The environment: clients disconnect, deadlines pass, timestamps expire. *)

\* Both only while the request can still notice.
Cancel(r) ==
    /\ r \in MayCancel \ cancelled /\ req[r].pc \notin {"release", "close", "done"}
    /\ cancelled' = cancelled \cup {r}
    /\ UNCHANGED <<rpm, conc, global, queue, req>>

DeadlinePasses(r) ==
    /\ req[r].deadline = "set" /\ req[r].pc \in BeforeAdmission
    /\ Become(r, [req[r] EXCEPT !.deadline = "passed"])
    /\ UNCHANGED <<rpm, conc, global, queue, cancelled>>

ExpireRpm ==
    /\ WindowPasses
    /\ \E c \in Channels : rpm[c] > 0 /\ rpm' = [rpm EXCEPT ![c] = @ - 1]
    /\ UNCHANGED <<conc, global, queue, req, cancelled>>

ExpireGlobal ==
    /\ WindowPasses /\ global > 0
    /\ global' = global - 1
    /\ UNCHANGED <<rpm, conc, queue, req, cancelled>>

\* What the goroutine of request r does next.
Step(r) ==
    \/ Distribute(r) \/ Select(r) \/ CheckOverload(r)
    \/ TryIncrement(r) \/ TryAcquire(r) \/ GiveBackRpm(r) \/ Refused(r)
    \/ Enqueue(r) \/ StartWait(r) \/ Wake(r) \/ Timeout(r) \/ CancelWait(r)
    \/ Admit(r) \/ Succeed(r) \/ PreflightFails(r) \/ UpstreamFails(r)
    \/ After(r) \/ RetryOnce(r) \/ Chain(r)
    \/ ReleaseRpm(r) \/ ReleaseConc(r) \/ ReleaseGlobal(r) \/ NotifyRpmRelease(r) \/ CloseNotify(r)

AllDone == (\A r \in Requests : At(r, "done")) /\ UNCHANGED vars

Next ==
    \/ \E r \in Requests : Step(r) \/ Cancel(r) \/ DeadlinePasses(r)
    \/ ExpireRpm \/ ExpireGlobal
    \/ AllDone

Spec == Init /\ [][Next]_vars

\* Go runs every goroutine that can run, an upstream call ends (it has its own
\* timeouts), and timers fire.
Fairness == \A r \in Requests : WF_vars(Step(r)) /\ WF_vars(DeadlinePasses(r))
FairSpec == Spec /\ Fairness
-----------------------------------------------------------------------------
(* Properties.                                                             *)

RpmHolders(c) == {r \in Requests : c \in req[r].rpmHeld}
ConcHolders(c) == {r \in Requests : c \in req[r].concHeld}
Counted == {r \in Requests : req[r].counted}

\* acquireChannelSlots, the rollback of a half acquisition and the deferred
\* release leak no slot and free none twice: a concurrency counter is exactly
\* the number of requests that hold a slot and within the limit, and the two
\* sliding windows never count more than the requests that are on them, and
\* exactly those if no timestamp expires.
SlotsAccounted ==
    /\ \A c \in Channels :
         /\ conc[c] = Cardinality(ConcHolders(c))
         /\ MaxConcurrency[c] > 0 => conc[c] <= MaxConcurrency[c]
         /\ MaxRPM[c] > 0 => rpm[c] <= MaxRPM[c]
         /\ rpm[c] <= Cardinality(RpmHolders(c))
         /\ ~WindowPasses => rpm[c] = Cardinality(RpmHolders(c))
    /\ global <= Cardinality(Counted)
    /\ ~WindowPasses => global = Cardinality(Counted)

\* No hold and wait: a request in the RPM queue holds no slot of any channel,
\* so waiters cannot block each other, and is not counted as admitted, so the
\* overload check counts it once, through the queue.
WaitersHoldNothing ==
    \A r \in Requests : InQueue(r) => req[r].rpmHeld = {} /\ req[r].concHeld = {} /\ ~req[r].counted

\* The queue holds each waiter once and nobody else, whatever the order of
\* RemoveItem and Dequeue; a waiter taken off the queue has been notified or
\* its notifier is about to close its channel.
WaitersAreTracked ==
    /\ \A i, j \in DOMAIN queue : queue[i] = queue[j] => i = j
    /\ \A r \in Requests :
         /\ InQueue(r) => req[r].pc \in {"queued", "waiting"} /\ ~req[r].notified
         /\ req[r].pc \in {"queued", "waiting"} =>
                InQueue(r) \/ req[r].notified \/ \E q \in Requests : req[q].closes = r

HoldsSlots(r) ==
    LET c == req[r].chan IN
    /\ MaxRPM[c] > 0 => c \in req[r].rpmHeld
    /\ MaxConcurrency[c] > 0 => c \in req[r].concHeld

\* A request of the main loop or of the fallback chain calls a limited channel
\* only with both of its slots, whichever way it was refused, queued, woken or
\* transferred before.
AdmittedWithSlots == \A r \in Requests : At(r, "serve") => HoldsSlots(r)

\* UsedChannelIds is emptied when a waiter wakes up, yet the main loop and the
\* fallback chain together never call the same channel a second time: a request
\* that has called one never waits again.  (The one extra attempt of
\* retryCurrentChannelOnce is outside both: it calls the selected channel again.)
CalledOnce == \A r \in Requests : At(r, "serve") => req[r].chan \notin req[r].called

\* Every request ends: it is served, fails, or leaves the queue at its
\* deadline, and the fallback chain runs out of channels.
EveryRequestEnds == <>(\A r \in Requests : At(r, "done"))

=============================================================================
