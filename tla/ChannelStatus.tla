--------------------------- MODULE ChannelStatus ---------------------------
(***************************************************************************)
(* Which channels are routed: the status of a channel in the database, its *)
(* copy in the memory cache (channelsIDM) and the table of routes          *)
(* (group2model2channels) are changed by requests that fail, requests that *)
(* use up the calls of a channel, tests and probes, resets, administrators *)
(* and the periodic synchronisation (model/channel_cache.go, channel.go,   *)
(* channel_reset_rule.go, service/channel.go, controller/channel-test.go). *)
(*                                                                         *)
(* A step is a database statement, a section under channelSyncLock, or the *)
(* end of an upstream call.  The transactions that read a row and update   *)
(* it lock nothing: gorm v2 ignores the option gorm:query_option they set. *)
(* Channels have one key; a channel is in the routes of all its groups and *)
(* models or of none.                                                      *)
(***************************************************************************)
EXTENDS Naturals

CONSTANTS
    Channels,
    Probings,       \* the sets of channels that may have probing enabled
    MaxCallCount,   \* MaxCallCount[c]: 0 is no limit
    Workers,        \* requests, tests and administrators at work at the same time
    MaxEvents,      \* bound: calls, tests, resets and changes begun
    MaxFaults       \* bound: database errors and restarts

Sync == "SyncChannelCache"
Nobody == "nobody"
Goroutines == Workers \union {Sync}

ASSUME ChannelsAssumption == Channels # {} /\ Probings \subseteq SUBSET Channels /\ MaxCallCount \in [Channels -> Nat]
ASSUME WorkersAssumption == Sync \notin Workers /\ Nobody \notin Goroutines
ASSUME BoundsAssumption == MaxEvents \in Nat /\ MaxFaults \in Nat

VARIABLES
    db,             \* db[c]: status, status_reason and used_call_count of the row
    cache,          \* cache[c]: the same of channelsIDM[c]
    routed,         \* the channels in group2model2channels
    go,             \* go[g]: control point and locals of a goroutine
    lock,           \* who holds channelStatusLock
    probed,         \* the channels with probing enabled
    events, faults

vars == <<db, cache, routed, go, lock, probed, events, faults>>
memory == <<cache, routed>>

\* The reason "quota" is one of IsAutoRecoverableReason, "error" the text of an error.
Statuses == {"enabled", "manual", "auto", "probe"}
Reasons == {"none", "quota", "error"}
Row == [status : Statuses, reason : Reasons, used : Nat]
Cached == [status : Statuses \union {"missing"}, reason : Reasons, used : Nat]
PCs == {"idle", "refresh", "swap", "calling", "count", "counted", "used up", "testing", "enable",
        "resetting", "reset", "recheck", "recover", "status", "cache", "read", "save",
        "probe", "probe save", "probe cache"}
Local == [pc : PCs, chan : Channels, want : {"enabled", "auto", "probe"},
          row : Row, snap : [Channels -> Cached]]

Enabled(rows) == {c \in Channels : rows[c].status = "enabled"}
Resting(g) == IF g = Sync THEN "refresh" ELSE "idle"

NewRow == [status |-> "enabled", reason |-> "none", used |-> 0]
NoRow == [status |-> "missing", reason |-> "none", used |-> 0]

(* What a goroutine remembers between two things it does: nothing *)
AtRest(g) == [pc |-> Resting(g), chan |-> CHOOSE c \in Channels : TRUE, want |-> "enabled",
              row |-> NewRow, snap |-> [c \in Channels |-> NewRow]]

Init ==
    /\ db = [c \in Channels |-> NewRow]
    /\ cache = db
    /\ routed = Channels
    /\ go = [g \in Goroutines |-> AtRest(g)]
    /\ lock = Nobody
    /\ probed \in Probings
    /\ events = 0 /\ faults = 0

(* A row that was read is used by the next step only. *)
Goto(g, pc) == go' = [go EXCEPT ![g].pc = pc, ![g].row = NewRow]
Rest(g) == go' = [go EXCEPT ![g] = AtRest(g)]

(* A worker begins something with channel c, of which it has read row. *)
Begin(w, c, pc, want, row) ==
    /\ go[w].pc = "idle" /\ events < MaxEvents
    /\ events' = events + 1
    /\ go' = [go EXCEPT ![w].pc = pc, ![w].chan = c, ![w].want = want, ![w].row = row]

Fault == faults < MaxFaults /\ faults' = faults + 1

(***************************************************************************)
(* The cache.                                                              *)
(***************************************************************************)

Known(c) == cache[c].status # "missing"

(* Mutant: a channel that is enabled again is not added to the routes. *)
CacheUpdateOnly(c, status) ==
    /\ cache' = IF Known(c) THEN [cache EXCEPT ![c].status = status] ELSE cache
    /\ routed' = IF status = "enabled" THEN routed ELSE routed \ {c}

CacheUpdateChannelStatus(c, status) ==
    /\ cache' = IF Known(c) THEN [cache EXCEPT ![c].status = status] ELSE cache
    /\ routed' = IF status # "enabled" THEN routed \ {c}
                                        ELSE routed \union {d \in {c} : Known(d)}

UpdateChannelCallCountInCache(c, used) ==
    cache' = IF Known(c) THEN [cache EXCEPT ![c].used = used] ELSE cache

(* InitChannelCache: the tables are read, and installed later. *)
RefreshRead(g) ==
    /\ go[g].pc = "refresh"
    /\ go' = [go EXCEPT ![g].pc = "swap", ![g].snap = db]
    /\ UNCHANGED <<db, cache, routed, lock, probed, events, faults>>

(* The errors of its reads are ignored.  If the channels are read up to the error, *)
(* the others are taken not to exist; if the abilities are, a group that is not in *)
(* the table panics: that ends a handler, and the process when it is Sync.         *)
RefreshReadFails(g) ==
    /\ go[g].pc = "refresh" /\ Fault
    /\ \/ \E seen \in SUBSET Channels \ {Channels} :
            go' = [go EXCEPT ![g].pc = "swap",
                             ![g].snap = [c \in Channels |-> IF c \in seen THEN db[c] ELSE NoRow]]
       \/ g # Sync /\ Enabled(db) # {} /\ Rest(g)
    /\ UNCHANGED <<db, cache, routed, lock, probed, events>>

(* Mutant: what the cache knows of a channel that is off stays. *)
RefreshSwapKeeps(g) ==
    /\ go[g].pc = "swap"
    /\ cache' = [c \in Channels |-> IF c \in routed THEN go[g].snap[c] ELSE cache[c]]
    /\ routed' = Enabled(cache')
    /\ Rest(g)
    /\ UNCHANGED <<db, lock, probed, events, faults>>

RefreshSwap(g) ==
    /\ go[g].pc = "swap"
    /\ cache' = go[g].snap
    /\ routed' = Enabled(go[g].snap)
    /\ Rest(g)
    /\ UNCHANGED <<db, lock, probed, events, faults>>

(***************************************************************************)
(* UpdateChannelStatus: the cache first, then the whole row is read and    *)
(* written back.  EnableChannel and DisableChannel end here.               *)
(***************************************************************************)
Unlock == lock' = Nobody
Return(w) == Unlock /\ Rest(w)

(* The reason is written to the cached channel before its status. *)
LockStatus(w) ==
    LET c == go[w].chan
    IN  /\ go[w].pc = "status" /\ lock = Nobody
        /\ IF cache[c].status \in {go[w].want, "missing"}
             THEN Rest(w) /\ UNCHANGED <<cache, lock>>
             ELSE /\ cache' = IF go[w].want = "enabled" THEN cache
                                                        ELSE [cache EXCEPT ![c].reason = "error"]
                  /\ lock' = w
                  /\ Goto(w, "cache")
        /\ UNCHANGED <<db, routed, probed, events, faults>>

SetCached(w) ==
    /\ go[w].pc = "cache"
    /\ CacheUpdateChannelStatus(go[w].chan, go[w].want)
    /\ Goto(w, "read")
    /\ UNCHANGED <<db, lock, probed, events, faults>>

(* Mutant: a return that forgets the lock *)
ReadRowLocked(w) ==
    /\ go[w].pc = "read"
    /\ IF db[go[w].chan].status = go[w].want
         THEN Rest(w) /\ UNCHANGED lock
         ELSE /\ go' = [go EXCEPT ![w].pc = "save", ![w].row = db[go[w].chan]]
              /\ UNCHANGED lock
    /\ UNCHANGED <<db, cache, routed, probed, events, faults>>

ReadRow(w) ==
    /\ go[w].pc = "read"
    /\ IF db[go[w].chan].status = go[w].want
         THEN Return(w)
         ELSE /\ go' = [go EXCEPT ![w].pc = "save", ![w].row = db[go[w].chan]]
              /\ UNCHANGED lock
    /\ UNCHANGED <<db, cache, routed, probed, events, faults>>

Written(w) == [go[w].row EXCEPT !.status = go[w].want,
                                !.reason = IF go[w].want = "enabled" THEN "none" ELSE "error"]

Save(w) ==
    /\ go[w].pc = "save"
    /\ db' = [db EXCEPT ![go[w].chan] = Written(w)]
    /\ Return(w)
    /\ UNCHANGED <<cache, routed, probed, events, faults>>

(***************************************************************************)
(* UpdateChannelProbeStatus: the row first, then the cache.  EnableChannel *)
(* goes on with UpdateChannelStatus when it returns false.                 *)
(***************************************************************************)
Refused(w) == IF go[w].want = "enabled" THEN Goto(w, "status") ELSE Rest(w)

ProbeMayChange(status, want) ==
    /\ status # want
    /\ status \in {"auto", "probe"} \/ (want = "probe" /\ status = "enabled")

LockProbe(w) ==
    LET c == go[w].chan
    IN  /\ go[w].pc = "probe" /\ lock = Nobody
        /\ IF ProbeMayChange(db[c].status, go[w].want)
             THEN /\ go' = [go EXCEPT ![w].pc = "probe save", ![w].row = db[c]]
                  /\ lock' = w
             ELSE Refused(w) /\ UNCHANGED lock
        /\ UNCHANGED <<db, cache, routed, probed, events, faults>>

SaveProbe(w) ==
    /\ go[w].pc = "probe save"
    /\ db' = [db EXCEPT ![go[w].chan] = Written(w)]
    /\ Goto(w, "probe cache")
    /\ UNCHANGED <<cache, routed, lock, probed, events, faults>>

CacheProbe(w) ==
    /\ go[w].pc = "probe cache"
    /\ CacheUpdateChannelStatus(go[w].chan, go[w].want)
    /\ Return(w)
    /\ UNCHANGED <<db, probed, events, faults>>

(* A statement of either function fails, or the transaction of a count or a reset. *)
StatementFails(w) ==
    /\ Fault
    /\ \/ go[w].pc \in {"count", "resetting"} /\ Rest(w) /\ UNCHANGED lock
       \/ go[w].pc \in {"read", "save"} /\ Return(w)
       \/ go[w].pc = "probe save" /\ Unlock /\ Refused(w)
       \/ go[w].pc = "probe" /\ lock = Nobody /\ Refused(w) /\ UNCHANGED lock
    /\ UNCHANGED <<db, cache, routed, probed, events>>

(***************************************************************************)
(* Requests.                                                               *)
(***************************************************************************)
HasCalls(c) == MaxCallCount[c] = 0 \/ cache[c].used < MaxCallCount[c]

(* getSatisfiedChannel chooses c. *)
Call(w, c) ==
    /\ c \in routed /\ cache[c].status = "enabled" /\ HasCalls(c)
    /\ Begin(w, c, "calling", "enabled", NewRow)
    /\ UNCHANGED <<db, cache, routed, lock, probed, faults>>

(* processChannelError: a probed channel is off after the probe error only. *)
CallFails(w) ==
    /\ go[w].pc = "calling"
    /\ \/ Rest(w)
       \/ /\ go[w].chan \in probed
          /\ go' = [go EXCEPT ![w].pc = "probe", ![w].want = "probe"]
       \/ /\ go[w].chan \notin probed
          /\ go' = [go EXCEPT ![w].pc = "status", ![w].want = "auto"]
    /\ UNCHANGED <<db, cache, routed, lock, probed, events, faults>>

(* The transaction of updateChannelCallCount reads the row *)
CallSucceeds(w) ==
    /\ go[w].pc = "calling"
    /\ go' = [go EXCEPT ![w].pc = "count", ![w].row = db[go[w].chan]]
    /\ UNCHANGED <<db, cache, routed, lock, probed, events, faults>>

UsesUp(c, row) ==
    /\ row.status = "enabled" /\ c \notin probed
    /\ MaxCallCount[c] > 0 /\ row.used + 1 >= MaxCallCount[c]

(* and updates its columns. *)
CountCall(w) ==
    LET c == go[w].chan
        used == go[w].row.used + 1
    IN  /\ go[w].pc = "count"
        /\ \/ /\ UsesUp(c, go[w].row)
              /\ db' = [db EXCEPT ![c] = [status |-> "auto", reason |-> "quota", used |-> used]]
              /\ go' = [go EXCEPT ![w].pc = "counted", ![w].want = "auto", ![w].row = NewRow]
           \/ /\ ~UsesUp(c, go[w].row)
              /\ db' = [db EXCEPT ![c].used = used]
              /\ Goto(w, "counted")
        /\ UNCHANGED <<cache, routed, lock, probed, events, faults>>

(* The cached count becomes that of this call. *)
CountInCache(w) ==
    /\ go[w].pc = "counted"
    /\ UpdateChannelCallCountInCache(go[w].chan, 1)
    /\ IF go[w].want = "auto" THEN Goto(w, "used up") ELSE Rest(w)
    /\ UNCHANGED <<db, routed, lock, probed, events, faults>>

TakeOffRoutes(w) ==
    /\ go[w].pc = "used up"
    /\ CacheUpdateChannelStatus(go[w].chan, "auto")
    /\ Rest(w)
    /\ UNCHANGED <<db, lock, probed, events, faults>>

(***************************************************************************)
(* Tests and probes: the list of channels is read long before the end of   *)
(* the test of one of them.                                                *)
(***************************************************************************)
Test(w, c) ==
    /\ db[c].status \in {"enabled", "auto"} \union (IF c \in probed THEN {"probe"} ELSE {})
    /\ Begin(w, c, "testing", db[c].status, NewRow)
    /\ UNCHANGED <<db, cache, routed, lock, probed, faults>>

TestPasses(w) ==
    /\ go[w].pc = "testing"
    /\ IF go[w].want = "enabled" THEN Rest(w) ELSE Goto(w, "enable")
    /\ UNCHANGED <<db, cache, routed, lock, probed, events, faults>>

TestFails(w) ==
    LET c == go[w].chan
    IN  /\ go[w].pc = "testing"
        /\ \/ Rest(w)
           \/ /\ c \in probed /\ go[w].want \in {"enabled", "probe"}
              /\ go' = [go EXCEPT ![w].pc = "probe", ![w].want = "probe"]
           \/ /\ c \notin probed /\ go[w].want = "enabled"
              /\ go' = [go EXCEPT ![w].pc = "status", ![w].want = "auto"]
        /\ UNCHANGED <<db, cache, routed, lock, probed, events, faults>>

EnableChannel(w) ==
    LET seen == cache[go[w].chan].status
    IN  /\ go[w].pc = "enable"
        /\ \/ /\ seen = "probe" \/ (seen = "auto" /\ go[w].chan \in probed)
              /\ go' = [go EXCEPT ![w].pc = "probe", ![w].want = "enabled"]
           \/ /\ ~(seen = "probe" \/ (seen = "auto" /\ go[w].chan \in probed))
              /\ go' = [go EXCEPT ![w].pc = "status", ![w].want = "enabled"]
        /\ UNCHANGED <<db, cache, routed, lock, probed, events, faults>>

(***************************************************************************)
(* Resets, administrators, restarts.                                       *)
(***************************************************************************)

(* The transaction of applyChannelResetRule or ResetChannelUsedCallCount reads the *)
(* row and updates its columns.                                                    *)
Reset(w, c) ==
    /\ Begin(w, c, "resetting", "enabled", db[c])
    /\ UNCHANGED <<db, cache, routed, lock, probed, faults>>

ResetRow(w) ==
    LET c == go[w].chan
        recovered == go[w].row.status = "auto" /\ go[w].row.reason = "quota"
    IN  /\ go[w].pc = "resetting"
        /\ db' = [db EXCEPT ![c] = IF recovered THEN NewRow ELSE [@ EXCEPT !.used = 0]]
        /\ Goto(w, "reset")
        /\ UNCHANGED <<cache, routed, lock, probed, events, faults>>

ResetInCache(w) ==
    /\ go[w].pc = "reset"
    /\ UpdateChannelCallCountInCache(go[w].chan, 0)
    /\ Goto(w, "recheck")
    /\ UNCHANGED <<db, routed, lock, probed, events, faults>>

Recheck(w) ==
    LET cached == cache[go[w].chan]
    IN  /\ go[w].pc = "recheck"
        /\ IF cached.status = "auto" /\ cached.reason = "quota" THEN Goto(w, "recover") ELSE Rest(w)
        /\ UNCHANGED <<db, cache, routed, lock, probed, events, faults>>

Recover(w) ==
    /\ go[w].pc = "recover"
    /\ CacheUpdateChannelStatus(go[w].chan, "enabled")
    /\ Rest(w)
    /\ UNCHANGED <<db, lock, probed, events, faults>>

(* UpdateChannel of the administration: the row, then a refresh of the cache *)
Administer(w, c, status) ==
    /\ Begin(w, go[w].chan, "refresh", "enabled", NewRow)
    /\ db' = [db EXCEPT ![c].status = status]
    /\ UNCHANGED <<cache, routed, lock, probed, faults>>

(* The process ends and starts again. *)
Restart ==
    /\ Fault
    /\ cache' = db /\ routed' = Enabled(db)
    /\ go' = [g \in Goroutines |-> AtRest(g)]
    /\ Unlock
    /\ UNCHANGED <<db, probed, events>>

UpdateStep(w) ==
    \/ LockStatus(w) \/ SetCached(w) \/ ReadRow(w) \/ Save(w)
    \/ LockProbe(w) \/ SaveProbe(w) \/ CacheProbe(w)

(* What a goroutine does once it has begun *)
Step(w) ==
    \/ UpdateStep(w)
    \/ CallFails(w) \/ CallSucceeds(w) \/ CountCall(w) \/ CountInCache(w) \/ TakeOffRoutes(w)
    \/ EnableChannel(w)
    \/ ResetRow(w) \/ ResetInCache(w) \/ Recheck(w) \/ Recover(w)

Next ==
    \/ \E g \in Goroutines : RefreshRead(g) \/ RefreshReadFails(g) \/ RefreshSwap(g)
    \/ \E w \in Workers : Step(w) \/ TestPasses(w) \/ TestFails(w) \/ StatementFails(w)
    \/ \E w \in Workers, c \in Channels :
         \/ Call(w, c) \/ Test(w, c) \/ Reset(w, c)
         \/ \E status \in {"enabled", "manual"} : Administer(w, c, status)
    \/ Restart

(* A goroutine that can go on does, the upstream call of a request ends (its       *)
(* context has a deadline) and the synchronisation runs for ever.  Nothing makes   *)
(* the upstream call of a test or a probe end: it has no deadline, and the client  *)
(* no timeout unless RELAY_TIMEOUT is set.                                         *)
Fairness ==
    /\ \A w \in Workers : WF_vars(Step(w))
    /\ \A g \in Goroutines : WF_vars(RefreshRead(g) \/ RefreshSwap(g))

Spec == Init /\ [][Next]_vars /\ Fairness

(***************************************************************************)
(* Properties.                                                             *)
(***************************************************************************)
TypeOK ==
    /\ db \in [Channels -> Row] /\ cache \in [Channels -> Cached]
    /\ routed \subseteq Channels
    /\ go \in [Goroutines -> Local]
    /\ lock \in Workers \union {Nobody} /\ probed \in Probings
    /\ events \in 0 .. MaxEvents /\ faults \in 0 .. MaxFaults

(* The routes and the cached statuses are two structures that four functions      *)
(* change: a channel is in the routes exactly if its cached status is enabled,    *)
(* so that a channel that was enabled again is found and one that is off is not.  *)
RoutesAgree == routed = Enabled(cache)

(* channelStatusLock is held over database statements and taken twice by          *)
(* EnableChannel; whatever fails or returns early, everything that begins ends,    *)
(* if it is not a test or a probe that waits for its upstream without a deadline.  *)
EverythingEnds == \A w \in Workers : go[w].pc # "idle" ~> go[w].pc \in {"idle", "testing"}

(* A refresh may install rows that were changed since it read them, a reset may   *)
(* miss the cached reason, a save may fail after the cache was changed, a failed   *)
(* read may empty the cache: once nothing changes any more the synchronisation     *)
(* makes the cache agree with the database, for good.                              *)
CacheHeals == <>[](cache = db /\ routed = Enabled(db))

(* controller/channel-test.go: "Probe must not override an administrator's manual *)
(* or normal auto disable."  A channel an administrator disabled is enabled by an *)
(* administrator only.                                                            *)
AdministratorDecides ==
    [][\A c \in Channels : db[c].status = "manual" /\ db'[c].status = "enabled"
           => \E w \in Workers : Administer(w, c, "enabled")]_vars
=============================================================================
