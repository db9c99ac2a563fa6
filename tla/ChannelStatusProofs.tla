------------------------ MODULE ChannelStatusProofs ------------------------
(***************************************************************************)
(* Invariants of the channel statuses, for any number of channels, of      *)
(* goroutines and of faults.                                               *)
(***************************************************************************)
EXTENDS ChannelStatus, TLAPS

Typed ==
    /\ db \in [Channels -> Row] /\ cache \in [Channels -> Cached]
    /\ routed \subseteq Channels
    /\ go \in [Goroutines -> Local]
    /\ lock \in Workers \union {Nobody}

Counted == probed \in Probings /\ events \in 0 .. MaxEvents /\ faults \in 0 .. MaxFaults

(* channelStatusLock is held by the one goroutine that is between its first and   *)
(* its last change, and by nobody else.                                           *)
Inside == {"cache", "read", "save", "probe save", "probe cache"}
LockHeld == \A w \in Workers : go[w].pc \in Inside <=> lock = w

-----------------------------------------------------------------------------
(* Parts of actions                                                         *)

LEMMA NewRowTyped == NewRow \in Row
BY DEF NewRow, Row, Statuses, Reasons

LEMMA RowIsCached == Row \subseteq Cached /\ NoRow \in Cached
BY DEF Row, Cached, NoRow, Statuses, Reasons

LEMMA AtRestTyped == ASSUME NEW g PROVE AtRest(g) \in Local
<1>1. (CHOOSE c \in Channels : TRUE) \in Channels
    BY ChannelsAssumption
<1>2. Resting(g) \in PCs
    BY DEF Resting, PCs
<1>3. QED
    BY <1>1, <1>2, NewRowTyped, RowIsCached DEF AtRest, Local

LEMMA GotoTyped ==
    ASSUME go \in [Goroutines -> Local], NEW g \in Goroutines, NEW pc \in PCs, Goto(g, pc)
    PROVE  go' \in [Goroutines -> Local]
BY NewRowTyped DEF Goto, Local

LEMMA RestTyped ==
    ASSUME go \in [Goroutines -> Local], NEW g \in Goroutines, Rest(g)
    PROVE  go' \in [Goroutines -> Local]
BY AtRestTyped DEF Rest

LEMMA CacheTyped ==
    ASSUME Typed, NEW c \in Channels, NEW s \in {"enabled", "auto", "probe"},
           CacheUpdateChannelStatus(c, s)
    PROVE  cache' \in [Channels -> Cached] /\ routed' \subseteq Channels
BY DEF CacheUpdateChannelStatus, Typed, Cached, Statuses

LEMMA Locals ==
    ASSUME Typed, NEW g \in Goroutines
    PROVE  /\ go[g].chan \in Channels /\ go[g].want \in {"enabled", "auto", "probe"}
           /\ go[g].row \in Row /\ go[g].snap \in [Channels -> Cached] /\ go[g].pc \in PCs
BY DEF Typed, Local

LEMMA WrittenTyped ==
    ASSUME Typed, NEW w \in Goroutines
    PROVE  Written(w) \in Row
<1>1. go[w].row \in Row /\ go[w].want \in {"enabled", "auto", "probe"}
    BY Locals
<1>2. QED
    BY <1>1 DEF Written, Row, Statuses, Reasons

-----------------------------------------------------------------------------
(* Every action keeps the types.                                            *)

LEMMA RefreshTyped ==
    ASSUME Typed, NEW g \in Goroutines, RefreshRead(g) \/ RefreshReadFails(g) \/ RefreshSwap(g)
    PROVE  Typed'
<1>0. ASSUME NEW snap \in [Channels -> Cached],
             go' = [go EXCEPT ![g].pc = "swap", ![g].snap = snap]
      PROVE  go' \in [Goroutines -> Local]
  <2>1. "swap" \in PCs
      BY DEF PCs
  <2>2. QED
      BY <1>0, <2>1 DEF Typed, Local
<1>1. CASE RefreshRead(g)
  <2>0. db \in [Channels -> Cached]
      BY RowIsCached DEF Typed
  <2>1. go' \in [Goroutines -> Local]
      BY <1>0, <1>1, <2>0 DEF RefreshRead
  <2>2. QED
      BY <1>1, <2>1 DEF RefreshRead, Typed
<1>4. CASE RefreshReadFails(g)
  <2>1. \A seen \in SUBSET Channels :
          [c \in Channels |-> IF c \in seen THEN db[c] ELSE NoRow] \in [Channels -> Cached]
      BY RowIsCached DEF Typed
  <2>2. CASE Rest(g)
      BY <1>4, <2>2, RestTyped DEF RefreshReadFails, Typed
  <2>3. CASE ~Rest(g)
    <3>1. PICK seen \in SUBSET Channels :
            go' = [go EXCEPT ![g].pc = "swap",
                             ![g].snap = [c \in Channels |-> IF c \in seen THEN db[c] ELSE NoRow]]
        BY <1>4, <2>3 DEF RefreshReadFails
    <3>2. go' \in [Goroutines -> Local]
        BY <1>0, <2>1, <3>1
    <3>3. QED
        BY <1>4, <3>2 DEF RefreshReadFails, Typed
  <2>4. QED
      BY <2>2, <2>3
<1>2. CASE RefreshSwap(g)
  <2>1. go' \in [Goroutines -> Local]
      BY <1>2, RestTyped DEF RefreshSwap, Typed
  <2>2. QED
      BY <1>2, <2>1, Locals DEF RefreshSwap, Typed, Enabled
<1>3. QED
    BY <1>1, <1>2, <1>4

LEMMA UpdateTyped ==
    ASSUME Typed, NEW w \in Workers, UpdateStep(w)
    PROVE  Typed'
<1> DEFINE c == go[w].chan
<1>0. w \in Goroutines /\ c \in Channels /\ go[w].want \in {"enabled", "auto", "probe"}
    BY Locals DEF Goroutines
<1> HIDE DEF c
<1>1. CASE LockStatus(w)
  <2>1. go' \in [Goroutines -> Local]
      BY <1>0, <1>1, RestTyped, GotoTyped DEF LockStatus, Typed, PCs
  <2>2. cache' \in [Channels -> Cached] /\ lock' \in Workers \union {Nobody}
    <3>1. [cache[c] EXCEPT !.reason = "error"] \in Cached
        BY <1>0 DEF Typed, Cached, Reasons
    <3>2. cache' = cache \/ cache' = [cache EXCEPT ![c] = [cache[c] EXCEPT !.reason = "error"]]
        BY <1>1 DEF LockStatus, c
    <3>3. cache' \in [Channels -> Cached]
        BY <1>0, <3>1, <3>2 DEF Typed
    <3>4. QED
        BY <1>1, <3>3 DEF LockStatus, Typed
  <2>3. QED
      BY <1>1, <2>1, <2>2 DEF LockStatus, Typed
<1>2. CASE SetCached(w)
  <2>1. go' \in [Goroutines -> Local]
      BY <1>0, <1>2, GotoTyped DEF SetCached, Typed, PCs
  <2>2. QED
      BY <1>0, <1>2, <2>1, CacheTyped DEF SetCached, Typed, c
<1>3. CASE ReadRow(w)
  <2>0. "save" \in PCs
      BY DEF PCs
  <2>1. db[c] \in Row
      BY <1>0 DEF Typed
  <2>2. go' \in [Goroutines -> Local] /\ lock' \in Workers \union {Nobody}
    <3>1. CASE Return(w)
        BY <1>0, <3>1, RestTyped DEF Return, Unlock, Typed
    <3>2. CASE go' = [go EXCEPT ![w].pc = "save", ![w].row = db[c]] /\ UNCHANGED lock
        BY <1>0, <2>0, <2>1, <3>2 DEF Typed, Local
    <3>3. QED
        BY <1>3, <3>1, <3>2 DEF ReadRow, c
  <2>3. QED
      BY <1>3, <2>2 DEF ReadRow, Typed
<1>4. CASE Save(w)
  <2>1. go' \in [Goroutines -> Local] /\ lock' \in Workers \union {Nobody}
      BY <1>0, <1>4, RestTyped DEF Save, Return, Unlock, Typed
  <2>2. db' \in [Channels -> Row]
      BY <1>0, <1>4, WrittenTyped DEF Save, Typed
  <2>3. QED
      BY <1>4, <2>1, <2>2 DEF Save, Typed
<1>5. CASE LockProbe(w)
  <2>0. "probe save" \in PCs
      BY DEF PCs
  <2>1. db[c] \in Row
      BY <1>0 DEF Typed
  <2>2. go' \in [Goroutines -> Local] /\ lock' \in Workers \union {Nobody}
    <3>1. CASE Refused(w) /\ UNCHANGED lock
        BY <1>0, <3>1, RestTyped, GotoTyped DEF Refused, Typed, PCs
    <3>2. CASE go' = [go EXCEPT ![w].pc = "probe save", ![w].row = db[c]] /\ lock' = w
        BY <1>0, <2>0, <2>1, <3>2 DEF Typed, Local
    <3>3. QED
        BY <1>5, <3>1, <3>2 DEF LockProbe, c
  <2>3. QED
      BY <1>5, <2>2 DEF LockProbe, Typed
<1>6. CASE SaveProbe(w)
  <2>1. go' \in [Goroutines -> Local]
      BY <1>0, <1>6, GotoTyped DEF SaveProbe, Typed, PCs
  <2>2. db' \in [Channels -> Row]
      BY <1>0, <1>6, WrittenTyped DEF SaveProbe, Typed
  <2>3. QED
      BY <1>6, <2>1, <2>2 DEF SaveProbe, Typed
<1>7. CASE CacheProbe(w)
  <2>1. go' \in [Goroutines -> Local] /\ lock' \in Workers \union {Nobody}
      BY <1>0, <1>7, RestTyped DEF CacheProbe, Return, Unlock, Typed
  <2>2. QED
      BY <1>0, <1>7, <2>1, CacheTyped DEF CacheProbe, Typed, c
<1>8. QED
    BY <1>1, <1>2, <1>3, <1>4, <1>5, <1>6, <1>7 DEF UpdateStep

LEMMA CallTyped ==
    ASSUME Typed, NEW w \in Workers,
           \/ CallFails(w) \/ CallSucceeds(w) \/ CountCall(w) \/ CountInCache(w)
           \/ TakeOffRoutes(w)
    PROVE  Typed'
<1> DEFINE c == go[w].chan
<1>0. w \in Goroutines /\ c \in Channels /\ db[c] \in Row /\ cache[c] \in Cached
    BY Locals DEF Goroutines, Typed
<1>a. {"probe", "status", "count", "counted", "used up"} \subseteq PCs
    BY DEF PCs
<1> HIDE DEF c
<1>1. CASE CallFails(w)
  <2>1. CASE Rest(w)
      BY <1>0, <1>1, <2>1, RestTyped DEF CallFails, Typed
  <2>2. CASE go' = [go EXCEPT ![w].pc = "probe", ![w].want = "probe"]
    <3>1. go' \in [Goroutines -> Local]
        BY <1>0, <1>a, <2>2 DEF Typed, Local
    <3>2. QED
        BY <1>1, <3>1 DEF CallFails, Typed
  <2>3. CASE go' = [go EXCEPT ![w].pc = "status", ![w].want = "auto"]
    <3>1. go' \in [Goroutines -> Local]
        BY <1>0, <1>a, <2>3 DEF Typed, Local
    <3>2. QED
        BY <1>1, <3>1 DEF CallFails, Typed
  <2>4. QED
      BY <1>1, <2>1, <2>2, <2>3 DEF CallFails
<1>2. CASE CallSucceeds(w)
  <2>1. go' = [go EXCEPT ![w].pc = "count", ![w].row = db[c]]
      BY <1>2 DEF CallSucceeds, c
  <2>2. go' \in [Goroutines -> Local]
      BY <1>0, <1>a, <2>1 DEF Typed, Local
  <2>3. QED
      BY <1>2, <2>2 DEF CallSucceeds, Typed
<1>6. CASE CountCall(w)
  <2> DEFINE used == go[w].row.used + 1
             off == [status |-> "auto", reason |-> "quota", used |-> used]
             on == [db[c] EXCEPT !.used = used]
  <2>1. used \in Nat
      BY <1>0, Locals DEF Row
  <2>2. off \in Row
      BY <2>1 DEF Row, Statuses, Reasons
  <2>3. on \in Row
      BY <1>0, <2>1 DEF Row
  <2>4. \/ db' = [db EXCEPT ![c] = off]
           /\ go' = [go EXCEPT ![w].pc = "counted", ![w].want = "auto", ![w].row = NewRow]
        \/ db' = [db EXCEPT ![c] = on] /\ Goto(w, "counted")
      BY <1>6 DEF CountCall, c
  <2> HIDE DEF used, off, on
  <2>5. db' \in [Channels -> Row]
      BY <1>0, <2>2, <2>3, <2>4 DEF Typed
  <2>6. go' \in [Goroutines -> Local]
    <3>1. CASE go' = [go EXCEPT ![w].pc = "counted", ![w].want = "auto", ![w].row = NewRow]
      <4>1. [go[w] EXCEPT !.pc = "counted", !.want = "auto", !.row = NewRow] \in Local
          BY <1>0, <1>a, NewRowTyped DEF Typed, Local
      <4>2. go' = [go EXCEPT ![w] = [go[w] EXCEPT !.pc = "counted", !.want = "auto", !.row = NewRow]]
          BY <1>0, <3>1 DEF Typed
      <4>3. QED
          BY <1>0, <4>1, <4>2 DEF Typed
    <3>2. CASE Goto(w, "counted")
        BY <1>0, <1>a, <3>2, GotoTyped DEF Typed
    <3>3. QED
        BY <2>4, <3>1, <3>2
  <2>7. QED
      BY <1>6, <2>5, <2>6 DEF CountCall, Typed
<1>3. CASE CountInCache(w)
  <2>1. [cache[c] EXCEPT !.used = 1] \in Cached
      BY <1>0 DEF Cached
  <2>2. cache' \in {cache, [cache EXCEPT ![c] = [cache[c] EXCEPT !.used = 1]]}
      BY <1>3 DEF CountInCache, UpdateChannelCallCountInCache, c
  <2>3. cache' \in [Channels -> Cached]
      BY <1>0, <2>1, <2>2 DEF Typed
  <2>4. go' \in [Goroutines -> Local]
      BY <1>0, <1>a, <1>3, RestTyped, GotoTyped DEF CountInCache, Typed
  <2>5. QED
      BY <1>3, <2>3, <2>4 DEF CountInCache, Typed
<1>4. CASE TakeOffRoutes(w)
  <2>1. go' \in [Goroutines -> Local]
      BY <1>0, <1>4, RestTyped DEF TakeOffRoutes, Typed
  <2>2. QED
      BY <1>0, <1>4, <2>1, CacheTyped DEF TakeOffRoutes, Typed, c
<1>5. QED
    BY <1>1, <1>2, <1>3, <1>4, <1>6

LEMMA TestTyped ==
    ASSUME Typed, NEW w \in Workers, TestPasses(w) \/ TestFails(w) \/ EnableChannel(w)
    PROVE  Typed'
<1>0. w \in Goroutines /\ {"probe", "status", "enable"} \subseteq PCs
    BY DEF Goroutines, PCs
<1>1. \/ Rest(w) \/ Goto(w, "enable")
      \/ \E pc \in {"probe", "status"}, want \in {"enabled", "auto", "probe"} :
           go' = [go EXCEPT ![w].pc = pc, ![w].want = want]
    BY DEF TestPasses, TestFails, EnableChannel
<1>2. ASSUME NEW pc \in PCs, NEW want \in {"enabled", "auto", "probe"},
             go' = [go EXCEPT ![w].pc = pc, ![w].want = want]
      PROVE  go' \in [Goroutines -> Local]
    BY <1>0, <1>2 DEF Typed, Local
<1>3. go' \in [Goroutines -> Local]
    BY <1>0, <1>1, <1>2, RestTyped, GotoTyped DEF Typed
<1>4. QED
    BY <1>3 DEF TestPasses, TestFails, EnableChannel, Typed

LEMMA ResetTyped ==
    ASSUME Typed, NEW w \in Workers, ResetRow(w) \/ ResetInCache(w) \/ Recheck(w) \/ Recover(w)
    PROVE  Typed'
<1> DEFINE c == go[w].chan
<1>0. w \in Goroutines /\ c \in Channels /\ db[c] \in Row /\ cache[c] \in Cached
    BY Locals DEF Goroutines, Typed
<1> HIDE DEF c
<1>1. CASE ResetInCache(w)
  <2>1. [cache[c] EXCEPT !.used = 0] \in Cached
      BY <1>0 DEF Cached
  <2>2. cache' \in {cache, [cache EXCEPT ![c] = [cache[c] EXCEPT !.used = 0]]}
      BY <1>1 DEF ResetInCache, UpdateChannelCallCountInCache, c
  <2>3. cache' \in [Channels -> Cached]
      BY <1>0, <2>1, <2>2 DEF Typed
  <2>4. go' \in [Goroutines -> Local]
      BY <1>0, <1>1, GotoTyped DEF ResetInCache, Typed, PCs
  <2>5. QED
      BY <1>1, <2>3, <2>4 DEF ResetInCache, Typed
<1>2. CASE Recheck(w)
  <2>1. go' \in [Goroutines -> Local]
      BY <1>0, <1>2, RestTyped, GotoTyped DEF Recheck, Typed, PCs
  <2>2. QED
      BY <1>2, <2>1 DEF Recheck, Typed
<1>3. CASE Recover(w)
  <2>1. go' \in [Goroutines -> Local]
      BY <1>0, <1>3, RestTyped DEF Recover, Typed
  <2>2. QED
      BY <1>0, <1>3, <2>1, CacheTyped DEF Recover, Typed, c
<1>5. CASE ResetRow(w)
  <2>1. NewRow \in Row /\ [db[c] EXCEPT !.used = 0] \in Row
      BY <1>0, NewRowTyped DEF Row
  <2>2. \/ db' = [db EXCEPT ![c] = NewRow]
        \/ db' = [db EXCEPT ![c] = [db[c] EXCEPT !.used = 0]]
      BY <1>5 DEF ResetRow, c
  <2>3. db' \in [Channels -> Row]
      BY <2>1, <2>2 DEF Typed
  <2>4. go' \in [Goroutines -> Local]
      BY <1>0, <1>5, GotoTyped DEF ResetRow, Typed, PCs
  <2>5. QED
      BY <1>5, <2>3, <2>4 DEF ResetRow, Typed
<1>4. QED
    BY <1>1, <1>2, <1>3, <1>5

LEMMA FaultsTyped ==
    ASSUME Typed, NEW w \in Workers, StatementFails(w)
    PROVE  Typed'
<1>0. w \in Goroutines
    BY DEF Goroutines
<1>1. go' \in [Goroutines -> Local]
    BY <1>0, RestTyped, GotoTyped DEF StatementFails, Return, Refused, Typed, PCs
<1>2. QED
    BY <1>1 DEF StatementFails, Return, Unlock, Typed

LEMMA BeginTyped ==
    ASSUME Typed, NEW w \in Workers, NEW c \in Channels, NEW pc \in PCs,
           NEW want \in {"enabled", "auto", "probe"}, NEW row \in Row, Begin(w, c, pc, want, row)
    PROVE  go' \in [Goroutines -> Local]
<1>1. w \in Goroutines /\ go[w] \in Local
    BY DEF Goroutines, Typed
<1>2. go' = [go EXCEPT ![w] = [go[w] EXCEPT !.pc = pc, !.chan = c, !.want = want, !.row = row]]
    BY <1>1 DEF Begin, Typed
<1>3. [go[w] EXCEPT !.pc = pc, !.chan = c, !.want = want, !.row = row] \in Local
    BY <1>1 DEF Local
<1>4. QED
    BY <1>1, <1>2, <1>3 DEF Typed

LEMMA BeginningsTyped ==
    ASSUME Typed, NEW w \in Workers, NEW c \in Channels,
           \/ Call(w, c) \/ Test(w, c) \/ Reset(w, c)
           \/ \E status \in {"enabled", "manual"} : Administer(w, c, status)
    PROVE  Typed'
<1>0. db[c] \in Row /\ NewRow \in Row /\ go[w].chan \in Channels
    BY NewRowTyped, Locals DEF Typed, Goroutines
<1>1. CASE Call(w, c)
  <2>1. go' \in [Goroutines -> Local]
      BY <1>0, <1>1, BeginTyped DEF Call, PCs
  <2>2. QED
      BY <1>1, <2>1 DEF Call, Typed
<1>2. CASE Test(w, c)
  <2>1. db[c].status \in {"enabled", "auto", "probe"}
      BY <1>2 DEF Test
  <2>2. go' \in [Goroutines -> Local]
      BY <1>0, <1>2, <2>1, BeginTyped DEF Test, PCs
  <2>3. QED
      BY <1>2, <2>2 DEF Test, Typed
<1>3. CASE Reset(w, c)
  <2>1. go' \in [Goroutines -> Local]
      BY <1>0, <1>3, BeginTyped DEF Reset, PCs
  <2>2. QED
      BY <1>3, <2>1 DEF Reset, Typed
<1>4. ASSUME NEW status \in {"enabled", "manual"}, Administer(w, c, status)
      PROVE  Typed'
  <2>1. [db[c] EXCEPT !.status = status] \in Row
      BY <1>0 DEF Row, Statuses
  <2>2. db' = [db EXCEPT ![c] = [db[c] EXCEPT !.status = status]]
      BY <1>4 DEF Administer
  <2>3. db' \in [Channels -> Row]
      BY <2>1, <2>2 DEF Typed
  <2>4. go' \in [Goroutines -> Local]
      BY <1>0, <1>4, BeginTyped DEF Administer, PCs
  <2>5. QED
      BY <1>4, <2>3, <2>4 DEF Administer, Typed
<1>5. QED
    BY <1>1, <1>2, <1>3, <1>4

LEMMA RestartTyped == Typed /\ Restart => Typed'
<1> SUFFICES ASSUME Typed, Restart PROVE Typed'
    OBVIOUS
<1>1. go' \in [Goroutines -> Local]
    BY AtRestTyped DEF Restart
<1>2. QED
    BY <1>1, RowIsCached DEF Restart, Unlock, Typed, Enabled

LEMMA NextTyped == Typed /\ [Next]_vars => Typed'
<1> SUFFICES ASSUME Typed, [Next]_vars PROVE Typed'
    OBVIOUS
<1>1. ASSUME NEW g \in Goroutines, RefreshRead(g) \/ RefreshReadFails(g) \/ RefreshSwap(g) PROVE Typed'
    BY <1>1, RefreshTyped
<1>2. ASSUME NEW w \in Workers, Step(w) \/ TestPasses(w) \/ TestFails(w) \/ StatementFails(w)
      PROVE  Typed'
    BY <1>2, UpdateTyped, CallTyped, TestTyped, ResetTyped, FaultsTyped DEF Step
<1>3. ASSUME NEW w \in Workers, NEW c \in Channels,
             \/ Call(w, c) \/ Test(w, c) \/ Reset(w, c)
             \/ \E status \in {"enabled", "manual"} : Administer(w, c, status)
      PROVE  Typed'
    BY <1>3, BeginningsTyped
<1>4. CASE UNCHANGED vars
    BY <1>4 DEF vars, Typed
<1>5. QED
    BY <1>1, <1>2, <1>3, <1>4, RestartTyped DEF Next

LEMMA NextCounted == Counted /\ [Next]_vars => Counted'
<1> SUFFICES ASSUME Counted, [Next]_vars PROVE Counted'
    OBVIOUS
<1>0. CASE UNCHANGED <<probed, events, faults>>
    BY <1>0 DEF Counted
<1>1. ASSUME NEW g \in Goroutines, RefreshRead(g) \/ RefreshSwap(g)
      PROVE  UNCHANGED <<probed, events, faults>>
    BY <1>1 DEF RefreshRead, RefreshSwap
<1>2. ASSUME NEW w \in Workers, UpdateStep(w) PROVE UNCHANGED <<probed, events, faults>>
    BY <1>2 DEF UpdateStep, LockStatus, SetCached, ReadRow, Save, LockProbe, SaveProbe, CacheProbe
<1>3. ASSUME NEW w \in Workers,
             \/ CallFails(w) \/ CallSucceeds(w) \/ CountCall(w) \/ CountInCache(w)
             \/ TakeOffRoutes(w) \/ TestPasses(w) \/ TestFails(w) \/ EnableChannel(w)
             \/ ResetRow(w) \/ ResetInCache(w) \/ Recheck(w) \/ Recover(w)
      PROVE  UNCHANGED <<probed, events, faults>>
    BY <1>3 DEF CallFails, CallSucceeds, CountCall, CountInCache, TakeOffRoutes, TestPasses,
                TestFails, EnableChannel, ResetRow, ResetInCache, Recheck, Recover
<1>4. ASSUME Fault, UNCHANGED <<probed, events>> PROVE Counted'
    BY <1>4, BoundsAssumption DEF Fault, Counted
<1>9. ASSUME NEW g \in Goroutines, RefreshReadFails(g) PROVE Counted'
    BY <1>4, <1>9 DEF RefreshReadFails
<1>5. ASSUME NEW w \in Workers, StatementFails(w) PROVE Counted'
    BY <1>4, <1>5 DEF StatementFails
<1>6. CASE Restart
    BY <1>4, <1>6 DEF Restart
<1>7. ASSUME NEW w \in Workers, NEW c \in Channels,
             \/ Call(w, c) \/ Test(w, c) \/ Reset(w, c)
             \/ \E status \in {"enabled", "manual"} : Administer(w, c, status)
      PROVE  Counted'
  <2>1. events < MaxEvents /\ events' = events + 1 /\ UNCHANGED <<probed, faults>>
      BY <1>7 DEF Call, Test, Reset, Administer, Begin
  <2>2. QED
      BY <2>1, BoundsAssumption DEF Counted
<1>8. QED
    BY <1>0, <1>1, <1>2, <1>3, <1>5, <1>6, <1>7, <1>9 DEF Next, Step, vars

(* All figures have their types: the counts stay natural and what a goroutine     *)
(* carries from one step to another is a row, a snapshot or a status that the     *)
(* functions it calls can take.                                                   *)
THEOREM TypeCorrect == Spec => []TypeOK
<1>1. Init => Typed /\ Counted
  <2> SUFFICES ASSUME Init PROVE Typed /\ Counted
      OBVIOUS
  <2>1. go \in [Goroutines -> Local]
      BY AtRestTyped DEF Init
  <2>2. db \in [Channels -> Row] /\ cache \in [Channels -> Cached]
      BY NewRowTyped, RowIsCached DEF Init
  <2>3. QED
      BY <2>1, <2>2, BoundsAssumption DEF Init, Typed, Counted
<1>2. Typed /\ Counted => TypeOK
    BY DEF Typed, Counted, TypeOK
<1>3. QED
    BY <1>1, <1>2, NextTyped, NextCounted, PTL DEF Spec

-----------------------------------------------------------------------------
(* The routes                                                               *)

LEMMA CacheKeepsRoutes ==
    ASSUME Typed, RoutesAgree, NEW c \in Channels, NEW s, CacheUpdateChannelStatus(c, s)
    PROVE  RoutesAgree'
<1>1. CASE ~Known(c)
    BY <1>1 DEF CacheUpdateChannelStatus, RoutesAgree, Enabled, Known
<1>2. CASE Known(c)
  <2>1. cache[c] \in Cached
      BY DEF Typed
  <2>2. cache' = [cache EXCEPT ![c] = [cache[c] EXCEPT !.status = s]]
      BY <1>2 DEF CacheUpdateChannelStatus
  <2>3. \A d \in Channels : cache'[d].status = IF d = c THEN s ELSE cache[d].status
      BY <2>1, <2>2 DEF Typed, Cached
  <2>4. routed' = IF s # "enabled" THEN routed \ {c} ELSE routed \union {c}
      BY <1>2 DEF CacheUpdateChannelStatus
  <2>5. QED
      BY <2>3, <2>4 DEF RoutesAgree, Enabled
<1>3. QED
    BY <1>1, <1>2

(* Steps that change another field of a cached channel *)
LEMMA StatusKeepsRoutes ==
    ASSUME RoutesAgree, routed' = routed,
           \A d \in Channels : cache'[d].status = cache[d].status
    PROVE  RoutesAgree'
BY DEF RoutesAgree, Enabled

LEMMA NextKeepsRoutes == Typed /\ RoutesAgree /\ [Next]_vars => RoutesAgree'
<1> SUFFICES ASSUME Typed, RoutesAgree, [Next]_vars PROVE RoutesAgree'
    OBVIOUS
<1>1. CASE UNCHANGED <<cache, routed>>
    BY <1>1 DEF RoutesAgree, Enabled
<1>2. ASSUME NEW g \in Goroutines, RefreshSwap(g) PROVE RoutesAgree'
    BY <1>2 DEF RefreshSwap, RoutesAgree, Enabled
<1>3. ASSUME NEW w \in Workers, SetCached(w) \/ CacheProbe(w) \/ TakeOffRoutes(w) \/ Recover(w)
      PROVE  RoutesAgree'
  <2>1. go[w].chan \in Channels
      BY Locals DEF Goroutines
  <2>2. QED
      BY <1>3, <2>1, CacheKeepsRoutes DEF SetCached, CacheProbe, TakeOffRoutes, Recover
<1>4. ASSUME NEW w \in Workers, LockStatus(w) \/ CountInCache(w) \/ ResetInCache(w)
      PROVE  RoutesAgree'
  <2>1. go[w].chan \in Channels
      BY Locals DEF Goroutines
  <2>2. \A d \in Channels : cache'[d].status = cache[d].status
    <3>1. cache[go[w].chan] \in Cached /\ cache \in [Channels -> Cached]
        BY <2>1 DEF Typed
    <3>2. CASE LockStatus(w)
        BY <2>1, <3>1, <3>2 DEF LockStatus, Cached
    <3>3. CASE CountInCache(w)
        BY <2>1, <3>1, <3>3 DEF CountInCache, UpdateChannelCallCountInCache, Cached
    <3>4. CASE ResetInCache(w)
        BY <2>1, <3>1, <3>4 DEF ResetInCache, UpdateChannelCallCountInCache, Cached
    <3>5. QED
        BY <1>4, <3>2, <3>3, <3>4
  <2>3. QED
      BY <1>4, <2>2, StatusKeepsRoutes DEF LockStatus, CountInCache, ResetInCache
<1>5. CASE Restart
    BY <1>5 DEF Restart, RoutesAgree, Enabled
<1>6. ASSUME NEW g \in Goroutines, RefreshRead(g) \/ RefreshReadFails(g)
      PROVE  UNCHANGED <<cache, routed>>
    BY <1>6 DEF RefreshRead, RefreshReadFails
<1>7. ASSUME NEW w \in Workers,
             \/ ReadRow(w) \/ Save(w) \/ LockProbe(w) \/ SaveProbe(w) \/ StatementFails(w)
             \/ CallFails(w) \/ CallSucceeds(w) \/ CountCall(w) \/ TestPasses(w) \/ TestFails(w)
             \/ EnableChannel(w) \/ ResetRow(w) \/ Recheck(w)
      PROVE  UNCHANGED <<cache, routed>>
    BY <1>7 DEF ReadRow, Save, LockProbe, SaveProbe, StatementFails, CallFails, CallSucceeds,
                CountCall, TestPasses, TestFails, EnableChannel, ResetRow, Recheck
<1>8. ASSUME NEW w \in Workers, NEW c \in Channels,
             \/ Call(w, c) \/ Test(w, c) \/ Reset(w, c)
             \/ \E status \in {"enabled", "manual"} : Administer(w, c, status)
      PROVE  UNCHANGED <<cache, routed>>
    BY <1>8 DEF Call, Test, Reset, Administer
<1>9. QED
    BY <1>1, <1>2, <1>3, <1>4, <1>5, <1>6, <1>7, <1>8 DEF Next, Step, UpdateStep, vars

(* Whatever requests, tests, resets, administrators and refreshes do to the cache *)
(* at the same time, a channel is routed exactly if its cached status is enabled. *)
THEOREM RoutesAlwaysAgree == Spec => []RoutesAgree
<1>1. Init => Typed /\ RoutesAgree
  <2> SUFFICES ASSUME Init PROVE Typed /\ RoutesAgree
      OBVIOUS
  <2>1. go \in [Goroutines -> Local]
      BY AtRestTyped DEF Init
  <2>2. db \in [Channels -> Row] /\ cache \in [Channels -> Cached]
      BY NewRowTyped, RowIsCached DEF Init
  <2>3. QED
      BY <2>1, <2>2 DEF Init, Typed, RoutesAgree, Enabled, NewRow
<1>2. QED
    BY <1>1, NextTyped, NextKeepsRoutes, PTL DEF Spec

-----------------------------------------------------------------------------
(* The lock                                                                 *)

(* Of the workers, only w moves, to pc. *)
Moves(w, pc) == go'[w].pc = pc /\ \A v \in Workers : v # w => go'[v].pc = go[v].pc

LEMMA GotoMoves ==
    ASSUME Typed, NEW w \in Workers, NEW pc, Goto(w, pc)
    PROVE  Moves(w, pc)
BY DEF Typed, Goto, Moves, Goroutines, Local

LEMMA RestMoves ==
    ASSUME Typed, NEW w \in Workers, Rest(w)
    PROVE  Moves(w, "idle")
<1>1. AtRest(w).pc = "idle"
    BY WorkersAssumption DEF AtRest, Resting
<1>2. QED
    BY <1>1 DEF Typed, Rest, Moves, Goroutines

LEMMA StayOutside ==
    ASSUME LockHeld, NEW w \in Workers, NEW pc, Moves(w, pc), lock' = lock,
           pc \in Inside <=> go[w].pc \in Inside
    PROVE  LockHeld'
BY DEF LockHeld, Moves

LEMMA TakeLock ==
    ASSUME LockHeld, NEW w \in Workers, NEW pc \in Inside, Moves(w, pc),
           lock = Nobody, lock' = w
    PROVE  LockHeld'
BY WorkersAssumption DEF LockHeld, Moves, Goroutines

LEMMA DropLock ==
    ASSUME LockHeld, NEW w \in Workers, NEW pc, pc \notin Inside, Moves(w, pc),
           go[w].pc \in Inside, lock' = Nobody
    PROVE  LockHeld'
BY WorkersAssumption DEF LockHeld, Moves, Goroutines

LEMMA UpdateKeepsLock ==
    ASSUME Typed, LockHeld, NEW w \in Workers, UpdateStep(w)
    PROVE  LockHeld'
<1>1. CASE LockStatus(w)
  <2>1. CASE Rest(w) /\ UNCHANGED lock
      BY <1>1, <2>1, RestMoves, StayOutside DEF LockStatus, Inside
  <2>2. CASE lock' = w /\ Goto(w, "cache")
      BY <1>1, <2>2, GotoMoves, TakeLock DEF LockStatus, Inside
  <2>3. QED
      BY <1>1, <2>1, <2>2 DEF LockStatus
<1>2. CASE SetCached(w)
    BY <1>2, GotoMoves, StayOutside DEF SetCached, Inside
<1>3. CASE ReadRow(w)
  <2>1. CASE Return(w)
      BY <1>3, <2>1, RestMoves, DropLock DEF ReadRow, Return, Unlock, Inside
  <2>2. CASE go' = [go EXCEPT ![w].pc = "save", ![w].row = db[go[w].chan]] /\ UNCHANGED lock
    <3>1. Moves(w, "save")
        BY <2>2 DEF Typed, Moves, Goroutines, Local
    <3>2. QED
        BY <1>3, <2>2, <3>1, StayOutside DEF ReadRow, Inside
  <2>3. QED
      BY <1>3, <2>1, <2>2 DEF ReadRow
<1>4. CASE Save(w)
    BY <1>4, RestMoves, DropLock DEF Save, Return, Unlock, Inside
<1>5. CASE LockProbe(w)
  <2>1. CASE Refused(w) /\ UNCHANGED lock
      BY <1>5, <2>1, RestMoves, GotoMoves, StayOutside DEF LockProbe, Refused, Inside
  <2>2. CASE go' = [go EXCEPT ![w].pc = "probe save", ![w].row = db[go[w].chan]] /\ lock' = w
    <3>1. Moves(w, "probe save")
        BY <2>2 DEF Typed, Moves, Goroutines, Local
    <3>2. QED
        BY <1>5, <2>2, <3>1, TakeLock DEF LockProbe, Inside
  <2>3. QED
      BY <1>5, <2>1, <2>2 DEF LockProbe
<1>6. CASE SaveProbe(w)
    BY <1>6, GotoMoves, StayOutside DEF SaveProbe, Inside
<1>7. CASE CacheProbe(w)
    BY <1>7, RestMoves, DropLock DEF CacheProbe, Return, Unlock, Inside
<1>8. QED
    BY <1>1, <1>2, <1>3, <1>4, <1>5, <1>6, <1>7 DEF UpdateStep

LEMMA OthersKeepLock ==
    ASSUME Typed, LockHeld, NEW w \in Workers,
           \/ CallFails(w) \/ CallSucceeds(w) \/ CountCall(w) \/ CountInCache(w)
           \/ TakeOffRoutes(w) \/ TestPasses(w) \/ TestFails(w) \/ EnableChannel(w)
           \/ ResetRow(w) \/ ResetInCache(w) \/ Recheck(w) \/ Recover(w)
    PROVE  LockHeld'
<1> DEFINE Out == {"idle", "count", "counted", "used up", "enable", "reset", "recheck", "recover",
                   "probe", "status"}
<1>1. lock' = lock /\ go[w].pc \notin Inside
    BY DEF CallFails, CallSucceeds, CountCall, CountInCache, TakeOffRoutes, TestPasses, TestFails,
           EnableChannel, ResetRow, ResetInCache, Recheck, Recover, Inside
<1>2. \/ Rest(w)
      \/ \E pc \in Out : Goto(w, pc)
      \/ \E pc \in Out, want \in {"enabled", "auto", "probe"} :
           go' = [go EXCEPT ![w].pc = pc, ![w].want = want]
      \/ go' = [go EXCEPT ![w].pc = "count", ![w].row = db[go[w].chan]]
      \/ go' = [go EXCEPT ![w].pc = "counted", ![w].want = "auto", ![w].row = NewRow]
    BY DEF CallFails, CallSucceeds, CountCall, CountInCache, TakeOffRoutes, TestPasses, TestFails,
           EnableChannel, ResetRow, ResetInCache, Recheck, Recover
<1>3. ASSUME NEW pc, NEW want, go' = [go EXCEPT ![w].pc = pc, ![w].want = want]
      PROVE  Moves(w, pc)
    BY <1>3 DEF Typed, Moves, Goroutines, Local
<1>6. ASSUME go' = [go EXCEPT ![w].pc = "count", ![w].row = db[go[w].chan]]
      PROVE  Moves(w, "count")
    BY <1>6 DEF Typed, Moves, Goroutines, Local
<1>7. ASSUME go' = [go EXCEPT ![w].pc = "counted", ![w].want = "auto", ![w].row = NewRow]
      PROVE  Moves(w, "counted")
    BY <1>7 DEF Typed, Moves, Goroutines, Local
<1>4. \E pc \in Out : Moves(w, pc)
    BY <1>2, <1>3, <1>6, <1>7, RestMoves, GotoMoves
<1>5. QED
    BY <1>1, <1>4, StayOutside DEF Inside

LEMMA FaultsKeepLock ==
    ASSUME Typed, LockHeld, NEW w \in Workers, StatementFails(w)
    PROVE  LockHeld'
<1>1. Rest(w) \/ Goto(w, "status")
    BY DEF StatementFails, Return, Refused
<1>2. Moves(w, "idle") \/ Moves(w, "status")
    BY <1>1, RestMoves, GotoMoves
<1>3. CASE go[w].pc \in Inside /\ lock' = Nobody
    BY <1>2, <1>3, DropLock DEF Inside
<1>4. CASE go[w].pc \notin Inside /\ lock' = lock
    BY <1>2, <1>4, StayOutside DEF Inside
<1>5. QED
    BY <1>3, <1>4 DEF StatementFails, Return, Unlock, Inside

LEMMA BeginningsKeepLock ==
    ASSUME Typed, LockHeld, NEW w \in Workers, NEW c \in Channels,
           \/ Call(w, c) \/ Test(w, c) \/ Reset(w, c)
           \/ \E status \in {"enabled", "manual"} : Administer(w, c, status)
    PROVE  LockHeld'
<1>1. lock' = lock /\ go[w].pc = "idle"
    BY DEF Call, Test, Reset, Administer, Begin
<1>2. ASSUME NEW d, NEW pc, NEW want, NEW row, Begin(w, d, pc, want, row)
      PROVE  Moves(w, pc)
    BY <1>2 DEF Begin, Typed, Moves, Goroutines, Local
<1>3. \E pc \in {"calling", "testing", "resetting", "refresh"} : Moves(w, pc)
    BY <1>2 DEF Call, Test, Reset, Administer
<1>4. QED
    BY <1>1, <1>3, StayOutside DEF Inside

LEMMA RefreshKeepsLock ==
    ASSUME Typed, LockHeld, NEW g \in Goroutines,
           RefreshRead(g) \/ RefreshReadFails(g) \/ RefreshSwap(g)
    PROVE  LockHeld'
<1>1. lock' = lock /\ go[g].pc \notin Inside
    BY DEF RefreshRead, RefreshReadFails, RefreshSwap, Inside
<1>2. go'[g].pc \notin Inside
  <2>1. CASE RefreshRead(g)
    <3>1. go'[g].pc = "swap"
        BY <2>1 DEF RefreshRead, Typed, Local
    <3>2. QED
        BY <3>1 DEF Inside
  <2>2. CASE RefreshSwap(g) \/ Rest(g)
    <3>1. go'[g].pc = Resting(g)
        BY <2>2 DEF RefreshSwap, Rest, AtRest, Typed
    <3>2. QED
        BY <3>1 DEF Resting, Inside
  <2>3. CASE RefreshReadFails(g) /\ ~Rest(g)
    <3>1. go'[g].pc = "swap"
        BY <2>3 DEF RefreshReadFails, Typed, Local
    <3>2. QED
        BY <3>1 DEF Inside
  <2>4. QED
      BY <2>1, <2>2, <2>3
<1>3. \A v \in Workers : v # g => go'[v].pc = go[v].pc
    BY DEF RefreshRead, RefreshReadFails, RefreshSwap, Rest, Typed, Goroutines
<1>4. QED
    BY <1>1, <1>2, <1>3 DEF LockHeld

(* channelStatusLock does its work: between the first and the last change of an   *)
(* UpdateChannelStatus or UpdateChannelProbeStatus no other one runs, and no      *)
(* return, early or after an error, keeps the lock.                               *)
THEOREM LockIsHeldInside == Spec => []LockHeld
<1>1. Init => Typed /\ LockHeld
  <2> SUFFICES ASSUME Init PROVE Typed /\ LockHeld
      OBVIOUS
  <2>1. go \in [Goroutines -> Local]
      BY AtRestTyped DEF Init
  <2>2. db \in [Channels -> Row] /\ cache \in [Channels -> Cached]
      BY NewRowTyped, RowIsCached DEF Init
  <2>3. Typed
      BY <2>1, <2>2 DEF Init, Typed
  <2>4. \A w \in Workers : go[w].pc = "idle" /\ lock # w
      BY WorkersAssumption DEF Init, AtRest, Resting, Goroutines
  <2>5. QED
      BY <2>3, <2>4 DEF LockHeld, Inside
<1>2. Typed /\ LockHeld /\ [Next]_vars => LockHeld'
  <2> SUFFICES ASSUME Typed, LockHeld, [Next]_vars PROVE LockHeld'
      OBVIOUS
  <2>1. CASE Restart
    <3>1. \A w \in Workers : go'[w].pc = "idle" /\ lock' # w
        BY <2>1, WorkersAssumption DEF Restart, Unlock, AtRest, Resting, Goroutines
    <3>2. QED
        BY <3>1 DEF LockHeld, Inside
  <2>2. CASE UNCHANGED vars
      BY <2>2 DEF vars, LockHeld
  <2>3. QED
      BY <2>1, <2>2, UpdateKeepsLock, OthersKeepLock, FaultsKeepLock, BeginningsKeepLock,
         RefreshKeepsLock DEF Next, Step
<1>3. QED
    BY <1>1, <1>2, NextTyped, PTL DEF Spec
=============================================================================
