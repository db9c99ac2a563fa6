------------------------- MODULE TaskBillingProofs -------------------------
(***************************************************************************)
(* Safety of the billing of asynchronous tasks, for any tasks, pollers,    *)
(* quotas and costs, and any pattern of errors and crashes.                *)
(*                                                                         *)
(* Shape says what one poller's locals are at each control point, Known    *)
(* that pollers and fetchers hold copies of recorded rows only.  Guarded   *)
(* tasks (videos) are billed by the poller that won the compare-and-set:   *)
(* VideoOK.  A Suno task is exact when one process polls it: SunoOK.       *)
(***************************************************************************)
EXTENDS TaskBilling, FiniteSetTheorems, TLAPS

Charge0(t) == IF t \in Tokened THEN Quota[t] ELSE 0
Untouched(t) == fund[t] = Quota[t] /\ tok[t] = Charge0(t)
Returned(t) == fund[t] = 0 /\ tok[t] = 0

\* The locals of a poller.
Shape(l) ==
    /\ l.pc \in {"sleep", "sweep", "poll", "batch"} => l.task = NoTask
    /\ l.pc \in {"write", "funding", "token", "save"} => l.task \in Tasks
    /\ \A t \in Tasks : l.todo[t] \in Unfinished \cup {"none"}
    /\ l.pc = "write" => l.task \notin Suno /\ l.new \in Statuses
    /\ l.pc = "save" => l.task \in Suno
    /\ l.pc \in {"write", "save"} => l.todo[l.task] # "none"
    /\ l.pc \in {"funding", "token"} =>
          \/ l.delta = Refunded(l.task)
          \/ l.ret = "batch" /\ l.delta = Actual[l.task] - Quota[l.task] /\ Actual[l.task] # 0
    /\ l.pc \in {"funding", "token"} /\ l.ret = "save" =>
          l.task \in Suno /\ l.new \in {"FAILURE", "REASON"} /\ l.todo[l.task] # "none"
    /\ l.pc \in {"funding", "token"} /\ l.ret = "batch" => l.task \notin Suno

Known ==
    /\ \A p \in Pollers : \A t \in Tasks : poller[p].todo[t] # "none" => row[t].status \in Statuses
    /\ \A u \in Fetchers : fetcher[u].task # NoTask => fetcher[u].task \in Realtime

Owes(p, t) == poller[p].task = t /\ poller[p].pc \in {"funding", "token"}

\* A video: who bills it has won its last row, alone, and has not billed before.
VideoOK(t) ==
    /\ \A p, q \in Pollers : Owes(p, t) /\ Owes(q, t) => p = q
    /\ \A p \in Pollers : Owes(p, t) => row[t].status \in Terminal
    /\ row[t].status = "absent" => Returned(t) /\ excuse[t] = {}
    /\ "unsettled" \notin excuse[t] =>
          /\ row[t].status \in Unfinished \cup {"unrecorded"} => Untouched(t)
          /\ \A p \in Pollers : Owes(p, t) =>
                /\ poller[p].pc = "funding" => Untouched(t)
                /\ poller[p].pc = "token" => fund[t] = Quota[t] + poller[p].delta /\ tok[t] = Charge0(t)
          /\ fund[t] >= 0 /\ tok[t] >= 0
    /\ excuse[t] = {} =>
          /\ \A p \in Pollers : Owes(p, t) =>
                \/ row[t].status = "FAILURE" /\ poller[p].delta = Refunded(t)
                \/ row[t].status = "SUCCESS" /\ poller[p].delta = Actual[t] - Quota[t] /\ Actual[t] # 0
          /\ (\A p \in Pollers : ~Owes(p, t)) =>
                /\ row[t].status = "FAILURE" => Returned(t)
                /\ row[t].status = "SUCCESS" =>
                      LET cost == IF Actual[t] = 0 THEN Quota[t] ELSE Actual[t]
                      IN  fund[t] = cost /\ tok[t] = IF t \in Tokened THEN cost ELSE 0

\* A Suno task that only process p polls: p's copy is the row until p writes it, and
\* what was given back is known from p's control point.
SunoOK(p, t) ==
    LET l == poller[p]
        mine == l.task = t
    IN  /\ row[t].status = "absent" => Returned(t) /\ excuse[t] = {}
        /\ excuse[t] = {} =>
             /\ l.todo[t] # "none" /\ ~(Owes(p, t) /\ l.ret = "sweep") =>
                   row[t].status = l.todo[t] /\ ~row[t].full
             /\ Owes(p, t) /\ l.ret = "sweep" => row[t].status = "FAILURE"
             /\ mine /\ l.pc = "funding" => Untouched(t)
             /\ mine /\ l.pc = "token" => fund[t] = 0 /\ tok[t] = Charge0(t)
             /\ mine /\ l.pc = "save" => IF l.new \in {"FAILURE", "REASON"} THEN Returned(t) ELSE Untouched(t)
             /\ ~(mine /\ l.pc \in {"funding", "token", "save"}) =>
                   /\ row[t].status \in Unfinished /\ ~row[t].full => Untouched(t)
                   /\ row[t].status = "FAILURE" => Returned(t)
                   /\ row[t].status = "SUCCESS" => Untouched(t)

Inv ==
    /\ TypeOK
    /\ \A p \in Pollers : Shape(poller[p])
    /\ Known
    /\ \A t \in Guarded : VideoOK(t)
    /\ \A p \in Pollers : Pollers = {p} => \A t \in Suno : SunoOK(p, t)

-----------------------------------------------------------------------------
LEMMA TaskNumbers == /\ NoTask \notin Tasks /\ Tasks \subseteq Int
                     /\ Guarded \subseteq Tasks /\ Suno \subseteq Tasks /\ Suno \cap Guarded = {}
                     /\ Realtime \cap Guarded = {} /\ Realtime \cap Suno = {}
                     /\ \A t \in Tasks : Quota[t] \in Nat /\ Actual[t] \in Nat /\ Estimate[t] \in Nat
BY TasksAssumption DEF Tasks, NoTask, Guarded

\* Poller p gets the locals n.
Moves(p, n) == poller' = [poller EXCEPT ![p] = n]

LEMMA MovesIs ==
    ASSUME TypeOK, NEW p \in Pollers, NEW n, Moves(p, n)
    PROVE  poller'[p] = n /\ \A q \in Pollers \ {p} : poller'[q] = poller[q]
BY DEF TypeOK, Moves

\* What a step leaves alone of task t.
SameTask(t) == row'[t] = row[t] /\ fund'[t] = fund[t] /\ tok'[t] = tok[t] /\ excuse'[t] = excuse[t]

\* A step that leaves t and who bills t alone.
LEMMA VideoFrame ==
    ASSUME NEW t \in Tasks, VideoOK(t), SameTask(t),
           \A q \in Pollers : Owes(q, t)' <=> Owes(q, t),
           \A q \in Pollers : Owes(q, t) => poller'[q].pc = poller[q].pc /\ poller'[q].delta = poller[q].delta
    PROVE  VideoOK(t)'
<1>1. (Untouched(t)' <=> Untouched(t)) /\ (Returned(t)' <=> Returned(t))
    BY DEF SameTask, Untouched, Returned
<1>2. \A p, q \in Pollers : Owes(p, t)' /\ Owes(q, t)' => p = q
    BY DEF VideoOK
<1>3. \A p \in Pollers : Owes(p, t)' => row'[t].status \in Terminal
    BY DEF VideoOK, SameTask
<1>4. row'[t].status = "absent" => Returned(t)' /\ excuse'[t] = {}
    BY <1>1 DEF VideoOK, SameTask
<1>5. "unsettled" \notin excuse'[t] =>
          /\ row'[t].status \in Unfinished \cup {"unrecorded"} => Untouched(t)'
          /\ \A p \in Pollers : Owes(p, t)' =>
                /\ poller'[p].pc = "funding" => Untouched(t)'
                /\ poller'[p].pc = "token" => fund'[t] = Quota[t] + poller'[p].delta /\ tok'[t] = Charge0(t)
          /\ fund'[t] >= 0 /\ tok'[t] >= 0
    BY <1>1 DEF VideoOK, SameTask
<1>6. excuse'[t] = {} =>
          /\ \A p \in Pollers : Owes(p, t)' =>
                \/ row'[t].status = "FAILURE" /\ poller'[p].delta = Refunded(t)
                \/ row'[t].status = "SUCCESS" /\ poller'[p].delta = Actual[t] - Quota[t] /\ Actual[t] # 0
          /\ (\A p \in Pollers : ~Owes(p, t)') =>
                /\ row'[t].status = "FAILURE" => Returned(t)'
                /\ row'[t].status = "SUCCESS" =>
                      LET cost == IF Actual[t] = 0 THEN Quota[t] ELSE Actual[t]
                      IN  fund'[t] = cost /\ tok'[t] = IF t \in Tokened THEN cost ELSE 0
    BY <1>1 DEF VideoOK, SameTask
<1>7. QED
    BY <1>2, <1>3, <1>4, <1>5, <1>6 DEF VideoOK, Charge0, Refunded

LEMMA VideoElse ==
    ASSUME TypeOK, NEW p \in Pollers, NEW n, Moves(p, n), NEW t \in Tasks, VideoOK(t), SameTask(t),
           poller[p].task # t, n.task # t
    PROVE  VideoOK(t)'
<1>1. poller'[p] = n /\ \A q \in Pollers \ {p} : poller'[q] = poller[q]
    BY MovesIs
<1>2. QED
    BY <1>1, VideoFrame DEF Owes

LEMMA SunoElse ==
    ASSUME TypeOK, NEW p \in Pollers, NEW n, Moves(p, n), NEW t \in Tasks, SunoOK(p, t), SameTask(t),
           poller[p].task # t, n.task # t,
           n.todo[t] \in {poller[p].todo[t], "none"} \/ (n.todo[t] = row[t].status /\ ~row[t].full)
    PROVE  SunoOK(p, t)'
<1>1. poller'[p] = n
    BY MovesIs
<1>2. (Untouched(t)' <=> Untouched(t)) /\ (Returned(t)' <=> Returned(t))
    BY DEF SameTask, Untouched, Returned
<1>3. ~Owes(p, t) /\ ~Owes(p, t)'
    BY <1>1 DEF Owes
<1>4. QED
    BY <1>1, <1>2, <1>3 DEF SunoOK, SameTask

\* A step of poller p that touches task t0, or none (t0 = NoTask).
LEMMA MoveStep ==
    ASSUME Inv, NEW p \in Pollers, NEW n \in Poller, Shape(n), Moves(p, n),
           NEW t0 \in Tasks \cup {NoTask}, poller[p].task \in {t0, NoTask}, n.task \in {t0, NoTask},
           row' \in [Tasks -> Row], fund' \in [Tasks -> Int], tok' \in [Tasks -> Int],
           excuse' \in [Tasks -> SUBSET Excuses], errors' \in 0 .. MaxErrors, crashes' \in 0 .. MaxCrashes,
           UNCHANGED <<world, fetcher>>,
           \A t \in Tasks : t # t0 =>
               /\ SameTask(t)
               /\ n.todo[t] \in {poller[p].todo[t], "none"} \/ (n.todo[t] = row[t].status /\ ~row[t].full),
           \A t \in Tasks : n.todo[t] # "none" => poller[p].todo[t] # "none" \/ row[t].status \in Statuses,
           \A t \in Tasks : row[t].status \in Statuses => row'[t].status \in Statuses,
           t0 \in Guarded => VideoOK(t0)',
           t0 \in Suno /\ Pollers = {p} => SunoOK(p, t0)'
    PROVE  Inv'
<1>1. poller'[p] = n /\ \A q \in Pollers \ {p} : poller'[q] = poller[q]
    BY MovesIs DEF Inv
<1>2. TypeOK'
    BY DEF Inv, TypeOK, Moves, world
<1>3. \A q \in Pollers : Shape(poller'[q])
    BY <1>1 DEF Inv
<1>4. (\A q \in Pollers : Shape(poller[q]))'
    BY <1>3 DEF Shape
<1>5. Known'
  <2>1. ASSUME NEW q \in Pollers, NEW t \in Tasks, poller'[q].todo[t] # "none"
        PROVE  row'[t].status \in Statuses
    BY <1>1, <2>1 DEF Inv, Known
  <2>2. QED
    BY <2>1 DEF Inv, Known
<1>6. ASSUME NEW t \in Guarded PROVE VideoOK(t)'
  <2>1. CASE t = t0
    BY <2>1
  <2>2. CASE t # t0
    BY <2>2, TaskNumbers, VideoElse DEF Inv
  <2>3. QED
    BY <2>1, <2>2
<1>7. ASSUME NEW q \in Pollers, Pollers = {q}, NEW t \in Suno PROVE SunoOK(q, t)'
  <2>1. q = p
    BY <1>7
  <2>2. CASE t = t0
    BY <1>7, <2>1, <2>2
  <2>3. CASE t # t0
    BY <1>7, <2>1, <2>3, TaskNumbers, SunoElse DEF Inv
  <2>4. QED
    BY <2>2, <2>3
<1>8. (\A t \in Guarded : VideoOK(t))'
    BY <1>6 DEF Guarded
<1>9. QED
    BY <1>2, <1>4, <1>5, <1>7, <1>8 DEF Inv

-----------------------------------------------------------------------------
(* What GoesOn and Bills do to the locals.                                 *)

\* The amount 0, as an opaque number.
Zero == 0
LEMMA ZeroInt == Zero \in Int /\ 0 = Zero
BY DEF Zero

LEMMA PollerNames ==
    /\ {"sleep", "sweep", "poll", "batch", "write", "funding", "token", "save"} \subseteq PCs
    /\ {"NOT_START", "IN_PROGRESS", "SUCCESS", "FAILURE"} = Statuses
    /\ "none" \notin Statuses
BY DEF PCs, Statuses, Unfinished, Terminal

\* The task is done with.
LEMMA GoesOnIs ==
    ASSUME NEW l \in Poller, \A t \in Tasks : l.todo[t] \in Unfinished \cup {"none"}, l.task \in Tasks,
           NEW ret \in {"sweep", "batch"}
    PROVE  /\ GoesOn(l, ret) \in Poller /\ Shape(GoesOn(l, ret))
           /\ GoesOn(l, ret).task = NoTask /\ GoesOn(l, ret).pc = ret /\ GoesOn(l, ret).todo[l.task] = "none"
           /\ \A t \in Tasks : t # l.task => GoesOn(l, ret).todo[t] = l.todo[t]
<1> DEFINE d == [l.todo EXCEPT ![l.task] = "none"]
           n == [l EXCEPT !.pc = ret, !.todo = d, !.task = NoTask, !.new = "NOT_START", !.delta = Zero]
<1>1. d \in [Tasks -> Statuses \cup {"none"}] /\ d[l.task] = "none" /\ \A t \in Tasks : t # l.task => d[t] = l.todo[t]
    BY DEF Poller
<1>2. \A t \in Tasks : d[t] \in Unfinished \cup {"none"}
    BY <1>1
<1>3. GoesOn(l, ret) = n
    BY ZeroInt DEF GoesOn
<1> HIDE DEF d
<1>4. n \in Poller
    BY <1>1, PollerNames, ZeroInt DEF Poller
<1>5. n.task = NoTask /\ n.pc = ret /\ n.todo = d
    BY DEF Poller
<1> HIDE DEF n
<1>6. Shape(n)
    BY <1>2, <1>5 DEF Shape
<1>7. QED
    BY <1>1, <1>3, <1>4, <1>5, <1>6

\* A Suno task's row is still to be saved.
LEMMA GoesOnToSave ==
    ASSUME NEW l \in Poller, \A t \in Tasks : l.todo[t] \in Unfinished \cup {"none"},
           l.task \in Suno, l.todo[l.task] # "none"
    PROVE  /\ GoesOn(l, "save") \in Poller /\ Shape(GoesOn(l, "save"))
           /\ GoesOn(l, "save").task = l.task /\ GoesOn(l, "save").pc = "save"
           /\ GoesOn(l, "save").todo = l.todo /\ GoesOn(l, "save").new = l.new
<1> DEFINE n == [l EXCEPT !.pc = "save"]
<1>1. GoesOn(l, "save") = n
    BY DEF GoesOn
<1>2. n \in Poller
    BY PollerNames DEF Poller
<1>3. n.task = l.task /\ n.pc = "save" /\ n.todo = l.todo /\ n.new = l.new
    BY DEF Poller
<1> HIDE DEF n
<1>4. Shape(n)
    BY <1>3, TaskNumbers DEF Shape
<1>5. QED
    BY <1>1, <1>2, <1>3, <1>4

\* Bills with an amount, and without one.
LEMMA BillsIs ==
    ASSUME NEW l \in Poller, NEW t \in Tasks, NEW delta \in Int, NEW ret \in {"sweep", "batch", "save"}, delta # 0
    PROVE  /\ Bills(l, t, delta, ret) \in Poller
           /\ Bills(l, t, delta, ret).task = t /\ Bills(l, t, delta, ret).pc = "funding"
           /\ Bills(l, t, delta, ret).delta = delta /\ Bills(l, t, delta, ret).ret = ret
           /\ Bills(l, t, delta, ret).todo = l.todo /\ Bills(l, t, delta, ret).new = l.new
<1> DEFINE n == [l EXCEPT !.pc = "funding", !.task = t, !.delta = delta, !.ret = ret]
<1>1. Bills(l, t, delta, ret) = n
    BY DEF Bills
<1>2. n \in Poller
    BY PollerNames DEF Poller
<1>3. n.task = t /\ n.pc = "funding" /\ n.delta = delta /\ n.ret = ret /\ n.todo = l.todo /\ n.new = l.new
    BY DEF Poller
<1> HIDE DEF n
<1>4. QED
    BY <1>1, <1>2, <1>3

LEMMA BillsNothing ==
    ASSUME NEW l \in Poller, \A u \in Tasks : l.todo[u] \in Unfinished \cup {"none"}, NEW t \in Tasks,
           NEW ret \in {"sweep", "batch"}
    PROVE  /\ Bills(l, t, 0, ret) \in Poller /\ Shape(Bills(l, t, 0, ret))
           /\ Bills(l, t, 0, ret).task = NoTask /\ Bills(l, t, 0, ret).pc = ret /\ Bills(l, t, 0, ret).todo[t] = "none"
           /\ \A u \in Tasks : u # t => Bills(l, t, 0, ret).todo[u] = l.todo[u]
<1> DEFINE n == [l EXCEPT !.pc = "funding", !.task = t, !.delta = Zero, !.ret = ret]
<1>1. Bills(l, t, 0, ret) = GoesOn(n, ret)
    BY DEF Bills, Zero
<1>2. n \in Poller
    BY PollerNames, ZeroInt DEF Poller
<1>3. n.task = t /\ n.todo = l.todo
    BY DEF Poller
<1> HIDE DEF n
<1>4. QED
    BY <1>1, <1>2, <1>3, GoesOnIs

LEMMA BillsNothingToSave ==
    ASSUME NEW l \in Poller, \A u \in Tasks : l.todo[u] \in Unfinished \cup {"none"}, NEW t \in Suno, l.todo[t] # "none"
    PROVE  /\ Bills(l, t, 0, "save") \in Poller /\ Shape(Bills(l, t, 0, "save"))
           /\ Bills(l, t, 0, "save").task = t /\ Bills(l, t, 0, "save").pc = "save"
           /\ Bills(l, t, 0, "save").todo = l.todo /\ Bills(l, t, 0, "save").new = l.new
<1> DEFINE n == [l EXCEPT !.pc = "funding", !.task = t, !.delta = Zero, !.ret = "save"]
<1>1. Bills(l, t, 0, "save") = GoesOn(n, "save")
    BY DEF Bills, Zero
<1>2. n \in Poller
    BY PollerNames, ZeroInt, TaskNumbers DEF Poller
<1>3. n.task = t /\ n.todo = l.todo /\ n.new = l.new
    BY DEF Poller
<1> HIDE DEF n
<1>4. QED
    BY <1>1, <1>2, <1>3, GoesOnToSave

-----------------------------------------------------------------------------
(* The statements on one row.                                              *)

LEMMA CasIs ==
    ASSUME TypeOK, NEW t \in Tasks, NEW from, NEW to \in Statuses
    PROVE  /\ Cas(t, from, to) \in [Tasks -> Row]
           /\ \A u \in Tasks : u # t => Cas(t, from, to)[u] = row[u]
           /\ row[t].status = from => Cas(t, from, to)[t].status = to
           /\ row[t].status # from => Cas(t, from, to) = row
<1> DEFINE b == to \in Terminal
           v == [status |-> to, full |-> b]
<1>1. b \in BOOLEAN
    OBVIOUS
<1>2. Cas(t, from, to) = IF row[t].status = from THEN [row EXCEPT ![t] = v] ELSE row
    BY DEF Cas, Wins
<1> HIDE DEF b
<1>3. v \in Row /\ v.status = to
    BY <1>1 DEF Row
<1>4. row \in [Tasks -> Row]
    BY DEF TypeOK
<1> HIDE DEF v
<1>5. QED
    BY <1>2, <1>3, <1>4

LEMMA PollerIs ==
    ASSUME Inv, NEW p \in Pollers
    PROVE  poller[p] \in Poller /\ Shape(poller[p]) /\ TypeOK
BY DEF Inv, TypeOK

LEMMA ErrorsTyped == ASSUME TypeOK, Works \/ DbError PROVE errors' \in 0 .. MaxErrors
BY BoundsAssumption DEF TypeOK, Works, DbError

LEMMA ExcuseTyped ==
    ASSUME TypeOK, NEW t \in Tasks, NEW why \in Excuses, NEW c \in BOOLEAN, ExcuseIf(t, c, why)
    PROVE  /\ excuse' \in [Tasks -> SUBSET Excuses]
           /\ \A u \in Tasks : u # t => excuse'[u] = excuse[u]
           /\ c => excuse'[t] = excuse[t] \cup {why}
           /\ ~c => excuse' = excuse
BY DEF TypeOK, ExcuseIf, Excuse

\* The row of a video ends, and poller p is to bill delta or nothing.
LEMMA VideoEnds ==
    ASSUME TypeOK, NEW p \in Pollers, NEW n, Moves(p, n), NEW t \in Tasks, VideoOK(t),
           row[t].status \in Unfinished, row'[t].status \in Terminal,
           fund'[t] = fund[t], tok'[t] = tok[t],
           excuse[t] \subseteq excuse'[t], "unsettled" \in excuse'[t] => "unsettled" \in excuse[t],
           NEW delta \in Int,
           delta = 0 => n.task # t,
           delta # 0 => n.task = t /\ n.pc = "funding" /\ n.delta = delta,
           excuse'[t] = {} =>
               \/ row'[t].status = "FAILURE" /\ delta = Refunded(t)
               \/ row'[t].status = "SUCCESS" /\ delta = Settled(t)
    PROVE  VideoOK(t)'
<1>1. poller'[p] = n /\ \A q \in Pollers \ {p} : poller'[q] = poller[q]
    BY MovesIs
<1>2. \A q \in Pollers : ~Owes(q, t)
    BY DEF VideoOK, Unfinished, Terminal
<1>3. /\ \A q \in Pollers : Owes(q, t)' => q = p /\ delta # 0
      /\ delta # 0 => Owes(p, t)'
    BY <1>1, <1>2 DEF Owes
<1>4. (Untouched(t)' <=> Untouched(t)) /\ (Returned(t)' <=> Returned(t))
    BY DEF Untouched, Returned
<1>5. "unsettled" \notin excuse[t] => Untouched(t)
    BY DEF VideoOK
<1>6. Quota[t] \in Nat /\ Actual[t] \in Nat
    BY TaskNumbers
<1>7. row'[t].status \notin Unfinished \cup {"absent", "unrecorded"}
    BY DEF Unfinished, Terminal
<1>8. Untouched(t) => fund[t] >= 0 /\ tok[t] >= 0
    BY <1>6 DEF Untouched, Charge0
<1>9. excuse'[t] = {} =>
          /\ \A q \in Pollers : Owes(q, t)' =>
                \/ row'[t].status = "FAILURE" /\ poller'[q].delta = Refunded(t)
                \/ row'[t].status = "SUCCESS" /\ poller'[q].delta = Actual[t] - Quota[t] /\ Actual[t] # 0
          /\ (\A q \in Pollers : ~Owes(q, t)') =>
                /\ row'[t].status = "FAILURE" => Returned(t)'
                /\ row'[t].status = "SUCCESS" =>
                      LET cost == IF Actual[t] = 0 THEN Quota[t] ELSE Actual[t]
                      IN  fund'[t] = cost /\ tok'[t] = IF t \in Tokened THEN cost ELSE 0
  <2>1. SUFFICES ASSUME excuse'[t] = {}
                 PROVE  /\ \A q \in Pollers : Owes(q, t)' =>
                              \/ row'[t].status = "FAILURE" /\ poller'[q].delta = Refunded(t)
                              \/ row'[t].status = "SUCCESS" /\ poller'[q].delta = Actual[t] - Quota[t] /\ Actual[t] # 0
                        /\ (\A q \in Pollers : ~Owes(q, t)') =>
                              /\ row'[t].status = "FAILURE" => Returned(t)'
                              /\ row'[t].status = "SUCCESS" =>
                                    LET cost == IF Actual[t] = 0 THEN Quota[t] ELSE Actual[t]
                                    IN  fund'[t] = cost /\ tok'[t] = IF t \in Tokened THEN cost ELSE 0
    OBVIOUS
  <2>2. Untouched(t)
    BY <1>5, <2>1
  <2>3. CASE row'[t].status = "FAILURE" /\ delta = Refunded(t)
    BY <1>1, <1>3, <1>4, <1>6, <2>2, <2>3 DEF Refunded, Untouched, Returned, Charge0
  <2>4. CASE row'[t].status = "SUCCESS" /\ delta = Settled(t)
    BY <1>1, <1>3, <1>4, <1>6, <2>2, <2>4 DEF Settled, Untouched, Returned, Charge0
  <2>5. QED
    BY <2>1, <2>3, <2>4
<1>10. "unsettled" \notin excuse'[t] =>
          /\ \A q \in Pollers : Owes(q, t)' =>
                /\ poller'[q].pc = "funding" => Untouched(t)'
                /\ poller'[q].pc = "token" => fund'[t] = Quota[t] + poller'[q].delta /\ tok'[t] = Charge0(t)
          /\ fund'[t] >= 0 /\ tok'[t] >= 0
    BY <1>1, <1>3, <1>4, <1>5, <1>8
<1>11. \A q \in Pollers : Owes(q, t)' => row'[t].status \in Terminal
    OBVIOUS
<1>12. \A q, s \in Pollers : Owes(q, t)' /\ Owes(s, t)' => q = s
    BY <1>3
<1>13. QED
    BY <1>7, <1>9, <1>10, <1>11, <1>12 DEF VideoOK, Charge0, Refunded

\* Poller p drops t, whose row and accounts stay as they are.
LEMMA DropStep ==
    ASSUME Inv, NEW p \in Pollers, NEW n \in Poller, Shape(n), Moves(p, n), NEW t \in Tasks,
           poller[p].task \in {t, NoTask}, poller[p].pc \notin {"funding", "token", "save"},
           n.task = NoTask, n.todo[t] = "none",
           \A u \in Tasks : u # t => n.todo[u] = poller[p].todo[u],
           row' = row, excuse' = excuse, errors' \in 0 .. MaxErrors,
           UNCHANGED <<ledger, world, fetcher, crashes>>
    PROVE  Inv'
<1>1. TypeOK
    BY DEF Inv
<1>2. \A u \in Tasks : SameTask(u)
    BY DEF SameTask, ledger
<1>3. poller'[p] = n /\ \A q \in Pollers \ {p} : poller'[q] = poller[q]
    BY <1>1, MovesIs
<1>4. t # NoTask
    BY TaskNumbers
<1>5. ASSUME t \in Guarded PROVE VideoOK(t)'
  <2>1. \A q \in Pollers : Owes(q, t)' <=> Owes(q, t)
    BY <1>3, <1>4 DEF Owes
  <2>2. \A q \in Pollers : Owes(q, t) => poller'[q].pc = poller[q].pc /\ poller'[q].delta = poller[q].delta
    BY <1>3 DEF Owes
  <2>3. QED
    BY <1>2, <1>5, <2>1, <2>2, VideoFrame DEF Inv
<1>6. ASSUME t \in Suno, Pollers = {p} PROVE SunoOK(p, t)'
  <2>1. SunoOK(p, t)
    BY <1>6 DEF Inv
  <2>2. ~Owes(p, t)' /\ ~Owes(p, t)
    BY <1>3, <1>4 DEF Owes
  <2>3. (Untouched(t)' <=> Untouched(t)) /\ (Returned(t)' <=> Returned(t))
    BY <1>2 DEF SameTask, Untouched, Returned
  <2>4. SameTask(t)
    BY <1>2
  <2>5. QED
    BY <1>3, <1>4, <2>1, <2>2, <2>3, <2>4 DEF SunoOK, SameTask
<1>7. /\ row' \in [Tasks -> Row] /\ fund' \in [Tasks -> Int] /\ tok' \in [Tasks -> Int]
      /\ excuse' \in [Tasks -> SUBSET Excuses] /\ crashes' \in 0 .. MaxCrashes
    BY <1>1 DEF TypeOK, ledger
<1>8. QED
    BY <1>2, <1>5, <1>6, <1>7, MoveStep

LEMMA SweepKeeps == ASSUME Inv, NEW p \in Pollers, NEW t \in Tasks, Sweep(p, t) PROVE Inv'
<1> DEFINE l == poller[p]
           from == l.todo[t]
           won == row[t].status = from
           due == SweepDue(t, won)
<1>1. l \in Poller /\ Shape(l) /\ TypeOK /\ l.pc = "sweep" /\ l.task = NoTask /\ NoTask # t
    BY PollerIs, TaskNumbers DEF Sweep, Shape
<1>2. from # "none" /\ from \in Unfinished
    BY <1>1 DEF Sweep, IsFirst, Pending, Shape
<1>3. row[t].status \in Statuses /\ "FAILURE" \in Statuses /\ "FAILURE" \in Terminal
    BY <1>2, PollerNames DEF Inv, Known, Terminal
<1>4. UNCHANGED <<ledger, world, fetcher, crashes>> /\ errors' \in 0 .. MaxErrors
    BY <1>1, ErrorsTyped DEF Sweep
<1>5. \A u \in Tasks : l.todo[u] \in Unfinished \cup {"none"}
    BY <1>1 DEF Shape
<1>6. due \in Int /\ (~won => due = 0) /\ (won /\ t \notin Legacy => due = Refunded(t))
      /\ (due # 0 => due = Refunded(t) /\ won /\ t \notin Legacy)
    BY TaskNumbers DEF SweepDue, Refunded
<1> HIDE DEF due
<1>7. PICK delta \in Int :
        /\ Moves(p, Bills(l, t, delta, "sweep"))
        /\ \/ delta = due /\ row' = Cas(t, from, "FAILURE") /\ ExcuseIf(t, won /\ t \in Legacy, "legacy")
           \/ delta = 0 /\ row' \in {row, Cas(t, from, "FAILURE")} /\ ExcuseIf(t, row' # row, "logged")
    BY <1>6, ZeroInt DEF Sweep, Moves, Wins, due
<1> DEFINE n == Bills(l, t, delta, "sweep")
<1>8. /\ excuse' \in [Tasks -> SUBSET Excuses]
      /\ \A u \in Tasks : u # t => excuse'[u] = excuse[u]
      /\ excuse[t] \subseteq excuse'[t] /\ ("unsettled" \in excuse'[t] => "unsettled" \in excuse[t])
  <2>1. "legacy" \in Excuses /\ "logged" \in Excuses
    BY DEF Excuses
  <2>2. ASSUME NEW why \in Excuses, why # "unsettled", NEW c \in BOOLEAN, ExcuseIf(t, c, why)
        PROVE  /\ excuse' \in [Tasks -> SUBSET Excuses]
               /\ \A u \in Tasks : u # t => excuse'[u] = excuse[u]
               /\ excuse[t] \subseteq excuse'[t] /\ ("unsettled" \in excuse'[t] => "unsettled" \in excuse[t])
    BY <1>1, <2>2, ExcuseTyped
  <2>3. CASE ExcuseIf(t, won /\ t \in Legacy, "legacy")
    BY <2>1, <2>2, <2>3
  <2>4. CASE ExcuseIf(t, row' # row, "logged")
    BY <2>1, <2>2, <2>4
  <2>5. QED
    BY <1>7, <2>3, <2>4
<1>9. CASE row' = row
  <2>1. delta = 0 /\ excuse' = excuse
    <3>1. ~won \/ (delta = 0 /\ excuse' = excuse)
      <4>1. won => Cas(t, from, "FAILURE") # row
        <5>1. won => Cas(t, from, "FAILURE")[t].status = "FAILURE"
          BY <1>1, <1>3, CasIs
        <5>2. won => row[t].status # "FAILURE"
          BY <1>2 DEF Unfinished
        <5>3. QED
          BY <5>1, <5>2
      <4>2. QED
        BY <1>7, <1>9, <4>1 DEF ExcuseIf
    <3>2. QED
      BY <1>6, <1>7, <1>9, <3>1 DEF ExcuseIf
  <2>2. n \in Poller /\ Shape(n) /\ n.task = NoTask /\ n.todo[t] = "none" /\ \A u \in Tasks : u # t => n.todo[u] = l.todo[u]
    BY <1>1, <1>5, <2>1, BillsNothing
  <2>3. QED
    BY <1>1, <1>4, <1>7, <1>9, <2>1, <2>2, DropStep
<1>10. CASE row' # row
  <2>1. won /\ row' = Cas(t, from, "FAILURE")
    BY <1>1, <1>3, <1>7, <1>10, CasIs
  <2>2. /\ row' \in [Tasks -> Row] /\ row'[t].status = "FAILURE"
        /\ \A u \in Tasks : u # t => row'[u] = row[u]
    BY <1>1, <1>3, <2>1, CasIs
  <2>3. excuse'[t] = {} => delta = Refunded(t)
    <3>1. CASE delta = due /\ ExcuseIf(t, won /\ t \in Legacy, "legacy")
      BY <1>6, <2>1, <3>1 DEF ExcuseIf, Excuse, TypeOK, Inv
    <3>2. CASE ExcuseIf(t, row' # row, "logged")
      BY <1>10, <3>2 DEF ExcuseIf, Excuse, TypeOK, Inv
    <3>3. QED
      BY <1>7, <3>1, <3>2
  <2>4. delta = 0 => n \in Poller /\ Shape(n) /\ n.task = NoTask /\ n.todo[t] = "none" /\ \A u \in Tasks : u # t => n.todo[u] = l.todo[u]
    BY <1>1, <1>5, BillsNothing
  <2>5. delta # 0 => /\ n \in Poller /\ n.task = t /\ n.pc = "funding" /\ n.delta = delta /\ n.ret = "sweep" /\ n.todo = l.todo
                     /\ delta = Refunded(t)
    BY <1>1, <1>6, <1>7, BillsIs
  <2> HIDE DEF n
  <2>6. n \in Poller /\ Shape(n)
    BY <1>5, <2>4, <2>5 DEF Shape
  <2>7. Moves(p, n)
    BY <1>7 DEF n
  <2>8. t \in Guarded => VideoOK(t)'
    BY <1>1, <1>2, <1>3, <1>4, <1>8, <2>1, <2>2, <2>3, <2>4, <2>5, <2>7, VideoEnds DEF Inv, ledger
  <2>9. ASSUME t \in Suno, Pollers = {p} PROVE SunoOK(p, t)'
    <3>1. SunoOK(p, t) /\ ~Owes(p, t)
      BY <1>1, <2>9 DEF Inv, Owes
    <3>2. poller'[p] = n
      BY <1>1, <2>7, MovesIs
    <3>3. excuse[t] = {} => Untouched(t)
      BY <1>1, <1>2, <3>1 DEF SunoOK
    <3>4. (Untouched(t)' <=> Untouched(t)) /\ (Returned(t)' <=> Returned(t))
      BY <1>4 DEF Untouched, Returned, ledger
    <3>5. excuse'[t] = {} => Untouched(t)' /\ delta = Refunded(t)
      BY <1>8, <2>3, <3>3, <3>4
    <3>6. Untouched(t)' /\ Refunded(t) = 0 => Returned(t)'
      BY TaskNumbers DEF Untouched, Returned, Refunded, Charge0
    <3>7. CASE delta = 0
      <4>1. ~Owes(p, t)'
        BY <1>1, <2>4, <3>2, <3>7 DEF Owes
      <4>2. QED
        BY <1>1, <2>2, <2>4, <3>2, <3>5, <3>6, <3>7, <4>1 DEF SunoOK, Unfinished
    <3>8. CASE delta # 0
      <4>1. Owes(p, t)'
        BY <2>5, <3>2, <3>8 DEF Owes
      <4>2. QED
        BY <2>2, <2>5, <3>2, <3>5, <3>8, <4>1 DEF SunoOK, Unfinished
    <3>9. QED
      BY <3>7, <3>8
  <2>10. \A u \in Tasks : u # t => SameTask(u) /\ n.todo[u] = l.todo[u]
    BY <1>4, <1>8, <2>2, <2>4, <2>5 DEF SameTask, ledger
  <2>11. fund' \in [Tasks -> Int] /\ tok' \in [Tasks -> Int] /\ crashes' \in 0 .. MaxCrashes
    BY <1>1, <1>4 DEF TypeOK, ledger
  <2>12. \A u \in Tasks : row[u].status \in Statuses => row'[u].status \in Statuses
    BY <1>3, <2>2
  <2>13. \A u \in Tasks : n.todo[u] # "none" => l.todo[u] # "none"
    BY <1>2, <2>10
  <2>14. n.task \in {t, NoTask}
    BY <2>4, <2>5
  <2>15. QED
    BY <1>1, <1>4, <1>8, <2>2, <2>6, <2>7, <2>8, <2>9, <2>10, <2>11, <2>12, <2>13, <2>14, MoveStep
<1>11. QED
    BY <1>9, <1>10

-----------------------------------------------------------------------------
(* The rounds of the loop.                                                 *)

\* A step between two tasks: only the list or the control point changes.
LEMMA RoundStep ==
    ASSUME Inv, NEW p \in Pollers, NEW n \in Poller, Shape(n), Moves(p, n),
           poller[p].task = NoTask, n.task = NoTask,
           \A t \in Tasks : n.todo[t] \in {poller[p].todo[t], "none"}
                            \/ (n.todo[t] = row[t].status /\ row[t].status \in Statuses /\ ~row[t].full),
           errors' \in 0 .. MaxErrors,
           UNCHANGED <<row, ledger, world, fetcher, excuse, crashes>>
    PROVE  Inv'
<1>1. \A t \in Tasks : SameTask(t)
    BY DEF SameTask, ledger
<1>2. /\ row' \in [Tasks -> Row] /\ fund' \in [Tasks -> Int] /\ tok' \in [Tasks -> Int]
      /\ excuse' \in [Tasks -> SUBSET Excuses] /\ crashes' \in 0 .. MaxCrashes
    BY DEF Inv, TypeOK, ledger
<1>3. NoTask \notin Guarded /\ NoTask \notin Suno
    BY TaskNumbers
<1>4. QED
    BY <1>1, <1>2, <1>3, MoveStep

LEMMA ReadsKeeps ==
    ASSUME Inv, NEW p \in Pollers, poller[p].pc \in {"sleep", "sweep"}, NEW pc \in {"sweep", "poll"},
           NEW S \in SUBSET Open, Reads(p, S, pc), UNCHANGED <<row, ledger, world, fetcher, excuse, crashes>>
    PROVE  Inv'
<1>1. PICK T \in {S, {}} :
        /\ Works \/ DbError
        /\ poller' = [poller EXCEPT ![p] =
             [@ EXCEPT !.pc = pc, !.todo = [t \in Tasks |-> IF t \in T THEN row[t].status ELSE "none"]]]
    BY DEF Reads
<1> DEFINE d == [t \in Tasks |-> IF t \in T THEN row[t].status ELSE "none"]
           n == [poller[p] EXCEPT !.pc = pc, !.todo = d]
<1>2. poller[p] \in Poller /\ Shape(poller[p]) /\ TypeOK
    BY PollerIs
<1>3. \A t \in Tasks : d[t] = "none" \/ (d[t] = row[t].status /\ row[t].status \in Unfinished /\ ~row[t].full)
    BY <1>1 DEF Open
<1>4. Unfinished \subseteq Statuses
    BY DEF Statuses
<1>5. d \in [Tasks -> Statuses \cup {"none"}]
    BY <1>3, <1>4
<1>6. Moves(p, n)
    BY <1>1, <1>2 DEF Moves, TypeOK
<1> HIDE DEF d
<1>7. n \in Poller
    BY <1>2, <1>5, PollerNames DEF Poller
<1>8. n.todo = d /\ n.pc = pc /\ n.task = poller[p].task /\ poller[p].task = NoTask
    BY <1>2 DEF Poller, Shape
<1> HIDE DEF n
<1>9. Shape(n)
    BY <1>3, <1>8 DEF Shape
<1>10. errors' \in 0 .. MaxErrors
    BY <1>1, <1>2, ErrorsTyped
<1>11. QED
    BY <1>3, <1>4, <1>6, <1>7, <1>8, <1>9, <1>10, RoundStep

LEMMA BeginRoundKeeps == ASSUME Inv, NEW p \in Pollers, BeginRound(p) PROVE Inv'
<1>1. GetTimedOutUnfinishedTasks \in SUBSET Open
    BY DEF GetTimedOutUnfinishedTasks, FirstOf
<1>2. QED
    BY <1>1, ReadsKeeps DEF BeginRound

LEMMA EndSweepKeeps == ASSUME Inv, NEW p \in Pollers, EndSweep(p) PROVE Inv'
<1>1. GetAllUnFinishSyncTasks \in SUBSET Open
    BY DEF GetAllUnFinishSyncTasks, FirstOf
<1>2. QED
    BY <1>1, ReadsKeeps DEF EndSweep

LEMMA AsleepIs ==
    /\ Asleep \in Poller /\ Shape(Asleep) /\ Asleep.task = NoTask /\ Asleep.pc = "sleep"
    /\ \A t \in Tasks : Asleep.todo[t] = "none"
<1>1. Asleep \in Poller
  <2>1. [t \in Tasks |-> "none"] \in [Tasks -> Statuses \cup {"none"}]
    OBVIOUS
  <2>2. "sleep" \in PCs /\ "NOT_START" \in Statuses
    BY PollerNames
  <2>3. Asleep = [pc |-> "sleep", ret |-> "sweep", todo |-> [t \in Tasks |-> "none"],
                  chan |-> NoChannel, task |-> NoTask, new |-> "NOT_START", delta |-> Zero]
    BY DEF Asleep, Zero
  <2>4. QED
    BY <2>1, <2>2, <2>3, ZeroInt DEF Poller
<1>2. Asleep.task = NoTask /\ Asleep.pc = "sleep" /\ \A t \in Tasks : Asleep.todo[t] = "none"
    BY DEF Asleep
<1>3. Shape(Asleep)
    BY <1>2 DEF Shape
<1>4. QED
    BY <1>1, <1>2, <1>3

LEMMA EndRoundKeeps == ASSUME Inv, NEW p \in Pollers, EndRound(p) PROVE Inv'
<1>1. poller[p].task = NoTask /\ errors' \in 0 .. MaxErrors
    BY PollerIs DEF EndRound, Shape, TypeOK
<1>2. QED
    BY <1>1, AsleepIs, RoundStep DEF EndRound, Moves

LEMMA StartBatchKeeps == ASSUME Inv, NEW p \in Pollers, NEW c \in Channels, StartBatch(p, c) PROVE Inv'
<1> DEFINE l == poller[p]
           n == [l EXCEPT !.pc = "batch", !.chan = c]
<1>1. l \in Poller /\ Shape(l) /\ TypeOK /\ l.pc = "poll" /\ l.task = NoTask
    BY PollerIs DEF StartBatch, Shape
<1>2. Moves(p, n)
    BY <1>1 DEF StartBatch, Moves, TypeOK, Poller
<1>3. n \in Poller
    BY <1>1, PollerNames DEF Poller
<1>4. n.pc = "batch" /\ n.task = NoTask /\ n.todo = l.todo
    BY <1>1 DEF Poller
<1> HIDE DEF n
<1>5. Shape(n)
    BY <1>1, <1>4 DEF Shape
<1>6. QED
    BY <1>1, <1>2, <1>3, <1>4, <1>5, RoundStep DEF StartBatch, TypeOK

LEMMA EndBatchKeeps == ASSUME Inv, NEW p \in Pollers, EndBatch(p) PROVE Inv'
<1> DEFINE l == poller[p]
           n == [l EXCEPT !.pc = "poll", !.chan = NoChannel]
<1>1. l \in Poller /\ Shape(l) /\ TypeOK /\ l.pc = "batch" /\ l.task = NoTask
    BY PollerIs DEF EndBatch, Shape
<1>2. Moves(p, n)
    BY <1>1 DEF EndBatch, Moves, TypeOK, Poller
<1>3. n \in Poller
    BY <1>1, PollerNames DEF Poller
<1>4. n.pc = "poll" /\ n.task = NoTask /\ n.todo = l.todo
    BY <1>1 DEF Poller
<1> HIDE DEF n
<1>5. Shape(n)
    BY <1>1, <1>4 DEF Shape
<1>6. QED
    BY <1>1, <1>2, <1>3, <1>4, <1>5, RoundStep DEF EndBatch, TypeOK

-----------------------------------------------------------------------------
(* Polling the upstream, and writing what it answered.                     *)

LEMMA PollKeeps == ASSUME Inv, NEW p \in Pollers, NEW t \in Tasks, Poll(p, t) PROVE Inv'
<1> DEFINE l == poller[p]
<1>1. l \in Poller /\ Shape(l) /\ TypeOK /\ l.pc = "batch" /\ l.task = NoTask /\ NoTask # t
    BY PollerIs, TaskNumbers DEF Poll, Shape
<1>2. l.todo[t] # "none" /\ \A u \in Tasks : l.todo[u] \in Unfinished \cup {"none"}
    BY <1>1 DEF Poll, IsFirst, InBatch, Pending, Shape
<1>3. PICK a \in Answers(t) :
        Moves(p, IF a = "none" THEN Bills(l, t, 0, "batch")
                 ELSE IF t \notin Suno THEN [l EXCEPT !.pc = "write", !.task = t, !.new = a]
                 ELSE Bills([l EXCEPT !.new = a], t, SunoDue(t, a), "save"))
    BY DEF Poll, Moves
<1>4. UNCHANGED <<row, ledger, world, fetcher, excuse, errors, crashes>>
    BY DEF Poll
<1>5. (\A u \in Tasks : SameTask(u)) /\ errors' \in 0 .. MaxErrors
    BY <1>1, <1>4 DEF SameTask, ledger, TypeOK
<1>6. /\ row' \in [Tasks -> Row] /\ fund' \in [Tasks -> Int] /\ tok' \in [Tasks -> Int]
      /\ excuse' \in [Tasks -> SUBSET Excuses] /\ crashes' \in 0 .. MaxCrashes
    BY <1>1, <1>4 DEF TypeOK, ledger
<1>7. a \in Statuses \cup {"none", "REASON"} /\ (t \notin Suno => a # "REASON")
    BY <1>1, PollerNames DEF Answers, TypeOK, Terminal
<1>8. CASE a = "none"
  <2> DEFINE n == Bills(l, t, 0, "batch")
  <2>1. n \in Poller /\ Shape(n) /\ n.task = NoTask /\ n.todo[t] = "none" /\ \A u \in Tasks : u # t => n.todo[u] = l.todo[u]
    BY <1>1, <1>2, BillsNothing
  <2>2. Moves(p, n)
    BY <1>3, <1>8
  <2>3. QED
    BY <1>1, <1>4, <1>5, <2>1, <2>2, DropStep
<1>9. CASE a # "none" /\ t \notin Suno
  <2> DEFINE n == [l EXCEPT !.pc = "write", !.task = t, !.new = a]
  <2>1. Moves(p, n)
    BY <1>3, <1>9
  <2>2. n \in Poller
    BY <1>1, <1>7, <1>9, PollerNames DEF Poller
  <2>3. n.pc = "write" /\ n.task = t /\ n.new = a /\ n.todo = l.todo
    BY <1>1 DEF Poller
  <2> HIDE DEF n
  <2>4. Shape(n)
    BY <1>2, <1>7, <1>9, <2>3 DEF Shape
  <2>5. poller'[p] = n /\ \A q \in Pollers \ {p} : poller'[q] = poller[q]
    BY <1>1, <2>1, MovesIs
  <2>6. t \in Guarded => VideoOK(t)'
    <3>1. \A q \in Pollers : Owes(q, t)' <=> Owes(q, t)
      BY <1>1, <2>3, <2>5 DEF Owes
    <3>2. \A q \in Pollers : Owes(q, t) => poller'[q].pc = poller[q].pc /\ poller'[q].delta = poller[q].delta
      BY <1>1, <2>5 DEF Owes
    <3>3. QED
      BY <1>5, <3>1, <3>2, VideoFrame DEF Inv
  <2>7. \A u \in Tasks : row'[u].status = row[u].status
    BY <1>4
  <2>8. n.task \in {t, NoTask} /\ l.task \in {t, NoTask}
    BY <1>1, <2>3
  <2>9. QED
    BY <1>4, <1>5, <1>6, <1>9, <2>1, <2>2, <2>3, <2>4, <2>6, <2>7, <2>8, MoveStep
<1>10. CASE a # "none" /\ t \in Suno
  <2> DEFINE m == [l EXCEPT !.new = a]
             delta == SunoDue(t, a)
             n == Bills(m, t, delta, "save")
  <2>1. m \in Poller /\ m.todo = l.todo /\ m.new = a
    BY <1>1, <1>7, <1>10 DEF Poller
  <2>2. Moves(p, n)
    BY <1>3, <1>10
  <2>3. delta \in Int /\ delta = IF a \in {"FAILURE", "REASON"} THEN Refunded(t) ELSE 0
    BY TaskNumbers DEF SunoDue, Refunded
  <2> HIDE DEF m, delta
  <2>4. delta # 0 => /\ n \in Poller /\ n.task = t /\ n.pc = "funding" /\ n.delta = delta /\ n.ret = "save"
                     /\ n.todo = l.todo /\ n.new = a
    BY <2>1, <2>3, BillsIs
  <2>5. delta = 0 => n \in Poller /\ Shape(n) /\ n.task = t /\ n.pc = "save" /\ n.todo = l.todo /\ n.new = a
    BY <1>2, <1>10, <2>1, BillsNothingToSave
  <2> HIDE DEF n
  <2>6. n \in Poller /\ Shape(n) /\ n.task = t /\ n.todo = l.todo
    BY <1>2, <1>10, <2>3, <2>4, <2>5 DEF Shape
  <2>7. ASSUME Pollers = {p} PROVE SunoOK(p, t)'
    <3>1. SunoOK(p, t) /\ ~Owes(p, t)
      BY <1>1, <1>10, <2>7 DEF Inv, Owes
    <3>2. poller'[p] = n
      BY <1>1, <2>2, MovesIs
    <3>3. /\ row[t].status = "absent" => Returned(t) /\ excuse[t] = {}
          /\ excuse[t] = {} => row[t].status = l.todo[t] /\ ~row[t].full /\ Untouched(t)
      BY <1>1, <1>2, <3>1 DEF SunoOK
    <3>4. (Untouched(t)' <=> Untouched(t)) /\ (Returned(t)' <=> Returned(t)) /\ SameTask(t)
      BY <1>5 DEF SameTask, Untouched, Returned
    <3>5. Untouched(t) /\ Refunded(t) = 0 => Returned(t)
      BY TaskNumbers DEF Untouched, Returned, Refunded, Charge0
    <3>6. Owes(p, t)' => poller'[p].ret = "save"
      BY <2>4, <2>5, <3>2 DEF Owes
    <3>7. CASE delta # 0
      BY <2>4, <3>2, <3>3, <3>4, <3>6, <3>7 DEF SunoOK, SameTask
    <3>8. CASE delta = 0
      BY <2>3, <2>5, <3>2, <3>3, <3>4, <3>5, <3>6, <3>8 DEF SunoOK, SameTask
    <3>9. QED
      BY <3>7, <3>8
  <2>8. \A u \in Tasks : row'[u].status = row[u].status
    BY <1>4
  <2>9. t \notin Guarded /\ n.task \in {t, NoTask} /\ l.task \in {t, NoTask}
    BY <1>1, <1>10, <2>6, TaskNumbers
  <2>10. QED
    BY <1>4, <1>5, <1>6, <2>2, <2>6, <2>7, <2>8, <2>9, MoveStep
<1>11. QED
    BY <1>8, <1>9, <1>10

\* A video's row is written again without ending, or not at all, and nothing is due.
LEMMA VideoGoesOn ==
    ASSUME TypeOK, NEW p \in Pollers, NEW n, Moves(p, n), NEW t \in Tasks, VideoOK(t),
           ~Owes(p, t), n.task # t,
           row'[t] = row[t] \/ (row[t].status \in Unfinished /\ row'[t].status \in Unfinished),
           fund'[t] = fund[t], tok'[t] = tok[t], excuse'[t] = excuse[t]
    PROVE  VideoOK(t)'
<1>1. poller'[p] = n /\ \A q \in Pollers \ {p} : poller'[q] = poller[q]
    BY MovesIs
<1>2. \A q \in Pollers : Owes(q, t)' <=> Owes(q, t)
    BY <1>1 DEF Owes
<1>3. CASE row'[t] = row[t]
  <2>1. \A q \in Pollers : Owes(q, t) => poller'[q].pc = poller[q].pc /\ poller'[q].delta = poller[q].delta
    BY <1>1
  <2>2. SameTask(t)
    BY <1>3 DEF SameTask
  <2>3. QED
    BY <1>2, <2>1, <2>2, VideoFrame
<1>4. CASE row[t].status \in Unfinished /\ row'[t].status \in Unfinished
  <2>1. \A q \in Pollers : ~Owes(q, t)'
    BY <1>2, <1>4 DEF VideoOK, Unfinished, Terminal
  <2>2. (Untouched(t)' <=> Untouched(t)) /\ (Returned(t)' <=> Returned(t))
    BY DEF Untouched, Returned
  <2>3. "unsettled" \notin excuse[t] => Untouched(t) /\ fund[t] >= 0 /\ tok[t] >= 0
    BY <1>4 DEF VideoOK
  <2>4. row'[t].status \notin {"absent", "FAILURE", "SUCCESS"}
    BY <1>4 DEF Unfinished
  <2>5. QED
    BY <2>1, <2>2, <2>3, <2>4 DEF VideoOK
<1>5. QED
    BY <1>3, <1>4
LEMMA WriteVideoKeeps == ASSUME Inv, NEW p \in Pollers, WriteVideo(p) PROVE Inv'
<1> DEFINE l == poller[p]
           new == l.new
<1>1. l \in Poller /\ Shape(l) /\ TypeOK /\ l.pc = "write" /\ l.task \in Tasks /\ l.task \notin Suno /\ new \in Statuses
      /\ l.todo[l.task] # "none" /\ \A u \in Tasks : l.todo[u] \in Unfinished \cup {"none"}
    BY PollerIs DEF WriteVideo, Shape
<1>2. PICK t \in Tasks : t = l.task
    BY <1>1
<1> DEFINE from == l.todo[t]
           won == row[t].status = from
           due == VideoDue(t, new, won)
<1>3. t \notin Suno /\ t # NoTask /\ from \in Unfinished
    BY <1>1, <1>2, TaskNumbers
<1>4. row[t].status \in Statuses
    BY <1>1, <1>2 DEF Inv, Known
<1>5. UNCHANGED <<ledger, world, fetcher, crashes>> /\ errors' \in 0 .. MaxErrors
    BY <1>1, ErrorsTyped DEF WriteVideo
<1>6. Settled(t) \in Int /\ Refunded(t) \in Int /\ (Settled(t) # 0 => Settled(t) = Actual[t] - Quota[t] /\ Actual[t] # 0)
    BY TaskNumbers DEF Settled, Refunded
<1>7. /\ due \in Int
      /\ due # 0 => won /\ new \in Terminal
      /\ won /\ new = "SUCCESS" => due = Settled(t)
      /\ won /\ new = "FAILURE" => due = Refunded(t)
    BY <1>6 DEF VideoDue, Terminal
<1>8. WriteVideo(p) => \E delta \in Int :
        /\ Moves(p, Bills(l, t, delta, "batch"))
        /\ \/ delta = due /\ row' = Cas(t, from, new) /\ excuse' = excuse
           \/ delta = 0 /\ row' \in {row, Cas(t, from, new)} /\ ExcuseIf(t, row' # row /\ new \in Terminal, "logged")
    BY <1>2, <1>7, ZeroInt DEF WriteVideo, Moves, Wins
<1> HIDE DEF due
<1>9. PICK delta \in Int :
        /\ Moves(p, Bills(l, t, delta, "batch"))
        /\ \/ delta = due /\ row' = Cas(t, from, new) /\ excuse' = excuse
           \/ delta = 0 /\ row' \in {row, Cas(t, from, new)} /\ ExcuseIf(t, row' # row /\ new \in Terminal, "logged")
    BY <1>8
<1> DEFINE n == Bills(l, t, delta, "batch")
<1>10. delta # 0 => won /\ new \in Terminal /\ (delta = Settled(t) \/ delta = Refunded(t))
    BY <1>7, <1>9 DEF Terminal
<1>11. delta = 0 => n \in Poller /\ Shape(n) /\ n.task = NoTask /\ n.todo[t] = "none" /\ \A u \in Tasks : u # t => n.todo[u] = l.todo[u]
    BY <1>1, BillsNothing
<1>12. delta # 0 => n \in Poller /\ n.task = t /\ n.pc = "funding" /\ n.delta = delta /\ n.ret = "batch" /\ n.todo = l.todo
    BY <1>1, BillsIs
<1> HIDE DEF n
<1>13. n \in Poller /\ Shape(n)
    BY <1>1, <1>3, <1>6, <1>10, <1>11, <1>12 DEF Shape
<1>14. Moves(p, n)
    BY <1>9 DEF n
<1>15. /\ row' \in [Tasks -> Row] /\ \A u \in Tasks : u # t => row'[u] = row[u]
       /\ row' = row \/ (won /\ row'[t].status = new)
    BY <1>1, <1>9, CasIs DEF TypeOK
<1>16. \/ excuse' = excuse
       \/ row' # row /\ new \in Terminal /\ excuse' = [excuse EXCEPT ![t] = @ \cup {"logged"}]
    BY <1>9 DEF ExcuseIf, Excuse
<1>17. /\ excuse' \in [Tasks -> SUBSET Excuses]
       /\ \A u \in Tasks : u # t => excuse'[u] = excuse[u]
       /\ excuse[t] \subseteq excuse'[t] /\ ("unsettled" \in excuse'[t] => "unsettled" \in excuse[t])
    BY <1>1, <1>16 DEF TypeOK, Excuses
<1>18. ASSUME t \in Guarded PROVE VideoOK(t)'
  <2>1. VideoOK(t)
    BY <1>18 DEF Inv
  <2>2. CASE won /\ row'[t].status = new /\ new \in Terminal
    <3>1. row' # row
      BY <1>3, <2>2 DEF Unfinished, Terminal
    <3>2. excuse'[t] = {} => delta = due
      BY <1>1, <1>9, <2>2, <3>1 DEF ExcuseIf, Excuse, TypeOK
    <3>3. excuse'[t] = {} => \/ row'[t].status = "FAILURE" /\ delta = Refunded(t)
                             \/ row'[t].status = "SUCCESS" /\ delta = Settled(t)
      BY <1>7, <2>2, <3>2 DEF Terminal
    <3>4. row[t].status \in Unfinished /\ row'[t].status \in Terminal
      BY <1>3, <2>2
    <3>5. fund'[t] = fund[t] /\ tok'[t] = tok[t]
      BY <1>5 DEF ledger
    <3>6. delta = 0 => n.task # t
      BY <1>3, <1>11
    <3>7. QED
      BY <1>1, <1>12, <1>14, <1>17, <2>1, <3>3, <3>4, <3>5, <3>6, VideoEnds
  <2>3. CASE ~(won /\ row'[t].status = new /\ new \in Terminal)
    <3>1. row' = row \/ (won /\ row'[t].status = new /\ new \in Unfinished)
      BY <1>1, <1>15, <2>3 DEF Statuses
    <3>2. delta = 0
      <4>1. won /\ new \in Terminal => Cas(t, from, new)[t].status = new
        BY <1>1, CasIs
      <4>2. QED
        BY <1>9, <1>10, <2>3, <4>1
    <3>3. excuse' = excuse
      BY <1>16, <1>15, <2>3
    <3>4. row'[t] = row[t] \/ (row[t].status \in Unfinished /\ row'[t].status \in Unfinished)
      BY <1>3, <3>1
    <3>5. ~Owes(p, t) /\ n.task # t /\ fund'[t] = fund[t] /\ tok'[t] = tok[t]
      BY <1>1, <1>3, <1>5, <1>11, <3>2 DEF Owes, ledger
    <3>6. QED
      BY <1>1, <1>14, <2>1, <3>3, <3>4, <3>5, VideoGoesOn
  <2>4. QED
    BY <2>2, <2>3
<1>19. \A u \in Tasks : u # t => SameTask(u) /\ n.todo[u] = l.todo[u]
    BY <1>5, <1>11, <1>12, <1>15, <1>17 DEF SameTask, ledger
<1>20. fund' \in [Tasks -> Int] /\ tok' \in [Tasks -> Int] /\ crashes' \in 0 .. MaxCrashes
    BY <1>1, <1>5 DEF TypeOK, ledger
<1>21. \A u \in Tasks : row[u].status \in Statuses => row'[u].status \in Statuses
    BY <1>1, <1>15
<1>22. \A u \in Tasks : n.todo[u] # "none" => l.todo[u] # "none"
    BY <1>1, <1>2, <1>19
<1>23. n.task \in {t, NoTask} /\ l.task \in {t, NoTask}
    BY <1>2, <1>11, <1>12
<1>24. QED
    BY <1>3, <1>5, <1>13, <1>14, <1>15, <1>17, <1>18, <1>19, <1>20, <1>21, <1>22, <1>23, MoveStep

LEMMA SaveSunoKeeps == ASSUME Inv, NEW p \in Pollers, SaveSuno(p) PROVE Inv'
<1> DEFINE l == poller[p]
           n == GoesOn(l, "batch")
<1>1. l \in Poller /\ Shape(l) /\ TypeOK /\ l.pc = "save" /\ l.task \in Suno /\ l.new \in Statuses \cup {"REASON"}
      /\ l.todo[l.task] # "none" /\ \A u \in Tasks : l.todo[u] \in Unfinished \cup {"none"}
    BY PollerIs DEF SaveSuno, Shape, Poller
<1>2. PICK t \in Suno : t = l.task
    BY <1>1
<1>3. t \in Tasks /\ t \notin Guarded /\ t # NoTask /\ l.todo[t] \in Unfinished
    BY <1>1, <1>2, TaskNumbers
<1>4. row[t].status \in Statuses
    BY <1>1, <1>2, <1>3 DEF Inv, Known
<1>5. n \in Poller /\ Shape(n) /\ n.task = NoTask /\ n.todo[t] = "none" /\ \A u \in Tasks : u # t => n.todo[u] = l.todo[u]
    BY <1>1, <1>2, <1>3, GoesOnIs
<1> DEFINE s == SavedStatus(l)
           b == l.new \notin Unfinished
           v == [status |-> s, full |-> b]
<1>6. b \in BOOLEAN
    OBVIOUS
<1>7. s = IF l.new = "REASON" THEN l.todo[t] ELSE l.new
    BY <1>2 DEF SavedStatus
<1>8. SaveSuno(p) =>
        /\ Moves(p, n)
        /\ \/ row' = [row EXCEPT ![t] = v] /\ excuse' = excuse
           \/ row' \in {row, [row EXCEPT ![t] = v]} /\ excuse' = [excuse EXCEPT ![t] = @ \cup {"logged"}]
    BY <1>2 DEF SaveSuno, Moves, Excuse
<1>9. s \in Statuses
    BY <1>1, <1>3, <1>7 DEF Statuses
<1>10. /\ s = "FAILURE" => l.new = "FAILURE"
       /\ s = "SUCCESS" => l.new = "SUCCESS"
       /\ ~b => l.new \in Unfinished
    BY <1>3, <1>7 DEF Unfinished
<1> HIDE DEF s, b
<1>11. v \in Row /\ v.status = s /\ v.full = b
    BY <1>6, <1>9 DEF Row
<1> HIDE DEF v, n
<1>12. /\ row' \in [Tasks -> Row] /\ (row' = row \/ row'[t] = v)
       /\ \A u \in Tasks : u # t => row'[u] = row[u]
    BY <1>1, <1>3, <1>8, <1>11 DEF TypeOK
<1>13. /\ excuse' \in [Tasks -> SUBSET Excuses]
       /\ \A u \in Tasks : u # t => excuse'[u] = excuse[u]
       /\ excuse'[t] = {} => excuse[t] = {} /\ row'[t] = v
  <2>1. excuse \in [Tasks -> SUBSET Excuses] /\ row \in [Tasks -> Row] /\ "logged" \in Excuses
    BY <1>1 DEF TypeOK, Excuses
  <2>2. CASE row' = [row EXCEPT ![t] = v] /\ excuse' = excuse
    BY <1>3, <2>1, <2>2
  <2>3. CASE excuse' = [excuse EXCEPT ![t] = @ \cup {"logged"}]
    BY <1>3, <2>1, <2>3
  <2>4. QED
    BY <1>8, <2>2, <2>3
<1>14. UNCHANGED <<ledger, world, fetcher, crashes>> /\ errors' \in 0 .. MaxErrors
    BY <1>1, ErrorsTyped DEF SaveSuno
<1>15. ASSUME Pollers = {p} PROVE SunoOK(p, t)'
  <2>1. SunoOK(p, t)
    BY <1>15 DEF Inv
  <2>2. poller'[p] = n
    BY <1>1, <1>8, MovesIs
  <2>3. excuse[t] = {} => IF l.new \in {"FAILURE", "REASON"} THEN Returned(t) ELSE Untouched(t)
    BY <1>1, <1>2, <2>1 DEF SunoOK
  <2>4. (Untouched(t)' <=> Untouched(t)) /\ (Returned(t)' <=> Returned(t))
    BY <1>14 DEF Untouched, Returned, ledger
  <2>5. ~Owes(p, t)' /\ row'[t].status # "absent"
    BY <1>3, <1>4, <1>5, <1>9, <1>11, <1>12, <2>2, PollerNames DEF Owes
  <2>6. excuse'[t] = {} =>
          /\ row'[t].status \in Unfinished /\ ~row'[t].full => Untouched(t)'
          /\ row'[t].status = "FAILURE" => Returned(t)'
          /\ row'[t].status = "SUCCESS" => Untouched(t)'
    BY <1>10, <1>11, <1>13, <2>3, <2>4 DEF Unfinished
  <2>7. QED
    BY <1>3, <1>5, <2>2, <2>5, <2>6 DEF SunoOK
<1>16. \A u \in Tasks : u # t => SameTask(u) /\ n.todo[u] = l.todo[u]
    BY <1>5, <1>12, <1>13, <1>14 DEF SameTask, ledger
<1>17. fund' \in [Tasks -> Int] /\ tok' \in [Tasks -> Int] /\ crashes' \in 0 .. MaxCrashes
    BY <1>1, <1>14 DEF TypeOK, ledger
<1>18. \A u \in Tasks : row[u].status \in Statuses => row'[u].status \in Statuses
    BY <1>9, <1>11, <1>12
<1>19. \A u \in Tasks : n.todo[u] # "none" => l.todo[u] # "none"
    BY <1>5, <1>16
<1>20. n.task \in {t, NoTask} /\ l.task \in {t, NoTask} /\ Moves(p, n)
    BY <1>2, <1>5, <1>8
<1>21. QED
    BY <1>3, <1>5, <1>12, <1>13, <1>14, <1>15, <1>16, <1>17, <1>18, <1>19, <1>20, MoveStep

-----------------------------------------------------------------------------
(* Refunds and settlements.                                                *)

\* Where a poller that billed, or failed to, goes on.
LEMMA BilledGoesOn ==
    ASSUME NEW l \in Poller, Shape(l), l.pc \in {"funding", "token"}
    PROVE  /\ GoesOn(l, l.ret) \in Poller /\ Shape(GoesOn(l, l.ret))
           /\ GoesOn(l, l.ret).task \in {l.task, NoTask} /\ GoesOn(l, l.ret).pc \notin {"funding", "token"}
           /\ \A t \in Tasks : t # l.task => GoesOn(l, l.ret).todo[t] = l.todo[t]
           /\ GoesOn(l, l.ret).todo[l.task] \in {l.todo[l.task], "none"}
           /\ l.ret \in {"sweep", "batch"} => GoesOn(l, l.ret).task = NoTask /\ GoesOn(l, l.ret).todo[l.task] = "none"
           /\ l.ret = "save" => /\ GoesOn(l, l.ret).task = l.task /\ GoesOn(l, l.ret).pc = "save"
                                /\ GoesOn(l, l.ret).todo = l.todo /\ GoesOn(l, l.ret).new = l.new
<1>1. l.task \in Tasks /\ \A t \in Tasks : l.todo[t] \in Unfinished \cup {"none"}
    BY DEF Shape
<1>2. l.ret \in {"sweep", "batch", "save"}
    BY DEF Poller
<1>3. CASE l.ret \in {"sweep", "batch"}
  <2>1. PICK r \in {"sweep", "batch"} : r = l.ret
    BY <1>3
  <2>2. GoesOn(l, r).pc \notin {"funding", "token"}
    BY <1>1, GoesOnIs
  <2>3. QED
    BY <1>1, <2>1, <2>2, GoesOnIs
<1>4. CASE l.ret = "save"
  <2>1. l.task \in Suno /\ l.todo[l.task] # "none"
    BY <1>4 DEF Shape
  <2>2. QED
    BY <1>1, <1>4, <2>1, GoesOnToSave
<1>5. QED
    BY <1>2, <1>3, <1>4

\* Poller p stops billing a video.
LEMMA VideoLeft ==
    ASSUME TypeOK, NEW p \in Pollers, NEW n, Moves(p, n), NEW t \in Tasks, VideoOK(t), Owes(p, t),
           n.task # t \/ n.pc \notin {"funding", "token"},
           row'[t] = row[t],
           "unsettled" \in excuse[t] => "unsettled" \in excuse'[t],
           "unsettled" \notin excuse[t] => fund'[t] >= 0 /\ tok'[t] >= 0,
           excuse'[t] = {} =>
               /\ row[t].status = "FAILURE" => Returned(t)'
               /\ row[t].status = "SUCCESS" =>
                     LET cost == IF Actual[t] = 0 THEN Quota[t] ELSE Actual[t]
                     IN  fund'[t] = cost /\ tok'[t] = IF t \in Tokened THEN cost ELSE 0
    PROVE  VideoOK(t)'
<1>1. poller'[p] = n /\ \A q \in Pollers \ {p} : poller'[q] = poller[q]
    BY MovesIs
<1>2. \A q \in Pollers : ~Owes(q, t)'
  <2>1. ~Owes(p, t)'
    BY <1>1 DEF Owes
  <2>2. \A q \in Pollers \ {p} : ~Owes(q, t)
    BY DEF VideoOK
  <2>3. \A q \in Pollers \ {p} : Owes(q, t)' <=> Owes(q, t)
    BY <1>1 DEF Owes
  <2>4. QED
    BY <2>1, <2>2, <2>3
<1>3. row[t].status \in Terminal
    BY DEF VideoOK
<1>4. row'[t].status \notin Unfinished \cup {"absent", "unrecorded"}
    BY <1>3 DEF Unfinished, Terminal
<1>5. QED
    BY <1>2, <1>4 DEF VideoOK

\* What a poller that bills t knows of its accounts.
LEMMA OwedAmounts ==
    ASSUME Inv, NEW p \in Pollers, NEW t \in Tasks, Owes(p, t)
    PROVE  /\ poller[p].delta \in Int
           /\ poller[p].delta = - Quota[t] \/ (poller[p].delta = Actual[t] - Quota[t] /\ poller[p].ret = "batch")
           /\ t \in Suno => poller[p].delta = - Quota[t] /\ poller[p].ret \in {"sweep", "save"}
           /\ t \in Guarded \/ (t \in Suno /\ Pollers = {p}) => row[t].status # "absent"
<1>1. poller[p] \in Poller /\ Shape(poller[p])
    BY PollerIs
<1>2. /\ poller[p].delta = - Quota[t] \/ (poller[p].delta = Actual[t] - Quota[t] /\ poller[p].ret = "batch")
      /\ t \in Suno => poller[p].delta = - Quota[t] /\ poller[p].ret \in {"sweep", "save"}
    BY <1>1 DEF Owes, Shape, Refunded, Poller
<1>3. t \in Guarded => row[t].status # "absent"
    BY DEF Inv, VideoOK, Terminal
<1>4. ASSUME t \in Suno, Pollers = {p} PROVE row[t].status # "absent"
  <2>1. SunoOK(p, t)
    BY <1>4 DEF Inv
  <2>2. CASE poller[p].ret = "sweep"
    BY <2>1, <2>2 DEF SunoOK
  <2>3. CASE poller[p].ret = "save"
    <3>1. poller[p].todo[t] # "none"
      BY <1>1, <2>3 DEF Owes, Shape
    <3>2. row[t].status \in Statuses
      BY <3>1 DEF Inv, Known
    <3>3. QED
      BY <3>2, PollerNames
  <2>4. QED
    BY <1>2, <1>4, <2>2, <2>3
<1>5. QED
    BY <1>1, <1>2, <1>3, <1>4 DEF Poller

\* A history entry is added for t.
LEMMA ExcuseIs ==
    ASSUME TypeOK, NEW t \in Tasks, NEW why \in Excuses, Excuse(t, why)
    PROVE  /\ excuse' \in [Tasks -> SUBSET Excuses] /\ excuse'[t] = excuse[t] \cup {why}
           /\ \A u \in Tasks : u # t => excuse'[u] = excuse[u]
BY DEF TypeOK, Excuse

LEMMA AdjustFundingKeeps == ASSUME Inv, NEW p \in Pollers, AdjustFunding(p) PROVE Inv'
<1> DEFINE l == poller[p]
<1>1. l \in Poller /\ Shape(l) /\ TypeOK /\ l.pc = "funding" /\ l.task \in Tasks
    BY PollerIs DEF AdjustFunding, Shape
<1>2. PICK t \in Tasks : t = l.task
    BY <1>1
<1>3. Owes(p, t) /\ t # NoTask
    BY <1>1, <1>2, TaskNumbers DEF Owes
<1>4. PICK d \in Int : d = l.delta
    BY <1>1 DEF Poller
<1>5. /\ d = - Quota[t] \/ (d = Actual[t] - Quota[t] /\ l.ret = "batch")
      /\ t \in Suno => d = - Quota[t] /\ l.ret \in {"sweep", "save"}
      /\ t \in Guarded \/ (t \in Suno /\ Pollers = {p}) => row[t].status # "absent"
    BY <1>3, <1>4, OwedAmounts
<1>6. Quota[t] \in Nat /\ Actual[t] \in Nat /\ fund \in [Tasks -> Int] /\ tok \in [Tasks -> Int]
    BY <1>1, TaskNumbers DEF TypeOK
<1> DEFINE moved == [fund EXCEPT ![t] = @ + d]
<1>7. moved \in [Tasks -> Int] /\ moved[t] = fund[t] + d /\ \A u \in Tasks : u # t => moved[u] = fund[u]
    BY <1>6
<1>8. AdjustFunding(p) =>
        \/ fund' = moved /\ poller' = [poller EXCEPT ![p].pc = "token"] /\ excuse' = excuse
        \/ fund' \in {fund, moved} /\ Moves(p, GoesOn(l, l.ret)) /\ Excuse(t, "logged")
    BY <1>2, <1>4 DEF AdjustFunding, Moves
<1> HIDE DEF moved
<1>9. UNCHANGED <<row, tok, world, fetcher, crashes>> /\ errors' \in 0 .. MaxErrors
    BY <1>1, ErrorsTyped DEF AdjustFunding
<1>10. fund' \in [Tasks -> Int] /\ (fund'[t] = fund[t] \/ fund'[t] = fund[t] + d) /\ \A u \in Tasks : u # t => fund'[u] = fund[u]
    BY <1>6, <1>7, <1>8
<1>11. tok' \in [Tasks -> Int] /\ row' \in [Tasks -> Row] /\ crashes' \in 0 .. MaxCrashes
    BY <1>1, <1>9 DEF TypeOK
<1>12. CASE fund' = moved /\ poller' = [poller EXCEPT ![p].pc = "token"] /\ excuse' = excuse
  <2> DEFINE n == [l EXCEPT !.pc = "token"]
  <2>1. Moves(p, n)
    BY <1>1, <1>12 DEF Moves, TypeOK, Poller
  <2>2. n \in Poller
    BY <1>1, PollerNames DEF Poller
  <2>3. n.pc = "token" /\ n.task = t /\ n.ret = l.ret /\ n.todo = l.todo /\ n.new = l.new /\ n.delta = d
    BY <1>1, <1>2, <1>4 DEF Poller
  <2> HIDE DEF n
  <2>4. Shape(n)
    <3>1. l.delta = d /\ l.task = t
      BY <1>2, <1>4
    <3>2. QED
      BY <1>1, <2>3, <3>1 DEF Shape
  <2>5. poller'[p] = n /\ \A q \in Pollers \ {p} : poller'[q] = poller[q]
    BY <1>1, <2>1, MovesIs
  <2>6. excuse' \in [Tasks -> SUBSET Excuses] /\ fund'[t] = fund[t] + d
    BY <1>1, <1>7, <1>12 DEF TypeOK
  <2>7. ASSUME t \in Guarded PROVE VideoOK(t)'
    <3>1. VideoOK(t)
      BY <2>7 DEF Inv
    <3>2. \A q \in Pollers : Owes(q, t)' <=> q = p
      BY <1>3, <2>3, <2>5, <3>1 DEF Owes, VideoOK
    <3>3. row[t].status \in Terminal
      BY <1>3, <3>1 DEF VideoOK
    <3>4. "unsettled" \notin excuse[t] => fund[t] = Quota[t] /\ tok[t] = Charge0(t)
      BY <1>1, <1>3, <3>1 DEF VideoOK, Untouched
    <3>5. Charge0(t) >= 0
      BY <1>6 DEF Charge0
    <3>6. "unsettled" \notin excuse'[t] =>
            /\ fund'[t] = Quota[t] + poller'[p].delta /\ tok'[t] = Charge0(t)
            /\ fund'[t] >= 0 /\ tok'[t] >= 0
      <4>1. excuse'[t] = excuse[t] /\ tok'[t] = tok[t] /\ poller'[p].delta = d /\ fund'[t] = fund[t] + d
        BY <1>9, <1>12, <2>3, <2>5, <2>6
      <4>2. Quota[t] + d >= 0
        BY <1>5, <1>6
      <4>3. QED
        BY <3>4, <3>5, <4>1, <4>2
    <3>7. excuse'[t] = {} => \/ row'[t].status = "FAILURE" /\ poller'[p].delta = Refunded(t)
                             \/ row'[t].status = "SUCCESS" /\ poller'[p].delta = Actual[t] - Quota[t] /\ Actual[t] # 0
      BY <1>3, <1>4, <1>9, <1>12, <2>3, <2>5, <3>1 DEF VideoOK
    <3>8. row'[t].status \in Terminal /\ row'[t].status \notin Unfinished \cup {"absent", "unrecorded"}
      BY <1>9, <3>3 DEF Terminal, Unfinished
    <3>9. poller'[p].pc = "token"
      BY <2>3, <2>5
    <3>10. QED
      BY <3>2, <3>6, <3>7, <3>8, <3>9 DEF VideoOK, Charge0, Refunded
  <2>8. ASSUME t \in Suno, Pollers = {p} PROVE SunoOK(p, t)'
    <3>1. SunoOK(p, t)
      BY <2>8 DEF Inv
    <3>2. excuse[t] = {} => fund'[t] = 0 /\ tok'[t] = Charge0(t)
      BY <1>1, <1>2, <1>5, <1>6, <1>9, <2>6, <2>8, <3>1 DEF SunoOK, Untouched
    <3>3. Owes(p, t)'
      BY <2>3, <2>5 DEF Owes
    <3>4. /\ excuse[t] = {} /\ l.todo[t] # "none" /\ l.ret # "sweep" => row[t].status = l.todo[t] /\ ~row[t].full
          /\ excuse[t] = {} /\ l.ret = "sweep" => row[t].status = "FAILURE"
      BY <1>3, <3>1 DEF SunoOK
    <3>5. row'[t] = row[t] /\ row[t].status # "absent" /\ excuse'[t] = excuse[t]
      BY <1>5, <1>9, <1>12, <2>8
    <3>6. QED
      BY <2>3, <2>5, <3>2, <3>3, <3>4, <3>5 DEF SunoOK, Charge0
  <2>9. \A u \in Tasks : u # t => SameTask(u) /\ n.todo[u] = l.todo[u]
    BY <1>9, <1>10, <1>12, <2>3 DEF SameTask
  <2>10. \A u \in Tasks : row'[u].status = row[u].status
    BY <1>9
  <2>11. n.task \in {t, NoTask} /\ l.task \in {t, NoTask}
    BY <1>2, <2>3
  <2>12. QED
    BY <1>9, <1>10, <1>11, <2>1, <2>2, <2>3, <2>4, <2>6, <2>7, <2>8, <2>9, <2>10, <2>11, MoveStep
<1>13. CASE fund' \in {fund, moved} /\ Moves(p, GoesOn(l, l.ret)) /\ Excuse(t, "logged")
  <2> DEFINE n == GoesOn(l, l.ret)
  <2>1. /\ n \in Poller /\ Shape(n) /\ n.task \in {t, NoTask} /\ n.pc \notin {"funding", "token"}
        /\ \A u \in Tasks : u # t => n.todo[u] = l.todo[u]
        /\ n.todo[t] \in {l.todo[t], "none"}
    BY <1>1, <1>2, BilledGoesOn
  <2> HIDE DEF n
  <2>2. Moves(p, n)
    BY <1>13 DEF n
  <2>3. /\ excuse' \in [Tasks -> SUBSET Excuses] /\ excuse'[t] = excuse[t] \cup {"logged"}
        /\ \A u \in Tasks : u # t => excuse'[u] = excuse[u]
    <3>1. "logged" \in Excuses
      BY DEF Excuses
    <3>2. QED
      BY <1>1, <1>13, <3>1, ExcuseIs
  <2>4. ASSUME t \in Guarded PROVE VideoOK(t)'
    <3>1. VideoOK(t)
      BY <2>4 DEF Inv
    <3>2. "unsettled" \notin excuse[t] => fund[t] = Quota[t] /\ tok[t] = Charge0(t)
      BY <1>1, <1>3, <3>1 DEF VideoOK, Untouched
    <3>3. Charge0(t) >= 0
      BY <1>6 DEF Charge0
    <3>4. "unsettled" \notin excuse[t] => fund'[t] >= 0 /\ tok'[t] >= 0
      BY <1>5, <1>6, <1>9, <1>10, <3>2, <3>3
    <3>5. row'[t] = row[t]
      BY <1>9
    <3>6. QED
      BY <1>1, <1>3, <2>1, <2>2, <2>3, <3>1, <3>4, <3>5, VideoLeft
  <2>5. ASSUME t \in Suno, Pollers = {p} PROVE SunoOK(p, t)'
    <3>1. row'[t].status # "absent" /\ excuse'[t] # {}
      BY <1>5, <1>9, <2>3, <2>5
    <3>2. QED
      BY <3>1 DEF SunoOK
  <2>6. \A u \in Tasks : u # t => SameTask(u) /\ n.todo[u] = l.todo[u]
    BY <1>9, <1>10, <2>1, <2>3 DEF SameTask
  <2>7. \A u \in Tasks : row'[u].status = row[u].status
    BY <1>9
  <2>8. \A u \in Tasks : n.todo[u] # "none" => l.todo[u] # "none"
    BY <2>1
  <2>9. l.task \in {t, NoTask}
    BY <1>2
  <2>10. QED
    BY <1>9, <1>10, <1>11, <2>1, <2>2, <2>3, <2>4, <2>5, <2>6, <2>7, <2>8, <2>9, MoveStep
<1>14. QED
    BY <1>8, <1>12, <1>13

LEMMA AdjustTokenKeeps == ASSUME Inv, NEW p \in Pollers, AdjustToken(p) PROVE Inv'
<1> DEFINE l == poller[p]
           n == GoesOn(l, l.ret)
<1>1. l \in Poller /\ Shape(l) /\ TypeOK /\ l.pc = "token" /\ l.task \in Tasks
    BY PollerIs DEF AdjustToken, Shape
<1>2. PICK t \in Tasks : t = l.task
    BY <1>1
<1>3. Owes(p, t) /\ t # NoTask
    BY <1>1, <1>2, TaskNumbers DEF Owes
<1>4. PICK d \in Int : d = l.delta
    BY <1>1 DEF Poller
<1>5. /\ d = - Quota[t] \/ (d = Actual[t] - Quota[t] /\ l.ret = "batch")
      /\ t \in Suno => d = - Quota[t] /\ l.ret \in {"sweep", "save"}
      /\ t \in Guarded \/ (t \in Suno /\ Pollers = {p}) => row[t].status # "absent"
    BY <1>3, <1>4, OwedAmounts
<1>6. Quota[t] \in Nat /\ Actual[t] \in Nat /\ tok \in [Tasks -> Int] /\ Quota[t] + d >= 0
    BY <1>1, <1>5, TaskNumbers DEF TypeOK
<1> DEFINE moved == IF t \in Tokened THEN [tok EXCEPT ![t] = @ + d] ELSE tok
<1>7. /\ moved \in [Tasks -> Int] /\ (t \in Tokened => moved[t] = tok[t] + d) /\ (t \notin Tokened => moved = tok)
      /\ \A u \in Tasks : u # t => moved[u] = tok[u]
    BY <1>6
<1>8. AdjustToken(p) =>
        /\ Moves(p, n)
        /\ \/ tok' = moved /\ excuse' = excuse
           \/ tok' \in {tok, moved} /\ Excuse(t, "logged")
    BY <1>2, <1>4 DEF AdjustToken, Moves
<1> HIDE DEF moved
<1>9. UNCHANGED <<row, fund, world, fetcher, crashes>> /\ errors' \in 0 .. MaxErrors
    BY <1>1, ErrorsTyped DEF AdjustToken
<1>10. /\ tok' \in [Tasks -> Int] /\ (tok' = tok \/ tok' = moved)
       /\ \A u \in Tasks : u # t => tok'[u] = tok[u]
    BY <1>6, <1>7, <1>8
<1>11. fund' \in [Tasks -> Int] /\ row' \in [Tasks -> Row] /\ crashes' \in 0 .. MaxCrashes
    BY <1>1, <1>9 DEF TypeOK
<1>12. /\ n \in Poller /\ Shape(n) /\ n.task \in {t, NoTask} /\ n.pc \notin {"funding", "token"}
       /\ \A u \in Tasks : u # t => n.todo[u] = l.todo[u]
       /\ n.todo[t] \in {l.todo[t], "none"}
       /\ l.ret \in {"sweep", "batch"} => n.task = NoTask /\ n.todo[t] = "none"
       /\ l.ret = "save" => n.task = t /\ n.pc = "save" /\ n.todo = l.todo /\ n.new = l.new
    BY <1>1, <1>2, BilledGoesOn
<1> HIDE DEF n
<1>13. /\ excuse' \in [Tasks -> SUBSET Excuses]
       /\ \A u \in Tasks : u # t => excuse'[u] = excuse[u]
       /\ "unsettled" \in excuse[t] => "unsettled" \in excuse'[t]
       /\ excuse'[t] = {} => excuse[t] = {} /\ tok' = moved
  <2>1. CASE tok' = moved /\ excuse' = excuse
    BY <1>1, <2>1 DEF TypeOK
  <2>2. CASE Excuse(t, "logged")
    <3>1. "logged" \in Excuses
      BY DEF Excuses
    <3>2. QED
      BY <1>1, <2>2, <3>1, ExcuseIs
  <2>3. QED
    BY <1>8, <2>1, <2>2
<1>14. fund'[t] = fund[t] /\ row'[t] = row[t]
    BY <1>9
<1>15. tok[t] = Charge0(t) => /\ tok'[t] >= 0
                              /\ tok' = moved => tok'[t] = IF t \in Tokened THEN Quota[t] + d ELSE 0
    BY <1>6, <1>7, <1>10 DEF Charge0
<1>16. ASSUME t \in Guarded PROVE VideoOK(t)'
  <2>1. VideoOK(t)
    BY <1>16 DEF Inv
  <2>2. "unsettled" \notin excuse[t] => fund[t] = Quota[t] + d /\ tok[t] = Charge0(t)
    BY <1>1, <1>3, <1>4, <2>1 DEF VideoOK
  <2>3. "unsettled" \notin excuse[t] => fund'[t] >= 0 /\ tok'[t] >= 0
    BY <1>6, <1>14, <1>15, <2>2
  <2>4. excuse[t] = {} => \/ row[t].status = "FAILURE" /\ d = - Quota[t]
                          \/ row[t].status = "SUCCESS" /\ d = Actual[t] - Quota[t] /\ Actual[t] # 0
    BY <1>3, <1>4, <2>1 DEF VideoOK, Refunded
  <2>5. excuse'[t] = {} => /\ fund'[t] = Quota[t] + d
                           /\ tok'[t] = IF t \in Tokened THEN Quota[t] + d ELSE 0
    BY <1>13, <1>14, <1>15, <2>2
  <2>6. excuse'[t] = {} =>
          /\ row[t].status = "FAILURE" => Returned(t)'
          /\ row[t].status = "SUCCESS" =>
                LET cost == IF Actual[t] = 0 THEN Quota[t] ELSE Actual[t]
                IN  fund'[t] = cost /\ tok'[t] = IF t \in Tokened THEN cost ELSE 0
    <3>1. excuse'[t] = {} /\ row[t].status = "FAILURE" => fund'[t] = 0 /\ tok'[t] = 0
      BY <1>6, <1>13, <2>4, <2>5
    <3>2. excuse'[t] = {} /\ row[t].status = "SUCCESS" =>
            /\ Actual[t] # 0 /\ fund'[t] = Actual[t]
            /\ tok'[t] = IF t \in Tokened THEN Actual[t] ELSE 0
      BY <1>6, <1>13, <2>4, <2>5
    <3>3. QED
      BY <3>1, <3>2 DEF Returned
  <2>7. QED
    BY <1>1, <1>3, <1>8, <1>12, <1>13, <1>14, <2>1, <2>3, <2>6, VideoLeft
<1>17. ASSUME t \in Suno, Pollers = {p} PROVE SunoOK(p, t)'
  <2>1. SunoOK(p, t)
    BY <1>17 DEF Inv
  <2>2. poller'[p] = n
    BY <1>1, <1>8, MovesIs
  <2>3. ~Owes(p, t)'
    BY <1>12, <2>2 DEF Owes
  <2>4. excuse'[t] = {} => excuse[t] = {} /\ Returned(t)'
    <3>1. excuse[t] = {} => fund[t] = 0 /\ tok[t] = Charge0(t)
      BY <1>1, <1>2, <2>1 DEF SunoOK
    <3>2. d = - Quota[t]
      BY <1>5, <1>17
    <3>3. QED
      BY <1>6, <1>13, <1>14, <1>15, <3>1, <3>2 DEF Returned
  <2>5. row'[t] = row[t] /\ row'[t].status # "absent"
    BY <1>5, <1>14, <1>17
  <2>6. CASE l.ret = "sweep"
    <3>1. n.task = NoTask /\ n.todo[t] = "none"
      BY <1>12, <2>6
    <3>2. excuse[t] = {} => row[t].status = "FAILURE"
      BY <1>3, <2>1, <2>6 DEF SunoOK
    <3>3. QED
      BY <1>3, <2>2, <2>3, <2>4, <2>5, <3>1, <3>2 DEF SunoOK, Unfinished
  <2>7. CASE l.ret = "save"
    <3>1. n.task = t /\ n.pc = "save" /\ n.todo = l.todo /\ n.new \in {"FAILURE", "REASON"} /\ l.todo[t] # "none"
      BY <1>1, <1>2, <1>12, <2>7 DEF Shape
    <3>2. excuse[t] = {} => row[t].status = l.todo[t] /\ ~row[t].full
      BY <2>1, <2>7, <3>1 DEF SunoOK
    <3>3. QED
      BY <2>2, <2>3, <2>4, <2>5, <3>1, <3>2 DEF SunoOK
  <2>8. QED
    BY <1>5, <1>17, <2>6, <2>7
<1>18. \A u \in Tasks : u # t => SameTask(u) /\ n.todo[u] = l.todo[u]
    BY <1>9, <1>10, <1>12, <1>13 DEF SameTask
<1>19. \A u \in Tasks : row'[u].status = row[u].status
    BY <1>9
<1>20. \A u \in Tasks : n.todo[u] # "none" => l.todo[u] # "none"
    BY <1>12
<1>21. l.task \in {t, NoTask}
    BY <1>2
<1>22. QED
    BY <1>8, <1>9, <1>10, <1>11, <1>12, <1>13, <1>16, <1>17, <1>18, <1>19, <1>20, <1>21, MoveStep

-----------------------------------------------------------------------------
(* A process that dies, a channel that is gone.                            *)

LEMMA CrashKeeps == ASSUME Inv, NEW p \in Pollers, Crash(p) PROVE Inv'
<1> DEFINE l == poller[p]
<1>1. l \in Poller /\ Shape(l) /\ TypeOK
    BY PollerIs
<1>2. PICK t \in Tasks \cup {NoTask} : t = l.task
    BY <1>1 DEF Poller
<1>3. /\ Moves(p, Asleep) /\ UNCHANGED <<row, ledger, world, fetcher, errors>>
      /\ IF l.pc \in {"funding", "token", "save"} THEN Excuse(t, "crash") ELSE UNCHANGED excuse
    BY <1>2 DEF Crash, Moves
<1>4. errors' \in 0 .. MaxErrors /\ crashes' \in 0 .. MaxCrashes
    BY <1>1, BoundsAssumption DEF Crash, TypeOK
<1>5. l.pc \in {"funding", "token", "save"} => t \in Tasks
    BY <1>1, <1>2 DEF Shape
<1>6. /\ excuse' \in [Tasks -> SUBSET Excuses]
      /\ \A u \in Tasks : u # t => excuse'[u] = excuse[u]
      /\ l.pc \in {"funding", "token", "save"} => excuse'[t] = excuse[t] \cup {"crash"}
      /\ l.pc \notin {"funding", "token", "save"} => excuse' = excuse
  <2>1. CASE l.pc \in {"funding", "token", "save"}
    <3>1. "crash" \in Excuses
      BY DEF Excuses
    <3>2. QED
      BY <1>1, <1>3, <1>5, <2>1, <3>1, ExcuseIs
  <2>2. CASE l.pc \notin {"funding", "token", "save"}
    BY <1>1, <1>3, <2>2 DEF TypeOK
  <2>3. QED
    BY <2>1, <2>2
<1>7. Asleep.task # t \/ t = NoTask
    BY AsleepIs, TaskNumbers
<1>8. ASSUME t \in Guarded PROVE VideoOK(t)'
  <2>1. VideoOK(t) /\ t \in Tasks /\ t \notin Suno
    BY <1>8, TaskNumbers DEF Inv
  <2>2. row'[t] = row[t] /\ fund'[t] = fund[t] /\ tok'[t] = tok[t] /\ Asleep.task # t
    BY <1>3, <2>1, AsleepIs, TaskNumbers DEF ledger
  <2>3. CASE l.pc \in {"funding", "token"}
    <3>1. Owes(p, t)
      BY <1>2, <2>3 DEF Owes
    <3>2. excuse'[t] # {} /\ ("unsettled" \in excuse[t] => "unsettled" \in excuse'[t])
      BY <1>6, <2>3
    <3>3. "unsettled" \notin excuse[t] => fund'[t] >= 0 /\ tok'[t] >= 0
      BY <2>1, <2>2 DEF VideoOK
    <3>4. QED
      BY <1>1, <1>3, <2>1, <2>2, <3>1, <3>2, <3>3, VideoLeft
  <2>4. CASE l.pc \notin {"funding", "token"}
    <3>1. l.pc # "save"
      BY <1>1, <1>2, <2>1 DEF Shape
    <3>2. excuse'[t] = excuse[t] /\ ~Owes(p, t)
      BY <1>6, <2>4, <3>1 DEF Owes
    <3>3. QED
      BY <1>1, <1>3, <2>1, <2>2, <3>2, VideoGoesOn
  <2>5. QED
    BY <2>3, <2>4
<1>9. ASSUME t \in Suno, Pollers = {p} PROVE SunoOK(p, t)'
  <2>1. t \in Tasks /\ l.pc \in {"funding", "token", "save"}
    BY <1>1, <1>2, <1>9, TaskNumbers DEF Shape, Poller, PCs
  <2>2. row[t].status # "absent"
    <3>1. CASE l.pc = "save"
      BY <1>1, <1>2, <2>1, <3>1, PollerNames DEF Shape, Inv, Known
    <3>2. CASE l.pc \in {"funding", "token"}
      <4>1. Owes(p, t)
        BY <1>2, <3>2 DEF Owes
      <4>2. QED
        BY <1>9, <2>1, <4>1, OwedAmounts
    <3>3. QED
      BY <2>1, <3>1, <3>2
  <2>3. row'[t].status # "absent" /\ excuse'[t] # {}
    BY <1>3, <1>6, <2>1, <2>2
  <2>4. QED
    BY <2>3 DEF SunoOK
<1>10. \A u \in Tasks : u # t => SameTask(u)
    BY <1>3, <1>6 DEF SameTask, ledger
<1>11. fund' \in [Tasks -> Int] /\ tok' \in [Tasks -> Int] /\ row' \in [Tasks -> Row]
    BY <1>1, <1>3 DEF TypeOK, ledger
<1>12. Asleep.task \in {t, NoTask} /\ l.task \in {t, NoTask}
    BY <1>2, AsleepIs
<1>13. \A u \in Tasks : row'[u].status = row[u].status
    BY <1>3
<1>14. UNCHANGED <<world, fetcher>>
    BY <1>3
<1>15. QED
    BY <1>3, <1>4, <1>6, <1>8, <1>9, <1>10, <1>11, <1>12, <1>13, <1>14, AsleepIs, MoveStep

\* The bulk update writes the row of a video whatever it is, and bills nobody.
LEMMA VideoBulkFails ==
    ASSUME NEW t \in Tasks, VideoOK(t), row'[t].status = "FAILURE", fund'[t] = fund[t], tok'[t] = tok[t],
           row[t].status \in Statuses, excuse'[t] = excuse[t] \cup {"bulk"},
           \A q \in Pollers : Owes(q, t)' <=> Owes(q, t),
           \A q \in Pollers : Owes(q, t) => poller'[q].pc = poller[q].pc /\ poller'[q].delta = poller[q].delta
    PROVE  VideoOK(t)'
<1>1. (Untouched(t)' <=> Untouched(t)) /\ (Returned(t)' <=> Returned(t))
    BY DEF Untouched, Returned
<1>2. row'[t].status \in Terminal /\ row'[t].status \notin Unfinished \cup {"absent", "unrecorded"}
    BY DEF Terminal, Unfinished
<1>3. "unsettled" \notin excuse'[t] =>
          /\ \A q \in Pollers : Owes(q, t)' =>
                /\ poller'[q].pc = "funding" => Untouched(t)'
                /\ poller'[q].pc = "token" => fund'[t] = Quota[t] + poller'[q].delta /\ tok'[t] = Charge0(t)
          /\ fund'[t] >= 0 /\ tok'[t] >= 0
    BY <1>1 DEF VideoOK
<1>4. excuse'[t] # {}
    OBVIOUS
<1>5. \A q, r \in Pollers : Owes(q, t)' /\ Owes(r, t)' => q = r
    BY DEF VideoOK
<1>6. QED
    BY <1>2, <1>3, <1>4, <1>5 DEF VideoOK, Charge0

LEMMA BulkFailKeeps == ASSUME Inv, NEW p \in Pollers, NEW c \in Channels, BulkFail(p, c) PROVE Inv'
<1> DEFINE l == poller[p]
           failed == {t \in Pending(p) : Channel[t] = c}
           d == [t \in Tasks |-> IF t \in failed THEN "none" ELSE l.todo[t]]
           n == [l EXCEPT !.todo = d]
           v == [status |-> "FAILURE", full |-> TRUE]
<1>1. l \in Poller /\ Shape(l) /\ TypeOK /\ l.pc = "poll" /\ l.task = NoTask
      /\ \A t \in Tasks : l.todo[t] \in Unfinished \cup {"none"}
    BY PollerIs DEF BulkFail, Shape
<1>2. \A t \in failed : t \in Tasks /\ row[t].status \in Statuses
    BY DEF Pending, Inv, Known
<1>3. d \in [Tasks -> Statuses \cup {"none"}] /\ \A t \in Tasks : d[t] \in {l.todo[t], "none"}
    BY <1>1 DEF Poller
<1>4. Moves(p, n)
    BY <1>1 DEF BulkFail, Moves, TypeOK, Poller
<1>5. /\ row' = row \/ row' = [t \in Tasks |-> IF t \in failed THEN v ELSE row[t]]
      /\ excuse' = [t \in Tasks |-> IF t \in failed /\ row' # row THEN excuse[t] \cup {"bulk"} ELSE excuse[t]]
      /\ UNCHANGED <<ledger, world, fetcher, crashes>>
    BY DEF BulkFail
<1>6. errors' \in 0 .. MaxErrors
    BY <1>1, ErrorsTyped DEF BulkFail
<1> HIDE DEF failed, d
<1>7. n \in Poller
    BY <1>1, <1>3 DEF Poller
<1>8. n.pc = "poll" /\ n.task = NoTask /\ n.todo = d
    BY <1>1 DEF Poller
<1> HIDE DEF n
<1>9. Shape(n)
    BY <1>1, <1>3, <1>8 DEF Shape
<1>10. v \in Row /\ v.status = "FAILURE"
    BY PollerNames DEF Row
<1> HIDE DEF v
<1>11. row' \in [Tasks -> Row]
    BY <1>1, <1>5, <1>10 DEF TypeOK
<1>12. excuse' \in [Tasks -> SUBSET Excuses]
  <2>1. excuse \in [Tasks -> SUBSET Excuses] /\ "bulk" \in Excuses
    BY <1>1 DEF TypeOK, Excuses
  <2>2. QED
    BY <1>5, <2>1
<1>13. ASSUME NEW t \in Tasks, t \notin failed \/ row' = row
       PROVE  row'[t] = row[t] /\ excuse'[t] = excuse[t]
    BY <1>5, <1>13
<1>14. ASSUME NEW t \in Tasks, t \in failed, row' # row
       PROVE  row'[t].status = "FAILURE" /\ excuse'[t] = excuse[t] \cup {"bulk"}
    BY <1>5, <1>10, <1>14
<1>15. poller'[p] = n /\ \A q \in Pollers \ {p} : poller'[q] = poller[q]
    BY <1>1, <1>4, MovesIs
<1>16. TypeOK'
    BY <1>1, <1>4, <1>5, <1>6, <1>7, <1>11, <1>12 DEF TypeOK, Moves, world, ledger
<1>17. \A q \in Pollers : Shape(poller'[q])
    BY <1>9, <1>15 DEF Inv
<1>18. (\A q \in Pollers : Shape(poller[q]))'
    BY <1>17 DEF Shape
<1>19. \A t \in Tasks : row[t].status \in Statuses => row'[t].status \in Statuses
  <2>1. SUFFICES ASSUME NEW t \in Tasks, row[t].status \in Statuses PROVE row'[t].status \in Statuses
    OBVIOUS
  <2>2. QED
    BY <1>13, <1>14, <2>1, PollerNames
<1>20. Known'
  <2>1. ASSUME NEW q \in Pollers, NEW t \in Tasks, poller'[q].todo[t] # "none" PROVE row'[t].status \in Statuses
    BY <1>3, <1>8, <1>15, <1>19, <2>1 DEF Inv, Known
  <2>2. QED
    BY <1>5, <2>1 DEF Inv, Known
<1>21. ASSUME NEW t \in Tasks PROVE fund'[t] = fund[t] /\ tok'[t] = tok[t]
    BY <1>5 DEF ledger
<1>22. ASSUME NEW t \in Guarded PROVE VideoOK(t)'
  <2>1. VideoOK(t) /\ t \in Tasks /\ t # NoTask
    BY TaskNumbers DEF Inv
  <2>2. CASE t \notin failed \/ row' = row
    <3>1. SameTask(t)
      BY <1>13, <1>21, <2>1, <2>2 DEF SameTask
    <3>2. QED
      BY <1>1, <1>4, <1>8, <2>1, <3>1, VideoElse
  <2>3. CASE t \in failed /\ row' # row
    <3>1. \A q \in Pollers : Owes(q, t)' <=> Owes(q, t)
      BY <1>1, <1>8, <1>15, <2>1 DEF Owes
    <3>2. \A q \in Pollers : Owes(q, t) => poller'[q].pc = poller[q].pc /\ poller'[q].delta = poller[q].delta
      BY <1>1, <1>15, <2>1 DEF Owes
    <3>3. QED
      BY <1>2, <1>14, <1>21, <2>1, <2>3, <3>1, <3>2, VideoBulkFails
  <2>4. QED
    BY <2>2, <2>3
<1>23. ASSUME NEW q \in Pollers, Pollers = {q}, NEW t \in Suno PROVE SunoOK(q, t)'
  <2>1. q = p /\ SunoOK(p, t) /\ t \in Tasks /\ t # NoTask
    BY <1>23, TaskNumbers DEF Inv
  <2>2. CASE t \notin failed \/ row' = row
    <3>1. SameTask(t) /\ n.todo[t] \in {l.todo[t], "none"}
      BY <1>3, <1>8, <1>13, <1>21, <2>1, <2>2 DEF SameTask
    <3>2. QED
      BY <1>1, <1>4, <1>8, <2>1, <3>1, SunoElse
  <2>3. CASE t \in failed /\ row' # row
    <3>1. row'[t].status = "FAILURE" /\ excuse'[t] # {}
      BY <1>14, <2>1, <2>3
    <3>2. QED
      BY <3>1 DEF SunoOK
  <2>4. QED
    BY <2>2, <2>3
<1>24. (\A t \in Guarded : VideoOK(t))'
    BY <1>22 DEF Guarded
<1>25. QED
    BY <1>16, <1>18, <1>20, <1>23, <1>24 DEF Inv

-----------------------------------------------------------------------------
(* Steps of no poller.                                                     *)

\* No poller moves, and only task t0 is touched, or none.
LEMMA OtherStep ==
    ASSUME Inv, poller' = poller, TypeOK', Known', NEW t0 \in Tasks \cup {NoTask},
           \A t \in Tasks : t # t0 => SameTask(t),
           t0 \in Guarded => VideoOK(t0)',
           \A p \in Pollers : Pollers = {p} /\ t0 \in Suno => SunoOK(p, t0)'
    PROVE  Inv'
<1>1. \A q \in Pollers : Shape(poller'[q])
    BY DEF Inv
<1>2. (\A q \in Pollers : Shape(poller[q]))'
    BY <1>1 DEF Shape
<1>3. ASSUME NEW t \in Guarded PROVE VideoOK(t)'
  <2>1. CASE t = t0
    BY <2>1
  <2>2. CASE t # t0
    <3>1. VideoOK(t) /\ t \in Tasks
      BY TaskNumbers DEF Inv
    <3>2. \A q \in Pollers : (Owes(q, t)' <=> Owes(q, t)) /\ poller'[q].pc = poller[q].pc /\ poller'[q].delta = poller[q].delta
      BY DEF Owes
    <3>3. QED
      BY <2>2, <3>1, <3>2, VideoFrame
  <2>3. QED
    BY <2>1, <2>2
<1>4. ASSUME NEW p \in Pollers, Pollers = {p}, NEW t \in Suno PROVE SunoOK(p, t)'
  <2>1. CASE t = t0
    BY <1>4, <2>1
  <2>2. CASE t # t0
    <3>1. SunoOK(p, t) /\ SameTask(t)
      BY <1>4, <2>2, TaskNumbers DEF Inv
    <3>2. (Untouched(t)' <=> Untouched(t)) /\ (Returned(t)' <=> Returned(t)) /\ (Owes(p, t)' <=> Owes(p, t))
      BY <3>1 DEF SameTask, Untouched, Returned, Owes
    <3>3. QED
      BY <3>1, <3>2 DEF SunoOK, SameTask
  <2>3. QED
    BY <2>1, <2>2
<1>5. (\A t \in Guarded : VideoOK(t))'
    BY <1>3 DEF Guarded
<1>6. QED
    BY <1>2, <1>4, <1>5 DEF Inv

\* A task that nobody knows yet is submitted.
LEMMA Submitted ==
    ASSUME Inv, NEW t \in Tasks, row[t].status = "absent", NEW s \in {"NOT_START", "unrecorded"},
           row' = [row EXCEPT ![t].status = s],
           NEW f \in Int, NEW k \in Int, fund' = [fund EXCEPT ![t] = f], tok' = [tok EXCEPT ![t] = k],
           \/ excuse' = excuse /\ f = Quota[t] /\ k = Charge0(t)
           \/ Excuse(t, "unsettled"),
           UNCHANGED <<world, poller, fetcher, crashes>>, Works \/ DbError
    PROVE  Inv'
<1>1. TypeOK /\ errors' \in 0 .. MaxErrors /\ t # NoTask
    BY ErrorsTyped, TaskNumbers DEF Inv
<1>2. row' \in [Tasks -> Row] /\ row'[t].status = s /\ \A u \in Tasks : u # t => row'[u] = row[u]
  <2>1. row \in [Tasks -> Row] /\ s \in Statuses \cup {"absent", "unrecorded"}
    BY <1>1, PollerNames DEF TypeOK
  <2>2. QED
    BY <2>1 DEF Row
<1>3. /\ excuse' \in [Tasks -> SUBSET Excuses]
      /\ \A u \in Tasks : u # t => excuse'[u] = excuse[u]
      /\ "unsettled" \notin excuse'[t] => f = Quota[t] /\ k = Charge0(t)
  <2>1. "unsettled" \in Excuses
    BY DEF Excuses
  <2>2. CASE excuse' = excuse /\ f = Quota[t] /\ k = Charge0(t)
    BY <1>1, <2>2 DEF TypeOK
  <2>3. CASE Excuse(t, "unsettled")
    BY <1>1, <2>1, <2>3, ExcuseIs
  <2>4. QED
    BY <2>2, <2>3
<1>4. /\ fund' \in [Tasks -> Int] /\ fund'[t] = f /\ \A u \in Tasks : u # t => fund'[u] = fund[u]
      /\ tok' \in [Tasks -> Int] /\ tok'[t] = k /\ \A u \in Tasks : u # t => tok'[u] = tok[u]
    BY <1>1 DEF TypeOK
<1>5. TypeOK'
    BY <1>1, <1>2, <1>3, <1>4 DEF TypeOK, world
<1>6. row[t].status \notin Statuses
    BY PollerNames
<1>7. Known'
    BY <1>2, <1>6 DEF Inv, Known
<1>8. \A u \in Tasks : u # t => SameTask(u)
    BY <1>2, <1>3, <1>4 DEF SameTask
<1>9. row'[t].status \notin Terminal \cup {"absent"}
    BY <1>2 DEF Terminal
<1>10. "unsettled" \notin excuse'[t] => Untouched(t)' /\ fund'[t] >= 0 /\ tok'[t] >= 0
    BY <1>3, <1>4, TaskNumbers DEF Untouched, Charge0
<1>11. ASSUME t \in Guarded PROVE VideoOK(t)'
  <2>1. \A p \in Pollers : ~Owes(p, t)
    BY <1>11 DEF Inv, VideoOK, Terminal
  <2>2. \A p \in Pollers : ~Owes(p, t)'
    BY <2>1 DEF Owes
  <2>3. QED
    BY <1>9, <1>10, <2>2 DEF VideoOK, Terminal
<1>12. ASSUME NEW p \in Pollers, Pollers = {p}, t \in Suno PROVE SunoOK(p, t)'
  <2>1. poller[p].todo[t] = "none"
    BY <1>6 DEF Inv, Known
  <2>2. ~Owes(p, t)
    BY <1>12, OwedAmounts
  <2>3. ~(poller[p].task = t /\ poller[p].pc = "save")
    BY <2>1, PollerIs DEF Shape
  <2>4. ~Owes(p, t)' /\ ~(poller'[p].task = t /\ poller'[p].pc \in {"funding", "token", "save"}) /\ poller'[p].todo[t] = "none"
    BY <2>1, <2>2, <2>3 DEF Owes
  <2>5. QED
    BY <1>9, <1>10, <2>4 DEF SunoOK, Terminal
<1>13. poller' = poller
    OBVIOUS
<1>14. QED
    BY <1>5, <1>7, <1>8, <1>11, <1>12, <1>13, OtherStep

LEMMA SubmitKeeps == ASSUME Inv, NEW t \in Tasks, Submit(t) PROVE Inv'
<1>1. Quota[t] \in Int /\ Estimate[t] \in Int /\ 0 \in Int
    BY TaskNumbers
<1>2. CASE Charge(t, Quota[t], Quota[t]) /\ Works /\ UNCHANGED excuse
  <2> DEFINE k == IF t \in Tokened THEN Quota[t] ELSE 0
  <2>1. k \in Int /\ k = Charge0(t)
    BY <1>1 DEF Charge0
  <2>2. fund' = [fund EXCEPT ![t] = Quota[t]] /\ tok' = [tok EXCEPT ![t] = k]
    BY <1>2 DEF Charge
  <2> HIDE DEF k
  <2>3. QED
    BY <1>1, <1>2, <2>1, <2>2, Submitted DEF Submit
<1>3. ASSUME NEW f \in Int, Charge(t, f, Estimate[t]), DbError, Excuse(t, "unsettled") PROVE Inv'
  <2> DEFINE k == IF t \in Tokened THEN Estimate[t] ELSE 0
  <2>1. k \in Int
    BY <1>1
  <2>2. fund' = [fund EXCEPT ![t] = f] /\ tok' = [tok EXCEPT ![t] = k]
    BY <1>3 DEF Charge
  <2> HIDE DEF k
  <2>3. QED
    BY <1>3, <2>1, <2>2, Submitted DEF Submit
<1>4. QED
    BY <1>1, <1>2, <1>3 DEF Submit

LEMMA SubmitUnrecordedKeeps == ASSUME Inv, NEW t \in Tasks, SubmitUnrecorded(t) PROVE Inv'
<1> DEFINE k == IF t \in Tokened THEN Quota[t] ELSE 0
<1>1. Quota[t] \in Int /\ k \in Int /\ k = Charge0(t)
    BY TaskNumbers DEF Charge0
<1>2. fund' = [fund EXCEPT ![t] = Quota[t]] /\ tok' = [tok EXCEPT ![t] = k]
    BY DEF SubmitUnrecorded, Charge
<1> HIDE DEF k
<1>3. QED
    BY <1>1, <1>2, Submitted DEF SubmitUnrecorded

\* Nothing of the rows, the accounts and the pollers changes.
LEMMA WorldStep ==
    ASSUME Inv, UNCHANGED <<row, ledger, poller, excuse>>, TypeOK', Known'
    PROVE  Inv'
<1>1. poller' = poller /\ \A t \in Tasks : SameTask(t)
    BY DEF SameTask, ledger
<1>2. NoTask \notin Guarded /\ NoTask \notin Suno
    BY TaskNumbers
<1>3. QED
    BY <1>1, <1>2, OtherStep

LEMMA FetchTaskKeeps == ASSUME Inv, NEW u \in Fetchers, NEW t \in Tasks, FetchTask(u, t) PROVE Inv'
<1>1. PICK a \in {"FAILURE", upstream[t]} :
        fetcher' = [fetcher EXCEPT ![u] = [task |-> t, snap |-> row[t].status, new |-> a]]
    BY DEF FetchTask
<1>2. t \in Realtime /\ row[t].status \in Statuses /\ UNCHANGED <<row, ledger, world, poller, excuse, errors, crashes>>
    BY DEF FetchTask
<1> DEFINE g == [task |-> t, snap |-> row[t].status, new |-> a]
<1>3. a \in Statuses
    BY <1>1, PollerNames DEF Inv, TypeOK, Terminal
<1>4. g \in Fetcher /\ g.task = t
    BY <1>2, <1>3 DEF Fetcher
<1> HIDE DEF g
<1>5. TypeOK'
    BY <1>1, <1>2, <1>4 DEF Inv, TypeOK, ledger, world, g
<1>6. Known'
  <2>1. fetcher \in [Fetchers -> Fetcher] /\ fetcher' = [fetcher EXCEPT ![u] = g]
    BY <1>1 DEF Inv, TypeOK, g
  <2>2. QED
    BY <1>2, <1>4, <2>1 DEF Inv, Known
<1>7. QED
    BY <1>2, <1>5, <1>6, WorldStep

LEMMA FetchUpdateKeeps == ASSUME Inv, NEW u \in Fetchers, FetchUpdate(u) PROVE Inv'
<1> DEFINE g == fetcher[u]
<1>1. TypeOK /\ g \in Fetcher
    BY DEF Inv, TypeOK
<1>2. PICK t \in Tasks : t = g.task /\ t \in Realtime
    BY TaskNumbers, TasksAssumption DEF FetchUpdate, Inv, Known
<1>3. g.new \in Statuses /\ t \notin Guarded /\ t \notin Suno
    BY <1>1, <1>2, TaskNumbers DEF Fetcher
<1>4. row' = row \/ row' = Cas(t, g.snap, g.new)
    BY <1>2 DEF FetchUpdate
<1>5. /\ row' \in [Tasks -> Row] /\ \A v \in Tasks : v # t => row'[v] = row[v]
      /\ row' = row \/ row'[t].status = g.new
    BY <1>1, <1>3, <1>4, CasIs DEF TypeOK
<1>6. NoFetch \in Fetcher /\ NoFetch.task = NoTask
    BY PollerNames DEF NoFetch, Fetcher
<1>7. /\ fetcher' = [fetcher EXCEPT ![u] = NoFetch] /\ UNCHANGED <<ledger, world, poller, excuse, crashes>>
      /\ errors' \in 0 .. MaxErrors
    BY <1>1, ErrorsTyped DEF FetchUpdate
<1> HIDE DEF g
<1>8. TypeOK'
    BY <1>1, <1>5, <1>6, <1>7 DEF TypeOK, ledger, world
<1>9. Known'
  <2>1. \A v \in Tasks : row[v].status \in Statuses => row'[v].status \in Statuses
    BY <1>3, <1>5
  <2>2. \A w \in Fetchers : fetcher'[w].task # NoTask => fetcher'[w].task \in Realtime
    BY <1>1, <1>6, <1>7 DEF Inv, Known, TypeOK
  <2>3. QED
    BY <1>7, <2>1, <2>2 DEF Inv, Known
<1>10. \A v \in Tasks : v # t => SameTask(v)
    BY <1>5, <1>7 DEF SameTask, ledger
<1>11. poller' = poller
    BY <1>7
<1>12. QED
    BY <1>3, <1>8, <1>9, <1>10, <1>11, OtherStep

LEMMA EnvironmentKeeps ==
    ASSUME Inv, \/ \E t \in Tasks : UpstreamEnds(t) \/ Age(t)
                \/ \E c \in Channels : DeleteChannel(c)
                \/ UNCHANGED vars
    PROVE  Inv'
<1>1. UNCHANGED <<row, ledger, poller, excuse>> /\ UNCHANGED <<fetcher, errors, crashes>>
    BY DEF UpstreamEnds, Age, DeleteChannel, vars, ledger
<1>2. aged' \subseteq Tasks /\ gone' \subseteq Channels /\ upstream' \in [Tasks -> {"IN_PROGRESS"} \cup Terminal]
  <2>1. aged \subseteq Tasks /\ gone \subseteq Channels /\ upstream \in [Tasks -> {"IN_PROGRESS"} \cup Terminal]
    BY DEF Inv, TypeOK
  <2>2. QED
    BY <2>1 DEF UpstreamEnds, Age, DeleteChannel, vars
<1>3. TypeOK'
    BY <1>1, <1>2 DEF Inv, TypeOK, ledger
<1>4. Known'
    BY <1>1 DEF Inv, Known
<1>5. QED
    BY <1>1, <1>3, <1>4, WorldStep

LEMMA InitInv == Init => Inv
<1> SUFFICES ASSUME Init PROVE Inv
    OBVIOUS
<1>1. Asleep \in Poller /\ Shape(Asleep) /\ Asleep.task = NoTask /\ \A t \in Tasks : Asleep.todo[t] = "none"
    BY AsleepIs
<1>2. [status |-> "absent", full |-> FALSE] \in Row /\ NoFetch \in Fetcher /\ NoFetch.task = NoTask
    BY PollerNames DEF Row, NoFetch, Fetcher
<1>3. row = [t \in Tasks |-> [status |-> "absent", full |-> FALSE]] /\ fetcher = [u \in Fetchers |-> NoFetch]
      /\ poller = [p \in Pollers |-> Asleep]
    BY DEF Init
<1>4. row \in [Tasks -> Row] /\ fetcher \in [Fetchers -> Fetcher] /\ poller \in [Pollers -> Poller]
    BY <1>1, <1>2, <1>3
<1>5. 0 \in 0 .. MaxErrors /\ 0 \in 0 .. MaxCrashes
    BY BoundsAssumption
<1>6. TypeOK
    BY <1>4, <1>5 DEF Init, TypeOK
<1>7. Known
    BY <1>1, <1>2, <1>3 DEF Known
<1>8. \A t \in Tasks : /\ row[t].status = "absent" /\ Returned(t) /\ excuse[t] = {}
                       /\ fund[t] = 0 /\ tok[t] = 0
                       /\ \A p \in Pollers : ~Owes(p, t) /\ poller[p].task # t /\ poller[p].todo[t] = "none"
    BY <1>1, TaskNumbers DEF Init, Returned, Owes
<1>9. \A t \in Guarded : VideoOK(t)
    BY <1>8, TaskNumbers DEF VideoOK, Unfinished
<1>10. \A p \in Pollers : \A t \in Suno : SunoOK(p, t)
    BY <1>8, TaskNumbers DEF SunoOK, Unfinished
<1>11. \A p \in Pollers : Shape(poller[p])
    BY <1>1, <1>3
<1>12. QED
    BY <1>6, <1>7, <1>9, <1>10, <1>11 DEF Inv

LEMMA NextKeeps == Inv /\ [Next]_vars => Inv'
<1> SUFFICES ASSUME Inv, [Next]_vars PROVE Inv'
    OBVIOUS
<1>1. ASSUME NEW p \in Pollers, PollerStep(p) PROVE Inv'
    BY <1>1, BeginRoundKeeps, EndSweepKeeps, EndRoundKeeps, EndBatchKeeps, SweepKeeps, PollKeeps,
       StartBatchKeeps, BulkFailKeeps, WriteVideoKeeps, SaveSunoKeeps, AdjustFundingKeeps, AdjustTokenKeeps
       DEF PollerStep
<1>2. ASSUME NEW p \in Pollers, Crash(p) PROVE Inv'
    BY <1>2, CrashKeeps
<1>3. ASSUME NEW t \in Tasks, Submit(t) \/ SubmitUnrecorded(t) PROVE Inv'
    BY <1>3, SubmitKeeps, SubmitUnrecordedKeeps
<1>4. ASSUME NEW u \in Fetchers, FetchUpdate(u) \/ \E t \in Tasks : FetchTask(u, t) PROVE Inv'
    BY <1>4, FetchUpdateKeeps, FetchTaskKeeps
<1>5. QED
    BY <1>1, <1>2, <1>3, <1>4, EnvironmentKeeps DEF Next

-----------------------------------------------------------------------------
(* A video's row that ended is not written again.                          *)

LEMMA EndedRowKept ==
    ASSUME Inv, Next, NEW t \in Guarded, row[t].status \in Terminal
    PROVE  row'[t].status = row[t].status \/ "bulk" \in excuse'[t]
<1>1. TypeOK /\ row \in [Tasks -> Row] /\ excuse \in [Tasks -> SUBSET Excuses]
    BY DEF Inv, TypeOK
<1>2. t \in Tasks /\ t \notin Suno /\ t \notin Realtime
    BY DEF Guarded
<1>3. row[t].status \notin Unfinished \cup {"absent"}
    BY DEF Unfinished, Terminal
<1>4. ASSUME NEW u \in Tasks, NEW from, NEW to \in Statuses, from \in Unfinished \/ u # t,
             row' \in {row, Cas(u, from, to)}
      PROVE  row'[t] = row[t]
    BY <1>1, <1>2, <1>3, <1>4, CasIs
<1>5. ASSUME NEW p \in Pollers, NEW u \in Tasks, Sweep(p, u) PROVE row'[t] = row[t]
  <2>1. PICK from : from = poller[p].todo[u]
    OBVIOUS
  <2>2. from \in Unfinished /\ "FAILURE" \in Statuses
    BY <1>5, <2>1, PollerIs, PollerNames DEF Sweep, IsFirst, Pending, Shape
  <2>3. row' \in {row, Cas(u, from, "FAILURE")}
    BY <1>5, <2>1 DEF Sweep
  <2>4. QED
    BY <1>4, <2>2, <2>3
<1>6. ASSUME NEW p \in Pollers, WriteVideo(p) PROVE row'[t] = row[t]
  <2>1. /\ poller[p].task \in Tasks /\ poller[p].new \in Statuses
        /\ poller[p].todo[poller[p].task] \in Unfinished
    BY <1>6, PollerIs DEF WriteVideo, Shape
  <2>2. row' \in {row, Cas(poller[p].task, poller[p].todo[poller[p].task], poller[p].new)}
    BY <1>6 DEF WriteVideo
  <2>3. QED
    BY <1>4, <2>1, <2>2
<1>7. ASSUME NEW p \in Pollers, SaveSuno(p) PROVE row'[t] = row[t]
  <2>1. poller[p].task # t
    BY <1>2, <1>7, PollerIs DEF SaveSuno, Shape
  <2>2. QED
    BY <1>1, <1>2, <1>7, <2>1 DEF SaveSuno
<1>8. ASSUME NEW p \in Pollers, NEW c \in Channels, BulkFail(p, c)
      PROVE  row'[t] = row[t] \/ "bulk" \in excuse'[t]
  <2> DEFINE failed == {u \in Pending(p) : Channel[u] = c}
             v == [status |-> "FAILURE", full |-> TRUE]
  <2>1. /\ row' = row \/ row' = [u \in Tasks |-> IF u \in failed THEN v ELSE row[u]]
        /\ excuse' = [u \in Tasks |-> IF u \in failed /\ row' # row THEN excuse[u] \cup {"bulk"} ELSE excuse[u]]
    BY <1>8 DEF BulkFail
  <2> HIDE DEF failed, v
  <2>2. QED
    BY <1>2, <2>1
<1>9. ASSUME NEW p \in Pollers, PollerStep(p) \/ Crash(p) PROVE row'[t] = row[t] \/ "bulk" \in excuse'[t]
  <2>1. CASE row' = row
    BY <2>1
  <2>2. CASE row' # row
    BY <1>5, <1>6, <1>7, <1>8, <1>9, <2>2
       DEF PollerStep, BeginRound, EndSweep, EndRound, EndBatch, Poll, StartBatch, AdjustFunding, AdjustToken, Crash
  <2>3. QED
    BY <2>1, <2>2
<1>10. ASSUME NEW u \in Fetchers, FetchUpdate(u) \/ \E x \in Tasks : FetchTask(u, x) PROVE row'[t] = row[t]
  <2>1. CASE row' = row
    BY <2>1
  <2>2. CASE row' # row
    <3>1. /\ fetcher[u] \in Fetcher /\ fetcher[u].task \in Realtime
          /\ row' = Cas(fetcher[u].task, fetcher[u].snap, fetcher[u].new)
      BY <1>1, <1>10, <2>2 DEF FetchUpdate, FetchTask, Inv, Known, TypeOK
    <3>2. fetcher[u].new \in Statuses /\ fetcher[u].task \in Tasks /\ fetcher[u].task # t
      BY <1>2, <3>1, TasksAssumption DEF Fetcher
    <3>3. QED
      BY <1>4, <3>1, <3>2
  <2>3. QED
    BY <2>1, <2>2
<1>11. ASSUME NEW u \in Tasks, Submit(u) \/ SubmitUnrecorded(u) \/ UpstreamEnds(u) \/ Age(u) PROVE row'[t] = row[t]
  <2>1. CASE Submit(u) \/ SubmitUnrecorded(u)
    <3>1. u # t
      BY <1>3, <2>1 DEF Submit, SubmitUnrecorded
    <3>2. QED
      BY <1>1, <1>2, <2>1, <3>1 DEF Submit, SubmitUnrecorded
  <2>2. CASE UpstreamEnds(u) \/ Age(u)
    BY <2>2 DEF UpstreamEnds, Age
  <2>3. QED
    BY <1>11, <2>1, <2>2
<1>12. ASSUME NEW c \in Channels, DeleteChannel(c) PROVE row'[t] = row[t]
    BY <1>12 DEF DeleteChannel
<1>13. QED
    BY <1>9, <1>10, <1>11, <1>12 DEF Next

-----------------------------------------------------------------------------
(* The theorems.                                                           *)

LEMMA AloneIs == ASSUME Cardinality(Pollers) = 1 PROVE \E p : Pollers = {p}
BY TasksAssumption, FS_Singleton

LEMMA InvFailed == Inv => FailedIsRefunded
<1> SUFFICES ASSUME Inv, NEW t \in Tasks, Exact(t), AtRest(t), row[t].status = "FAILURE"
             PROVE  Returned(t)
    BY DEF FailedIsRefunded, Returned
<1>1. \A p \in Pollers : ~Owes(p, t)
    BY DEF AtRest, Owes
<1>2. CASE t \in Guarded
    BY <1>1, <1>2 DEF Inv, VideoOK, Exact
<1>3. CASE t \in Suno
  <2>1. PICK p : Pollers = {p}
    BY <1>3, AloneIs DEF Exact
  <2>2. SunoOK(p, t)
    BY <1>3, <2>1 DEF Inv
  <2>3. QED
    BY <2>1, <2>2 DEF SunoOK, Exact, AtRest
<1>4. QED
    BY <1>2, <1>3 DEF Exact, Guarded

LEMMA InvSucceeded == Inv => SucceededPaysCost
<1> DEFINE cost(t) == IF t \in Suno \/ Actual[t] = 0 THEN Quota[t] ELSE Actual[t]
<1> SUFFICES ASSUME Inv, NEW t \in Tasks, Exact(t), AtRest(t), row[t].status = "SUCCESS"
             PROVE  fund[t] = cost(t) /\ tok[t] = IF t \in Tokened THEN cost(t) ELSE 0
    BY DEF SucceededPaysCost
<1>1. \A p \in Pollers : ~Owes(p, t)
    BY DEF AtRest, Owes
<1>2. CASE t \in Guarded
  <2>1. t \notin Suno
    BY <1>2, TaskNumbers
  <2>2. QED
    BY <1>1, <1>2, <2>1 DEF Inv, VideoOK, Exact
<1>3. CASE t \in Suno
  <2>1. PICK p : Pollers = {p}
    BY <1>3, AloneIs DEF Exact
  <2>2. SunoOK(p, t)
    BY <1>3, <2>1 DEF Inv
  <2>3. Untouched(t)
    BY <2>1, <2>2 DEF SunoOK, Exact, AtRest
  <2>4. QED
    BY <1>3, <2>3 DEF Untouched, Charge0
<1>4. QED
    BY <1>2, <1>3 DEF Exact, Guarded

\* Every reachable state satisfies the inductive invariant: pollers, sweeps, users
\* and crashes in any order keep the row, the accounts and the copies consistent.
THEOREM TaskBillingInvariant == Spec => []Inv
<1>1. Init => Inv
    BY InitInv
<1>2. Inv /\ [Next]_vars => Inv'
    BY NextKeeps
<1>3. QED
    BY <1>1, <1>2, PTL DEF Spec

\* Rows, accounts and the locals of pollers and fetchers keep their types.
THEOREM TaskTypeCorrect == Spec => []TypeOK
<1>1. Inv => TypeOK
    BY DEF Inv
<1>2. QED
    BY <1>1, TaskBillingInvariant, PTL

\* No video is given back more than it was charged, by any number of pollers, with
\* any errors and crashes (the won UpdateWithStatus before RefundTaskQuota).
THEOREM RefundedOnce == Spec => []NeverRefundedTwice
<1>1. Inv => NeverRefundedTwice
    BY DEF Inv, NeverRefundedTwice, VideoOK
<1>2. QED
    BY <1>1, TaskBillingInvariant, PTL

\* A failed task that nothing was only logged about has paid nothing once no poller
\* works on it: videos with any number of pollers, Suno tasks with one.
THEOREM FailedTaskRefunded == Spec => []FailedIsRefunded
<1>1. QED
    BY InvFailed, TaskBillingInvariant, PTL

\* A task that succeeded has paid its cost, once, from its funding source and from
\* its token (settleTaskBillingOnComplete).
THEOREM SucceededTaskPaid == Spec => []SucceededPaysCost
<1>1. QED
    BY InvSucceeded, TaskBillingInvariant, PTL

\* No stale copy brings an ended video back: only TaskBulkUpdateByID, which has no
\* WHERE clause on the status, writes the row of a video that ended.
THEOREM EndedIsFinal == Spec => TerminalIsFinal
<1>1. Inv /\ [Next]_vars =>
        [\A t \in Guarded : row[t].status \in Terminal =>
             row'[t].status = row[t].status \/ "bulk" \in excuse'[t]]_vars
    BY EndedRowKept
<1>2. QED
    BY <1>1, TaskBillingInvariant, PTL DEF Spec, TerminalIsFinal
=============================================================================
