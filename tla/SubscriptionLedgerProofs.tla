---------------------- MODULE SubscriptionLedgerProofs ----------------------
(***************************************************************************)
(* Safety of the usage of subscriptions, for any plans, requests, amounts  *)
(* and clock.                                                              *)
(*                                                                         *)
(* Consistent ties the record of a request to what its session remembers.  *)
(* Capped holds of every row and of every copy of one that a transaction   *)
(* may still save.  The rest is about a subscription that no transaction   *)
(* saved after it was overtaken: Bounded compares the total with what the  *)
(* requests hold, Periodic counts resets by the time of the last one.  The *)
(* bucket of the moment is not bounded by what the requests hold           *)
(* inductively (a refund may go to an older bucket, and so may a           *)
(* transaction that began before the hour ended): ShareIn leaves out what  *)
(* a request may still give back there.                                    *)
(***************************************************************************)
EXTENDS SubscriptionLedger, FiniteSetTheorems, WellFoundedInduction, TLAPS

\* What a request with record e and session z is charged.
ChargeIn(e, z) == z.extra + (IF e.status = "consumed" THEN e.pre ELSE 0)

Consistent(e, z) ==
    /\ z.phase \in {"idle", "elsewhere"} <=> e.status = "none"
    /\ e.status = "none" => z.extra = 0 /\ e.pre = 0
    /\ e.status # "none" => e.sub \in Subs
    /\ e.status = "refunded" => z.phase = "refunding"
    /\ z.phase # "settled" => z.extra >= 0
    /\ ChargeIn(e, z) >= 0

\* A subscription with usage u after c resets whose requests hold h.
Bounded(u, c, h) ==
    /\ u <= h
    /\ c = 0 => u = h

Capped(s, u) == ~Plan[s].special /\ Plan[s].total > 0 => u <= Plan[s].total

\* A subscription last reset at last, after c resets, at time t.
Periodic(s, last, c, t) ==
    /\ Start <= last /\ last <= t
    /\ Plan[s].reset > 0 => c <= (last - Start) \div Plan[s].reset

\* What such a request may hold in the bucket of s that starts at w.
Part(e, z, s, k, w) ==
    IF e.sub # s THEN 0
    ELSE IF z.phase = "settled" THEN ChargeIn(e, z)
    ELSE z.extra + (IF e.status = "consumed" /\ e.win[k] = w THEN e.pre ELSE 0)
\* A transaction that began in another window writes to the bucket of that one.
ShareIn(e, z, v, s, k, w) == IF v.open /\ Window(s, k, v.at) # w THEN 0 ELSE Part(e, z, s, k, w)
Share(s, k) ==
    Total([r \in Requests |-> ShareIn(record[r], session[r], view[r], s, k, Window(s, k, now))])

BucketOK(s, k) ==
    /\ Window(s, k, now) # None => bucket[s][k][Window(s, k, now)] <= Share(s, k)
    /\ \A t \in 0 .. MaxTime : t > now => bucket[s][k][t] = 0

ViewOK(v, t) ==
    /\ v.open => v.at <= t
    /\ \A s \in Subs : Capped(s, v.row[s].used)

TaskOK(a, t) ==
    /\ a.at <= t
    /\ a.sub # None => a.row \in RowType /\ Capped(a.sub, a.row.used)

Inv ==
    /\ TypeOK
    /\ \A r \in Requests : Consistent(record[r], session[r]) /\ ViewOK(view[r], now)
    /\ TaskOK(task, now)
    /\ \A s \in Subs : Capped(s, row[s].used)
    /\ \A s \in Subs : overtaken[s] = 0 =>
           Bounded(row[s].used, resets[s], Held(s)) /\ Periodic(s, row[s].last, resets[s], now)
    /\ \A s \in Subs, k \in Kinds : overtaken[s] = 0 => BucketOK(s, k)

-----------------------------------------------------------------------------
(* Sums over the requests.                                                 *)

Units(f) == UNION {{r} \X (1 .. f[r]) : r \in Requests}
Others(f, r) == {u \in Units(f) : u[1] # r}

LEMMA UnitsAre ==
    ASSUME NEW f \in [Requests -> Nat]
    PROVE  \A u : u \in Units(f) <=> \E r \in Requests : \E i \in 1 .. f[r] : u = <<r, i>>
BY DEF Units

LEMMA UnitsFinite ==
    ASSUME NEW f \in [Requests -> Nat]
    PROVE  IsFiniteSet(Units(f)) /\ Total(f) = Cardinality(Units(f)) /\ Total(f) \in Nat
<1> DEFINE part(r) == {r} \X (1 .. f[r])
           parts == {part(r) : r \in Requests}
           g == [r \in Requests |-> part(r)]
<1>1. g \in Surjection(Requests, parts)
    BY DEF Surjection
<1>2. IsFiniteSet(parts)
    BY <1>1, FS_Surjection, RequestsAssumption
<1>3. \A r \in Requests : IsFiniteSet(part(r))
  <2>1. SUFFICES ASSUME NEW r \in Requests PROVE IsFiniteSet(part(r))
    OBVIOUS
  <2>2. IsFiniteSet({r}) /\ IsFiniteSet(1 .. f[r])
    <3>1. f[r] \in Int /\ 1 \in Int
      OBVIOUS
    <3>2. IsFiniteSet({r})
      BY FS_Singleton
    <3>3. IsFiniteSet(1 .. f[r])
      BY <3>1, FS_Interval
    <3>4. QED
      BY <3>2, <3>3
  <2>3. QED
    BY <2>2, FS_Product
<1>4. \A T \in parts : IsFiniteSet(T)
    BY <1>3
<1>5. IsFiniteSet(UNION parts)
    BY <1>2, <1>4, FS_UNION
<1>6. Units(f) = UNION parts /\ Total(f) = Cardinality(Units(f))
    BY DEF Units, Total
<1>7. QED
    BY <1>5, <1>6, FS_CardinalityType

LEMMA TotalSplits ==
    ASSUME NEW f \in [Requests -> Nat], NEW r \in Requests
    PROVE  /\ IsFiniteSet(Others(f, r)) /\ Cardinality(Others(f, r)) \in Nat
           /\ Total(f) = Cardinality(Others(f, r)) + f[r]
<1> DEFINE O == Others(f, r)
           P == {r} \X (1 .. f[r])
<1>1. IsFiniteSet(Units(f)) /\ Total(f) = Cardinality(Units(f))
    BY UnitsFinite
<1>2. O \in SUBSET Units(f)
    BY DEF Others
<1>3. IsFiniteSet(O) /\ Cardinality(O) \in Nat
    BY <1>1, <1>2, FS_Subset, FS_CardinalityType
<1>4. IsFiniteSet({r}) /\ Cardinality({r}) = 1
    BY FS_Singleton
<1>5. f[r] \in Nat
    OBVIOUS
<1>6. IsFiniteSet(1 .. f[r]) /\ Cardinality(1 .. f[r]) = f[r]
    BY <1>5, FS_Interval
<1>7. IsFiniteSet(P) /\ Cardinality(P) = f[r]
  <2>1. IsFiniteSet(P) /\ Cardinality(P) = Cardinality({r}) * Cardinality(1 .. f[r])
    BY <1>4, <1>6, FS_Product
  <2>2. QED
    BY <1>4, <1>5, <1>6, <2>1
<1>8. Units(f) = O \cup P
    BY UnitsAre DEF Others
<1>9. O \cap P = {}
    BY DEF Others
<1>10. Cardinality(O \cup P) = Cardinality(O) + Cardinality(P) - Cardinality(O \cap P)
    BY <1>3, <1>7, FS_Union
<1>11. Cardinality(O \cap P) = 0
    BY <1>9, FS_EmptySet
<1> HIDE DEF O, P
<1>12. Total(f) = Cardinality(O) + f[r]
    BY <1>1, <1>3, <1>5, <1>7, <1>8, <1>10, <1>11
<1>13. QED
    BY <1>3, <1>12 DEF O

\* One summand changes.
LEMMA TotalChange ==
    ASSUME NEW f \in [Requests -> Nat], NEW g \in [Requests -> Nat], NEW r \in Requests,
           \A q \in Requests : q # r => g[q] = f[q]
    PROVE  Total(g) = Total(f) - f[r] + g[r] /\ Total(f) \in Nat /\ Total(g) \in Nat /\ f[r] <= Total(f)
<1>1. Others(f, r) = Others(g, r)
    BY UnitsAre DEF Others
<1>2. QED
    BY <1>1, TotalSplits, UnitsFinite

\* Summands grow.
LEMMA TotalBelow ==
    ASSUME NEW f \in [Requests -> Nat], NEW g \in [Requests -> Nat], \A q \in Requests : f[q] <= g[q]
    PROVE  Total(f) <= Total(g) /\ Total(f) \in Nat /\ Total(g) \in Nat
<1>1. Units(f) \in SUBSET Units(g)
  <2>1. ASSUME NEW r \in Requests, NEW i \in 1 .. f[r] PROVE i \in 1 .. g[r]
    OBVIOUS
  <2>2. QED
    BY <2>1, UnitsAre
<1>2. QED
    BY <1>1, UnitsFinite, FS_Subset

LEMMA TotalOfZeros ==
    ASSUME NEW f \in [Requests -> Nat], \A q \in Requests : f[q] = 0
    PROVE  Total(f) = 0
<1>1. Units(f) = {}
    BY UnitsAre
<1>2. QED
    BY <1>1, UnitsFinite, FS_EmptySet

-----------------------------------------------------------------------------
(* Division.                                                               *)

LEMMA DivNat == ASSUME NEW x \in Nat, NEW q \in Nat \ {0}
                PROVE  x \div q \in Nat /\ (x \div q) * q \in Nat /\ (x \div q) * q <= x
OBVIOUS
LEMMA DivAdvances == ASSUME NEW x \in Nat, NEW y \in Nat, NEW q \in Nat \ {0}, y - x >= q
                     PROVE  y \div q >= x \div q + 1
OBVIOUS
LEMMA DivGrows == ASSUME NEW x \in Nat, NEW y \in Nat, NEW q \in Nat \ {0}, x <= y
                  PROVE  y \div q >= x \div q
OBVIOUS
LEMMA DivStep == ASSUME NEW x \in Nat, NEW q \in Nat \ {0}
                 PROVE  /\ (x + 1) \div q = x \div q \/ ((x + 1) \div q) * q = x + 1
                        /\ ((x + 1) \div q) * q >= (x \div q) * q
OBVIOUS
LEMMA Multiple == ASSUME NEW x \in Nat, NEW q \in Nat \ {0}, x > 0, x % q = 0 PROVE x >= q
OBVIOUS

-----------------------------------------------------------------------------
(* Resets.                                                                 *)

LEMMA PlanIs ==
    ASSUME NEW s \in Subs
    PROVE  /\ Plan[s] \in PlanType
           /\ Plan[s].reset \in Nat /\ Plan[s].end \in Nat \ {0} /\ Plan[s].total \in Nat /\ Plan[s].weekly \in Nat
           /\ Plan[s].hours \in Nat \ {0} /\ Plan[s].weeks \in Nat \ {0} /\ Plan[s].special \in BOOLEAN
BY PlanAssumption DEF PlanType

\* Row r of s became q by a reset of its total, by time at, or its total and the time
\* of the last reset stayed.
Turned(s, r, q, at) ==
    /\ q \in RowType
    /\ \/ q.used = r.used /\ q.last = r.last
       \/ q.used = 0 /\ Plan[s].reset > 0 /\ q.last >= r.last + Plan[s].reset /\ q.last <= at

LEMMA LeastOf ==
    ASSUME NEW T \in SUBSET Nat, T # {}
    PROVE  \E x \in T : \A y \in T : x <= y
<1>1. IsWellFoundedOn(OpToRel(<, Nat), Nat)
    BY NatLessThanWellFounded
<1>2. PICK x \in T : \A y \in T : ~(<<y, x>> \in OpToRel(<, Nat))
    BY <1>1, WFMin
<1>3. \A y \in T : ~(y < x)
    BY <1>2 DEF OpToRel
<1>4. QED
    BY <1>3

LEMMA LatestMissed ==
    ASSUME NEW s \in Subs, NEW r \in RowType, NEW at \in Nat, Missed(s, r, at) # {}
    PROVE  /\ Max(Missed(s, r, at)) \in Nat /\ Max(Missed(s, r, at)) <= at
           /\ Plan[s].reset > 0 /\ Max(Missed(s, r, at)) >= r.last + Plan[s].reset
<1> DEFINE M == Missed(s, r, at)
           D == {at - t : t \in M}
<1>1. r.last \in Nat /\ Plan[s].reset \in Nat
    BY PlanIs DEF RowType
<1>2. Plan[s].reset # 0 /\ \A t \in M : t \in (r.last + 1) .. at /\ (t - r.last) % Plan[s].reset = 0
    BY DEF Missed
<1> HIDE DEF M
<1>3. \A t \in M : t \in Nat /\ t <= at /\ t > r.last
    BY <1>1, <1>2
<1>4. D \in SUBSET Nat /\ D # {}
    BY <1>3 DEF M
<1>5. PICK x \in D : \A y \in D : x <= y
    BY <1>4, LeastOf
<1>6. PICK m \in M : x = at - m
    BY <1>5
<1>7. \A t \in M : m >= t
    BY <1>3, <1>5, <1>6
<1>8. Max(M) \in M
    BY <1>6, <1>7 DEF Max
<1>9. PICK b \in M : b = Max(M)
    BY <1>8
<1>10. b - r.last \in Nat /\ b - r.last > 0 /\ (b - r.last) % Plan[s].reset = 0 /\ b <= at /\ b \in Nat
    BY <1>1, <1>2, <1>3
<1>11. b - r.last >= Plan[s].reset
    BY <1>1, <1>2, <1>10, Multiple
<1>12. b >= r.last + Plan[s].reset /\ Plan[s].reset > 0
    BY <1>1, <1>2, <1>10, <1>11
<1>13. QED
    BY <1>9, <1>10, <1>12 DEF M

LEMMA CalcNextNat == ASSUME NEW s \in Subs, NEW base \in Nat PROVE CalcNext(s, base) \in Nat
BY PlanIs DEF CalcNext, None

LEMMA MaybeResetIs ==
    ASSUME NEW s \in Subs, NEW r \in RowType, NEW at \in Nat
    PROVE  Turned(s, r, MaybeReset(s, r, at), at)
<1>1. CASE r.next > at \/ Missed(s, r, at) = {}
    BY <1>1 DEF MaybeReset, Turned
<1>2. CASE ~(r.next > at \/ Missed(s, r, at) = {})
  <2>1. PICK b \in Nat : b = Max(Missed(s, r, at)) /\ b <= at /\ Plan[s].reset > 0 /\ b >= r.last + Plan[s].reset
    BY <1>2, LatestMissed
  <2>2. PICK n \in Nat : n = CalcNext(s, b)
    BY CalcNextNat
  <2>3. MaybeReset(s, r, at) = [r EXCEPT !.used = 0, !.last = b, !.next = n]
    BY <1>2, <2>1, <2>2 DEF MaybeReset
  <2> DEFINE z == 0
             q == [r EXCEPT !.used = z, !.last = b, !.next = n]
  <2>4. z \in Nat
    OBVIOUS
  <2>5. MaybeReset(s, r, at) = q
    BY <2>3
  <2> HIDE DEF z
  <2>6. q \in RowType /\ q.used = z /\ q.last = b
    BY <2>4 DEF RowType
  <2> HIDE DEF q
  <2>7. QED
    BY <2>1, <2>5, <2>6 DEF Turned, z
<1>3. QED
    BY <1>1, <1>2

LEMMA WeeklyIs ==
    ASSUME NEW s \in Subs, NEW r \in RowType, NEW at \in Nat
    PROVE  /\ MaybeResetWeekly(s, r, at) \in RowType
           /\ MaybeResetWeekly(s, r, at).used = r.used /\ MaybeResetWeekly(s, r, at).last = r.last
<1>1. CASE Plan[s].weekly = 0 \/ r.weekEnd > at
    BY <1>1 DEF MaybeResetWeekly
<1>2. CASE ~(Plan[s].weekly = 0 \/ r.weekEnd > at)
  <2>1. r.weekEnd \in Nat /\ at - r.weekEnd \in Nat /\ Week \in Nat \ {0}
    BY <1>2, TimeAssumption DEF RowType
  <2>2. (at - r.weekEnd) \div Week \in Nat
    BY <2>1, DivNat
  <2>3. PICK e \in Nat : e = r.weekEnd + Week * ((at - r.weekEnd) \div Week + 1)
    BY <2>1, <2>2
  <2> DEFINE z == 0
             q == [r EXCEPT !.weekly = z, !.weekEnd = e]
  <2>4. z \in Nat /\ MaybeResetWeekly(s, r, at) = q
    BY <1>2, <2>3 DEF MaybeResetWeekly, RowType
  <2> HIDE DEF z
  <2>5. q \in RowType /\ q.used = r.used /\ q.last = r.last
    BY <2>4 DEF RowType
  <2>6. QED
    BY <2>4, <2>5
<1>3. QED
    BY <1>1, <1>2

LEMMA ViewIs ==
    ASSUME NEW v \in ViewType
    PROVE  /\ v.at \in Start .. MaxTime /\ v.at \in Nat /\ v.row \in [Subs -> RowType] /\ v.bucket \in BucketType
           /\ \A s \in Subs : v.row[s] \in RowType
BY TimeAssumption DEF ViewType, Start

LEMMA RefreshedIs ==
    ASSUME NEW v \in ViewType, NEW s \in Subs
    PROVE  v.row[s] \in RowType /\ v.at \in Nat /\ Turned(s, v.row[s], Refreshed(s, v), v.at)
<1>1. PICK o \in RowType, at \in Nat : o = v.row[s] /\ at = v.at
    BY ViewIs
<1>2. Turned(s, o, MaybeReset(s, o, at), at)
    BY <1>1, MaybeResetIs
<1>3. Refreshed(s, v) = MaybeResetWeekly(s, MaybeReset(s, o, at), at)
    BY <1>1 DEF Refreshed
<1>4. QED
    BY <1>1, <1>2, <1>3, WeeklyIs DEF Turned

\* Resets keep the bounds.
LEMMA TurnedKeeps ==
    ASSUME NEW s \in Subs, NEW r \in RowType, NEW q \in RowType, NEW at \in Nat, NEW t \in Nat, at <= t,
           Turned(s, r, q, at), NEW c \in Nat, NEW h \in Nat,
           Bounded(r.used, c, h), Periodic(s, r.last, c, t)
    PROVE  LET d == c + (IF q.last # r.last THEN 1 ELSE 0)
           IN  d \in Nat /\ Bounded(q.used, d, h) /\ Periodic(s, q.last, d, t)
<1>1. r.used \in Nat /\ r.last \in Nat /\ q.used \in Nat /\ q.last \in Nat
    BY DEF RowType
<1>2. Plan[s].reset \in Nat
    BY PlanIs
<1>3. CASE q.used = r.used /\ q.last = r.last
    BY <1>3
<1>4. CASE q.used = 0 /\ Plan[s].reset > 0 /\ q.last >= r.last + Plan[s].reset /\ q.last <= at
  <2>1. q.last # r.last
    BY <1>1, <1>2, <1>4
  <2>2. Bounded(q.used, c + 1, h)
    BY <1>2, <1>4 DEF Bounded
  <2>3. Start <= q.last /\ q.last <= t /\ r.last - Start \in Nat /\ q.last - Start \in Nat
    BY <1>1, <1>2, <1>4 DEF Periodic, Start
  <2>4. (q.last - Start) \div Plan[s].reset >= (r.last - Start) \div Plan[s].reset + 1
    <3>1. PICK x \in Nat, y \in Nat, n \in Nat \ {0} :
              x = r.last - Start /\ y = q.last - Start /\ n = Plan[s].reset
      BY <1>2, <1>4, <2>3
    <3>2. y - x >= n
      BY <1>1, <1>4, <3>1 DEF Start
    <3>3. QED
      BY <3>1, <3>2, DivAdvances
  <2>5. (q.last - Start) \div Plan[s].reset \in Nat /\ (r.last - Start) \div Plan[s].reset \in Nat
    BY <1>2, <1>4, <2>3, DivNat
  <2>6. Periodic(s, q.last, c + 1, t)
    BY <1>4, <2>3, <2>4, <2>5 DEF Periodic
  <2>7. QED
    BY <2>1, <2>2, <2>6
<1>5. QED
    BY <1>3, <1>4 DEF Turned

LEMMA TurnedCapped ==
    ASSUME NEW s \in Subs, NEW r \in RowType, NEW q \in RowType, NEW at \in Nat,
           Turned(s, r, q, at), Capped(s, r.used)
    PROVE  Capped(s, q.used)
BY PlanIs DEF Turned, Capped, RowType

-----------------------------------------------------------------------------
(* Windows and buckets.                                                    *)

LengthOf(s, k) == IF k = "hour" THEN Plan[s].hours ELSE Plan[s].weeks * Week

LEMMA LengthIs == ASSUME NEW s \in Subs, NEW k \in Kinds PROVE LengthOf(s, k) \in Nat \ {0}
<1>1. ASSUME NEW a \in Nat \ {0}, NEW b \in Nat \ {0} PROVE a * b \in Nat \ {0}
    OBVIOUS
<1>2. Plan[s].weeks * Week \in Nat \ {0} /\ Plan[s].hours \in Nat \ {0}
    BY <1>1, PlanIs, TimeAssumption
<1>3. QED
    BY <1>2 DEF LengthOf

FirstOf(s, k, t) == Start + ((t - Start) \div LengthOf(s, k)) * LengthOf(s, k)
Partial(s, k, t) == Plan[s].end - t < LengthOf(s, k) \/ FirstOf(s, k, t) + LengthOf(s, k) > Plan[s].end

\* The window of time t.
WindowAt(s, k, t) ==
    IF ~Plan[s].special \/ (k = "week" /\ Partial(s, k, t)) THEN None ELSE FirstOf(s, k, t)

LEMMA WindowIs ==
    ASSUME NEW s, NEW k, NEW t PROVE Window(s, k, t) = WindowAt(s, k, t)
BY DEF Window, WindowAt, Partial, FirstOf, LengthOf

LEMMA WindowAtIs ==
    ASSUME NEW s \in Subs, NEW k \in Kinds, NEW t \in Start .. MaxTime
    PROVE  WindowAt(s, k, t) \in 0 .. MaxTime /\ WindowAt(s, k, t) <= t /\ FirstOf(s, k, t) \in Nat /\ FirstOf(s, k, t) >= Start
<1>1. t - Start \in Nat /\ t \in Nat /\ MaxTime \in Nat
    BY TimeAssumption DEF Start
<1>2. PICK n \in Nat : n = LengthOf(s, k) /\ n # 0
    BY LengthIs
<1>3. PICK m \in Nat : m = ((t - Start) \div n) * n /\ m <= t - Start
    BY <1>1, <1>2, DivNat
<1>4. FirstOf(s, k, t) = Start + m
    BY <1>2, <1>3 DEF FirstOf
<1>5. FirstOf(s, k, t) \in Nat /\ FirstOf(s, k, t) >= Start /\ FirstOf(s, k, t) <= t /\ t <= MaxTime
    BY <1>1, <1>3, <1>4 DEF Start
<1>6. QED
    BY <1>1, <1>5 DEF WindowAt, None, Start

\* When a second passes the window stays, ends for good, or a new one begins.
LEMMA WindowTick ==
    ASSUME NEW s \in Subs, NEW k \in Kinds, NEW t \in Start .. MaxTime, t + 1 \in Start .. MaxTime,
           WindowAt(s, k, t + 1) # None
    PROVE  WindowAt(s, k, t + 1) = t + 1 \/ WindowAt(s, k, t + 1) = WindowAt(s, k, t)
<1>1. PICK x \in Nat : x = t - Start
    BY DEF Start
<1>2. PICK n \in Nat : n = LengthOf(s, k) /\ n # 0
    BY LengthIs
<1>3. t \in Nat /\ (t + 1) - Start = x + 1 /\ Plan[s].end \in Nat
    BY <1>1, PlanIs DEF Start
<1>4. PICK a \in Nat, b \in Nat : a = (x \div n) * n /\ b = ((x + 1) \div n) * n
    BY <1>2, DivNat
<1>5. (b = a \/ b = x + 1) /\ b >= a
  <2>1. (x + 1) \div n = x \div n \/ ((x + 1) \div n) * n = x + 1
    BY <1>2, DivStep
  <2>2. ((x + 1) \div n) * n >= (x \div n) * n
    BY <1>2, DivStep
  <2>3. QED
    BY <1>4, <2>1, <2>2
<1>6. FirstOf(s, k, t) = Start + a /\ FirstOf(s, k, t + 1) = Start + b
    BY <1>1, <1>2, <1>3, <1>4 DEF FirstOf
<1>7. Partial(s, k, t) => Partial(s, k, t + 1)
    BY <1>2, <1>3, <1>5, <1>6 DEF Partial, Start
<1>8. WindowAt(s, k, t + 1) = Start + b /\ WindowAt(s, k, t) = Start + a
    BY <1>6, <1>7 DEF WindowAt
<1>9. QED
    BY <1>1, <1>3, <1>5, <1>8 DEF Start

LEMMA WindowsAre ==
    ASSUME NEW s \in Subs, NEW t \in Start .. MaxTime
    PROVE  /\ Windows(s, t) \in [Kinds -> 0 .. MaxTime]
           /\ \A k \in Kinds : /\ Windows(s, t)[k] = Window(s, k, t)
                               /\ Window(s, k, t) \in 0 .. MaxTime /\ Window(s, k, t) <= t
<1>1. \A k \in Kinds : Window(s, k, t) \in 0 .. MaxTime /\ Window(s, k, t) <= t
    BY WindowIs, WindowAtIs
<1>2. QED
    BY <1>1 DEF Windows

LEMMA BucketNat ==
    ASSUME NEW b \in BucketType, NEW s \in Subs, NEW k \in Kinds, NEW t \in 0 .. MaxTime
    PROVE  b[s][k][t] \in Nat /\ DOMAIN b[s][k] = 0 .. MaxTime
<1>1. b[s] \in [Kinds -> [0 .. MaxTime -> Nat]]
    BY DEF BucketType
<1>2. b[s][k] \in [0 .. MaxTime -> Nat]
    BY <1>1
<1>3. QED
    BY <1>2

\* A change of d in the buckets of s that start at win, by transaction v.
LEMMA InBucketsIs ==
    ASSUME bucket \in BucketType, NEW v \in ViewType, NEW s \in Subs, NEW win \in [Kinds -> 0 .. MaxTime], NEW d \in Int
    PROVE  /\ InBuckets(s, v, win, d) \in BucketType
           /\ \A t \in Subs : t # s => InBuckets(s, v, win, d)[t] = bucket[t]
           /\ \A k \in Kinds, t \in 0 .. MaxTime :
                 InBuckets(s, v, win, d)[s][k][t] = IF t = win[k] /\ t # None THEN AtLeast0(v.bucket[s][k][t] + d)
                                                    ELSE bucket[s][k][t]
<1> DEFINE f(k, t) == IF t = win[k] /\ t # None THEN AtLeast0(v.bucket[s][k][t] + d) ELSE bucket[s][k][t]
           b == [k \in Kinds |-> [t \in 0 .. MaxTime |-> f(k, t)]]
<1>1. \A k \in Kinds : DOMAIN bucket[s][k] = 0 .. MaxTime
    BY DEF BucketType
<1>2. InBuckets(s, v, win, d) = [bucket EXCEPT ![s] = b]
    BY <1>1 DEF InBuckets
<1>3. PICK c \in BucketType : c = v.bucket
    BY ViewIs
<1>4. ASSUME NEW k \in Kinds, NEW t \in 0 .. MaxTime PROVE f(k, t) \in Nat
  <2>1. bucket[s][k][t] \in Nat /\ v.bucket[s][k][t] \in Nat
    BY <1>3, BucketNat
  <2>2. AtLeast0(v.bucket[s][k][t] + d) \in Nat
    BY <2>1 DEF AtLeast0
  <2>3. QED
    BY <2>1, <2>2
<1> HIDE DEF f
<1>5. b \in [Kinds -> [0 .. MaxTime -> Nat]] /\ \A k \in Kinds, t \in 0 .. MaxTime : b[k][t] = f(k, t)
    BY <1>4
<1> HIDE DEF b
<1>6. /\ [bucket EXCEPT ![s] = b] \in BucketType
      /\ [bucket EXCEPT ![s] = b][s] = b
      /\ \A t \in Subs : t # s => [bucket EXCEPT ![s] = b][t] = bucket[t]
    BY <1>5 DEF BucketType
<1>7. QED
    BY <1>2, <1>5, <1>6 DEF f

-----------------------------------------------------------------------------
(* What a request holds.                                                   *)

LEMMA PartNat ==
    ASSUME NEW e \in RecordType, NEW z \in SessionType, Consistent(e, z), NEW s, NEW k, NEW w
    PROVE  /\ ChargeIn(e, z) \in Nat /\ Part(e, z, s, k, w) \in Nat
           /\ Part(e, z, s, k, w) <= ChargeIn(e, z)
           /\ e.sub # s => Part(e, z, s, k, w) = 0
           /\ e.status = "none" => ChargeIn(e, z) = 0 /\ Part(e, z, s, k, w) = 0
<1>1. e.pre \in Nat /\ z.extra \in Int
    BY DEF RecordType, SessionType
<1>2. QED
    BY <1>1 DEF ChargeIn, Part, Consistent

LEMMA ShareNat ==
    ASSUME NEW e \in RecordType, NEW z \in SessionType, Consistent(e, z), NEW v, NEW s, NEW k, NEW w
    PROVE  /\ ChargeIn(e, z) \in Nat /\ ShareIn(e, z, v, s, k, w) \in Nat
           /\ ShareIn(e, z, v, s, k, w) <= ChargeIn(e, z)
           /\ e.sub # s => ShareIn(e, z, v, s, k, w) = 0
           /\ e.status = "none" => ChargeIn(e, z) = 0 /\ ShareIn(e, z, v, s, k, w) = 0
BY PartNat DEF ShareIn

HeldBy(s) == [r \in Requests |-> IF record[r].sub = s THEN ChargeIn(record[r], session[r]) ELSE 0]
SharedBy(s, k) ==
    [r \in Requests |-> ShareIn(record[r], session[r], view[r], s, k, Window(s, k, now))]

LEMMA HeldIs == ASSUME NEW s PROVE Held(s) = Total(HeldBy(s))
BY DEF Held, HeldBy, Charge, ChargeIn

LEMMA HeldThen == ASSUME NEW s PROVE Held(s)' = Total(HeldBy(s)')
<1>1. HeldBy(s)' = [r \in Requests |-> IF record'[r].sub = s THEN ChargeIn(record'[r], session'[r]) ELSE 0]
    BY DEF HeldBy, ChargeIn
<1>2. QED
    BY <1>1 DEF Held, Charge, ChargeIn, Total

SharesIn(e, z, v, s, k, w) == [r \in Requests |-> ShareIn(e[r], z[r], v[r], s, k, w)]

LEMMA ShareThen ==
    ASSUME NEW s, NEW k
    PROVE  Share(s, k)' = Total(SharesIn(record', session', view', s, k, Window(s, k, now')))
BY DEF Share, ShareIn, Part, ChargeIn, Total, Window, SharesIn

LEMMA HeldNat ==
    ASSUME TypeOK, \A r \in Requests : Consistent(record[r], session[r]), NEW s \in Subs, NEW k \in Kinds
    PROVE  /\ HeldBy(s) \in [Requests -> Nat] /\ SharedBy(s, k) \in [Requests -> Nat]
           /\ Held(s) = Total(HeldBy(s)) /\ Share(s, k) = Total(SharedBy(s, k))
           /\ Held(s) \in Nat /\ Share(s, k) \in Nat /\ Share(s, k) <= Held(s)
<1>1. \A r \in Requests : record[r] \in RecordType /\ session[r] \in SessionType
    BY DEF TypeOK
<1>2. \A r \in Requests : /\ HeldBy(s)[r] \in Nat /\ SharedBy(s, k)[r] \in Nat
                          /\ SharedBy(s, k)[r] <= HeldBy(s)[r]
  <2>1. SUFFICES ASSUME NEW r \in Requests
                 PROVE  HeldBy(s)[r] \in Nat /\ SharedBy(s, k)[r] \in Nat /\ SharedBy(s, k)[r] <= HeldBy(s)[r]
    OBVIOUS
  <2> DEFINE x == ShareIn(record[r], session[r], view[r], s, k, Window(s, k, now))
  <2>2. /\ ChargeIn(record[r], session[r]) \in Nat /\ x \in Nat
        /\ x <= ChargeIn(record[r], session[r])
        /\ record[r].sub # s => x = 0
    BY <1>1, ShareNat
  <2>3. SharedBy(s, k)[r] = x /\ HeldBy(s)[r] = IF record[r].sub = s THEN ChargeIn(record[r], session[r]) ELSE 0
    BY DEF HeldBy, SharedBy
  <2> HIDE DEF x
  <2>4. QED
    BY <2>2, <2>3
<1>3. HeldBy(s) \in [Requests -> Nat] /\ SharedBy(s, k) \in [Requests -> Nat]
    BY <1>2 DEF HeldBy, SharedBy
<1>4. Held(s) = Total(HeldBy(s)) /\ Share(s, k) = Total(SharedBy(s, k))
    BY HeldIs DEF Share, SharedBy
<1>5. QED
    BY <1>2, <1>3, <1>4, TotalBelow

-----------------------------------------------------------------------------
(* Steps.                                                                  *)

LEMMA TypesAre ==
    ASSUME TypeOK
    PROVE  /\ now \in Start .. MaxTime /\ now \in Nat /\ bucket \in BucketType /\ row \in [Subs -> RowType]
           /\ record \in [Requests -> RecordType] /\ session \in [Requests -> SessionType]
           /\ view \in [Requests -> ViewType] /\ task \in TaskType /\ task.at \in Nat
           /\ resets \in [Subs -> Nat] /\ overtaken \in [Subs -> Nat]
BY TimeAssumption DEF TypeOK, TaskType, Start

LEMMA TypesThen ==
    ASSUME now' \in Start .. MaxTime, bucket' \in BucketType, row' \in [Subs -> RowType],
           record' \in [Requests -> RecordType], session' \in [Requests -> SessionType],
           view' \in [Requests -> ViewType], task' \in TaskType,
           resets' \in [Subs -> Nat], overtaken' \in [Subs -> Nat]
    PROVE  TypeOK'
BY DEF TypeOK, BucketType, RowType, RecordType, SessionType, ViewType, TaskType

\* How a reset of the total is counted.
Counted(c, r, q) == c + (IF q.last # r.last THEN 1 ELSE 0)

\* The requests, the buckets and the clock stay, totals may be reset.
LEMMA RowStep ==
    ASSUME Inv, row' \in [Subs -> RowType], task' \in TaskType, TaskOK(task', now),
           UNCHANGED <<now, bucket, record, session, view>>,
           resets' \in [Subs -> Nat], overtaken' \in [Subs -> Nat],
           \A s \in Subs : Capped(s, row'[s].used),
           \A s \in Subs : overtaken'[s] = 0 =>
               /\ overtaken[s] = 0 /\ Turned(s, row[s], row'[s], now)
               /\ resets'[s] = Counted(resets[s], row[s], row'[s])
    PROVE  Inv'
<1>1. TypeOK /\ \A r \in Requests : Consistent(record[r], session[r]) /\ ViewOK(view[r], now)
    BY DEF Inv
<1>2. \A s \in Subs : /\ Held(s)' = Held(s)
                      /\ \A k \in Kinds : Share(s, k)' = Share(s, k)
  <2>1. ASSUME NEW s \in Subs, NEW k \in Kinds PROVE Share(s, k)' = Share(s, k)
    <3>1. Share(s, k) = Total(SharesIn(record, session, view, s, k, Window(s, k, now)))
      BY DEF Share, SharesIn
    <3>2. QED
      BY <3>1, ShareThen
  <2>2. \A s \in Subs : Held(s)' = Held(s)
    BY DEF Held, Charge, Total
  <2>3. QED
    BY <2>1, <2>2
<1>3. ASSUME NEW s \in Subs, overtaken'[s] = 0
      PROVE  Bounded(row'[s].used, resets'[s], Held(s)) /\ Periodic(s, row'[s].last, resets'[s], now)
  <2>1. Held(s) \in Nat
    BY <1>1, HeldNat DEF Kinds
  <2>2. row[s] \in RowType /\ row'[s] \in RowType /\ resets[s] \in Nat /\ now \in Nat
    BY <1>1, TypesAre
  <2>3. Bounded(row[s].used, resets[s], Held(s)) /\ Periodic(s, row[s].last, resets[s], now)
    BY <1>3 DEF Inv
  <2>4. resets'[s] = resets[s] + (IF row'[s].last # row[s].last THEN 1 ELSE 0)
    BY <1>3 DEF Counted
  <2>5. PICK h \in Nat, c \in Nat, o \in RowType, q \in RowType, n \in Nat :
            h = Held(s) /\ c = resets[s] /\ o = row[s] /\ q = row'[s] /\ n = now
    BY <2>1, <2>2
  <2>6. Turned(s, o, q, n) /\ Bounded(o.used, c, h) /\ Periodic(s, o.last, c, n) /\ n <= n
    BY <1>3, <2>3, <2>5
  <2>7. LET d == c + (IF q.last # o.last THEN 1 ELSE 0)
        IN  d \in Nat /\ Bounded(q.used, d, h) /\ Periodic(s, q.last, d, n)
    BY <2>5, <2>6, TurnedKeeps
  <2>8. QED
    BY <2>4, <2>5, <2>7
<1>4. TypeOK'
    BY <1>1, TypesAre, TypesThen
<1>5. (\A r \in Requests : Consistent(record[r], session[r]) /\ ViewOK(view[r], now))'
    BY <1>1 DEF Consistent, ChargeIn, ViewOK, Capped
<1>6. (\A s \in Subs : overtaken[s] = 0 =>
          Bounded(row[s].used, resets[s], Held(s)) /\ Periodic(s, row[s].last, resets[s], now))'
    BY <1>2, <1>3 DEF Bounded, Periodic
<1>7. (\A s \in Subs, k \in Kinds : overtaken[s] = 0 => BucketOK(s, k))'
  <2>1. \A s \in Subs, k \in Kinds : overtaken[s] = 0 => BucketOK(s, k)
    BY DEF Inv
  <2>2. \A s \in Subs, k \in Kinds : BucketOK(s, k) => BucketOK(s, k)'
    BY <1>2 DEF BucketOK, Window
  <2>3. QED
    BY <2>1, <2>2
<1>8. TaskOK(task, now)' /\ (\A s \in Subs : Capped(s, row[s].used))'
    BY DEF TaskOK, Capped, RowType
<1>9. QED
    BY <1>4, <1>5, <1>6, <1>7, <1>8 DEF Inv

\* The transaction of r begins or ends without a write.
LEMMA ViewStep ==
    ASSUME Inv, NEW r \in Requests, NEW y \in ViewType, ViewOK(y, now), y.open => y.at = now,
           view' = [view EXCEPT ![r] = y],
           UNCHANGED <<now, row, bucket, record, session, task, resets, overtaken>>
    PROVE  Inv'
<1>1. TypeOK /\ \A q \in Requests : Consistent(record[q], session[q]) /\ ViewOK(view[q], now)
    BY DEF Inv
<1>2. /\ view' \in [Requests -> ViewType] /\ view'[r] = y
      /\ \A q \in Requests : q # r => view'[q] = view[q]
    BY <1>1, TypesAre
<1>3. TypeOK'
    BY <1>1, <1>2, TypesAre, TypesThen
<1>4. \A q \in Requests : Consistent(record[q], session[q]) /\ ViewOK(view'[q], now)
    BY <1>1, <1>2
<1>5. (\A q \in Requests : Consistent(record[q], session[q]) /\ ViewOK(view[q], now))'
    BY <1>4 DEF Consistent, ChargeIn, ViewOK, Capped
<1>6. \A s \in Subs : Held(s)' = Held(s)
    BY DEF Held, Charge, Total
<1>7. (\A s \in Subs : overtaken[s] = 0 =>
          Bounded(row[s].used, resets[s], Held(s)) /\ Periodic(s, row[s].last, resets[s], now))'
  <2>1. \A s \in Subs : overtaken[s] = 0 =>
            Bounded(row[s].used, resets[s], Held(s)) /\ Periodic(s, row[s].last, resets[s], now)
    BY DEF Inv
  <2>2. QED
    BY <1>6, <2>1 DEF Bounded, Periodic
<1>8. ASSUME NEW s \in Subs, NEW k \in Kinds
      PROVE  Share(s, k) \in Nat /\ Share(s, k)' \in Nat /\ Share(s, k) <= Share(s, k)'
  <2> DEFINE w == Window(s, k, now)
             f == SharedBy(s, k)
             g == SharesIn(record, session, view', s, k, w)
  <2>1. f \in [Requests -> Nat] /\ Share(s, k) = Total(f)
    BY <1>1, HeldNat
  <2>2. Share(s, k)' = Total(g)
    BY ShareThen
  <2>3. ASSUME NEW q \in Requests PROVE g[q] \in Nat /\ f[q] <= g[q]
    <3>1. record[q] \in RecordType /\ session[q] \in SessionType /\ Consistent(record[q], session[q])
      BY <1>1, TypesAre
    <3>2. g[q] = ShareIn(record[q], session[q], view'[q], s, k, w) /\ f[q] = ShareIn(record[q], session[q], view[q], s, k, w)
      BY DEF SharesIn, SharedBy
    <3>3. g[q] \in Nat /\ f[q] \in Nat
      BY <3>1, <3>2, ShareNat
    <3>4. CASE q # r
      BY <1>2, <3>2, <3>3, <3>4
    <3>5. CASE q = r
      <4>1. g[q] = Part(record[q], session[q], s, k, w)
        BY <1>2, <3>2, <3>5 DEF ShareIn
      <4>2. f[q] = 0 \/ f[q] = Part(record[q], session[q], s, k, w)
        BY <3>2 DEF ShareIn
      <4>3. QED
        BY <3>3, <4>1, <4>2
    <3>6. QED
      BY <3>3, <3>4, <3>5
  <2>4. g \in [Requests -> Nat]
    BY <2>3 DEF SharesIn
  <2> HIDE DEF f, g
  <2>5. Total(f) <= Total(g) /\ Total(f) \in Nat /\ Total(g) \in Nat
    BY <2>1, <2>3, <2>4, TotalBelow
  <2>6. QED
    BY <2>1, <2>2, <2>5
<1>9. ASSUME NEW s \in Subs, NEW k \in Kinds, overtaken'[s] = 0 PROVE BucketOK(s, k)'
  <2>1. BucketOK(s, k)
    BY <1>9 DEF Inv
  <2>2. PICK w \in 0 .. MaxTime : w = Window(s, k, now)
    BY <1>1, TypesAre, WindowsAre
  <2>3. bucket[s][k][w] \in Nat
    BY <1>1, TypesAre, BucketNat
  <2>4. w # None => bucket[s][k][w] <= Share(s, k)'
    BY <1>8, <2>1, <2>2, <2>3 DEF BucketOK
  <2>5. Window(s, k, now') = w
    BY <2>2
  <2>6. QED
    BY <2>1, <2>4, <2>5 DEF BucketOK, Window
<1>10. (\A s \in Subs, k \in Kinds : overtaken[s] = 0 => BucketOK(s, k))'
    BY <1>9
<1>11. TaskOK(task, now)' /\ (\A s \in Subs : Capped(s, row[s].used))'
  <2>1. TaskOK(task, now) /\ \A s \in Subs : Capped(s, row[s].used)
    BY DEF Inv
  <2>2. QED
    BY <2>1 DEF TaskOK, Capped, RowType
<1>12. QED
    BY <1>3, <1>5, <1>7, <1>10, <1>11 DEF Inv

LEMMA FirstRowIs ==
    ASSUME NEW s \in Subs, NEW b \in BOOLEAN
    PROVE  FirstRow(s, b) \in RowType /\ FirstRow(s, b).used = 0 /\ FirstRow(s, b).last = Start
<1>1. PICK n \in Nat, w \in Nat : n = CalcNext(s, Start) /\ w = Start + Week
    BY CalcNextNat, TimeAssumption DEF Start
<1>2. FirstRow(s, b) = [used |-> 0, weekly |-> 0, last |-> Start, next |-> n, weekEnd |-> w, hourly |-> TRUE, active |-> b]
    BY <1>1 DEF FirstRow
<1>3. QED
    BY <1>1, <1>2 DEF RowType, Start

LEMMA ZeroCapped == ASSUME NEW s \in Subs PROVE Capped(s, 0)
BY PlanIs DEF Capped

LEMMA NoBucketsIs ==
    /\ NoBuckets \in BucketType
    /\ \A s \in Subs, k \in Kinds, t \in 0 .. MaxTime : NoBuckets[s][k][t] = 0
BY DEF NoBuckets, BucketType

LEMMA NoViewIs ==
    ASSUME NEW n \in Nat
    PROVE  NoView \in ViewType /\ ~NoView.open /\ ViewOK(NoView, n)
<1> DEFINE rows == [s \in Subs |-> FirstRow(s, FALSE)]
<1>1. rows \in [Subs -> RowType] /\ \A s \in Subs : rows[s].used = 0
    BY FirstRowIs
<1>2. NoView = [open |-> FALSE, at |-> Start, row |-> rows, bucket |-> NoBuckets]
    BY DEF NoView
<1> HIDE DEF rows
<1>3. Start \in Start .. MaxTime
    BY TimeAssumption DEF Start
<1>4. NoView \in ViewType /\ NoView.row = rows /\ ~NoView.open
    BY <1>1, <1>2, <1>3, NoBucketsIs DEF ViewType
<1>5. QED
    BY <1>1, <1>4, ZeroCapped DEF ViewOK

LEMMA RefuseKeeps == ASSUME Inv, NEW r \in Requests, Refuse(r) PROVE Inv'
<1>1. NoView \in ViewType /\ ~NoView.open /\ ViewOK(NoView, now)
    BY NoViewIs, TypesAre DEF Inv
<1>2. view' = [view EXCEPT ![r] = NoView] /\ UNCHANGED <<now, row, bucket, record, session, task, resets, overtaken>>
    BY DEF Refuse
<1>3. QED
    BY <1>1, <1>2, ViewStep

LEMMA BeginKeeps == ASSUME Inv, NEW r \in Requests, Begin(r) PROVE Inv'
<1> DEFINE rows == [s \in Subs |-> IF Reads(r, s) THEN row[s] ELSE FirstRow(s, FALSE)]
           buckets == [s \in Subs |-> IF Reads(r, s) THEN bucket[s] ELSE NoBuckets[s]]
           y == [open |-> TRUE, at |-> now, row |-> rows, bucket |-> buckets]
<1>1. TypeOK /\ \A s \in Subs : Capped(s, row[s].used)
    BY DEF Inv
<1>2. ASSUME NEW s \in Subs PROVE rows[s] \in RowType /\ Capped(s, rows[s].used)
  <2>1. CASE Reads(r, s)
    <3>1. rows[s] = row[s]
      BY <2>1
    <3>2. QED
      BY <1>1, <3>1, TypesAre
  <2>2. CASE ~Reads(r, s)
    <3>1. rows[s] = FirstRow(s, FALSE)
      BY <2>2
    <3>2. QED
      BY <3>1, FirstRowIs, ZeroCapped
  <2>3. QED
    BY <2>1, <2>2
<1>3. buckets \in BucketType
  <2>1. \A s \in Subs : bucket[s] \in [Kinds -> [0 .. MaxTime -> Nat]] /\ NoBuckets[s] \in [Kinds -> [0 .. MaxTime -> Nat]]
    BY <1>1, TypesAre, NoBucketsIs DEF BucketType
  <2>2. QED
    BY <2>1 DEF BucketType
<1>4. rows \in [Subs -> RowType]
    BY <1>2
<1>5. view' = [view EXCEPT ![r] = y] /\ UNCHANGED <<now, row, bucket, record, session, task, resets, overtaken>>
    BY DEF Begin
<1> HIDE DEF rows, buckets
<1>6. y \in ViewType /\ y.open /\ y.at = now /\ y.row = rows
    BY <1>1, <1>3, <1>4, TypesAre DEF ViewType
<1>7. ViewOK(y, now)
    BY <1>1, <1>2, <1>6, TypesAre DEF ViewOK
<1> HIDE DEF y
<1>8. QED
    BY <1>5, <1>6, <1>7, ViewStep

\* What the commit of the transaction of r tells of the subscriptions it wrote.
LEMMA CommitIs ==
    ASSUME TypeOK, NEW r \in Requests, NEW W \in SUBSET Subs, Commit(r, W)
    PROVE  /\ view' = [view EXCEPT ![r] = NoView] /\ overtaken' \in [Subs -> Nat]
           /\ \A t \in Subs : overtaken'[t] = 0 =>
                 /\ overtaken[t] = 0
                 /\ t \in W => view[r].row[t] = row[t] /\ view[r].bucket[t] = bucket[t]
<1> DEFINE stale == {t \in W : Stale(t, view[r])}
<1>1. view' = [view EXCEPT ![r] = NoView] /\ overtaken' = [t \in Subs |-> overtaken[t] + (IF t \in stale THEN 1 ELSE 0)]
    BY DEF Commit, Overtake
<1> HIDE DEF stale
<1>2. \A t \in Subs : overtaken[t] \in Nat
    BY TypesAre
<1>3. overtaken' \in [Subs -> Nat] /\ \A t \in Subs : overtaken'[t] = 0 => overtaken[t] = 0 /\ t \notin stale
    BY <1>1, <1>2
<1>4. \A t \in W : t \notin stale => view[r].row[t] = row[t] /\ view[r].bucket[t] = bucket[t]
    BY DEF stale, Stale
<1>5. QED
    BY <1>1, <1>3, <1>4

\* A bucket goes from x to y when the share of a request grows by n.
Moves(x, y, n) == (y = x /\ n >= 0) \/ \E i \in Int : i <= n /\ y = AtLeast0(x + i)

\* Request r on subscription s gets record e, session z and view y, and is charged d more.
Charges(r, s, e, z, y, d) ==
    /\ Consistent(e, z) /\ e.sub = s /\ (record[r].sub = s \/ record[r].status = "none")
    /\ ViewOK(y, now)
    /\ record' = [record EXCEPT ![r] = e] /\ session' = [session EXCEPT ![r] = z] /\ view' = [view EXCEPT ![r] = y]
    /\ now' = now /\ task' = task
    /\ row' \in [Subs -> RowType] /\ bucket' \in BucketType /\ resets' \in [Subs -> Nat] /\ overtaken' \in [Subs -> Nat]
    /\ ChargeIn(e, z) = ChargeIn(record[r], session[r]) + d
    /\ \A t \in Subs : Capped(t, row'[t].used)
    /\ \A t \in Subs : overtaken'[t] = 0 => overtaken[t] = 0 /\ Periodic(t, row'[t].last, resets'[t], now)
    /\ \A t \in Subs : t # s /\ overtaken'[t] = 0 => Bounded(row'[t].used, resets'[t], Held(t))
    /\ overtaken'[s] = 0 /\ Held(s) + d >= 0 => Bounded(row'[s].used, resets'[s], Held(s) + d)
    /\ \A t \in Subs : t # s => bucket'[t] = bucket[t]
    /\ overtaken'[s] = 0 => \A k \in Kinds, t \in 0 .. MaxTime : t > now => bucket'[s][k][t] = 0
    /\ overtaken'[s] = 0 => \A k \in Kinds, w \in 1 .. MaxTime : w = Window(s, k, now) =>
           Moves(bucket[s][k][w], bucket'[s][k][w],
                 ShareIn(e, z, y, s, k, w) - ShareIn(record[r], session[r], view[r], s, k, w))

LEMMA ChargesKeeps ==
    ASSUME Inv, NEW r \in Requests, NEW s \in Subs, NEW e \in RecordType, NEW z \in SessionType, NEW y \in ViewType,
           NEW d \in Int, Charges(r, s, e, z, y, d)
    PROVE  Inv'
<1> USE DEF Charges
<1>1. TypeOK /\ \A q \in Requests : Consistent(record[q], session[q]) /\ ViewOK(view[q], now)
    BY DEF Inv
<1>2. /\ record[r] \in RecordType /\ session[r] \in SessionType /\ Consistent(record[r], session[r])
      /\ record \in [Requests -> RecordType] /\ session \in [Requests -> SessionType] /\ view \in [Requests -> ViewType]
    BY <1>1, TypesAre
<1>3. /\ record'[r] = e /\ session'[r] = z /\ view'[r] = y
      /\ \A q \in Requests : q # r => record'[q] = record[q] /\ session'[q] = session[q] /\ view'[q] = view[q]
    BY <1>2
<1>4. TypeOK'
  <2>1. record' \in [Requests -> RecordType] /\ session' \in [Requests -> SessionType] /\ view' \in [Requests -> ViewType]
    BY <1>2
  <2>2. task' \in TaskType /\ now' \in Start .. MaxTime
    BY <1>1, TypesAre
  <2>3. QED
    BY <2>1, <2>2, TypesThen
<1>5. \A q \in Requests : Consistent(record'[q], session'[q]) /\ ViewOK(view'[q], now)
    BY <1>1, <1>3
<1>6. (\A q \in Requests : Consistent(record[q], session[q]) /\ ViewOK(view[q], now))'
    BY <1>5 DEF Consistent, ChargeIn, ViewOK, Capped
<1>7. TaskOK(task, now)' /\ (\A t \in Subs : Capped(t, row[t].used))'
  <2>1. TaskOK(task, now)
    BY DEF Inv
  <2>2. QED
    BY <2>1 DEF TaskOK, Capped, RowType
<1>8. ASSUME NEW t \in Subs PROVE Held(t)' = (IF t = s THEN Held(t) + d ELSE Held(t)) /\ (t = s => Held(s) + d >= 0)
  <2> DEFINE f == HeldBy(t)
             g == [q \in Requests |-> IF record'[q].sub = t THEN ChargeIn(record'[q], session'[q]) ELSE 0]
  <2>1. f \in [Requests -> Nat] /\ Held(t) = Total(f)
    BY <1>1, HeldNat DEF Kinds
  <2>2. HeldBy(t)' = g
    BY DEF HeldBy, ChargeIn
  <2>3. Held(t)' = Total(g)
    BY <2>2, HeldThen
  <2>4. ChargeIn(e, z) \in Nat /\ ChargeIn(record[r], session[r]) \in Nat
        /\ (record[r].status = "none" => ChargeIn(record[r], session[r]) = 0)
    BY <1>2, PartNat
  <2>5. \A q \in Requests : q # r => g[q] = f[q]
    BY <1>3 DEF HeldBy
  <2>6. /\ g[r] = IF t = s THEN ChargeIn(e, z) ELSE 0
        /\ f[r] = IF record[r].sub = t THEN ChargeIn(record[r], session[r]) ELSE 0
    BY <1>3 DEF HeldBy
  <2>7. g[r] \in Nat /\ f[r] \in Nat
    BY <2>4, <2>6
  <2>8. g \in [Requests -> Nat]
    BY <2>1, <2>5, <2>7
  <2> HIDE DEF f, g
  <2>9. Total(g) = Total(f) - f[r] + g[r] /\ Total(f) \in Nat /\ Total(g) \in Nat
    BY <2>1, <2>5, <2>8, TotalChange
  <2>10. t = s => g[r] = f[r] + d
    BY <2>4, <2>6
  <2>11. t # s => g[r] = 0 /\ f[r] = 0
    BY <2>4, <2>6
  <2>12. QED
    BY <2>1, <2>3, <2>7, <2>9, <2>10, <2>11
<1>9. \A t \in Subs : overtaken'[t] = 0 => Bounded(row'[t].used, resets'[t], Held(t)')
    BY <1>8
<1>10. (\A t \in Subs : overtaken[t] = 0 =>
           Bounded(row[t].used, resets[t], Held(t)) /\ Periodic(t, row[t].last, resets[t], now))'
    BY <1>9 DEF Bounded, Periodic
<1>11. ASSUME NEW t \in Subs, NEW k \in Kinds, NEW w, w = Window(t, k, now)
       PROVE  /\ Share(t, k)' = Share(t, k) - ShareIn(record[r], session[r], view[r], t, k, w) + ShareIn(e, z, y, t, k, w)
              /\ Share(t, k) \in Nat /\ Share(t, k)' \in Nat
              /\ ShareIn(record[r], session[r], view[r], t, k, w) \in Nat /\ ShareIn(e, z, y, t, k, w) \in Nat
              /\ t # s => Share(t, k)' = Share(t, k)
  <2>1. w = Window(t, k, now)
    BY <1>11
  <2> DEFINE f == SharedBy(t, k)
             g == SharesIn(record', session', view', t, k, w)
  <2>2. f \in [Requests -> Nat] /\ Share(t, k) = Total(f)
    BY <1>1, HeldNat
  <2>3. Share(t, k)' = Total(g)
    BY <2>1, ShareThen
  <2>4. \A q \in Requests : q # r => g[q] = f[q]
    BY <1>3, <2>1 DEF SharedBy, SharesIn
  <2>5. g[r] = ShareIn(e, z, y, t, k, w) /\ f[r] = ShareIn(record[r], session[r], view[r], t, k, w)
    BY <1>3, <2>1 DEF SharedBy, SharesIn
  <2>6. /\ ShareIn(e, z, y, t, k, w) \in Nat /\ (t # s => ShareIn(e, z, y, t, k, w) = 0)
        /\ ShareIn(record[r], session[r], view[r], t, k, w) \in Nat
        /\ t # s => ShareIn(record[r], session[r], view[r], t, k, w) = 0
    BY <1>2, ShareNat
  <2>7. g \in [Requests -> Nat]
    <3>1. \A q \in Requests : g[q] \in Nat
      BY <2>2, <2>4, <2>5, <2>6
    <3>2. QED
      BY <3>1 DEF SharesIn
  <2> HIDE DEF f, g
  <2>8. Total(g) = Total(f) - f[r] + g[r] /\ Total(f) \in Nat /\ Total(g) \in Nat
    BY <2>2, <2>4, <2>7, TotalChange
  <2>9. QED
    BY <2>1, <2>2, <2>3, <2>5, <2>6, <2>8
<1>12. ASSUME NEW t \in Subs, NEW k \in Kinds, overtaken'[t] = 0, Window(t, k, now) # None
       PROVE  bucket'[t][k][Window(t, k, now)] <= Share(t, k)'
  <2>1. PICK w \in 0 .. MaxTime : w = Window(t, k, now)
    BY <1>1, TypesAre, WindowsAre
  <2>2. bucket[t][k][w] <= Share(t, k)
    BY <1>12, <2>1 DEF Inv, BucketOK
  <2>3. /\ Share(t, k)' = Share(t, k) - ShareIn(record[r], session[r], view[r], t, k, w) + ShareIn(e, z, y, t, k, w)
        /\ Share(t, k) \in Nat /\ Share(t, k)' \in Nat
        /\ ShareIn(record[r], session[r], view[r], t, k, w) \in Nat /\ ShareIn(e, z, y, t, k, w) \in Nat
        /\ t # s => Share(t, k)' = Share(t, k)
    BY <1>11, <2>1
  <2>4. CASE t # s
    BY <2>1, <2>2, <2>3, <2>4
  <2>5. CASE t = s
    <3>1. PICK a \in Nat, b \in Nat : /\ a = ShareIn(record[r], session[r], view[r], s, k, w)
                                      /\ b = ShareIn(e, z, y, s, k, w)
      BY <2>3, <2>5
    <3>2. PICK x \in Nat : x = bucket[s][k][w]
      BY <1>1, TypesAre, BucketNat
    <3>3. Moves(x, bucket'[s][k][w], b - a)
      <4>1. w \in 1 .. MaxTime /\ w = Window(s, k, now) /\ overtaken'[s] = 0
        BY <1>12, <2>1, <2>5, TimeAssumption DEF None
      <4>2. QED
        BY <3>1, <3>2, <4>1
    <3>4. PICK h \in Nat, i \in Nat : h = Share(s, k) /\ i = Share(s, k)' /\ i = h - a + b /\ x <= h
      BY <2>2, <2>3, <2>5, <3>1, <3>2
    <3>5. bucket'[s][k][w] <= i
      BY <3>3, <3>4 DEF AtLeast0, Moves
    <3>6. QED
      BY <2>1, <2>5, <3>4, <3>5
  <2>6. QED
    BY <2>4, <2>5
<1>13. \A t \in Subs, k \in Kinds, x \in 0 .. MaxTime : overtaken'[t] = 0 /\ x > now' => bucket'[t][k][x] = 0
  <2>1. \A t \in Subs, k \in Kinds, x \in 0 .. MaxTime : overtaken[t] = 0 /\ x > now => bucket[t][k][x] = 0
    BY DEF Inv, BucketOK
  <2>2. QED
    BY <2>1
<1>14. ASSUME NEW t \in Subs, NEW k \in Kinds, overtaken'[t] = 0 PROVE BucketOK(t, k)'
  <2>1. Window(t, k, now') = Window(t, k, now)
    OBVIOUS
  <2>2. QED
    BY <1>12, <1>13, <1>14, <2>1 DEF BucketOK, Window
<1>15. (\A t \in Subs, k \in Kinds : overtaken[t] = 0 => BucketOK(t, k))'
    BY <1>14
<1>16. QED
    BY <1>4, <1>6, <1>7, <1>10, <1>15 DEF Inv

\* A session that changes its charge by d.
LEMMA ChangedShare ==
    ASSUME NEW e \in RecordType, NEW z \in SessionType, Consistent(e, z), NEW d \in Int,
           NEW phase \in {"open", "settled", "refunding"},
           \/ z.phase = phase /\ phase \in {"open", "refunding"} /\ z.extra + d >= 0
           \/ z.phase \in {"open", "settled"} /\ phase = "settled" /\ ChargeIn(e, z) + d >= 0,
           NEW y \in SessionType, y.phase = phase, y.extra = z.extra + d,
           NEW k, NEW w
    PROVE  /\ Consistent(e, y) /\ ChargeIn(e, y) = ChargeIn(e, z) + d
           /\ e.sub \in Subs /\ Part(e, y, e.sub, k, w) - Part(e, z, e.sub, k, w) >= d
<1>1. e.pre \in Nat /\ z.extra \in Int /\ y.extra \in Int
    BY DEF RecordType, SessionType
<1>2. ChargeIn(e, y) = ChargeIn(e, z) + d
    BY <1>1 DEF ChargeIn
<1>3. e.status # "none" /\ e.sub \in Subs
    BY DEF Consistent
<1>4. Consistent(e, y)
    BY <1>1, <1>2, <1>3 DEF Consistent, ChargeIn
<1>5. Part(e, y, e.sub, k, w) - Part(e, z, e.sub, k, w) >= d
    BY <1>1 DEF Part, ChargeIn
<1>6. QED
    BY <1>2, <1>3, <1>4, <1>5

LEMMA AdjustBounded ==
    ASSUME NEW u \in Nat, NEW c \in Nat, NEW h \in Nat, NEW d \in Int, h + d >= 0, Bounded(u, c, h)
    PROVE  Bounded(AtLeast0(u + d), c, h + d)
BY DEF Bounded, AtLeast0

LEMMA AdjustCapped ==
    ASSUME NEW s \in Subs, NEW u \in Nat, NEW d \in Int, Capped(s, u),
           d <= 0 \/ ~(~Plan[s].special /\ Plan[s].total > 0 /\ u + d > Plan[s].total)
    PROVE  Capped(s, AtLeast0(u + d))
BY PlanIs DEF Capped, AtLeast0

\* The part of a request in the bucket that starts at w goes from a to b, by a transaction that
\* changes the bucket of its own window by i.
LEMMA ShareMoves ==
    ASSUME NEW e \in RecordType, NEW z \in SessionType, Consistent(e, z), NEW v \in ViewType,
           NEW f \in RecordType, NEW y \in SessionType, Consistent(f, y), NEW o \in ViewType, ~o.open,
           NEW s, NEW k, NEW w, NEW x \in Nat, NEW b,
           v.open /\ Window(s, k, v.at) # w => b = x \/ \E i \in Int : i <= 0 /\ b = AtLeast0(x + i),
           ~(v.open /\ Window(s, k, v.at) # w) => Moves(x, b, Part(f, y, s, k, w) - Part(e, z, s, k, w))
    PROVE  Moves(x, b, ShareIn(f, y, o, s, k, w) - ShareIn(e, z, v, s, k, w))
<1>1. ShareIn(f, y, o, s, k, w) = Part(f, y, s, k, w) /\ Part(f, y, s, k, w) \in Nat
    BY PartNat DEF ShareIn
<1>2. CASE v.open /\ Window(s, k, v.at) # w
  <2>1. ShareIn(e, z, v, s, k, w) = 0
    BY <1>2 DEF ShareIn
  <2>2. PICK n \in Nat : n = ShareIn(f, y, o, s, k, w) - ShareIn(e, z, v, s, k, w)
    BY <1>1, <2>1
  <2>3. Moves(x, b, n)
    BY <1>2 DEF Moves
  <2>4. QED
    BY <2>2, <2>3
<1>3. CASE ~(v.open /\ Window(s, k, v.at) # w)
  <2>1. ShareIn(e, z, v, s, k, w) = Part(e, z, s, k, w)
    BY <1>3 DEF ShareIn
  <2>2. QED
    BY <1>1, <1>3, <2>1
<1>4. QED
    BY <1>2, <1>3


\* The transaction of r saves row q of its own subscription s and adds d to its buckets that
\* start at win; its record is then f and its session y.
Writes(r, s, f, y, q, win, d) ==
    /\ view[r].open /\ Consistent(f, y) /\ f.sub = s /\ record[r].sub = s
    /\ ChargeIn(f, y) = ChargeIn(record[r], session[r]) + d
    /\ \A k \in Kinds : win[k] <= now \/ d <= 0
    /\ q.used = AtLeast0(view[r].row[s].used + d) /\ q.last = view[r].row[s].last /\ Capped(s, q.used)
    /\ record' = [record EXCEPT ![r] = f] /\ session' = [session EXCEPT ![r] = y]
    /\ row' = [row EXCEPT ![s] = q] /\ bucket' = InBuckets(s, view[r], win, d) /\ Commit(r, {s})
    /\ UNCHANGED <<now, task, resets>>
    /\ \A k \in Kinds, w \in 1 .. MaxTime : win[k] = w =>
          /\ Part(f, y, s, k, w) - Part(record[r], session[r], s, k, w) >= d
          /\ Window(s, k, view[r].at) # w => d <= 0
    /\ \A k \in Kinds, w \in 1 .. MaxTime : win[k] # w =>
          \/ Part(f, y, s, k, w) - Part(record[r], session[r], s, k, w) >= 0
          \/ Window(s, k, view[r].at) # w

LEMMA WritesKeeps ==
    ASSUME Inv, NEW r \in Requests, NEW s \in Subs, NEW f \in RecordType, NEW y \in SessionType, NEW q \in RowType,
           NEW win \in [Kinds -> 0 .. MaxTime], NEW d \in Int, Writes(r, s, f, y, q, win, d)
    PROVE  Inv'
<1>1. TypeOK /\ Consistent(record[r], session[r])
    BY DEF Inv
<1>2. PICK v \in ViewType, e \in RecordType, z \in SessionType : v = view[r] /\ e = record[r] /\ z = session[r]
    BY <1>1, TypesAre
<1>3. NoView \in ViewType /\ ~NoView.open /\ ViewOK(NoView, now)
    BY <1>1, NoViewIs, TypesAre
<1>4. /\ Consistent(f, y) /\ f.sub = s /\ record[r].sub = s /\ ChargeIn(f, y) = ChargeIn(record[r], session[r]) + d
      /\ record' = [record EXCEPT ![r] = f] /\ session' = [session EXCEPT ![r] = y]
      /\ row' = [row EXCEPT ![s] = q] /\ bucket' = InBuckets(s, v, win, d) /\ Commit(r, {s})
      /\ UNCHANGED <<now, task, resets>>
    BY <1>2 DEF Writes
<1>5. /\ view' = [view EXCEPT ![r] = NoView] /\ overtaken' \in [Subs -> Nat]
      /\ \A t \in Subs : overtaken'[t] = 0 => overtaken[t] = 0
      /\ overtaken'[s] = 0 => v.row[s] = row[s] /\ v.bucket[s] = bucket[s]
    BY <1>1, <1>2, <1>4, CommitIs
<1>6. row' \in [Subs -> RowType] /\ row'[s] = q /\ \A t \in Subs : t # s => row'[t] = row[t]
    BY <1>1, <1>4, TypesAre
<1>7. /\ bucket' \in BucketType /\ \A t \in Subs : t # s => bucket'[t] = bucket[t]
      /\ \A k \in Kinds, t \in 0 .. MaxTime :
            bucket'[s][k][t] = IF t = win[k] /\ t # None THEN AtLeast0(v.bucket[s][k][t] + d) ELSE bucket[s][k][t]
    BY <1>1, <1>4, TypesAre, InBucketsIs
<1>8. \A t \in Subs : Capped(t, row'[t].used)
    BY <1>6 DEF Inv, Writes
<1>9. ASSUME NEW t \in Subs, overtaken'[t] = 0
      PROVE  overtaken[t] = 0 /\ Periodic(t, row'[t].last, resets'[t], now)
  <2>1. overtaken[t] = 0 /\ Periodic(t, row[t].last, resets[t], now)
    BY <1>5, <1>9 DEF Inv
  <2>2. row'[t].last = row[t].last
    BY <1>2, <1>5, <1>6, <1>9 DEF Writes
  <2>3. QED
    BY <1>4, <2>1, <2>2
<1>10. \A t \in Subs : t # s /\ overtaken'[t] = 0 => Bounded(row'[t].used, resets'[t], Held(t))
    BY <1>4, <1>5, <1>6 DEF Inv
<1>11. overtaken'[s] = 0 /\ Held(s) + d >= 0 => Bounded(row'[s].used, resets'[s], Held(s) + d)
  <2>1. SUFFICES ASSUME overtaken'[s] = 0, Held(s) + d >= 0 PROVE Bounded(row'[s].used, resets'[s], Held(s) + d)
    OBVIOUS
  <2>2. PICK h \in Nat, c \in Nat, u \in Nat : h = Held(s) /\ c = resets[s] /\ u = row[s].used
    BY <1>1, HeldNat, TypesAre DEF Inv, Kinds, RowType
  <2>3. Bounded(u, c, h) /\ h + d >= 0
    BY <1>5, <2>1, <2>2 DEF Inv
  <2>4. Bounded(AtLeast0(u + d), c, h + d)
    BY <2>3, AdjustBounded
  <2>5. row'[s].used = AtLeast0(u + d)
    BY <1>2, <1>5, <1>6, <2>1, <2>2 DEF Writes
  <2>6. QED
    BY <1>4, <2>2, <2>4, <2>5
<1>12. ASSUME overtaken'[s] = 0, NEW k \in Kinds, NEW t \in 0 .. MaxTime, t > now PROVE bucket'[s][k][t] = 0
  <2>1. bucket[s][k][t] = 0 /\ v.bucket[s][k][t] = 0
    BY <1>5, <1>12 DEF Inv, BucketOK
  <2>2. CASE t = win[k] /\ t # None
    <3>1. d <= 0
      BY <1>1, <1>12, <2>2, TypesAre DEF Writes
    <3>2. QED
      BY <1>7, <2>1, <2>2, <3>1 DEF AtLeast0
  <2>3. QED
    BY <1>7, <2>1, <2>2
<1>13. ASSUME overtaken'[s] = 0, NEW k \in Kinds, NEW w \in 1 .. MaxTime
       PROVE  Moves(bucket[s][k][w], bucket'[s][k][w], ShareIn(f, y, NoView, s, k, w) - ShareIn(e, z, v, s, k, w))
  <2>1. w \in 0 .. MaxTime /\ w # None
    BY TimeAssumption DEF None
  <2>2. PICK x \in Nat : x = bucket[s][k][w] /\ x = v.bucket[s][k][w]
    BY <1>1, <1>5, <1>13, <2>1, BucketNat, TypesAre
  <2>3. PICK b : b = bucket'[s][k][w]
    OBVIOUS
  <2>4. b = IF w = win[k] THEN AtLeast0(x + d) ELSE x
    BY <1>7, <2>1, <2>2, <2>3
  <2>5. v.open /\ Window(s, k, v.at) # w => b = x \/ \E i \in Int : i <= 0 /\ b = AtLeast0(x + i)
    BY <1>2, <2>4 DEF Writes
  <2>6. Part(f, y, s, k, w) \in Nat /\ Part(e, z, s, k, w) \in Nat
    BY <1>1, <1>2, <1>4, PartNat
  <2>7. PICK n \in Int : n = Part(f, y, s, k, w) - Part(e, z, s, k, w)
    BY <2>6
  <2>8. ~(v.open /\ Window(s, k, v.at) # w) => Moves(x, b, n)
    <3>1. SUFFICES ASSUME ~(v.open /\ Window(s, k, v.at) # w) PROVE Moves(x, b, n)
      OBVIOUS
    <3>2. win[k] = w => n >= d
      BY <1>2, <2>7 DEF Writes
    <3>3. win[k] # w => n >= 0
      BY <1>2, <2>7, <3>1 DEF Writes
    <3>4. CASE win[k] = w
      BY <2>4, <3>2, <3>4 DEF Moves
    <3>5. CASE win[k] # w
      BY <2>4, <3>3, <3>5 DEF Moves
    <3>6. QED
      BY <3>4, <3>5
  <2>9. Consistent(e, z)
    BY <1>1, <1>2
  <2>10. Moves(x, b, ShareIn(f, y, NoView, s, k, w) - ShareIn(e, z, v, s, k, w))
    BY <1>3, <1>4, <2>5, <2>7, <2>8, <2>9, ShareMoves
  <2>11. QED
    BY <2>2, <2>3, <2>10
<1>14. resets' \in [Subs -> Nat] /\ now' = now /\ task' = task
    BY <1>1, <1>4, TypesAre
<1>15. \A k \in Kinds, w \in 1 .. MaxTime : overtaken'[s] = 0 /\ w = Window(s, k, now) =>
          Moves(bucket[s][k][w], bucket'[s][k][w],
                ShareIn(f, y, NoView, s, k, w) - ShareIn(record[r], session[r], view[r], s, k, w))
    BY <1>2, <1>13
<1>16. overtaken'[s] = 0 => \A k \in Kinds, t \in 0 .. MaxTime : t > now => bucket'[s][k][t] = 0
    BY <1>12
<1>17. Charges(r, s, f, y, NoView, d)
    BY <1>3, <1>4, <1>5, <1>6, <1>7, <1>8, <1>9, <1>10, <1>11, <1>14, <1>15, <1>16 DEF Charges
<1>18. QED
    BY <1>3, <1>17, ChargesKeeps

\* PostConsumeUserSubscriptionDelta for the subscription of a request.
LEMMA ChangeKeeps ==
    ASSUME Inv, NEW r \in Requests, NEW d \in Int, NEW phase \in {"open", "settled", "refunding"}, Change(r, d, phase),
           \/ session[r].phase = phase /\ phase \in {"open", "refunding"} /\ session[r].extra + d >= 0
           \/ session[r].phase \in {"open", "settled"} /\ phase = "settled" /\ Charge(r) + d >= 0
    PROVE  Inv'
<1>1. TypeOK /\ Consistent(record[r], session[r]) /\ ViewOK(view[r], now)
    BY DEF Inv
<1>2. PICK e \in RecordType, z \in SessionType, v \in ViewType : e = record[r] /\ z = session[r] /\ v = view[r]
    BY <1>1, TypesAre
<1>3. PICK y \in SessionType : /\ y = [phase |-> phase, extra |-> z.extra + d, deltas |-> z.deltas + 1]
                               /\ y.phase = phase /\ y.extra = z.extra + d
  <2>1. PICK a \in Int, b \in Nat : a = z.extra + d /\ b = z.deltas + 1
    BY <1>2 DEF SessionType
  <2>2. [phase |-> phase, extra |-> a, deltas |-> b] \in SessionType
    BY <2>1 DEF SessionType
  <2>3. QED
    BY <2>1, <2>2
<1>4. session' = [session EXCEPT ![r] = y]
    BY <1>1, <1>2, <1>3, TypesAre DEF Change
<1>5. \/ z.phase = phase /\ phase \in {"open", "refunding"} /\ z.extra + d >= 0
      \/ z.phase \in {"open", "settled"} /\ phase = "settled" /\ ChargeIn(e, z) + d >= 0
    BY <1>2 DEF Charge, ChargeIn
<1>6. PICK s \in Subs : s = e.sub
    BY <1>1, <1>2, <1>5 DEF Consistent
<1>7. /\ Consistent(e, y) /\ ChargeIn(e, y) = ChargeIn(e, z) + d
      /\ \A k, w : Part(e, y, s, k, w) - Part(e, z, s, k, w) >= d
  <2>1. Consistent(e, z)
    BY <1>1, <1>2
  <2>2. ASSUME NEW k, NEW w
        PROVE  /\ Consistent(e, y) /\ ChargeIn(e, y) = ChargeIn(e, z) + d
               /\ e.sub \in Subs /\ Part(e, y, e.sub, k, w) - Part(e, z, e.sub, k, w) >= d
    <3>1. y.phase = phase /\ y.extra = z.extra + d
      BY <1>3
    <3>2. QED
      BY <1>5, <2>1, <3>1, ChangedShare
  <2>3. QED
    BY <1>6, <2>2
<1>8. PostConsume(r, s, d)
    BY <1>2, <1>6 DEF Change
<1>9. /\ v.open /\ ~Exceeds(s, v, d) /\ Commit(r, {s}) /\ UNCHANGED <<now, record, task, resets>>
      /\ bucket' = InBuckets(s, v, Windows(s, v.at), d) /\ row' = [row EXCEPT ![s] = Adjusted(s, v, d)]
    BY <1>2, <1>8 DEF PostConsume
<1>10. PICK o \in RowType : o = v.row[s]
    BY ViewIs
<1>11. PICK u \in Nat, n \in Nat : /\ u = AtLeast0(o.used + d)
                                   /\ n = IF ~Plan[s].special /\ Plan[s].weekly > 0 THEN AtLeast0(o.weekly + d) ELSE o.weekly
  <2>1. o.used \in Nat /\ o.weekly \in Nat
    BY <1>10 DEF RowType
  <2>2. AtLeast0(o.used + d) \in Nat /\ AtLeast0(o.weekly + d) \in Nat
    BY <2>1 DEF AtLeast0
  <2>3. QED
    BY <2>1, <2>2
<1>12. PICK q \in RowType : q = Adjusted(s, v, d) /\ q.used = u /\ q.last = o.last
  <2>1. Adjusted(s, v, d) = [o EXCEPT !.used = u, !.weekly = n]
    BY <1>10, <1>11 DEF Adjusted, RowType
  <2>2. [o EXCEPT !.used = u, !.weekly = n] \in RowType
    BY <1>10 DEF RowType
  <2>3. [o EXCEPT !.used = u, !.weekly = n].used = u /\ [o EXCEPT !.used = u, !.weekly = n].last = o.last
    BY <1>10 DEF RowType
  <2>4. QED
    BY <2>1, <2>2, <2>3
<1>13. Capped(s, q.used)
  <2>1. o.used \in Nat /\ Capped(s, o.used)
    BY <1>1, <1>2, <1>10 DEF RowType, ViewOK
  <2>2. ~(~Plan[s].special /\ Plan[s].total > 0 /\ o.used + d > Plan[s].total)
    BY <1>9, <1>10 DEF Exceeds
  <2>3. Capped(s, AtLeast0(o.used + d))
    BY <2>1, <2>2, AdjustCapped
  <2>4. QED
    BY <1>11, <1>12, <2>3
<1>14. v.at \in Start .. MaxTime /\ v.at <= now
    BY <1>1, <1>2, <1>9, ViewIs DEF ViewOK
<1>15. PICK win \in [Kinds -> 0 .. MaxTime] :
          win = Windows(s, v.at) /\ \A k \in Kinds : win[k] = Window(s, k, v.at) /\ win[k] <= v.at
    BY <1>14, WindowsAre
<1>16. \A k \in Kinds : win[k] <= now
  <2>1. v.at \in Nat /\ now \in Nat /\ \A k \in Kinds : win[k] \in Int
    BY <1>1, <1>15, ViewIs, TypesAre
  <2>2. QED
    BY <1>14, <1>15, <2>1
<1>17. record' = [record EXCEPT ![r] = e]
    BY <1>1, <1>2, <1>9, TypesAre
<1>18. /\ \A k \in Kinds, w \in 1 .. MaxTime : win[k] = w =>
             Part(e, y, s, k, w) - Part(record[r], session[r], s, k, w) >= d /\ (Window(s, k, view[r].at) # w => d <= 0)
       /\ \A k \in Kinds, w \in 1 .. MaxTime : win[k] # w => Window(s, k, view[r].at) # w
    BY <1>2, <1>7, <1>15
<1>19. /\ view[r].open /\ e.sub = s /\ record[r].sub = s /\ ChargeIn(e, y) = ChargeIn(record[r], session[r]) + d
       /\ q.used = AtLeast0(view[r].row[s].used + d) /\ q.last = view[r].row[s].last
       /\ row' = [row EXCEPT ![s] = q] /\ bucket' = InBuckets(s, view[r], win, d)
    BY <1>2, <1>6, <1>7, <1>9, <1>10, <1>11, <1>12, <1>15
<1>20. Writes(r, s, e, y, q, win, d)
    BY <1>4, <1>7, <1>9, <1>13, <1>16, <1>17, <1>18, <1>19 DEF Writes
<1>21. QED
    BY <1>20, WritesKeeps

LEMMA ReserveKeeps ==
    ASSUME Inv, NEW r \in Requests, NEW d \in Changes, Reserve(r, d) PROVE Inv'
<1>1. TypeOK /\ Consistent(record[r], session[r]) /\ session[r] \in SessionType
    BY TypesAre DEF Inv
<1>2. d \in Nat
    BY AmountsAssumption
<1>3. session[r].phase = "open" /\ session[r].extra + d >= 0 /\ Change(r, d, "open")
    BY <1>1, <1>2 DEF Reserve, Consistent, SessionType
<1>4. QED
    BY <1>2, <1>3, ChangeKeeps

LEMMA SignedInt == Signed \subseteq Int
BY AmountsAssumption DEF Signed

LEMMA SettleKeeps ==
    ASSUME Inv, NEW r \in Requests, NEW d \in Signed, Settle(r, d) \/ AdjustTask(r, d) PROVE Inv'
<1>1. d \in Int
    BY SignedInt
<1>2. session[r].phase \in {"open", "settled"} /\ Charge(r) + d >= 0 /\ Change(r, d, "settled")
    BY DEF Settle, AdjustTask
<1>3. QED
    BY <1>1, <1>2, ChangeKeeps

LEMMA ReturnReservedKeeps ==
    ASSUME Inv, NEW r \in Requests, ReturnReserved(r) PROVE Inv'
<1>1. PICK d \in Int : d = -session[r].extra /\ session[r].extra \in Int
  <2>1. session[r].extra \in Int
    BY TypesAre DEF Inv, SessionType
  <2>2. QED
    BY <2>1
<1>2. session[r].phase = "refunding" /\ session[r].extra + d >= 0 /\ Change(r, d, "refunding")
    BY <1>1 DEF ReturnReserved
<1>3. QED
    BY <1>2, ChangeKeeps

LEMMA PhaseShare ==
    ASSUME NEW e \in RecordType, NEW z \in SessionType, Consistent(e, z), z.phase = "open",
           NEW y \in SessionType, y.phase \in {"settled", "refunding"}, y.extra = z.extra,
           NEW v, ~v.open, NEW k, NEW w
    PROVE  /\ Consistent(e, y) /\ ChargeIn(e, y) = ChargeIn(e, z) + 0
           /\ e.sub \in Subs /\ ShareIn(e, y, v, e.sub, k, w) - ShareIn(e, z, v, e.sub, k, w) >= 0
<1>1. e.pre \in Nat /\ z.extra \in Int /\ y.extra \in Int
    BY DEF RecordType, SessionType
<1>2. ChargeIn(e, y) = ChargeIn(e, z) /\ ChargeIn(e, z) \in Int
    BY <1>1 DEF ChargeIn
<1>3. e.status # "none" /\ e.sub \in Subs
    BY DEF Consistent
<1>4. Consistent(e, y)
    BY <1>1, <1>2, <1>3 DEF Consistent, ChargeIn
<1>5. Part(e, y, e.sub, k, w) - Part(e, z, e.sub, k, w) >= 0
    BY <1>1 DEF Part, ChargeIn
<1>6. QED
    BY <1>2, <1>3, <1>4, <1>5 DEF ShareIn

\* SettleExactly and BeginRefund: only the session learns of it.
LEMMA PhaseKeeps ==
    ASSUME Inv, NEW r \in Requests, session[r].phase = "open", ~view[r].open, NEW phase \in {"settled", "refunding"},
           session' = [session EXCEPT ![r].phase = phase],
           UNCHANGED <<now, row, bucket, record, view, task, resets, overtaken>>
    PROVE  Inv'
<1>1. TypeOK /\ Consistent(record[r], session[r]) /\ ViewOK(view[r], now)
    BY DEF Inv
<1>2. PICK e \in RecordType, z \in SessionType, v \in ViewType : e = record[r] /\ z = session[r] /\ v = view[r]
    BY <1>1, TypesAre
<1>3. PICK y \in SessionType : y = [z EXCEPT !.phase = phase] /\ y.phase = phase /\ y.extra = z.extra
  <2>1. [z EXCEPT !.phase = phase] \in SessionType
    BY <1>2 DEF SessionType
  <2>2. [z EXCEPT !.phase = phase].phase = phase /\ [z EXCEPT !.phase = phase].extra = z.extra
    BY <1>2 DEF SessionType
  <2>3. QED
    BY <2>1, <2>2
<1>4. session' = [session EXCEPT ![r] = y] /\ record' = [record EXCEPT ![r] = e] /\ view' = [view EXCEPT ![r] = v]
    BY <1>1, <1>2, <1>3, TypesAre
<1>5. Consistent(e, z) /\ z.phase = "open" /\ y.phase \in {"settled", "refunding"} /\ ~v.open
    BY <1>1, <1>2, <1>3
<1>6. PICK s \in Subs : s = e.sub
    BY <1>5 DEF Consistent
<1>7. /\ Consistent(e, y) /\ ChargeIn(e, y) = ChargeIn(e, z) + 0
      /\ \A k, w : ShareIn(e, y, v, s, k, w) - ShareIn(e, z, v, s, k, w) >= 0
    BY <1>2, <1>3, <1>5, <1>6, PhaseShare
<1>8. /\ now' = now /\ task' = task /\ overtaken' = overtaken /\ overtaken' \in [Subs -> Nat]
      /\ row' \in [Subs -> RowType] /\ bucket' \in BucketType /\ resets' \in [Subs -> Nat]
    BY <1>1, TypesAre
<1>9. \A t \in Subs : overtaken[t] = 0 => /\ Bounded(row'[t].used, resets'[t], Held(t))
                                          /\ Periodic(t, row'[t].last, resets'[t], now)
    BY DEF Inv
<1>10. overtaken'[s] = 0 /\ Held(s) + 0 >= 0 => Bounded(row'[s].used, resets'[s], Held(s) + 0)
  <2>1. Held(s) + 0 = Held(s)
    BY <1>1, HeldNat DEF Inv, Kinds
  <2>2. QED
    BY <1>8, <1>9, <2>1
<1>11. overtaken'[s] = 0 => \A k \in Kinds, t \in 0 .. MaxTime : t > now => bucket'[s][k][t] = 0
    BY DEF Inv, BucketOK
<1>12. \A k \in Kinds, w \in 1 .. MaxTime :
          Moves(bucket[s][k][w], bucket'[s][k][w],
                ShareIn(e, y, v, s, k, w) - ShareIn(record[r], session[r], view[r], s, k, w))
    BY <1>2, <1>7 DEF Moves
<1>13. /\ ChargeIn(e, y) = ChargeIn(record[r], session[r]) + 0 /\ record[r].sub = s /\ e.sub = s
       /\ \A t \in Subs : t # s => bucket'[t] = bucket[t]
    BY <1>2, <1>6, <1>7
<1>14. PICK d \in Int : d = 0
    OBVIOUS
<1>15. /\ ChargeIn(e, y) = ChargeIn(record[r], session[r]) + d
       /\ overtaken'[s] = 0 /\ Held(s) + d >= 0 => Bounded(row'[s].used, resets'[s], Held(s) + d)
    BY <1>10, <1>13, <1>14
<1>16. \A t \in Subs : t # s /\ overtaken'[t] = 0 => Bounded(row'[t].used, resets'[t], Held(t))
    BY <1>8, <1>9
<1>17. \A t \in Subs : overtaken'[t] = 0 => overtaken[t] = 0 /\ Periodic(t, row'[t].last, resets'[t], now)
    BY <1>8, <1>9
<1>18. ViewOK(v, now) /\ \A t \in Subs : Capped(t, row'[t].used)
    BY <1>1, <1>2 DEF Inv
<1>19. Charges(r, s, e, y, v, d)
    BY <1>4, <1>6, <1>7, <1>8, <1>11, <1>12, <1>13, <1>15, <1>16, <1>17, <1>18 DEF Charges
<1>20. QED
    BY <1>19, ChargesKeeps

LEMMA SettledOrRefundingKeeps ==
    ASSUME Inv, NEW r \in Requests, SettleExactly(r) \/ BeginRefund(r) PROVE Inv'
<1>1. CASE SettleExactly(r)
    BY <1>1, PhaseKeeps DEF SettleExactly
<1>2. CASE BeginRefund(r)
    BY <1>2, PhaseKeeps DEF BeginRefund
<1>3. QED
    BY <1>1, <1>2

LEMMA RefundRecordKeeps ==
    ASSUME Inv, NEW r \in Requests, RefundRecord(r) PROVE Inv'
<1>1. TypeOK /\ Consistent(record[r], session[r]) /\ ViewOK(view[r], now)
    BY DEF Inv
<1>2. PICK e \in RecordType, z \in SessionType, v \in ViewType : e = record[r] /\ z = session[r] /\ v = view[r]
    BY <1>1, TypesAre
<1>3. PICK d \in Int, pre \in Nat, win \in [Kinds -> 0 .. MaxTime] : d = -e.pre /\ pre = e.pre /\ win = e.win
  <2>1. e.pre \in Nat /\ e.win \in [Kinds -> 0 .. MaxTime]
    BY <1>2 DEF RecordType
  <2>2. -e.pre \in Int
    BY <2>1
  <2>3. QED
    BY <2>1, <2>2
<1>4. Consistent(e, z) /\ e.status = "consumed" /\ z.phase = "refunding" /\ v.open
    BY <1>1, <1>2 DEF RefundRecord
<1>5. PICK s \in Subs : s = e.sub
    BY <1>4 DEF Consistent
<1>6. PICK f \in RecordType : /\ f = [e EXCEPT !.status = "refunded"] /\ f.status = "refunded"
                              /\ f.sub = e.sub /\ f.pre = e.pre /\ f.win = e.win
  <2>1. [e EXCEPT !.status = "refunded"] \in RecordType
    BY <1>2 DEF RecordType
  <2>2. /\ [e EXCEPT !.status = "refunded"].status = "refunded" /\ [e EXCEPT !.status = "refunded"].sub = e.sub
        /\ [e EXCEPT !.status = "refunded"].pre = e.pre /\ [e EXCEPT !.status = "refunded"].win = e.win
    BY <1>2 DEF RecordType
  <2>3. QED
    BY <2>1, <2>2
<1>7. /\ record' = [record EXCEPT ![r].status = "refunded"]
      /\ bucket' = InBuckets(s, v, win, d)
      /\ row' = [row EXCEPT ![s] = Returned(s, v, pre)]
      /\ Commit(r, {s}) /\ UNCHANGED <<now, session, task, resets>>
    BY <1>2, <1>3, <1>5 DEF RefundRecord
<1>8. record' = [record EXCEPT ![r] = f] /\ session' = [session EXCEPT ![r] = z]
    BY <1>1, <1>2, <1>6, <1>7, TypesAre
<1>9. /\ Consistent(f, z) /\ ChargeIn(f, z) = ChargeIn(e, z) + d
      /\ \A k, w : win[k] = w => Part(f, z, s, k, w) - Part(e, z, s, k, w) = d
      /\ \A k, w : win[k] # w => Part(f, z, s, k, w) - Part(e, z, s, k, w) = 0
  <2>1. /\ f.status = "refunded" /\ f.sub = s /\ e.sub = s /\ f.pre = pre /\ e.pre = pre /\ d = -pre
        /\ f.win = win /\ e.win = win
    BY <1>3, <1>5, <1>6
  <2>2. z.extra \in Int
    BY <1>2 DEF SessionType
  <2>3. ChargeIn(f, z) = z.extra /\ ChargeIn(e, z) = z.extra + pre
    BY <1>4, <2>1, <2>2 DEF ChargeIn
  <2>4. Consistent(f, z)
    BY <1>4, <2>1, <2>2, <2>3 DEF Consistent
  <2>5. \A k, w : /\ Part(f, z, s, k, w) = z.extra
                  /\ Part(e, z, s, k, w) = z.extra + (IF win[k] = w THEN pre ELSE 0)
    BY <1>4, <2>1, <2>2 DEF Part
  <2>6. QED
    BY <2>1, <2>2, <2>3, <2>4, <2>5
<1>10. PICK o \in RowType : o = v.row[s]
    BY ViewIs
<1>11. PICK u \in Nat : u = AtLeast0(o.used + d) /\ u = AtLeast0(o.used - pre) /\ o.used \in Nat
  <2>1. o.used \in Nat
    BY <1>10 DEF RowType
  <2>2. AtLeast0(o.used + d) \in Nat /\ o.used + d = o.used - pre
    BY <1>3, <2>1 DEF AtLeast0
  <2>3. QED
    BY <2>1, <2>2
<1>12. PICK q \in RowType : q = Returned(s, v, pre) /\ q.used = u /\ q.last = o.last
  <2>1. Returned(s, v, pre) = [o EXCEPT !.used = u]
    BY <1>10, <1>11 DEF Returned, RowType
  <2>2. [o EXCEPT !.used = u] \in RowType /\ [o EXCEPT !.used = u].used = u /\ [o EXCEPT !.used = u].last = o.last
    BY <1>10 DEF RowType
  <2>3. QED
    BY <2>1, <2>2
<1>13. Capped(s, q.used)
  <2>1. Capped(s, o.used) /\ d <= 0
    BY <1>1, <1>2, <1>3, <1>10 DEF ViewOK
  <2>2. Capped(s, AtLeast0(o.used + d))
    BY <1>11, <2>1, AdjustCapped
  <2>3. QED
    BY <1>11, <1>12, <2>2
<1>14. /\ view[r].open /\ f.sub = s /\ record[r].sub = s /\ ChargeIn(f, z) = ChargeIn(record[r], session[r]) + d
       /\ q.used = AtLeast0(view[r].row[s].used + d) /\ q.last = view[r].row[s].last
       /\ row' = [row EXCEPT ![s] = q] /\ bucket' = InBuckets(s, view[r], win, d)
    BY <1>2, <1>4, <1>5, <1>6, <1>7, <1>9, <1>10, <1>11, <1>12
<1>15. d <= 0
    BY <1>3
<1>16. /\ \A k \in Kinds, w \in 1 .. MaxTime : win[k] = w =>
             Part(f, z, s, k, w) - Part(record[r], session[r], s, k, w) >= d
       /\ \A k \in Kinds, w \in 1 .. MaxTime : win[k] # w =>
             Part(f, z, s, k, w) - Part(record[r], session[r], s, k, w) >= 0
    BY <1>2, <1>9
<1>17. Writes(r, s, f, z, q, win, d)
    BY <1>7, <1>8, <1>9, <1>13, <1>14, <1>15, <1>16 DEF Writes
<1>18. QED
    BY <1>17, WritesKeeps

\* A reset of a subscription that no transaction was overtaken on.
LEMMA TurnedStep ==
    ASSUME Inv, NEW t \in Subs, overtaken[t] = 0, NEW q \in RowType, Turned(t, row[t], q, now)
    PROVE  LET c == Counted(resets[t], row[t], q)
           IN  c \in Nat /\ Bounded(q.used, c, Held(t)) /\ Periodic(t, q.last, c, now)
<1>1. PICK h \in Nat, c \in Nat, o \in RowType, at \in Nat :
          h = Held(t) /\ c = resets[t] /\ o = row[t] /\ at = now
    BY HeldNat, TypesAre DEF Inv, Kinds
<1>2. Turned(t, o, q, at) /\ Bounded(o.used, c, h) /\ Periodic(t, o.last, c, at) /\ at <= at
    BY <1>1 DEF Inv
<1>3. LET d == c + (IF q.last # o.last THEN 1 ELSE 0)
      IN  d \in Nat /\ Bounded(q.used, d, h) /\ Periodic(t, q.last, d, at)
    BY <1>2, TurnedKeeps
<1>4. QED
    BY <1>1, <1>3 DEF Counted

\* Requests refresh rows as of the time their transaction began.
LEMMA TurnedLater ==
    ASSUME NEW s \in Subs, NEW r \in RowType, NEW q, NEW at \in Nat, NEW t \in Nat, at <= t, Turned(s, r, q, at)
    PROVE  Turned(s, r, q, t)
<1>1. q \in RowType
    BY DEF Turned
<1>2. q.last \in Nat
    BY <1>1 DEF RowType
<1>3. QED
    BY <1>1, <1>2 DEF Turned

LEMMA ConsumedIs ==
    ASSUME NEW s \in Subs, NEW v, NEW n \in Nat, NEW q \in RowType, q = Refreshed(s, v)
    PROVE  Consumed(s, v, n) \in RowType /\ Consumed(s, v, n).used = q.used + n /\ Consumed(s, v, n).last = q.last
<1>1. q.used \in Nat /\ q.weekly \in Nat
    BY DEF RowType
<1>2. PICK u \in Nat, i \in Nat : u = q.used + n /\ i = IF ~Plan[s].special /\ Plan[s].weekly > 0 THEN q.weekly + n ELSE q.weekly
    BY <1>1
<1> DEFINE c == [q EXCEPT !.used = u, !.weekly = i]
<1>3. Consumed(s, v, n) = c
    BY <1>2 DEF Consumed, RowType
<1>4. c \in RowType /\ c.used = u /\ c.last = q.last
    BY <1>2 DEF RowType
<1> HIDE DEF c
<1>5. QED
    BY <1>2, <1>3, <1>4

\* A subscription that was only tried: its row is reset, or its total stays.
LEMMA RewrittenIs ==
    ASSUME TypeOK, NEW v \in ViewType, NEW t \in Subs, Capped(t, v.row[t].used), Capped(t, row[t].used)
    PROVE  /\ Rewritten(t, v) \in RowType /\ Capped(t, Rewritten(t, v).used)
           /\ Refreshed(t, v).last # v.row[t].last => Rewritten(t, v) = Refreshed(t, v)
           /\ Refreshed(t, v).last = v.row[t].last =>
                 Rewritten(t, v).used = row[t].used /\ Rewritten(t, v).last = row[t].last
<1>1. PICK o \in RowType, at \in Nat, q \in RowType :
          o = v.row[t] /\ at = v.at /\ q = Refreshed(t, v) /\ Turned(t, o, q, at)
    BY RefreshedIs DEF Turned
<1>2. Capped(t, q.used)
    BY <1>1, TurnedCapped
<1>3. PICK x \in RowType : x = row[t]
    BY TypesAre
<1> DEFINE zero == 0
           end == q.weekEnd
           w == [x EXCEPT !.weekly = zero, !.weekEnd = end]
<1>4. zero \in Nat /\ end \in Nat
    BY <1>1 DEF RowType
<1>5. Rewritten(t, v) = IF q.last # o.last THEN q ELSE IF q # o THEN w ELSE x
    BY <1>1, <1>3 DEF Rewritten
<1> HIDE DEF zero, end
<1>6. w \in RowType /\ w.used = x.used /\ w.last = x.last
    BY <1>3, <1>4 DEF RowType
<1> HIDE DEF w
<1>7. CASE q.last # o.last
  <2>1. Rewritten(t, v) = q
    BY <1>5, <1>7
  <2>2. QED
    BY <1>1, <1>2, <1>7, <2>1
<1>8. CASE q.last = o.last
  <2>1. Rewritten(t, v) = w \/ Rewritten(t, v) = x
    BY <1>5, <1>8
  <2>2. Rewritten(t, v) \in RowType /\ Rewritten(t, v).used = x.used /\ Rewritten(t, v).last = x.last
    BY <1>3, <1>6, <2>1
  <2>3. QED
    BY <1>1, <1>3, <1>8, <2>2
<1>9. QED
    BY <1>7, <1>8

\* The rows after a pre-consumption: the chosen one is refreshed and charged, others may be refreshed.
LEMMA ConsumeRows ==
    ASSUME Inv, NEW r \in Requests, view[r].open, NEW s \in Subs, NEW g, NEW n \in Nat, HasRoom(s, view[r], n),
           Consume(r, s, g, n)
    PROVE  /\ row' \in [Subs -> RowType] /\ resets' \in [Subs -> Nat] /\ overtaken' \in [Subs -> Nat]
           /\ view' = [view EXCEPT ![r] = NoView]
           /\ \A t \in Subs : Capped(t, row'[t].used)
           /\ \A t \in Subs : overtaken'[t] = 0 => overtaken[t] = 0 /\ Periodic(t, row'[t].last, resets'[t], now)
           /\ \A t \in Subs : t # s /\ overtaken'[t] = 0 => Bounded(row'[t].used, resets'[t], Held(t))
           /\ overtaken'[s] = 0 => view[r].bucket[s] = bucket[s] /\ Bounded(row'[s].used, resets'[s], Held(s) + n)
<1>1. /\ TypeOK /\ ViewOK(view[r], now) /\ now \in Nat
      /\ \A t \in Subs : Capped(t, row[t].used) /\ row[t] \in RowType /\ resets[t] \in Nat
    BY TypesAre DEF Inv
<1>2. PICK v \in ViewType : v = view[r]
    BY <1>1, TypesAre
<1>3. v.at \in Nat /\ v.at <= now /\ \A t \in Subs : v.row[t] \in RowType /\ Capped(t, v.row[t].used)
    BY <1>1, <1>2, ViewIs DEF ViewOK
<1>4. PICK tried \in SUBSET Subs : tried = Tried(s, v, g)
    BY DEF Tried
<1>5. PICK W \in SUBSET Subs : W = {s} \union {t \in tried : Refreshed(t, v) # v.row[t]}
    BY <1>4
<1>6. /\ row' = [t \in Subs |-> IF t = s THEN Consumed(s, v, n) ELSE IF t \in tried THEN Rewritten(t, v) ELSE row[t]]
      /\ resets' = NewResets(tried \union {s}, v) /\ Commit(r, W)
    BY <1>2, <1>4, <1>5 DEF Consume
<1>7. /\ view' = [view EXCEPT ![r] = NoView] /\ overtaken' \in [Subs -> Nat]
      /\ \A t \in Subs : overtaken'[t] = 0 =>
            overtaken[t] = 0 /\ (t \in W => v.row[t] = row[t] /\ v.bucket[t] = bucket[t])
    BY <1>1, <1>2, <1>6, CommitIs
<1>8. \A t \in Subs : resets'[t] = resets[t] + (IF t \in tried \union {s} /\ Refreshed(t, v).last # v.row[t].last THEN 1 ELSE 0)
    BY <1>6 DEF NewResets
<1>9. resets' \in [Subs -> Nat]
  <2>1. \A t \in Subs : resets'[t] \in Nat
    BY <1>1, <1>8
  <2>2. QED
    BY <1>6, <2>1 DEF NewResets
<1>10. PICK q \in RowType : q = Refreshed(s, v) /\ Turned(s, v.row[s], q, v.at)
    BY RefreshedIs DEF Turned
<1>11. row'[s] \in RowType /\ row'[s].used = q.used + n /\ row'[s].last = q.last /\ q.used \in Nat
  <2>1. row'[s] = Consumed(s, v, n)
    BY <1>6
  <2>2. QED
    BY <1>10, <2>1, ConsumedIs DEF RowType
<1>12. Capped(s, row'[s].used)
  <2>1. ~Plan[s].special /\ Plan[s].total > 0 => q.used + n <= Plan[s].total
    BY <1>2, <1>10, <1>11, PlanIs DEF HasRoom, Fits
  <2>2. QED
    BY <1>11, <2>1 DEF Capped
<1>13. ASSUME NEW t \in Subs, t # s
       PROVE  /\ row'[t] \in RowType /\ Capped(t, row'[t].used)
              /\ overtaken'[t] = 0 =>
                    Bounded(row'[t].used, resets'[t], Held(t)) /\ Periodic(t, row'[t].last, resets'[t], now)
  <2>1. row'[t] = IF t \in tried THEN Rewritten(t, v) ELSE row[t]
    BY <1>6, <1>13
  <2>2. /\ Rewritten(t, v) \in RowType /\ Capped(t, Rewritten(t, v).used)
        /\ Refreshed(t, v).last # v.row[t].last => Rewritten(t, v) = Refreshed(t, v)
        /\ Refreshed(t, v).last = v.row[t].last =>
              Rewritten(t, v).used = row[t].used /\ Rewritten(t, v).last = row[t].last
    BY <1>1, <1>3, RewrittenIs
  <2>3. row'[t] \in RowType /\ Capped(t, row'[t].used)
    BY <1>1, <2>1, <2>2
  <2>4. ASSUME overtaken'[t] = 0
        PROVE  Bounded(row'[t].used, resets'[t], Held(t)) /\ Periodic(t, row'[t].last, resets'[t], now)
    <3>1. Turned(t, row[t], row'[t], now) /\ resets'[t] = Counted(resets[t], row[t], row'[t])
      <4>1. CASE t \in tried /\ Refreshed(t, v).last # v.row[t].last
        <5>1. v.row[t] = row[t]
          BY <1>5, <1>7, <2>4, <4>1
        <5>2. row'[t] = Refreshed(t, v)
          BY <2>1, <2>2, <4>1
        <5>3. Turned(t, v.row[t], Refreshed(t, v), v.at)
          BY RefreshedIs
        <5>4. Turned(t, v.row[t], Refreshed(t, v), now)
          BY <1>1, <1>3, <5>3, TurnedLater
        <5>5. resets'[t] = resets[t] + 1
          BY <1>8, <4>1
        <5>6. QED
          BY <4>1, <5>1, <5>2, <5>4, <5>5 DEF Counted
      <4>2. CASE ~(t \in tried /\ Refreshed(t, v).last # v.row[t].last)
        <5>1. row'[t].used = row[t].used /\ row'[t].last = row[t].last
          BY <2>1, <2>2, <4>2
        <5>2. resets'[t] = resets[t] + 0
          BY <1>8, <1>13, <4>2
        <5>3. QED
          BY <2>3, <5>1, <5>2 DEF Turned, Counted
      <4>3. QED
        BY <4>1, <4>2
    <3>2. overtaken[t] = 0
      BY <1>7, <2>4
    <3>3. QED
      BY <2>3, <3>1, <3>2, TurnedStep
  <2>5. QED
    BY <2>3, <2>4
<1>14. ASSUME overtaken'[s] = 0
       PROVE  /\ v.bucket[s] = bucket[s] /\ Bounded(row'[s].used, resets'[s], Held(s) + n)
              /\ Periodic(s, row'[s].last, resets'[s], now)
  <2>1. overtaken[s] = 0 /\ v.row[s] = row[s] /\ v.bucket[s] = bucket[s]
    BY <1>5, <1>7, <1>14
  <2>2. Turned(s, v.row[s], q, now)
    BY <1>1, <1>3, <1>10, TurnedLater
  <2>3. resets'[s] = Counted(resets[s], row[s], q)
    BY <1>8, <1>10, <2>1 DEF Counted
  <2>4. resets'[s] \in Nat /\ Bounded(q.used, resets'[s], Held(s)) /\ Periodic(s, q.last, resets'[s], now)
    BY <2>1, <2>2, <2>3, TurnedStep
  <2>5. Held(s) \in Nat
    BY HeldNat DEF Inv, Kinds
  <2>6. Bounded(q.used + n, resets'[s], Held(s) + n)
    BY <1>11, <2>4, <2>5 DEF Bounded
  <2>7. QED
    BY <1>11, <2>1, <2>4, <2>6
<1>15. row' \in [Subs -> RowType]
  <2>1. \A t \in Subs : row'[t] \in RowType
    BY <1>11, <1>13
  <2>2. QED
    BY <1>6, <2>1
<1>16. QED
    BY <1>2, <1>7, <1>9, <1>12, <1>13, <1>14, <1>15

LEMMA PreConsumeKeeps ==
    ASSUME Inv, NEW r \in Requests, NEW g \in Groups, NEW n \in Amounts, PreConsume(r, g, n) PROVE Inv'
<1>1. TypeOK /\ Consistent(record[r], session[r]) /\ ViewOK(view[r], now) /\ view[r].open
    BY DEF Inv, PreConsume
<1>2. PICK s \in Subs : Chosen(s, view[r], g, n) /\ Consume(r, s, g, n)
    BY DEF PreConsume
<1>3. n \in Nat /\ n \in Int /\ HasRoom(s, view[r], n)
    BY <1>2, AmountsAssumption DEF Chosen
<1>4. PICK x \in RecordType, z \in SessionType, v \in ViewType : x = record[r] /\ z = session[r] /\ v = view[r]
    BY <1>1, TypesAre
<1>5. Consistent(x, z) /\ x.status = "none" /\ z.extra = 0 /\ z.phase = "idle"
    BY <1>1, <1>4 DEF PreConsume, Consistent
<1>6. PICK win \in [Kinds -> 0 .. MaxTime] : win = Windows(s, v.at) /\ \A k \in Kinds : win[k] <= v.at
    BY ViewIs, WindowsAre
<1>7. \A k \in Kinds : win[k] <= now
  <2>1. v.at \in Nat /\ now \in Nat /\ v.at <= now /\ \A k \in Kinds : win[k] \in Int
    BY <1>1, <1>4, <1>6, ViewIs, TypesAre DEF ViewOK
  <2>2. QED
    BY <1>6, <2>1
<1>8. PICK e \in RecordType : e = [status |-> "consumed", sub |-> s, pre |-> n, win |-> win]
    BY <1>3 DEF RecordType
<1>9. e.status = "consumed" /\ e.sub = s /\ e.pre = n /\ e.win = win
    BY <1>8
<1>10. PICK y \in SessionType : y = [z EXCEPT !.phase = "open"] /\ y.phase = "open" /\ y.extra = 0
  <2>1. [z EXCEPT !.phase = "open"] \in SessionType
    BY <1>4 DEF SessionType
  <2>2. [z EXCEPT !.phase = "open"].phase = "open" /\ [z EXCEPT !.phase = "open"].extra = z.extra
    BY <1>4 DEF SessionType
  <2>3. QED
    BY <1>5, <2>1, <2>2
<1>11. record' = [record EXCEPT ![r] = e] /\ session' = [session EXCEPT ![r] = y]
  <2>1. record' = [record EXCEPT ![r] = e]
    BY <1>2, <1>4, <1>6, <1>8 DEF Consume
  <2>2. session' = [session EXCEPT ![r].phase = "open"]
    BY <1>2 DEF Consume
  <2>3. QED
    BY <1>1, <1>4, <1>10, <2>1, <2>2, TypesAre
<1>12. y.phase = "open" /\ y.extra = 0
    BY <1>10
<1>13. ChargeIn(e, y) = n /\ Consistent(e, y)
  <2>1. ChargeIn(e, y) = n
    BY <1>3, <1>9, <1>12 DEF ChargeIn
  <2>2. QED
    BY <1>3, <1>9, <1>12, <2>1 DEF Consistent
<1>14. ChargeIn(x, z) = 0 /\ \A k, w : ShareIn(x, z, v, s, k, w) = 0
    BY <1>4, <1>5, ShareNat
<1>15. NoView \in ViewType /\ ~NoView.open /\ ViewOK(NoView, now)
    BY <1>1, NoViewIs, TypesAre
<1>16. \A k, w : ShareIn(e, y, NoView, s, k, w) = IF win[k] = w THEN n ELSE 0
    BY <1>3, <1>9, <1>12, <1>15 DEF ShareIn, Part
<1>17. /\ row' \in [Subs -> RowType] /\ resets' \in [Subs -> Nat] /\ overtaken' \in [Subs -> Nat]
       /\ view' = [view EXCEPT ![r] = NoView]
       /\ \A t \in Subs : Capped(t, row'[t].used)
       /\ \A t \in Subs : overtaken'[t] = 0 => overtaken[t] = 0 /\ Periodic(t, row'[t].last, resets'[t], now)
       /\ \A t \in Subs : t # s /\ overtaken'[t] = 0 => Bounded(row'[t].used, resets'[t], Held(t))
       /\ overtaken'[s] = 0 => view[r].bucket[s] = bucket[s] /\ Bounded(row'[s].used, resets'[s], Held(s) + n)
    BY <1>1, <1>2, <1>3, ConsumeRows
<1>18. bucket' = InBuckets(s, v, win, n) /\ now' = now /\ task' = task
    BY <1>2, <1>4, <1>6 DEF Consume
<1>19. /\ bucket' \in BucketType /\ \A t \in Subs : t # s => bucket'[t] = bucket[t]
       /\ \A k \in Kinds, t \in 0 .. MaxTime :
             bucket'[s][k][t] = IF t = win[k] /\ t # None THEN AtLeast0(v.bucket[s][k][t] + n) ELSE bucket[s][k][t]
  <2>1. PICK d \in Int : d = n
    BY <1>3
  <2>2. bucket \in BucketType /\ bucket' = InBuckets(s, v, win, d)
    BY <1>1, <1>18, <2>1, TypesAre
  <2>3. /\ InBuckets(s, v, win, d) \in BucketType
        /\ \A t \in Subs : t # s => InBuckets(s, v, win, d)[t] = bucket[t]
        /\ \A k \in Kinds, t \in 0 .. MaxTime :
              InBuckets(s, v, win, d)[s][k][t] = IF t = win[k] /\ t # None THEN AtLeast0(v.bucket[s][k][t] + d)
                                                 ELSE bucket[s][k][t]
    BY <2>2, InBucketsIs
  <2>4. QED
    BY <2>1, <2>2, <2>3
<1>20. overtaken'[s] = 0 => \A k \in Kinds, t \in 0 .. MaxTime : t > now => bucket'[s][k][t] = 0
  <2>1. SUFFICES ASSUME overtaken'[s] = 0, NEW k \in Kinds, NEW t \in 0 .. MaxTime, t > now PROVE bucket'[s][k][t] = 0
    OBVIOUS
  <2>2. bucket[s][k][t] = 0
    BY <1>17, <2>1 DEF Inv, BucketOK
  <2>3. t # win[k]
    BY <1>1, <1>7, <2>1, TypesAre
  <2>4. QED
    BY <1>19, <2>2, <2>3
<1>21. ASSUME overtaken'[s] = 0, NEW k \in Kinds, NEW w \in 1 .. MaxTime
       PROVE  Moves(bucket[s][k][w], bucket'[s][k][w],
                    ShareIn(e, y, NoView, s, k, w) - ShareIn(record[r], session[r], view[r], s, k, w))
  <2>1. w # None /\ w \in 0 .. MaxTime
    BY TimeAssumption DEF None
  <2>2. v.bucket[s][k][w] = bucket[s][k][w]
    BY <1>4, <1>17, <1>21
  <2>3. bucket'[s][k][w] = IF w = win[k] THEN AtLeast0(bucket[s][k][w] + n) ELSE bucket[s][k][w]
    BY <1>19, <2>1, <2>2
  <2>4. ShareIn(e, y, NoView, s, k, w) - ShareIn(record[r], session[r], view[r], s, k, w) = IF win[k] = w THEN n ELSE 0
    BY <1>3, <1>4, <1>14, <1>16
  <2>5. QED
    BY <1>3, <2>3, <2>4 DEF Moves
<1>22. /\ ChargeIn(e, y) = ChargeIn(record[r], session[r]) + n /\ record[r].status = "none"
       /\ Consistent(e, y) /\ e.sub = s
    BY <1>3, <1>4, <1>5, <1>9, <1>13, <1>14
<1>23. PICK d \in Int : d = n
    BY <1>3
<1>24. /\ ChargeIn(e, y) = ChargeIn(record[r], session[r]) + d
       /\ overtaken'[s] = 0 /\ Held(s) + d >= 0 => Bounded(row'[s].used, resets'[s], Held(s) + d)
    BY <1>17, <1>22, <1>23
<1>25. Charges(r, s, e, y, NoView, d)
    BY <1>11, <1>15, <1>17, <1>18, <1>19, <1>20, <1>21, <1>22, <1>24 DEF Charges
<1>26. QED
    BY <1>15, <1>25, ChargesKeeps

-----------------------------------------------------------------------------
(* The maintenance task, the switch of the limit and the clock.            *)

LEMMA SameTotals ==
    ASSUME Inv, row' \in [Subs -> RowType], task' \in TaskType, TaskOK(task', now),
           UNCHANGED <<now, bucket, record, session, view, resets, overtaken>>,
           \A s \in Subs : row'[s].used = row[s].used /\ row'[s].last = row[s].last
    PROVE  Inv'
<1>1. resets' \in [Subs -> Nat] /\ resets' = resets /\ overtaken' \in [Subs -> Nat] /\ overtaken' = overtaken
    BY TypesAre DEF Inv
<1>2. \A s \in Subs : Counted(resets[s], row[s], row'[s]) = resets'[s]
    BY <1>1 DEF Counted
<1>3. \A s \in Subs : Turned(s, row[s], row'[s], now)
    BY DEF Turned
<1>4. \A s \in Subs : Capped(s, row'[s].used)
    BY DEF Inv
<1>5. QED
    BY <1>1, <1>2, <1>3, <1>4, RowStep

LEMMA TaskIs ==
    ASSUME Inv
    PROVE  /\ task \in TaskType /\ TaskOK(task, now) /\ task.at <= now /\ task.at \in Nat /\ now \in Nat
           /\ row \in [Subs -> RowType] /\ \A s \in Subs : s # None
BY TypesAre, SubsAssumption DEF Inv, TypeOK, TaskType, TaskOK, None

LEMMA ListingIs ==
    ASSUME now \in Nat, NEW doing \in {"totals", "weekly"}, NEW listed \in SUBSET Subs
    PROVE  Listing(doing, listed) \in TaskType /\ TaskOK(Listing(doing, listed), now)
BY DEF Listing, TaskType, TaskOK

LEMMA NoTaskIs == ASSUME NEW n \in Nat, Start <= n PROVE NoTask \in TaskType /\ TaskOK(NoTask, n)
BY DEF NoTask, TaskType, TaskOK, Start

LEMMA ListTotalsKeeps == ASSUME Inv, ListTotals PROVE Inv'
<1> DEFINE kept == [s \in Subs |-> row[s].active /\ Plan[s].end > now]
           due == {s \in Subs : kept[s] /\ DueTotal(s, now)}
<1>1. /\ row' = [s \in Subs |-> [row[s] EXCEPT !.active = kept[s]]]
      /\ task' = Listing("totals", due)
      /\ UNCHANGED <<now, bucket, record, session, view, resets, overtaken>>
    BY DEF ListTotals
<1>2. due \in SUBSET Subs
    OBVIOUS
<1> HIDE DEF due
<1>3. task' \in TaskType /\ TaskOK(task', now)
    BY <1>1, <1>2, TaskIs, ListingIs
<1>4. \A s \in Subs : kept[s] \in BOOLEAN
  <2>1. SUFFICES ASSUME NEW s \in Subs PROVE (row[s].active /\ Plan[s].end > now) \in BOOLEAN
    OBVIOUS
  <2>2. QED
    OBVIOUS
<1> HIDE DEF kept
<1>5. ASSUME NEW s \in Subs
      PROVE  /\ [row[s] EXCEPT !.active = kept[s]] \in RowType
             /\ [row[s] EXCEPT !.active = kept[s]].used = row[s].used
             /\ [row[s] EXCEPT !.active = kept[s]].last = row[s].last
  <2>1. row[s] \in RowType
    BY TaskIs
  <2> DEFINE b == kept[s]
  <2>2. b \in BOOLEAN
    BY <1>4
  <2> HIDE DEF b
  <2>3. [row[s] EXCEPT !.active = b] \in RowType /\ [row[s] EXCEPT !.active = b].used = row[s].used
        /\ [row[s] EXCEPT !.active = b].last = row[s].last
    BY <2>1, <2>2 DEF RowType
  <2>4. QED
    BY <2>3 DEF b
<1>6. row' \in [Subs -> RowType] /\ \A s \in Subs : row'[s].used = row[s].used /\ row'[s].last = row[s].last
    BY <1>1, <1>5
<1>7. QED
    BY <1>1, <1>3, <1>6, SameTotals

\* Steps of the task that write nothing.
LEMMA TaskStep ==
    ASSUME Inv, task' \in TaskType, TaskOK(task', now),
           UNCHANGED <<now, row, bucket, record, session, view, resets, overtaken>>
    PROVE  Inv'
<1>1. row' = row /\ row' \in [Subs -> RowType]
    BY TaskIs
<1>2. QED
    BY <1>1, SameTotals

LEMMA ListWeeklyKeeps == ASSUME Inv, ListWeekly PROVE Inv'
<1> DEFINE due == {s \in Subs : row[s].active /\ DueWeekly(s, now)}
<1>1. task' = Listing("weekly", due) /\ UNCHANGED <<now, row, bucket, record, session, view, resets, overtaken>>
    BY DEF ListWeekly
<1>2. due \in SUBSET Subs
    OBVIOUS
<1> HIDE DEF due
<1>3. task' \in TaskType /\ TaskOK(task', now)
    BY <1>1, <1>2, TaskIs, ListingIs
<1>4. QED
    BY <1>1, <1>3, TaskStep

LEMMA EndTaskKeeps == ASSUME Inv, EndTask \/ TaskFails PROVE Inv'
<1>1. task' = NoTask /\ UNCHANGED <<now, row, bucket, record, session, view, resets, overtaken>>
    BY DEF EndTask, TaskFails
<1>2. now \in Nat /\ Start <= now
    BY TypesAre DEF Inv, Start
<1>3. NoTask \in TaskType /\ TaskOK(NoTask, now)
    BY <1>2, NoTaskIs
<1>4. QED
    BY <1>1, <1>3, TaskStep

LEMMA ReadAgainKeeps == ASSUME Inv, NEW s \in Subs, ReadAgain(s) PROVE Inv'
<1>1. PICK a \in TaskType : a = task /\ a.at <= now /\ a.at \in Nat
    BY TaskIs
<1>2. PICK l \in SUBSET Subs, t \in Subs \union {None}, o \in RowType \union {NoRow} :
          /\ task' = [a EXCEPT !.listed = l, !.sub = t, !.row = o]
          /\ (t = s /\ o = row[s]) \/ (t = None /\ o = NoRow)
  <2> DEFINE due == IF task.doing = "totals" THEN DueTotal(s, task.at) ELSE DueWeekly(s, task.at)
  <2>1. task' = [task EXCEPT !.listed = @ \ {s}, !.sub = IF due THEN s ELSE None, !.row = IF due THEN row[s] ELSE NoRow]
    BY DEF ReadAgain
  <2> HIDE DEF due
  <2>2. row[s] \in RowType /\ a.listed \ {s} \in SUBSET Subs
    BY <1>1, TaskIs DEF TaskType
  <2>3. CASE due
    <3>1. task' = [a EXCEPT !.listed = a.listed \ {s}, !.sub = s, !.row = row[s]]
      BY <1>1, <2>1, <2>3 DEF TaskType
    <3>2. QED
      BY <2>2, <3>1
  <2>4. CASE ~due
    <3>1. task' = [a EXCEPT !.listed = a.listed \ {s}, !.sub = None, !.row = NoRow]
      BY <1>1, <2>1, <2>4 DEF TaskType
    <3>2. QED
      BY <2>2, <3>1
  <2>5. QED
    BY <2>3, <2>4
<1> DEFINE b == [a EXCEPT !.listed = l, !.sub = t, !.row = o]
<1>3. b \in TaskType /\ b.at = a.at /\ b.sub = t /\ b.row = o
  <2> HIDE DEF NoRow, None, RowType
  <2>1. b.at = a.at /\ b.sub = t /\ b.row = o
    BY <1>1 DEF TaskType
  <2>2. QED
    BY <1>1, <2>1 DEF TaskType
<1>4. task' = b
    BY <1>2
<1> HIDE DEF b
<1>5. row[s] \in RowType /\ Capped(s, row[s].used)
    BY TaskIs DEF Inv
<1>6. TaskOK(b, now)
  <2>1. CASE t = s /\ o = row[s]
    BY <1>1, <1>3, <1>5, <2>1 DEF TaskOK
  <2>2. CASE t = None /\ o = NoRow
    BY <1>1, <1>3, <2>2 DEF TaskOK
  <2>3. QED
    BY <1>2, <2>1, <2>2
<1>7. UNCHANGED <<now, row, bucket, record, session, view, resets, overtaken>>
    BY DEF ReadAgain
<1>8. QED
    BY <1>3, <1>4, <1>6, <1>7, TaskStep

LEMMA EndResetIs ==
    ASSUME Inv, EndReset PROVE task' \in TaskType /\ TaskOK(task', now)
<1>1. PICK a \in TaskType : a = task /\ a.at <= now /\ a.at \in Nat
    BY TaskIs
<1>2. PICK t \in Subs \union {None}, o \in RowType \union {NoRow} : t = None /\ o = NoRow
    OBVIOUS
<1> DEFINE b == [a EXCEPT !.sub = t, !.row = o]
<1>3. task' = b
    BY <1>1, <1>2 DEF EndReset
<1>4. b.at = a.at /\ b.sub = t
    BY <1>1 DEF TaskType
<1>5. b \in TaskType
    BY <1>1 DEF TaskType
<1> HIDE DEF b
<1>6. QED
    BY <1>1, <1>2, <1>3, <1>4, <1>5 DEF TaskOK

LEMMA ResetTotalKeeps == ASSUME Inv, NEW s \in Subs, ResetTotal(s) PROVE Inv'
<1>1. PICK o \in RowType, at \in Nat : o = task.row /\ at = task.at /\ at <= now /\ Capped(s, o.used)
  <2>1. task.sub = s /\ s # None
    BY TaskIs DEF ResetTotal
  <2>2. task.row \in RowType /\ Capped(s, task.row.used)
    BY <2>1, TaskIs DEF TaskOK
  <2>3. QED
    BY <2>2, TaskIs
<1>2. PICK q \in RowType : q = MaybeReset(s, o, at) /\ Turned(s, o, q, at)
    BY <1>1, MaybeResetIs DEF Turned
<1>3. row' = [row EXCEPT ![s] = q]
    BY <1>1, <1>2 DEF ResetTotal
<1>4. row' \in [Subs -> RowType] /\ row'[s] = q /\ \A t \in Subs : t # s => row'[t] = row[t]
    BY <1>3, TaskIs
<1>5. PICK stale \in SUBSET {s} : stale = (IF o # row[s] THEN {s} ELSE {}) /\ Overtake(stale)
    BY <1>1 DEF ResetTotal
<1>6. overtaken \in [Subs -> Nat] /\ resets \in [Subs -> Nat] /\ \A t \in Subs : row[t] \in RowType
    BY TypesAre DEF Inv
<1>7. /\ overtaken' \in [Subs -> Nat]
      /\ \A t \in Subs : overtaken'[t] = 0 => overtaken[t] = 0 /\ (t = s => o = row[s])
  <2>1. \A t \in Subs : overtaken'[t] = overtaken[t] + (IF t \in stale THEN 1 ELSE 0)
    BY <1>5 DEF Overtake
  <2>2. overtaken' \in [Subs -> Nat]
    BY <1>5, <1>6 DEF Overtake
  <2>3. \A t \in Subs : overtaken'[t] = 0 => overtaken[t] = 0 /\ t \notin stale
    BY <1>6, <2>1
  <2>4. QED
    BY <1>5, <2>2, <2>3
<1>8. resets' = [resets EXCEPT ![s] = @ + (IF q.last # o.last THEN 1 ELSE 0)]
    BY <1>1, <1>4 DEF ResetTotal
<1>9. resets' \in [Subs -> Nat] /\ resets'[s] = Counted(resets[s], o, q) /\ \A t \in Subs : t # s => resets'[t] = resets[t]
  <2>1. PICK c \in Nat : c = Counted(resets[s], o, q)
    BY <1>6 DEF Counted
  <2>2. resets' = [resets EXCEPT ![s] = c]
    BY <1>6, <1>8, <2>1 DEF Counted
  <2>3. QED
    BY <1>6, <2>1, <2>2
<1>10. \A t \in Subs : Capped(t, row'[t].used)
  <2>1. Capped(s, q.used)
    BY <1>1, <1>2, TurnedCapped
  <2>2. QED
    BY <1>4, <2>1 DEF Inv
<1>11. ASSUME NEW t \in Subs, overtaken'[t] = 0
       PROVE  /\ overtaken[t] = 0 /\ Turned(t, row[t], row'[t], now)
              /\ resets'[t] = Counted(resets[t], row[t], row'[t])
  <2>1. overtaken[t] = 0
    BY <1>7, <1>11
  <2>2. CASE t = s
    <3>1. o = row[s] /\ Turned(s, o, q, now)
      BY <1>1, <1>2, <1>7, <1>11, <2>2, TaskIs, TurnedLater
    <3>2. QED
      BY <1>4, <1>9, <2>1, <2>2, <3>1
  <2>3. CASE t # s
    <3>1. row'[t] = row[t] /\ resets'[t] = resets[t] /\ resets[t] \in Nat
      BY <1>4, <1>6, <1>9, <2>3
    <3>2. QED
      BY <1>6, <2>1, <3>1 DEF Turned, Counted
  <2>4. QED
    BY <2>2, <2>3
<1>12. task' \in TaskType /\ TaskOK(task', now) /\ UNCHANGED <<now, bucket, record, session, view>>
    BY EndResetIs DEF ResetTotal
<1>13. QED
    BY <1>4, <1>7, <1>9, <1>10, <1>11, <1>12, RowStep

LEMMA ResetWeeklyKeeps == ASSUME Inv, NEW s \in Subs, ResetWeekly(s) PROVE Inv'
<1>1. PICK x \in RowType : x = row[s]
    BY TaskIs
<1>2. PICK o \in RowType, at \in Nat : o = task.row /\ at = task.at
  <2>1. task.sub = s /\ s # None
    BY TaskIs DEF ResetWeekly
  <2>2. QED
    BY <2>1, TaskIs DEF TaskOK
<1>3. PICK end \in Nat, zero \in Nat : end = MaybeResetWeekly(s, o, at).weekEnd /\ zero = 0
  <2>1. MaybeResetWeekly(s, o, at) \in RowType
    BY WeeklyIs
  <2>2. MaybeResetWeekly(s, o, at).weekEnd \in Nat
    BY <2>1 DEF RowType
  <2>3. QED
    BY <2>2
<1> DEFINE q == [x EXCEPT !.weekly = zero, !.weekEnd = end]
<1>4. row' = [row EXCEPT ![s] = q]
    BY <1>1, <1>2, <1>3, TaskIs DEF ResetWeekly, RowType
<1>5. q \in RowType /\ q.used = x.used /\ q.last = x.last
    BY <1>1, <1>3 DEF RowType
<1> HIDE DEF q
<1>6. row' \in [Subs -> RowType] /\ \A t \in Subs : row'[t].used = row[t].used /\ row'[t].last = row[t].last
    BY <1>1, <1>4, <1>5, TaskIs
<1>7. /\ task' \in TaskType /\ TaskOK(task', now)
      /\ UNCHANGED <<now, bucket, record, session, view, resets, overtaken>>
    BY EndResetIs DEF ResetWeekly
<1>8. QED
    BY <1>6, <1>7, SameTotals

LEMMA SwitchLimitKeeps == ASSUME Inv, NEW s \in Subs, SwitchLimit(s) PROVE Inv'
<1>1. PICK o \in RowType : o = row[s]
    BY TaskIs
<1> DEFINE b == ~o.hourly
           q == [o EXCEPT !.hourly = b]
<1>2. b \in BOOLEAN
    OBVIOUS
<1>3. row' = [row EXCEPT ![s] = q]
    BY <1>1, TaskIs DEF SwitchLimit, RowType
<1> HIDE DEF b
<1>4. q \in RowType /\ q.used = o.used /\ q.last = o.last
    BY <1>2 DEF RowType
<1> HIDE DEF q
<1>5. row' \in [Subs -> RowType] /\ \A t \in Subs : row'[t].used = row[t].used /\ row'[t].last = row[t].last
    BY <1>1, <1>3, <1>4, TaskIs
<1>6. /\ task' \in TaskType /\ TaskOK(task', now)
      /\ UNCHANGED <<now, bucket, record, session, view, resets, overtaken>>
    BY TaskIs DEF SwitchLimit
<1>7. QED
    BY <1>5, <1>6, SameTotals

\* A window that begins with this second has an empty bucket; in an older one the shares stay.
LEMMA TickKeeps == ASSUME Inv, Tick PROVE Inv'
<1>1. TypeOK /\ \A r \in Requests : Consistent(record[r], session[r]) /\ ViewOK(view[r], now)
    BY DEF Inv
<1>2. /\ now \in Start .. MaxTime /\ now' = now + 1 /\ now' \in Start .. MaxTime /\ now \in Nat
      /\ row' = row /\ bucket' = bucket /\ record' = record /\ session' = session /\ view' = view
      /\ task' = task /\ resets' = resets /\ overtaken' = overtaken
    BY <1>1, TypesAre, TimeAssumption DEF Tick, Start
<1>3. TypeOK'
    BY <1>1, <1>2, TypesAre, TypesThen
<1>4. \A r \in Requests : ViewOK(view[r], now + 1)
  <2>1. SUFFICES ASSUME NEW r \in Requests PROVE ViewOK(view[r], now + 1)
    OBVIOUS
  <2>2. view[r].at \in Nat
    BY <1>1, TypesAre, ViewIs
  <2>3. QED
    BY <1>1, <1>2, <2>2 DEF ViewOK
<1>5. (\A r \in Requests : Consistent(record[r], session[r]) /\ ViewOK(view[r], now))'
    BY <1>1, <1>2, <1>4 DEF Consistent, ChargeIn, ViewOK, Capped
<1>6. \A s \in Subs : Held(s)' = Held(s)
    BY <1>2 DEF Held, Charge, Total
<1>7. ASSUME NEW s \in Subs, overtaken[s] = 0
      PROVE  Bounded(row[s].used, resets[s], Held(s)) /\ Periodic(s, row[s].last, resets[s], now + 1)
  <2>1. Bounded(row[s].used, resets[s], Held(s)) /\ Periodic(s, row[s].last, resets[s], now)
    BY <1>7 DEF Inv
  <2>2. row[s].last \in Nat
    BY <1>1, TypesAre DEF RowType
  <2>3. QED
    BY <1>2, <2>1, <2>2 DEF Periodic
<1>8. (\A s \in Subs : overtaken[s] = 0 =>
          Bounded(row[s].used, resets[s], Held(s)) /\ Periodic(s, row[s].last, resets[s], now))'
    BY <1>2, <1>6, <1>7 DEF Bounded, Periodic
<1>9. ASSUME NEW s \in Subs, NEW k \in Kinds, overtaken[s] = 0, Window(s, k, now + 1) # None
      PROVE  bucket[s][k][Window(s, k, now + 1)] <= Share(s, k)'
  <2>1. PICK x \in 0 .. MaxTime, w \in 0 .. MaxTime :
            /\ x = WindowAt(s, k, now) /\ x = Window(s, k, now)
            /\ w = WindowAt(s, k, now + 1) /\ w = Window(s, k, now + 1)
    BY <1>2, WindowIs, WindowAtIs
  <2>2. w # None /\ (w = now + 1 \/ w = x)
    BY <1>2, <1>9, <2>1, WindowTick
  <2> DEFINE g == SharesIn(record, session, view, s, k, w)
  <2>3. Share(s, k)' = Total(g)
    BY <1>2, <2>1, ShareThen
  <2>4. g \in [Requests -> Nat]
    <3>1. ASSUME NEW r \in Requests PROVE ShareIn(record[r], session[r], view[r], s, k, w) \in Nat
      BY <1>1, TypesAre, ShareNat
    <3>2. QED
      BY <3>1 DEF SharesIn
  <2>5. CASE w = now + 1
    <3>1. bucket[s][k][w] = 0
      BY <1>2, <1>9, <2>5 DEF Inv, BucketOK
    <3>2. Total(g) \in Nat
      <4> HIDE DEF g
      <4>1. \A q \in Requests : g[q] <= g[q]
        BY <2>4
      <4>2. QED
        BY <2>4, <4>1, TotalBelow
    <3>3. QED
      BY <2>1, <2>3, <3>1, <3>2
  <2>6. CASE w = x
    <3>1. Share(s, k) = Total(g)
      BY <2>1, <2>6 DEF Share, SharesIn
    <3>2. bucket[s][k][x] <= Share(s, k)
      BY <1>9, <2>1, <2>2, <2>6 DEF Inv, BucketOK
    <3>3. QED
      BY <2>1, <2>3, <2>6, <3>1, <3>2
  <2>7. QED
    BY <2>2, <2>5, <2>6
<1>10. \A s \in Subs, k \in Kinds, t \in 0 .. MaxTime : overtaken[s] = 0 /\ t > now + 1 => bucket[s][k][t] = 0
    BY <1>2 DEF Inv, BucketOK
<1>11. (\A s \in Subs, k \in Kinds : overtaken[s] = 0 => BucketOK(s, k))'
    BY <1>2, <1>9, <1>10 DEF BucketOK, Window
<1>12. TaskOK(task, now)' /\ (\A s \in Subs : Capped(s, row[s].used))'
  <2>1. TaskOK(task, now) /\ task.at \in Nat /\ \A s \in Subs : Capped(s, row[s].used)
    BY TaskIs DEF Inv
  <2>2. TaskOK(task, now + 1)
    BY <1>2, <2>1 DEF TaskOK
  <2>3. QED
    BY <1>2, <2>1, <2>2 DEF TaskOK, Capped, RowType
<1>13. QED
    BY <1>3, <1>5, <1>8, <1>11, <1>12 DEF Inv

LEMMA InitInv == ASSUME Init PROVE Inv
<1>1. now \in Start .. MaxTime /\ now = Start /\ now \in Nat
    BY TimeAssumption DEF Init, Start
<1>2. PICK c \in Cases : /\ row = [s \in Subs |-> FirstRow(s, s \in c.subs)]
                         /\ session = [r \in Requests |-> [phase |-> IF r \in c.requests THEN "idle" ELSE "elsewhere",
                                                           extra |-> 0, deltas |-> 0]]
    BY DEF Init
<1>3. ASSUME NEW s \in Subs
      PROVE  row[s] \in RowType /\ row[s].used = 0 /\ row[s].last = Start
  <2> DEFINE b == s \in c.subs
  <2>1. b \in BOOLEAN
    OBVIOUS
  <2>2. row[s] = FirstRow(s, b)
    BY <1>2
  <2> HIDE DEF b
  <2>3. QED
    BY <2>1, <2>2, FirstRowIs
<1>4. /\ bucket \in BucketType /\ \A s \in Subs, k \in Kinds, t \in 0 .. MaxTime : bucket[s][k][t] = 0
      /\ \A s \in Subs : resets[s] = 0
    BY NoBucketsIs DEF Init
<1>5. ASSUME NEW r \in Requests
      PROVE  /\ record[r] \in RecordType /\ session[r] \in SessionType /\ record[r].status = "none"
             /\ Consistent(record[r], session[r])
  <2>1. record[r] = [status |-> "none", sub |-> None, pre |-> 0, win |-> [k \in Kinds |-> None]]
    BY DEF Init
  <2>2. PICK p \in {"idle", "elsewhere"} : session[r] = [phase |-> p, extra |-> 0, deltas |-> 0]
    BY <1>2
  <2>3. [k \in Kinds |-> None] \in [Kinds -> 0 .. MaxTime]
    BY TimeAssumption DEF None
  <2>4. record[r] \in RecordType
    BY <2>1, <2>3 DEF RecordType
  <2>5. session[r] \in SessionType
    BY <2>2 DEF SessionType
  <2>6. Consistent(record[r], session[r])
    BY <2>1, <2>2 DEF Consistent, ChargeIn
  <2>7. QED
    BY <2>1, <2>4, <2>5, <2>6
<1>6. \A r \in Requests : view[r] = NoView /\ view[r] \in ViewType /\ ViewOK(view[r], now)
    BY <1>1, NoViewIs DEF Init
<1>7. task \in TaskType /\ TaskOK(task, now)
    BY <1>1, NoTaskIs DEF Init, Start
<1>8. TypeOK
  <2>1. row \in [Subs -> RowType] /\ resets \in [Subs -> Nat] /\ overtaken \in [Subs -> Nat]
    BY <1>2, <1>3 DEF Init
  <2>2. record \in [Requests -> RecordType] /\ session \in [Requests -> SessionType] /\ view \in [Requests -> ViewType]
    BY <1>2, <1>5, <1>6 DEF Init
  <2>3. QED
    BY <1>1, <1>4, <1>7, <2>1, <2>2 DEF TypeOK
<1>9. ASSUME NEW s \in Subs PROVE Held(s) = 0
  <2>1. HeldBy(s) \in [Requests -> Nat] /\ Held(s) = Total(HeldBy(s))
    BY <1>5, <1>8, HeldNat DEF Kinds
  <2>2. \A q \in Requests : HeldBy(s)[q] = 0
    BY <1>5, PartNat DEF HeldBy
  <2>3. QED
    BY <2>1, <2>2, TotalOfZeros
<1>10. ASSUME NEW s \in Subs
       PROVE  Bounded(row[s].used, resets[s], Held(s)) /\ Periodic(s, row[s].last, resets[s], now)
  <2>1. Bounded(row[s].used, resets[s], Held(s))
    BY <1>3, <1>4, <1>9 DEF Bounded
  <2>2. Periodic(s, row[s].last, resets[s], now)
    <3>1. Start - Start = 0 /\ Start <= Start
      BY DEF Start
    <3>2. Plan[s].reset > 0 => 0 <= 0 \div Plan[s].reset
      BY PlanIs, DivNat
    <3>3. QED
      BY <1>1, <1>3, <1>4, <3>1, <3>2 DEF Periodic
  <2>3. QED
    BY <2>1, <2>2
<1>11. ASSUME NEW s \in Subs, NEW k \in Kinds PROVE BucketOK(s, k)
  <2>1. PICK w \in 0 .. MaxTime : w = Window(s, k, now)
    BY <1>1, WindowsAre
  <2>2. Share(s, k) \in Nat
    BY <1>5, <1>8, HeldNat
  <2>3. QED
    BY <1>4, <2>1, <2>2 DEF BucketOK
<1>12. \A s \in Subs : Capped(s, row[s].used)
    BY <1>3, ZeroCapped
<1>13. QED
    BY <1>5, <1>6, <1>7, <1>8, <1>10, <1>11, <1>12 DEF Inv

LEMMA NextKeeps == ASSUME Inv, [Next]_vars PROVE Inv'
<1>1. ASSUME NEW r \in Requests, NEW g \in Groups, NEW n \in Amounts, PreConsume(r, g, n) PROVE Inv'
    BY <1>1, PreConsumeKeeps
<1>2. ASSUME NEW r \in Requests, NEW d \in Changes, Reserve(r, d) PROVE Inv'
    BY <1>2, ReserveKeeps
<1>3. ASSUME NEW r \in Requests, NEW d \in Signed, Settle(r, d) \/ AdjustTask(r, d) PROVE Inv'
    BY <1>3, SettleKeeps
<1>4. ASSUME NEW r \in Requests, SettleExactly(r) \/ BeginRefund(r) PROVE Inv'
    BY <1>4, SettledOrRefundingKeeps
<1>5. ASSUME NEW r \in Requests, RefundRecord(r) \/ ReturnReserved(r) PROVE Inv'
    BY <1>5, RefundRecordKeeps, ReturnReservedKeeps
<1>6. ASSUME NEW r \in Requests, Begin(r) \/ Refuse(r) PROVE Inv'
    BY <1>6, BeginKeeps, RefuseKeeps
<1>7. CASE Request
    BY <1>1, <1>2, <1>3, <1>4, <1>5, <1>6, <1>7 DEF Request
<1>8. ASSUME NEW s \in Subs, ReadAgain(s) \/ ResetTotal(s) \/ ResetWeekly(s) PROVE Inv'
    BY <1>8, ReadAgainKeeps, ResetTotalKeeps, ResetWeeklyKeeps
<1>9. CASE Maintain
    BY <1>8, <1>9, ListTotalsKeeps, ListWeeklyKeeps, EndTaskKeeps DEF Maintain
<1>10. CASE Tick
    BY <1>10, TickKeeps
<1>11. ASSUME NEW s \in Subs, SwitchLimit(s) PROVE Inv'
    BY <1>11, SwitchLimitKeeps
<1>12. CASE UNCHANGED vars
  <2>1. task' = task /\ UNCHANGED <<now, row, bucket, record, session, view, resets, overtaken>>
    BY <1>12 DEF vars
  <2>2. task' \in TaskType /\ TaskOK(task', now)
    BY <2>1, TaskIs
  <2>3. QED
    BY <2>1, <2>2, TaskStep
<1>13. QED
    BY <1>7, <1>9, <1>10, <1>11, <1>12 DEF Next

-----------------------------------------------------------------------------
(* The invariant of the runs, for every value of the constants.            *)

(* The records and the sessions stay consistent through every transaction of the  *)
(* requests and of the maintenance task, in whatever order their reads and        *)
(* commits come; so do the totals and the buckets of every subscription on which  *)
(* no transaction was overtaken.                                                  *)
THEOREM SubscriptionInvariant == Spec => []Inv
<1>1. Init => Inv
    BY InitInv
<1>2. Inv /\ [Next]_vars => Inv'
    BY NextKeeps
<1>3. QED
    BY <1>1, <1>2, PTL DEF Spec

(* Every variable has the values the code gives it; no usage is negative.         *)
THEOREM SubscriptionTypeCorrect == Spec => []TypeOK
<1>1. Inv => TypeOK
    BY DEF Inv
<1>2. QED
    BY <1>1, SubscriptionInvariant, PTL

(* A subscription is not charged for more than its requests hold, neither in the  *)
(* total nor in a bucket of the moment, until a transaction saves what another    *)
(* one changed after it was read.                                                 *)
THEOREM NeverOvercharged == Spec => []NotOvercharged
<1>1. Inv => NotOvercharged
  <2>1. SUFFICES ASSUME Inv, NEW s \in Subs, NEW k \in Kinds, overtaken[s] = 0
                 PROVE  /\ row[s].used <= Held(s)
                        /\ Window(s, k, now) # None => bucket[s][k][Window(s, k, now)] <= Held(s)
    BY DEF NotOvercharged, Kinds
  <2>2. row[s].used <= Held(s)
    BY <2>1 DEF Inv, Bounded
  <2>3. CASE Window(s, k, now) # None
    <3>1. PICK w \in 0 .. MaxTime : w = Window(s, k, now)
      BY <2>1, TypesAre, WindowsAre DEF Inv
    <3>2. bucket[s][k][w] <= Share(s, k) /\ bucket[s][k][w] \in Nat
      <4>1. bucket[s][k][w] \in Nat
        BY <2>1, TypesAre, BucketNat DEF Inv
      <4>2. QED
        BY <2>1, <2>3, <3>1, <4>1 DEF Inv, BucketOK
    <3>3. Share(s, k) \in Nat /\ Held(s) \in Nat /\ Share(s, k) <= Held(s)
      BY <2>1, HeldNat DEF Inv
    <3>4. QED
      BY <2>2, <3>1, <3>2, <3>3
  <2>4. QED
    BY <2>2, <2>3
<1>2. QED
    BY <1>1, SubscriptionInvariant, PTL

(* Until a reset, and as long as no transaction was overtaken, the total is       *)
(* exactly what the requests hold: no refund is given twice and no usage is       *)
(* forgotten.                                                                     *)
THEOREM ExactBeforeReset == Spec => []ExactUntilReset
<1>1. Inv => ExactUntilReset
    BY DEF Inv, Bounded, ExactUntilReset
<1>2. QED
    BY <1>1, SubscriptionInvariant, PTL

(* The total of a normal plan is never exceeded, lost updates or not.             *)
THEOREM TotalNeverExceeded == Spec => []WithinTotal
<1>1. Inv => WithinTotal
    BY DEF Inv, Capped, WithinTotal
<1>2. QED
    BY <1>1, SubscriptionInvariant, PTL

(* The requests and the task together reset a total at most once per period, as   *)
(* long as no transaction on the subscription was overtaken.                      *)
THEOREM OneResetPerPeriod == Spec => []ResetOncePerPeriod
<1>1. Inv => ResetOncePerPeriod
  <2>1. SUFFICES ASSUME Inv, NEW s \in Subs, overtaken[s] = 0, Plan[s].reset > 0
                 PROVE  resets[s] <= (now - Start) \div Plan[s].reset
    BY DEF ResetOncePerPeriod
  <2>2. PICK c \in Nat, x \in Nat, y \in Nat, q \in Nat \ {0} :
            c = resets[s] /\ x = row[s].last - Start /\ y = now - Start /\ q = Plan[s].reset /\ x <= y
    <3>1. row[s].last \in Nat /\ now \in Nat /\ resets[s] \in Nat /\ Plan[s].reset \in Nat \ {0}
      BY <2>1, TypesAre, PlanIs DEF Inv, RowType
    <3>2. Start <= row[s].last /\ row[s].last <= now
      BY <2>1 DEF Inv, Periodic
    <3>3. row[s].last - Start \in Nat /\ now - Start \in Nat /\ row[s].last - Start <= now - Start
      BY <3>1, <3>2 DEF Start
    <3>4. QED
      BY <3>1, <3>3
  <2>3. c <= x \div q
    BY <2>1, <2>2 DEF Inv, Periodic
  <2>4. y \div q >= x \div q /\ x \div q \in Nat /\ y \div q \in Nat
    BY <2>2, DivNat, DivGrows
  <2>5. QED
    BY <2>2, <2>3, <2>4
<1>2. QED
    BY <1>1, SubscriptionInvariant, PTL
=============================================================================
