--------------------------- MODULE QuotaStoreProofs ---------------------------
(***************************************************************************)
(* The quota store is type-correct and implements the account, for any     *)
(* users, amounts and bounds.                                              *)
(***************************************************************************)
EXTENDS QuotaStore, TLAPS

LEMMA DeltasAreInts == Deltas \subseteq Int
<1> SUFFICES ASSUME NEW d \in Deltas PROVE d \in Int
    OBVIOUS
<1>1. CASE d \in Amounts
    BY <1>1, AmountsAssumption
<1>2. CASE d \in {-a : a \in Amounts}
  <2>1. PICK a \in Amounts : d = -a
      BY <1>2
  <2>2. QED
      BY <2>1, AmountsAssumption
<1>3. QED
    BY <1>1, <1>2 DEF Deltas

LEMMA PlusType ==
    ASSUME NEW f \in [Users -> Int], NEW u \in Users, NEW d \in Int
    PROVE  Plus(f, u, d) \in [Users -> Int]
    BY DEF Plus

CacheType == [Users -> [quota : Int, ttl : BOOLEAN, there : BOOLEAN]]
JobType == [id : Nat, kind : {"adjust", "field", "object"}, user : Users, n : Int, checked : BOOLEAN]

LEMMA JobIsTyped ==
    ASSUME NEW i \in Nat, NEW kind \in {"adjust", "field", "object"}, NEW u \in Users, NEW n \in Int
    PROVE  Job(i, kind, u, n) \in JobType
    BY DEF Job, JobType

LEMMA WrittenIsTyped ==
    ASSUME TypeOK, NEW j \in jobs
    PROVE  Written(j) \in [quota : Int, ttl : BOOLEAN, there : BOOLEAN]
<1>1. j \in JobType /\ cache[j.user] \in [quota : Int, ttl : BOOLEAN, there : BOOLEAN]
    BY DEF TypeOK, JobType
<1>2. Written(j) \in {Cached(cache[j.user].quota + j.n), Cached(j.n)}
    BY <1>1 DEF Written, JobType
<1>3. \A q \in Int : Cached(q) \in [quota : Int, ttl : BOOLEAN, there : BOOLEAN]
    BY DEF Cached
<1>4. cache[j.user].quota + j.n \in Int /\ j.n \in Int
    BY <1>1 DEF JobType
<1>5. QED
    BY <1>2, <1>3, <1>4

LEMMA ZeroIsTyped == Zero \in [Users -> Int]
    BY DEF Zero

(* Init gives every variable a value of its type. *)
LEMMA TypeInit == Init => TypeOK
<1> SUFFICES ASSUME Init PROVE TypeOK
    OBVIOUS
<1>1. batch \in BOOLEAN /\ flushing \in BOOLEAN /\ jobs = {}
    BY BatchAssumption DEF Init
<1>2. db \in [Users -> Int] /\ cache \in CacheType
    BY InitialAssumption DEF Init, Absent, CacheType
<1>3. stored \in [Users -> Int] /\ taking \in [Users -> Int]
         /\ accepted \in [Users -> Int] /\ lost \in [Users -> Int]
    BY ZeroIsTyped DEF Init
<1>4. ops \in 0 .. MaxOps /\ faults \in 0 .. MaxFaults
    BY BoundsAssumption DEF Init
<1>5. QED
    BY <1>1, <1>2, <1>3, <1>4 DEF TypeOK, CacheType

LEMMA TypeBegin ==
    ASSUME TypeOK, NEW u \in Users, NEW d \in Int, Begin(u, d)
    PROVE  /\ ops' \in 0 .. MaxOps /\ jobs' \subseteq JobType
           /\ batch' \in BOOLEAN /\ flushing' \in BOOLEAN /\ taking' \in [Users -> Int]
           /\ cache' \in CacheType /\ lost' \in [Users -> Int]
<1>1. Job(ops, "adjust", u, d) \in JobType
  <2>1. ops \in Nat
      BY BoundsAssumption DEF TypeOK
  <2>2. QED
      BY <2>1, JobIsTyped
<1>2. jobs \subseteq JobType
    BY DEF TypeOK, JobType
<1>3. ops' \in 0 .. MaxOps
    BY BoundsAssumption DEF Begin, TypeOK
<1>4. QED
    BY <1>1, <1>2, <1>3 DEF Begin, TypeOK, CacheType

LEMMA TypeChange == TypeOK /\ Change => TypeOK'
<1> SUFFICES ASSUME TypeOK, Change PROVE TypeOK'
    OBVIOUS
<1>1. PICK u \in Users : \/ \E d \in Deltas : BookInBatch(u, d) \/ BookInDB(u, d) \/ BookFails(u, d)
                         \/ \E n \in Amounts : Redeem(u, n)
    BY DEF Change
<1>2. CASE \E d \in Deltas : BookInBatch(u, d) \/ BookInDB(u, d) \/ BookFails(u, d)
  <2>1. PICK d \in Deltas : BookInBatch(u, d) \/ BookInDB(u, d) \/ BookFails(u, d)
      BY <1>2
  <2>2. d \in Int
      BY DeltasAreInts
  <2>3. Begin(u, d)
      BY <2>1 DEF BookInBatch, BookInDB, BookFails
  <2>4. /\ ops' \in 0 .. MaxOps /\ jobs' \subseteq JobType
        /\ batch' \in BOOLEAN /\ flushing' \in BOOLEAN /\ taking' \in [Users -> Int]
        /\ cache' \in CacheType /\ lost' \in [Users -> Int]
      BY <2>2, <2>3, TypeBegin
  <2>5. Plus(stored, u, d) \in [Users -> Int] /\ Plus(db, u, d) \in [Users -> Int]
           /\ Plus(accepted, u, d) \in [Users -> Int]
      BY <2>2, PlusType DEF TypeOK
  <2>6. stored' \in [Users -> Int] /\ db' \in [Users -> Int] /\ accepted' \in [Users -> Int]
      BY <2>1, <2>5 DEF BookInBatch, BookInDB, BookFails, TypeOK
  <2>7. faults' \in 0 .. MaxFaults
      BY <2>1, BoundsAssumption DEF BookInBatch, BookInDB, BookFails, TypeOK
  <2>8. QED
      BY <2>4, <2>6, <2>7 DEF TypeOK, CacheType, JobType
<1>3. CASE \E n \in Amounts : Redeem(u, n)
  <2>1. PICK n \in Amounts : Redeem(u, n)
      BY <1>3
  <2>2. n \in Int
      BY AmountsAssumption
  <2>3. Plus(db, u, n) \in [Users -> Int] /\ Plus(accepted, u, n) \in [Users -> Int]
      BY <2>2, PlusType DEF TypeOK
  <2>4. QED
      BY <2>1, <2>3, BoundsAssumption DEF Redeem, TypeOK
<1>4. QED
    BY <1>1, <1>2, <1>3

LEMMA TypeFlush == TypeOK /\ (Flush \/ Crash) => TypeOK'
<1> SUFFICES ASSUME TypeOK, Flush \/ Crash PROVE TypeOK'
    OBVIOUS
<1>1. CASE TakeStore
    BY <1>1, ZeroIsTyped DEF TakeStore, TypeOK
<1>2. CASE EndFlush
    BY <1>2 DEF EndFlush, TypeOK
<1>3. ASSUME NEW u \in Users, FlushUser(u)
      PROVE  TypeOK'
  <2>1. Plus(db, u, taking[u]) \in [Users -> Int]
      BY PlusType DEF TypeOK
  <2>2. QED
      BY <1>3, <2>1 DEF FlushUser, TypeOK
<1>4. ASSUME NEW u \in Users, FlushUserFails(u)
      PROVE  TypeOK'
  <2>1. Plus(lost, u, taking[u]) \in [Users -> Int]
      BY PlusType DEF TypeOK
  <2>2. QED
      BY <1>4, <2>1, BoundsAssumption DEF FlushUserFails, TypeOK
<1>5. CASE Crash
  <2>1. lost' \in [Users -> Int]
      BY <1>5 DEF Crash, TypeOK
  <2>2. faults' \in 0 .. MaxFaults
      BY <1>5, BoundsAssumption DEF Crash, TypeOK
  <2>3. stored' \in [Users -> Int] /\ taking' \in [Users -> Int]
      BY <1>5, ZeroIsTyped DEF Crash
  <2>4. QED
      BY <1>5, <2>1, <2>2, <2>3 DEF Crash, TypeOK
<1>6. QED
    BY <1>1, <1>2, <1>3, <1>4, <1>5 DEF Flush

LEMMA TypeCache == TypeOK /\ (Read \/ Background \/ \E u \in Users : Expire(u)) => TypeOK'
<1> SUFFICES ASSUME TypeOK, Read \/ Background \/ \E u \in Users : Expire(u) PROVE TypeOK'
    OBVIOUS
<1>1. ASSUME NEW u \in Users, GetUserCache(u)
      PROVE  TypeOK'
  <2>1. PICK i \in Slots : jobs' = jobs \union {Job(i, "object", u, db[u])}
      BY <1>1 DEF GetUserCache
  <2>2. i \in Nat /\ db[u] \in Int
      BY BoundsAssumption DEF Slots, TypeOK
  <2>3. Job(i, "object", u, db[u]) \in JobType
      BY <2>2, JobIsTyped
  <2>4. QED
      BY <1>1, <2>1, <2>3 DEF GetUserCache, TypeOK, JobType
<1>2. ASSUME NEW u \in Users, GetUserQuota(u)
      PROVE  TypeOK'
  <2>1. PICK i \in Slots : jobs' = jobs \union {Job(i, "field", u, db[u])}
      BY <1>2 DEF GetUserQuota
  <2>2. i \in Nat /\ db[u] \in Int
      BY BoundsAssumption DEF Slots, TypeOK
  <2>3. Job(i, "field", u, db[u]) \in JobType
      BY <2>2, JobIsTyped
  <2>4. ops' \in 0 .. MaxOps
      BY <1>2, BoundsAssumption DEF GetUserQuota, TypeOK
  <2>5. QED
      BY <1>2, <2>1, <2>3, <2>4 DEF GetUserQuota, TypeOK, JobType
<1>3. ASSUME NEW j \in jobs, CheckTTL(j)
      PROVE  TypeOK'
  <2>1. [j EXCEPT !.checked = TRUE] \in JobType
      BY DEF TypeOK, JobType
  <2>2. jobs' \subseteq JobType
      BY <1>3, <2>1 DEF CheckTTL, TypeOK, JobType
  <2>3. QED
      BY <1>3, <2>2 DEF CheckTTL, TypeOK, JobType
<1>4. ASSUME NEW j \in jobs, WriteCache(j)
      PROVE  TypeOK'
  <2>1. Written(j) \in [quota : Int, ttl : BOOLEAN, there : BOOLEAN]
      BY WrittenIsTyped
  <2>2. cache' \in CacheType
      BY <1>4, <2>1 DEF WriteCache, TypeOK, CacheType
  <2>3. QED
      BY <1>4, <2>2 DEF WriteCache, TypeOK, CacheType
<1>5. ASSUME NEW u \in Users, Expire(u)
      PROVE  TypeOK'
    BY <1>5 DEF Expire, TypeOK, Absent
<1>6. QED
    BY <1>1, <1>2, <1>3, <1>4, <1>5 DEF Read, Background

LEMMA TypeStep == TypeOK /\ [Next]_vars => TypeOK'
<1> SUFFICES ASSUME TypeOK, [Next]_vars PROVE TypeOK'
    OBVIOUS
<1>1. CASE UNCHANGED vars
    BY <1>1 DEF vars, TypeOK
<1>2. QED
    BY <1>1, TypeChange, TypeFlush, TypeCache DEF Next

(* Every variable of the store keeps its type: amounts stay integers through    *)
(* batches and crashes, and the counters within their bounds.                   *)
THEOREM TypeCorrect == Spec => []TypeOK
    BY TypeInit, TypeStep, PTL DEF Spec

-----------------------------------------------------------------------------
(* The refinement: Balance for the account's balance.                       *)

(* Between two flushes no map is taken. *)
Flushed == ~flushing => taking = Zero

LEMMA FlushedInit == Init => Flushed
    BY DEF Init, Flushed

LEMMA FlushedStep == Flushed /\ [Next]_vars => Flushed'
<1> SUFFICES ASSUME Flushed, [Next]_vars PROVE Flushed'
    OBVIOUS
<1>1. CASE UNCHANGED <<flushing, taking>>
    BY <1>1 DEF Flushed, Zero
<1>2. CASE Flush \/ Crash
    BY <1>2 DEF Flushed, Flush, TakeStore, EndFlush, FlushUser, FlushUserFails, Crash, Zero
<1>3. QED
    BY <1>1, <1>2 DEF Next, vars, Change, BookInBatch, BookInDB, BookFails, Begin, Redeem, Read,
                      Background, GetUserCache, GetUserQuota, CheckTTL, WriteCache, Expire

LEMMA AccountInit == Init => A!Init
<1> SUFFICES ASSUME Init PROVE A!Init
    OBVIOUS
<1>1. Balance \in [Users -> Int]
    BY InitialAssumption DEF Balance, Init, Zero
<1>2. QED
    BY <1>1 DEF A!Init, Init, Zero

AccountVars == <<Balance, accepted, lost>>

LEMMA BookingsSimulate == TypeOK /\ Change => [A!Next]_AccountVars
<1> SUFFICES ASSUME TypeOK, Change PROVE [A!Next]_AccountVars
    OBVIOUS
<1>1. ASSUME NEW u \in Users, NEW d \in Deltas, BookInBatch(u, d)
      PROVE  A!Book(u, d)
  <2>1. d \in Int
      BY DeltasAreInts
  <2>2. \A v \in Users : db'[v] + stored'[v] + taking'[v]
                              = db[v] + stored[v] + taking[v] + (IF v = u THEN d ELSE 0)
      BY <1>1, <2>1 DEF BookInBatch, Begin, Plus, TypeOK
  <2>3. Balance' = [Balance EXCEPT ![u] = @ + d]
    <3>1. \A v \in Users : Balance'[v] = [Balance EXCEPT ![u] = @ + d][v]
        BY <2>1, <2>2 DEF Balance, TypeOK
    <3>2. QED
        BY <3>1 DEF Balance
  <2>4. QED
      BY <1>1, <2>3 DEF BookInBatch, Begin, Plus, A!Book
<1>2. ASSUME NEW u \in Users, NEW d \in Deltas, BookInDB(u, d)
      PROVE  A!Book(u, d)
  <2>1. d \in Int
      BY DeltasAreInts
  <2>2. \A v \in Users : db'[v] + stored'[v] + taking'[v]
                              = db[v] + stored[v] + taking[v] + (IF v = u THEN d ELSE 0)
      BY <1>2, <2>1 DEF BookInDB, Begin, Plus, TypeOK
  <2>3. Balance' = [Balance EXCEPT ![u] = @ + d]
    <3>1. \A v \in Users : Balance'[v] = [Balance EXCEPT ![u] = @ + d][v]
        BY <2>1, <2>2 DEF Balance, TypeOK
    <3>2. QED
        BY <3>1 DEF Balance
  <2>4. QED
      BY <1>2, <2>3 DEF BookInDB, Begin, Plus, A!Book
<1>3. ASSUME NEW u \in Users, NEW d \in Deltas, BookFails(u, d)
      PROVE  UNCHANGED AccountVars
    BY <1>3 DEF BookFails, Begin, AccountVars, Balance
<1>4. ASSUME NEW u \in Users, NEW n \in Amounts, Redeem(u, n)
      PROVE  A!Book(u, n)
  <2>1. n \in Int
      BY AmountsAssumption
  <2>2. \A v \in Users : db'[v] + stored'[v] + taking'[v]
                              = db[v] + stored[v] + taking[v] + (IF v = u THEN n ELSE 0)
      BY <1>4, <2>1 DEF Redeem, Plus, TypeOK
  <2>3. Balance' = [Balance EXCEPT ![u] = @ + n]
    <3>1. \A v \in Users : Balance'[v] = [Balance EXCEPT ![u] = @ + n][v]
        BY <2>1, <2>2 DEF Balance, TypeOK
    <3>2. QED
        BY <3>1 DEF Balance
  <2>4. QED
      BY <1>4, <2>3 DEF Redeem, Plus, A!Book
<1>5. Amounts \subseteq Deltas
    BY DEF Deltas
<1>6. QED
    BY <1>1, <1>2, <1>3, <1>4, <1>5 DEF Change, A!Next

(* A flush moves an amount from the map to the row; a fault moves it to lost. *)
LEMMA FlushesSimulate == TypeOK /\ Flushed /\ (Flush \/ Crash) => [A!Next]_AccountVars
<1> SUFFICES ASSUME TypeOK, Flushed, Flush \/ Crash PROVE [A!Next]_AccountVars
    OBVIOUS
<1>1. CASE TakeStore
  <2>1. stored' = Zero /\ taking' = stored /\ taking = Zero /\ UNCHANGED <<db, accepted, lost>>
      BY <1>1 DEF TakeStore, Flushed
  <2>2. \A v \in Users : db'[v] + stored'[v] + taking'[v] = db[v] + stored[v] + taking[v]
      BY <2>1 DEF TypeOK, Zero
  <2>3. QED
      BY <2>1, <2>2 DEF AccountVars, Balance
<1>2. CASE EndFlush
    BY <1>2 DEF EndFlush, AccountVars, Balance
<1>3. ASSUME NEW u \in Users, FlushUser(u)
      PROVE  UNCHANGED AccountVars
  <2>1. \A v \in Users : db'[v] + stored'[v] + taking'[v] = db[v] + stored[v] + taking[v]
      BY <1>3 DEF FlushUser, Plus, TypeOK
  <2>2. QED
      BY <1>3, <2>1 DEF FlushUser, AccountVars, Balance
<1>4. ASSUME NEW u \in Users, FlushUserFails(u)
      PROVE  A!Lose
  <2>1. lost' \in [Users -> Int]
      BY <1>4 DEF FlushUserFails, Plus, TypeOK
  <2>2. \A v \in Users : db'[v] + stored'[v] + taking'[v]
                              = db[v] + stored[v] + taking[v] + lost[v] - lost'[v]
      BY <1>4 DEF FlushUserFails, Plus, TypeOK
  <2>. Balance' = [v \in Users |-> Balance[v] + lost[v] - lost'[v]]
      BY <2>2 DEF Balance
  <2>3. QED
      BY <1>4, <2>1, <2>2 DEF FlushUserFails, A!Lose
<1>5. CASE Crash
  <2>1. lost' \in [Users -> Int]
      BY <1>5 DEF Crash, TypeOK
  <2>2. \A v \in Users : db'[v] + stored'[v] + taking'[v]
                              = db[v] + stored[v] + taking[v] + lost[v] - lost'[v]
      BY <1>5 DEF Crash, TypeOK, Zero
  <2>. Balance' = [v \in Users |-> Balance[v] + lost[v] - lost'[v]]
      BY <2>2 DEF Balance
  <2>3. QED
      BY <1>5, <2>1, <2>2 DEF Crash, A!Lose, A!Next
<1>6. QED
    BY <1>1, <1>2, <1>3, <1>4, <1>5 DEF Flush, A!Next

LEMMA CacheSimulates ==
    (Read \/ Background \/ \E u \in Users : Expire(u)) => UNCHANGED AccountVars
<1>1. (Read \/ Background \/ \E u \in Users : Expire(u)) => UNCHANGED <<db, stored, taking, accepted, lost>>
    BY DEF Read, Background, GetUserCache, GetUserQuota, CheckTTL, WriteCache, Expire
<1>2. QED
    BY <1>1 DEF AccountVars, Balance

LEMMA StepSimulates == TypeOK /\ Flushed /\ [Next]_vars => [A!Next]_AccountVars
<1>1. UNCHANGED vars => UNCHANGED AccountVars
    BY DEF vars, AccountVars, Balance
<1>2. QED
    BY <1>1, BookingsSimulate, FlushesSimulate, CacheSimulates DEF Next

(* The store implements the account: whatever the order of bookings, flushes,   *)
(* faults and crashes, an accepted change reaches the balance once, or a fault  *)
(* of the database or the process lost it; the cache never changes the balance. *)
THEOREM StoreImplementsAccount == Spec => ImplementsAccount
<1>1. Init => TypeOK /\ Flushed /\ A!Init
    BY TypeInit, FlushedInit, AccountInit
<1>2. TypeOK /\ Flushed /\ [Next]_vars => TypeOK' /\ Flushed' /\ [A!Next]_<<Balance, accepted, lost>>
    BY TypeStep, FlushedStep, StepSimulates DEF AccountVars
<1>3. QED
    BY <1>1, <1>2, PTL DEF Spec, ImplementsAccount, A!Spec
=============================================================================
