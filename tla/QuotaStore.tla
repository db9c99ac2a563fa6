----------------------------- MODULE QuotaStore -----------------------------
(***************************************************************************)
(* The quota of users as the server keeps it (model/user.go, model/utils.go,*)
(* model/user_cache.go): the database row, the batch store that collects    *)
(* changes until the updater flushes them, and a copy in Redis that          *)
(* background goroutines adjust and refill.  The quota of tokens            *)
(* (model/token.go, model/token_cache.go) is kept in the same way.          *)
(*                                                                          *)
(* A statement, a Redis transaction and a section under a batch lock are    *)
(* one step each; the goroutines' steps interleave with everything else.    *)
(***************************************************************************)
EXTENDS Integers, FiniteSets

CONSTANTS
    Users,
    Amounts,      \* amounts of credits and deductions
    Initial,      \* quota of a user at first
    BatchModes,   \* values of common.BatchUpdateEnabled
    MaxOps,       \* bound: changes and fresh reads
    MaxRefills,   \* bound: refills under way at a time
    MaxFaults     \* bound: failing statements and crashes

ASSUME AmountsAssumption == Amounts \subseteq Nat
ASSUME InitialAssumption == Initial \in Int
ASSUME BatchAssumption == BatchModes \subseteq BOOLEAN
ASSUME BoundsAssumption == MaxOps \in Nat /\ MaxRefills \in Nat /\ MaxFaults \in Nat

VARIABLES
    batch,        \* common.BatchUpdateEnabled
    db,           \* the quota column
    stored,       \* batchUpdateStores[BatchUpdateTypeUserQuota]
    taking,       \* the map a running flush has taken
    flushing,     \* is a flush running?
    cache,        \* the hash in Redis, or Absent
    jobs,         \* goroutines that write to Redis
    accepted,     \* history: the changes accepted for each user
    lost,         \* history: those of them that a fault lost
    ops, faults

vars == <<batch, db, stored, taking, flushing, cache, jobs, accepted, lost, ops, faults>>

Deltas == Amounts \union {-a : a \in Amounts}
Zero == [u \in Users |-> 0]
Plus(f, u, d) == [f EXCEPT ![u] = @ + d]

(* The hash of a user, of which only the quota counts; ttl: it will expire. *)
Absent == [quota |-> 0, ttl |-> FALSE, there |-> FALSE]
Cached(q) == [quota |-> q, ttl |-> TRUE, there |-> TRUE]

(***************************************************************************)
(* Background goroutines: "adjust" is RedisHIncrBy, "field" RedisHSetField, *)
(* "object" RedisHSetObj.  The first two look at the TTL and write later.   *)
(***************************************************************************)
Job(i, kind, u, n) == [id |-> i, kind |-> kind, user |-> u, n |-> n, checked |-> FALSE]

Init ==
    /\ batch \in BatchModes
    /\ db = [u \in Users |-> Initial]
    /\ stored = Zero /\ taking = Zero /\ flushing = FALSE
    /\ cache = [u \in Users |-> Absent]
    /\ jobs = {} /\ accepted = Zero /\ lost = Zero
    /\ ops = 0 /\ faults = 0

(***************************************************************************)
(* IncreaseUserQuota and DecreaseUserQuota.  The goroutine for Redis is     *)
(* started first, whatever becomes of the statement.                        *)
(***************************************************************************)
Begin(u, d) ==
    /\ ops < MaxOps
    /\ ops' = ops + 1
    /\ jobs' = jobs \union {Job(ops, "adjust", u, d)}
    /\ UNCHANGED <<batch, taking, flushing, cache, lost>>

(* addNewRecord *)
BookInBatch(u, d) ==
    /\ batch
    /\ Begin(u, d)
    /\ stored' = Plus(stored, u, d)
    /\ accepted' = Plus(accepted, u, d)
    /\ UNCHANGED <<db, faults>>

(* Without batching, or with the argument db *)
BookInDB(u, d) ==
    /\ Begin(u, d)
    /\ db' = Plus(db, u, d)
    /\ accepted' = Plus(accepted, u, d)
    /\ UNCHANGED <<stored, faults>>

BookFails(u, d) ==
    /\ faults < MaxFaults
    /\ Begin(u, d)
    /\ faults' = faults + 1
    /\ UNCHANGED <<db, stored, accepted>>

(* Redeem and Recharge add to the row in their transaction and leave Redis alone. *)
Redeem(u, n) ==
    /\ ops < MaxOps
    /\ ops' = ops + 1
    /\ db' = Plus(db, u, n)
    /\ accepted' = Plus(accepted, u, n)
    /\ UNCHANGED <<batch, stored, taking, flushing, cache, jobs, lost, faults>>

(***************************************************************************)
(* batchUpdate: take the map, then one statement per entry; an error is     *)
(* only logged.                                                             *)
(***************************************************************************)
(* Mutant: the map that is being flushed stays in place. *)
TakeStoreShared ==
    /\ batch /\ ~flushing /\ stored # Zero
    /\ taking' = stored
    /\ flushing' = TRUE
    /\ UNCHANGED <<batch, accepted, db, stored, cache, jobs, lost, ops, faults>>

TakeStore ==
    /\ batch /\ ~flushing /\ stored # Zero
    /\ taking' = stored
    /\ stored' = Zero
    /\ flushing' = TRUE
    /\ UNCHANGED <<batch, accepted, db, cache, jobs, lost, ops, faults>>

FlushUser(u) ==
    /\ flushing /\ taking[u] # 0
    /\ db' = Plus(db, u, taking[u])
    /\ taking' = [taking EXCEPT ![u] = 0]
    /\ UNCHANGED <<batch, accepted, stored, flushing, cache, jobs, lost, ops, faults>>

FlushUserFails(u) ==
    /\ flushing /\ taking[u] # 0 /\ faults < MaxFaults
    /\ lost' = Plus(lost, u, taking[u])
    /\ taking' = [taking EXCEPT ![u] = 0]
    /\ faults' = faults + 1
    /\ UNCHANGED <<batch, accepted, db, stored, flushing, cache, jobs, ops>>

EndFlush ==
    /\ flushing /\ taking = Zero
    /\ flushing' = FALSE
    /\ UNCHANGED <<batch, accepted, db, stored, taking, cache, jobs, lost, ops, faults>>

(* The process dies and is started again: the maps and the goroutines are gone. *)
Crash ==
    /\ faults < MaxFaults
    /\ faults' = faults + 1
    /\ lost' = [u \in Users |-> lost[u] + stored[u] + taking[u]]
    /\ stored' = Zero /\ taking' = Zero /\ flushing' = FALSE
    /\ jobs' = {}
    /\ UNCHANGED <<batch, accepted, db, cache, ops>>

(***************************************************************************)
(* Reads.  GetUserCache misses and reads the row, which does not hold the   *)
(* changes of the batch yet; GetUserQuota may read the row at any time.     *)
(* Either starts a goroutine that writes what was read, also when others    *)
(* are on their way already.                                                *)
(***************************************************************************)
InSlot(i) == \E j \in jobs : j.kind # "adjust" /\ j.id = i
Slots == {i \in 1 .. MaxRefills : ~InSlot(i) /\ \A k \in 1 .. i - 1 : InSlot(k)}

GetUserCache(u) ==
    /\ ~cache[u].there
    /\ \E i \in Slots : jobs' = jobs \union {Job(i, "object", u, db[u])}
    /\ UNCHANGED <<batch, accepted, db, stored, taking, flushing, cache, lost, ops, faults>>

GetUserQuota(u) ==
    /\ ops < MaxOps
    /\ ops' = ops + 1
    /\ \E i \in Slots : jobs' = jobs \union {Job(i, "field", u, db[u])}
    /\ UNCHANGED <<batch, accepted, db, stored, taking, flushing, cache, lost, faults>>

(* The TTL of the key: without the key the goroutine ends. *)
CheckTTL(j) ==
    /\ j.kind # "object" /\ ~j.checked
    /\ jobs' = (jobs \ {j}) \union
                  (IF cache[j.user].there THEN {[j EXCEPT !.checked = TRUE]} ELSE {})
    /\ UNCHANGED <<batch, accepted, db, stored, taking, flushing, cache, lost, ops, faults>>

(* Mutant: RedisHSetObj sets no expiration. *)
WrittenForever(j) ==
    LET c == cache[j.user] IN
    CASE j.kind = "adjust" -> [c EXCEPT !.quota = @ + j.n, !.there = TRUE]
      [] j.kind = "field"  -> [c EXCEPT !.quota = j.n, !.there = TRUE]
      [] j.kind = "object" -> [Cached(j.n) EXCEPT !.ttl = FALSE]

(* The write: on a key that is gone by now HINCRBY and HSET make a new hash. *)
Written(j) ==
    LET c == cache[j.user] IN
    CASE j.kind = "adjust" -> Cached(c.quota + j.n)
      [] j.kind = "field"  -> Cached(j.n)
      [] j.kind = "object" -> Cached(j.n)

WriteCache(j) ==
    /\ j.kind = "object" \/ j.checked
    /\ cache' = [cache EXCEPT ![j.user] = Written(j)]
    /\ jobs' = jobs \ {j}
    /\ UNCHANGED <<batch, accepted, db, stored, taking, flushing, lost, ops, faults>>

Expire(u) ==
    /\ cache[u].there /\ cache[u].ttl
    /\ cache' = [cache EXCEPT ![u] = Absent]
    /\ UNCHANGED <<batch, accepted, db, stored, taking, flushing, jobs, lost, ops, faults>>

Change == \E u \in Users :
             \/ \E d \in Deltas : BookInBatch(u, d) \/ BookInDB(u, d) \/ BookFails(u, d)
             \/ \E n \in Amounts : Redeem(u, n)
Flush == TakeStore \/ EndFlush \/ \E u \in Users : FlushUser(u) \/ FlushUserFails(u)
Read == \E u \in Users : GetUserCache(u) \/ GetUserQuota(u)
Background == \E j \in jobs : CheckTTL(j) \/ WriteCache(j)

Next == Change \/ Flush \/ Crash \/ Read \/ Background \/ \E u \in Users : Expire(u)

(* The updater runs on a ticker, goroutines are scheduled, keys expire. *)
Fairness == /\ WF_vars(Flush)
            /\ WF_vars(Background)
            /\ \A u \in Users : WF_vars(Expire(u))

Spec == Init /\ [][Next]_vars /\ Fairness

(***************************************************************************)
(* Properties                                                               *)
(***************************************************************************)
(* Every variable has the values the code gives it. *)
TypeOK ==
    /\ batch \in BOOLEAN /\ flushing \in BOOLEAN
    /\ db \in [Users -> Int] /\ stored \in [Users -> Int] /\ taking \in [Users -> Int]
    /\ accepted \in [Users -> Int] /\ lost \in [Users -> Int]
    /\ cache \in [Users -> [quota : Int, ttl : BOOLEAN, there : BOOLEAN]]
    /\ jobs \subseteq [id : Nat, kind : {"adjust", "field", "object"}, user : Users,
                       n : Int, checked : BOOLEAN]
    /\ ops \in 0 .. MaxOps /\ faults \in 0 .. MaxFaults

(* The balance is what the row says and what is still on its way to it. *)
Balance == [u \in Users |-> db[u] + stored[u] + taking[u]]
A == INSTANCE Account WITH balance <- Balance

(* The store implements the account: whatever the order of bookings, flushes,    *)
(* faults and crashes, an accepted change is applied once or recorded as lost,   *)
(* and flushing changes nothing a user could notice.                             *)
ImplementsAccount == A!Spec

(* Once a user is left alone the copy in Redis agrees with the row for good,     *)
(* although goroutines write it from old reads and in any order.                 *)
CacheConverges == \A u \in Users : <>[](cache[u].there => cache[u].quota = db[u])
=============================================================================
