------------------------ MODULE RelayAdmissionProofs ------------------------
(***************************************************************************)
(* Safety of the relay's admission, for any requests, channels, limits and *)
(* any pattern of cancellations, deadlines and expiries.                   *)
(*                                                                         *)
(* The invariant has three parts.  Sound(s) speaks of one request alone:   *)
(* what its locals say at each control point.  QueueOK relates the queue   *)
(* and the notifiers to the requests in it.  SlotsAccounted relates the    *)
(* trackers to the slots that requests hold.                               *)
(***************************************************************************)
EXTENDS RelayAdmission, FiniteSetTheorems, SequenceTheorems, WellFoundedInduction, TLAPS

\* Control points of the main loop that a request can come back to.
Looping == {"distribute", "select", "overload", "enqueue", "queued", "waiting"}
\* Control points at which an attempt at req[r].chan is under way.
Trying == {"rpm", "conc", "giveBack", "refused", "admit", "serve"}

\* The main loop chooses ordinary channels unless a transfer chose a fallback; the
\* chain only fallbacks, and never comes back to the loop.
RouteOK(s) ==
    /\ s.pc \in Looping => ~s.onFallback /\ ~s.inChain /\ s.chan \in Primary \cup {NoChannel}
    /\ s.pc \in {"distribute", "select", "overload"} => s.used = {}
    /\ s.pc = "overload" => s.chan \in Primary
    /\ s.pc \in Trying => s.chan \in (IF s.onFallback THEN FallbackSet ELSE Primary)
    /\ s.pc \in Trying /\ s.inChain => s.onFallback
    /\ s.pc = "chain" => s.inChain
    /\ s.pc \in {"after", "retry"} => ~s.inChain
    /\ s.pc = "retry" => s.chan \in Channels
    /\ s.source \/ s.transfer \/ s.hit => s.chan \in Channels

\* What a request holds.  Slots of an earlier fallback are kept in the chain: its
\* channel is then among the used ones.
HeldOK(s) ==
    /\ s.pc \in Looping \cup {"rpm", "refused"} /\ ~s.inChain => s.rpmHeld = {} /\ s.concHeld = {}
    /\ s.pc \in {"conc", "giveBack"} /\ ~s.inChain => s.rpmHeld \subseteq {s.chan} /\ s.concHeld = {}
    /\ s.pc \in Looping \cup (Trying \ {"serve"}) /\ ~s.inChain => ~s.counted
    /\ s.pc \in {"rpm", "refused"} => s.chan \notin s.rpmHeld
    /\ s.pc \in {"rpm", "conc", "giveBack", "refused"} => s.chan \notin s.concHeld
    /\ s.pc = "giveBack" => s.chan \in s.rpmHeld
    /\ s.pc \in {"conc", "admit", "serve"} /\ MaxRPM[s.chan] > 0 => s.chan \in s.rpmHeld
    /\ s.pc \in {"admit", "serve"} /\ MaxConcurrency[s.chan] > 0 => s.chan \in s.concHeld
    /\ s.pc = "conc" /\ MaxRPM[s.chan] = 0 => s.chan \notin s.rpmHeld
    /\ \A c \in FallbackSet : c \in s.rpmHeld \cup s.concHeld =>
          c \in s.used \/ (s.pc \in {"conc", "giveBack", "admit"} /\ c = s.chan)

\* What a request has called.
CalledOK(s) ==
    /\ s.pc \in Looping \cup Trying /\ ~s.inChain => s.called = {}
    /\ s.pc \in Trying => s.chan \notin s.called
    /\ s.pc = "serve" /\ s.onFallback => s.chan \in s.used
    /\ s.pc \notin {"release", "close", "done"} => \A c \in FallbackSet : c \in s.called => c \in s.used

Sound(s) == RouteOK(s) /\ HeldOK(s) /\ CalledOK(s)

\* A request that cannot come to the queue again.
Left(s) == s.inChain \/ s.pc \in {"after", "retry", "release", "close", "done"}

\* The queue holds waiters, each once.
QueuedOnce == \A i, j \in DOMAIN queue : queue[i] = queue[j] => i = j
QueuedWait == \A i \in DOMAIN queue : req[queue[i]].pc \in {"queued", "waiting"} /\ ~req[queue[i]].notified

\* Who is about to be notified has left the queue; it waits, or has seen its
\* deadline, or has left the loop, and has one notifier.
Notifiers == \A q \in Requests : req[q].closes # NoChannel <=> req[q].pc = "close"
NotifiedSoon ==
    \A q, r \in Requests : req[q].closes = r =>
        /\ ~InQueue(r) /\ ~req[r].notified
        /\ req[r].pc \in {"queued", "waiting"} \/ req[r].deadline = "passed" \/ Left(req[r])
OneNotifier == \A p, q \in Requests : req[p].closes = req[q].closes /\ req[p].closes # NoChannel => p = q

\* No waiter is forgotten.
Covered ==
    \A r \in Requests : req[r].pc \in {"queued", "waiting"} =>
        InQueue(r) \/ req[r].notified \/ \E q \in Requests : req[q].closes = r

QueueOK == QueuedOnce /\ QueuedWait /\ Notifiers /\ NotifiedSoon /\ OneNotifier /\ Covered

AllSound == \A r \in Requests : Sound(req[r])
Inv == TypeOK /\ AllSound /\ QueueOK /\ SlotsAccounted

-----------------------------------------------------------------------------
(* The next fallback channel.                                              *)

LEMMA NatWellOrdered ==
    ASSUME NEW T \in SUBSET Nat, T # {}
    PROVE  \E x \in T : \A y \in T : x <= y
<1>1. IsWellFoundedOn(OpToRel(<, Nat), Nat)
    BY NatLessThanWellFounded
<1>2. PICK x \in T : \A y \in T : ~(<<y, x>> \in OpToRel(<, Nat))
    BY <1>1, WFMin
<1>3. \A y \in T : ~(y < x)
    BY <1>2 DEF OpToRel
<1>4. QED
    BY <1>3

LEMMA NextFallbackUnused ==
    ASSUME NEW r \in Requests, UnusedFallback(r) # {}
    PROVE  NextFallback(r) \in FallbackSet /\ NextFallback(r) \notin req[r].used
<1> DEFINE T == {i \in DOMAIN Fallback : Fallback[i] \notin req[r].used}
<1>1. DOMAIN Fallback = 1 .. Len(Fallback) /\ Len(Fallback) \in Nat
    BY ChannelsAssumption, LenProperties
<1>2. T \in SUBSET Nat /\ T # {}
    BY <1>1 DEF UnusedFallback, FallbackSet
<1>3. PICK x \in T : \A y \in T : x <= y
    BY <1>2, NatWellOrdered
<1>4. \A j \in 1 .. (x - 1) : Fallback[j] \in req[r].used
    BY <1>1, <1>3
<1>5. QED
    BY <1>3, <1>4 DEF NextFallback, FallbackSet

LEMMA FirstFallbackUnused ==
    ASSUME NEW r \in Requests, Fallback # <<>>, req[r].used = {}
    PROVE  UnusedFallback(r) # {}
<1>1. Len(Fallback) \in Nat \ {0} /\ DOMAIN Fallback = 1 .. Len(Fallback)
    BY ChannelsAssumption, LenProperties, EmptySeq
<1>2. 1 \in DOMAIN Fallback
    BY <1>1
<1>3. Fallback[1] \in FallbackSet
    BY <1>2 DEF FallbackSet
<1>4. QED
    BY <1>3 DEF UnusedFallback

-----------------------------------------------------------------------------
(* A step that gives request r the record n.                               *)

LEMMA BecomeIs ==
    ASSUME TypeOK, NEW r \in Requests, NEW n, Become(r, n)
    PROVE  req'[r] = n /\ \A q \in Requests \ {r} : req'[q] = req[q]
BY DEF TypeOK, Become

LEMMA BecomeSound ==
    ASSUME TypeOK, AllSound, NEW r \in Requests, NEW n \in Request, Sound(n), Become(r, n)
    PROVE  req' \in [Requests -> Request] /\ AllSound'
<1>1. req'[r] = n /\ \A q \in Requests \ {r} : req'[q] = req[q]
    BY BecomeIs
<1>2. \A q \in Requests : Sound(req'[q])
    BY <1>1 DEF AllSound
<1>3. AllSound'
    BY <1>2 DEF AllSound, Sound, RouteOK, HeldOK, CalledOK
<1>4. QED
    BY <1>3 DEF TypeOK, Become

\* What the queue's invariant does not see.
QueueFrame(s, n) ==
    /\ n.closes = s.closes /\ n.notified = s.notified
    /\ s.deadline = "passed" => n.deadline = "passed"
    /\ s.pc \notin {"queued", "waiting", "close"} /\ n.pc \notin {"queued", "waiting", "close"}
    /\ Left(s) => Left(n)

LEMMA BecomeQueue ==
    ASSUME TypeOK, QueueOK, NEW r \in Requests, NEW n \in Request, QueueFrame(req[r], n),
           Become(r, n), queue' = queue
    PROVE  QueueOK'
<1>1. req'[r] = n /\ \A q \in Requests \ {r} : req'[q] = req[q]
    BY BecomeIs
<1>2. \A q \in Requests : /\ req'[q].closes = req[q].closes
                          /\ req'[q].notified = req[q].notified
                          /\ req[q].deadline = "passed" => req'[q].deadline = "passed"
                          /\ req[q].pc \in {"queued", "waiting"} => req'[q] = req[q]
                          /\ req'[q].pc \in {"queued", "waiting", "close"} => req'[q] = req[q]
                          /\ req[q].pc = "close" => req'[q] = req[q]
    BY <1>1 DEF QueueFrame
<1>3. \A q \in Requests : Left(req[q]) => Left(req'[q])
    BY <1>1 DEF QueueFrame
<1>4. \A q \in Requests : InQueue(q)' <=> InQueue(q)
    BY DEF InQueue
<1>5. QueuedOnce'
    BY DEF QueueOK, QueuedOnce
<1>6. QueuedWait'
  <2>1. \A i \in DOMAIN queue : queue[i] \in Requests
    BY LenProperties DEF TypeOK
  <2>2. QED
    BY <1>2, <2>1 DEF QueueOK, QueuedWait
<1>7. Notifiers'
    BY <1>2 DEF QueueOK, Notifiers
<1>8. NotifiedSoon'
  <2>1. ASSUME NEW q \in Requests, NEW p \in Requests, req'[q].closes = p
        PROVE  /\ ~InQueue(p)' /\ ~req'[p].notified
               /\ req'[p].pc \in {"queued", "waiting"} \/ req'[p].deadline = "passed" \/ Left(req'[p])
    BY <1>2, <1>3, <1>4, <2>1 DEF QueueOK, NotifiedSoon
  <2>2. QED
    BY <2>1 DEF NotifiedSoon, Left
<1>9. OneNotifier'
    BY <1>2 DEF QueueOK, OneNotifier
<1>10. Covered'
    BY <1>2, <1>4 DEF QueueOK, Covered
<1>11. QED
    BY <1>5, <1>6, <1>7, <1>8, <1>9, <1>10 DEF QueueOK

LEMMA HoldersFinite ==
    /\ \A c : IsFiniteSet(RpmHolders(c)) /\ Cardinality(RpmHolders(c)) \in Nat
    /\ \A c : IsFiniteSet(ConcHolders(c)) /\ Cardinality(ConcHolders(c)) \in Nat
    /\ IsFiniteSet(Counted) /\ Cardinality(Counted) \in Nat
<1>1. IsFiniteSet(Requests)
    BY RequestsAssumption
<1>2. \A T \in SUBSET Requests : IsFiniteSet(T) /\ Cardinality(T) \in Nat
    BY <1>1, FS_Subset, FS_CardinalityType
<1>3. QED
    BY <1>2 DEF RpmHolders, ConcHolders, Counted

\* The three parts of SlotsAccounted, one for each kind of slot.
RpmExact ==
    \A c \in Channels :
        /\ MaxRPM[c] > 0 => rpm[c] <= MaxRPM[c]
        /\ rpm[c] <= Cardinality(RpmHolders(c))
        /\ ~WindowPasses => rpm[c] = Cardinality(RpmHolders(c))
ConcExact ==
    \A c \in Channels :
        /\ conc[c] = Cardinality(ConcHolders(c))
        /\ MaxConcurrency[c] > 0 => conc[c] <= MaxConcurrency[c]
GlobalExact ==
    /\ global <= Cardinality(Counted)
    /\ ~WindowPasses => global = Cardinality(Counted)

LEMMA SlotParts == SlotsAccounted <=> RpmExact /\ ConcExact /\ GlobalExact
BY DEF SlotsAccounted, RpmExact, ConcExact, GlobalExact

LEMMA SlotPartsPrime == SlotsAccounted' <=> RpmExact' /\ ConcExact' /\ GlobalExact'
BY DEF SlotsAccounted, RpmExact, ConcExact, GlobalExact

LEMMA RpmSame ==
    ASSUME TypeOK, RpmExact, NEW r \in Requests, NEW n, Become(r, n), n.rpmHeld = req[r].rpmHeld, rpm' = rpm
    PROVE  RpmExact'
<1>1. \A c \in Channels : RpmHolders(c)' = RpmHolders(c)
    BY BecomeIs DEF RpmHolders
<1>2. QED
    BY <1>1 DEF RpmExact

LEMMA RpmTake ==
    ASSUME TypeOK, RpmExact, NEW r \in Requests, NEW n, Become(r, n), NEW c \in Channels,
           c \notin req[r].rpmHeld, n.rpmHeld = req[r].rpmHeld \cup {c},
           rpm[c] < MaxRPM[c], rpm' = [rpm EXCEPT ![c] = @ + 1]
    PROVE  RpmExact'
<1>1. rpm \in [Channels -> Nat] /\ MaxRPM \in [Channels -> Nat]
    BY ChannelsAssumption DEF TypeOK
<1>2. ASSUME NEW d \in Channels, d # c
      PROVE  RpmHolders(d)' = RpmHolders(d) /\ rpm'[d] = rpm[d]
    BY <1>1, <1>2, BecomeIs DEF RpmHolders
<1>3. RpmHolders(c)' = RpmHolders(c) \cup {r} /\ r \notin RpmHolders(c)
    BY BecomeIs DEF RpmHolders
<1>4. Cardinality(RpmHolders(c)') = Cardinality(RpmHolders(c)) + 1 /\ Cardinality(RpmHolders(c)) \in Nat
    BY <1>3, HoldersFinite, FS_AddElement
<1>5. rpm'[c] = rpm[c] + 1
    BY <1>1
<1>6. /\ MaxRPM[c] > 0 => rpm'[c] <= MaxRPM[c]
      /\ rpm'[c] <= Cardinality(RpmHolders(c)')
      /\ ~WindowPasses => rpm'[c] = Cardinality(RpmHolders(c)')
    BY <1>1, <1>4, <1>5 DEF RpmExact
<1>7. QED
    BY <1>2, <1>6 DEF RpmExact

LEMMA RpmDrop ==
    ASSUME TypeOK, RpmExact, NEW r \in Requests, NEW n, Become(r, n), NEW c \in Channels,
           c \in req[r].rpmHeld, n.rpmHeld = req[r].rpmHeld \ {c},
           rpm' = [rpm EXCEPT ![c] = Minus1(@)]
    PROVE  RpmExact'
<1>1. rpm \in [Channels -> Nat] /\ MaxRPM \in [Channels -> Nat]
    BY ChannelsAssumption DEF TypeOK
<1>2. ASSUME NEW d \in Channels, d # c
      PROVE  RpmHolders(d)' = RpmHolders(d) /\ rpm'[d] = rpm[d]
    BY <1>1, <1>2, BecomeIs DEF RpmHolders
<1>3. RpmHolders(c)' = RpmHolders(c) \ {r} /\ r \in RpmHolders(c)
    BY BecomeIs DEF RpmHolders
<1>4. /\ Cardinality(RpmHolders(c)') = Cardinality(RpmHolders(c)) - 1
      /\ Cardinality(RpmHolders(c)) \in Nat /\ Cardinality(RpmHolders(c)') \in Nat
  <2>1. IsFiniteSet(RpmHolders(c)) /\ Cardinality(RpmHolders(c)) \in Nat
    BY HoldersFinite
  <2>2. QED
    BY <1>3, <2>1, FS_RemoveElement, FS_CardinalityType
<1>5. rpm'[c] = IF rpm[c] > 0 THEN rpm[c] - 1 ELSE 0
    BY <1>1 DEF Minus1
<1>6. /\ MaxRPM[c] > 0 => rpm'[c] <= MaxRPM[c]
      /\ rpm'[c] <= Cardinality(RpmHolders(c)')
      /\ ~WindowPasses => rpm'[c] = Cardinality(RpmHolders(c)')
    BY <1>1, <1>4, <1>5 DEF RpmExact
<1>7. QED
    BY <1>2, <1>6 DEF RpmExact

LEMMA ConcSame ==
    ASSUME TypeOK, ConcExact, NEW r \in Requests, NEW n, Become(r, n), n.concHeld = req[r].concHeld, conc' = conc
    PROVE  ConcExact'
<1>1. \A c \in Channels : ConcHolders(c)' = ConcHolders(c)
    BY BecomeIs DEF ConcHolders
<1>2. QED
    BY <1>1 DEF ConcExact

LEMMA ConcTake ==
    ASSUME TypeOK, ConcExact, NEW r \in Requests, NEW n, Become(r, n), NEW c \in Channels,
           c \notin req[r].concHeld, n.concHeld = req[r].concHeld \cup {c},
           conc[c] < MaxConcurrency[c], conc' = [conc EXCEPT ![c] = @ + 1]
    PROVE  ConcExact'
<1>1. conc \in [Channels -> Nat] /\ MaxConcurrency \in [Channels -> Nat]
    BY ChannelsAssumption DEF TypeOK
<1>2. ASSUME NEW d \in Channels, d # c
      PROVE  ConcHolders(d)' = ConcHolders(d) /\ conc'[d] = conc[d]
    BY <1>1, <1>2, BecomeIs DEF ConcHolders
<1>3. ConcHolders(c)' = ConcHolders(c) \cup {r} /\ r \notin ConcHolders(c)
    BY BecomeIs DEF ConcHolders
<1>4. Cardinality(ConcHolders(c)') = Cardinality(ConcHolders(c)) + 1
    BY <1>3, HoldersFinite, FS_AddElement
<1>5. conc'[c] = conc[c] + 1
    BY <1>1
<1>6. conc'[c] = Cardinality(ConcHolders(c)') /\ (MaxConcurrency[c] > 0 => conc'[c] <= MaxConcurrency[c])
    BY <1>1, <1>4, <1>5 DEF ConcExact
<1>7. QED
    BY <1>2, <1>6 DEF ConcExact

LEMMA ConcDrop ==
    ASSUME TypeOK, ConcExact, NEW r \in Requests, NEW n, Become(r, n), NEW c \in Channels,
           c \in req[r].concHeld, n.concHeld = req[r].concHeld \ {c},
           conc' = [conc EXCEPT ![c] = Minus1(@)]
    PROVE  ConcExact'
<1>1. conc \in [Channels -> Nat] /\ MaxConcurrency \in [Channels -> Nat]
    BY ChannelsAssumption DEF TypeOK
<1>2. ASSUME NEW d \in Channels, d # c
      PROVE  ConcHolders(d)' = ConcHolders(d) /\ conc'[d] = conc[d]
    BY <1>1, <1>2, BecomeIs DEF ConcHolders
<1>3. ConcHolders(c)' = ConcHolders(c) \ {r} /\ r \in ConcHolders(c)
    BY BecomeIs DEF ConcHolders
<1>4. /\ Cardinality(ConcHolders(c)') = Cardinality(ConcHolders(c)) - 1
      /\ Cardinality(ConcHolders(c)) \in Nat /\ Cardinality(ConcHolders(c)') \in Nat
  <2>1. IsFiniteSet(ConcHolders(c)) /\ Cardinality(ConcHolders(c)) \in Nat
    BY HoldersFinite
  <2>2. QED
    BY <1>3, <2>1, FS_RemoveElement, FS_CardinalityType
<1>5. conc'[c] = IF conc[c] > 0 THEN conc[c] - 1 ELSE 0
    BY <1>1 DEF Minus1
<1>6. conc'[c] = Cardinality(ConcHolders(c)') /\ (MaxConcurrency[c] > 0 => conc'[c] <= MaxConcurrency[c])
    BY <1>1, <1>4, <1>5 DEF ConcExact
<1>7. QED
    BY <1>2, <1>6 DEF ConcExact

LEMMA GlobalSame ==
    ASSUME TypeOK, GlobalExact, NEW r \in Requests, NEW n, Become(r, n), n.counted = req[r].counted, global' = global
    PROVE  GlobalExact'
<1>1. Counted' = Counted
    BY BecomeIs DEF Counted
<1>2. QED
    BY <1>1 DEF GlobalExact

LEMMA GlobalTake ==
    ASSUME TypeOK, GlobalExact, NEW r \in Requests, NEW n, Become(r, n),
           ~req[r].counted, n.counted, global' = global + 1
    PROVE  GlobalExact'
<1>1. Counted' = Counted \cup {r} /\ r \notin Counted
    BY BecomeIs DEF Counted
<1>2. Cardinality(Counted') = Cardinality(Counted) + 1 /\ Cardinality(Counted) \in Nat
    BY <1>1, HoldersFinite, FS_AddElement
<1>3. QED
    BY <1>2 DEF GlobalExact, TypeOK

LEMMA GlobalDrop ==
    ASSUME TypeOK, GlobalExact, NEW r \in Requests, NEW n, Become(r, n),
           req[r].counted, ~n.counted, global' = Minus1(global)
    PROVE  GlobalExact'
<1>1. Counted' = Counted \ {r} /\ r \in Counted
    BY BecomeIs DEF Counted
<1>2. /\ Cardinality(Counted') = Cardinality(Counted) - 1
      /\ Cardinality(Counted) \in Nat /\ Cardinality(Counted') \in Nat
  <2>1. IsFiniteSet(Counted) /\ Cardinality(Counted) \in Nat
    BY HoldersFinite
  <2>2. QED
    BY <1>1, <2>1, FS_RemoveElement, FS_CardinalityType
<1>3. QED
    BY <1>2 DEF GlobalExact, TypeOK, Minus1

\* What the accounting of slots does not see.
SlotFrame(s, n) == n.rpmHeld = s.rpmHeld /\ n.concHeld = s.concHeld /\ n.counted = s.counted

LEMMA BecomeSlots ==
    ASSUME TypeOK, SlotsAccounted, NEW r \in Requests, NEW n, SlotFrame(req[r], n),
           Become(r, n), rpm' = rpm, conc' = conc, global' = global
    PROVE  SlotsAccounted'
BY SlotParts, SlotPartsPrime, RpmSame, ConcSame, GlobalSame DEF SlotFrame

\* A step of the request's own locals.
Plain(r, n) == n \in Request /\ Sound(n) /\ QueueFrame(req[r], n) /\ SlotFrame(req[r], n)

LEMMA PlainStep ==
    ASSUME Inv, NEW r \in Requests, NEW n, Plain(r, n), Become(r, n),
           UNCHANGED <<rpm, conc, global, queue, cancelled>>
    PROVE  Inv'
<1>1. req' \in [Requests -> Request] /\ AllSound'
    BY BecomeSound DEF Inv, Plain
<1>2. QueueOK'
    BY BecomeQueue DEF Inv, Plain
<1>3. SlotsAccounted'
    BY BecomeSlots DEF Inv, Plain
<1>4. QED
    BY <1>1, <1>2, <1>3 DEF Inv, TypeOK

LEMMA RequestSound ==
    ASSUME Inv, NEW r \in Requests
    PROVE  req[r] \in Request /\ Sound(req[r])
BY DEF Inv, TypeOK, AllSound

LEMMA ControlPoints ==
    /\ {"select", "overload", "rpm", "conc", "giveBack", "refused", "enqueue"} \subseteq PCs
    /\ {"queued", "waiting", "admit", "serve", "after", "retry", "chain", "release", "close", "done"} \subseteq PCs
BY DEF PCs

LEMMA ChannelSets ==
    /\ FallbackSet \subseteq Channels /\ Primary \subseteq Channels
    /\ Primary \cap FallbackSet = {} /\ NoChannel \notin Channels
    /\ MaxRPM \in [Channels -> Nat] /\ MaxConcurrency \in [Channels -> Nat]
    /\ \A r \in Requests : Allowed[r] \subseteq Primary
BY ChannelsAssumption, RequestsAssumption DEF Channels

LEMMA TryingChannel == ASSUME NEW s, RouteOK(s), s.pc \in Trying PROVE s.chan \in Channels
BY ChannelSets DEF RouteOK

-----------------------------------------------------------------------------
(* The main loop.                                                          *)

LEMMA DistributeKeeps == ASSUME Inv, NEW r \in Requests, Distribute(r) PROVE Inv'
<1> DEFINE s == req[r]
<1>1. s \in Request /\ Sound(s) /\ s.pc = "distribute"
    BY RequestSound DEF Distribute, At
<1>2. ASSUME NEW c \in Allowed[r], NEW b \in BOOLEAN
      PROVE  Plain(r, [s EXCEPT !.pc = "select", !.chan = c, !.hit = b])
    BY <1>1, ChannelSets
    DEF Plain, Request, PCs, Sound, RouteOK, HeldOK, CalledOK, Looping, Trying, QueueFrame, SlotFrame, Left
<1>3. Plain(r, [s EXCEPT !.pc = "select"])
    BY <1>1, ChannelSets
    DEF Plain, Request, PCs, Sound, RouteOK, HeldOK, CalledOK, Looping, Trying, QueueFrame, SlotFrame, Left
<1>4. ASSUME NEW c \in Allowed[r], Become(r, [s EXCEPT !.pc = "select", !.chan = c, !.hit = r \in Affinity])
      PROVE  Inv'
  <2>1. (r \in Affinity) \in BOOLEAN
    OBVIOUS
  <2>2. Plain(r, [s EXCEPT !.pc = "select", !.chan = c, !.hit = r \in Affinity])
    BY <1>2, <2>1, Zenon
  <2>3. QED
    BY <1>4, <2>2, PlainStep DEF Distribute
<1>5. QED
    BY <1>3, <1>4, PlainStep DEF Distribute

LEMMA GetFallbackKeeps ==
    ASSUME Inv, NEW r \in Requests, NEW x \in BOOLEAN, NEW y \in BOOLEAN,
           req[r].pc \in {"select", "overload", "chain"}, UnusedFallback(r) # {},
           UNCHANGED <<rpm, conc, global, queue, cancelled>>,
           LET s == [req[r] EXCEPT !.transfer = x, !.checked = y]
           IN  GetFallback(r, s, IF req[r].pc = "chain" THEN s ELSE Failed(s))
    PROVE  Inv'
<1> DEFINE c == NextFallback(r)
           s == [req[r] EXCEPT !.transfer = x, !.checked = y]
           n1 == [s EXCEPT !.pc = "rpm", !.chan = c, !.onFallback = TRUE, !.meta = TRUE]
           n2 == [s EXCEPT !.chan = c, !.used = @ \cup {c}]
           n3 == [Failed(s) EXCEPT !.chan = c, !.used = @ \cup {c}]
<1>1. c \in FallbackSet /\ c \notin req[r].used /\ c \in Channels
    BY NextFallbackUnused, ChannelSets
<1>2. req[r] \in Request /\ Sound(req[r])
    BY RequestSound
<1> HIDE DEF c
<1>3. Plain(r, n1)
  <2>1. n1 \in Request
    BY <1>1, <1>2 DEF Request, PCs
  <2>2. QueueFrame(req[r], n1) /\ SlotFrame(req[r], n1)
    BY <1>1, <1>2 DEF Request, QueueFrame, SlotFrame, Left, Sound, RouteOK
  <2>3. RouteOK(n1)
    BY <1>1, <1>2, ChannelSets DEF Request, Sound, RouteOK, Looping, Trying
  <2>4. HeldOK(n1)
    BY <1>1, <1>2, ChannelSets DEF Request, Sound, RouteOK, HeldOK, Looping, Trying
  <2>5. CalledOK(n1)
    BY <1>1, <1>2, ChannelSets DEF Request, Sound, RouteOK, CalledOK, Looping, Trying
  <2>6. QED
    BY <2>1, <2>2, <2>3, <2>4, <2>5 DEF Plain, Sound
<1>4. req[r].pc = "chain" => Plain(r, n2)
    BY <1>1, <1>2, ChannelSets
    DEF Plain, Request, PCs, Sound, RouteOK, HeldOK, CalledOK, Looping, Trying, QueueFrame, SlotFrame, Left
<1>5. req[r].pc # "chain" => Plain(r, n3)
    BY <1>1, <1>2, ChannelSets
    DEF Plain, Failed, Request, PCs, Sound, RouteOK, HeldOK, CalledOK, Looping, Trying, QueueFrame, SlotFrame, Left
<1>6. Become(r, n1) \/ (req[r].pc = "chain" /\ Become(r, n2)) \/ (req[r].pc # "chain" /\ Become(r, n3))
    BY DEF GetFallback, c
<1>7. QED
    BY <1>3, <1>4, <1>5, <1>6, PlainStep

LEMMA SelectKeeps == ASSUME Inv, NEW r \in Requests, Select(r) PROVE Inv'
<1> DEFINE s == req[r]
           Lost(c) == [s EXCEPT !.chan = c, !.source = IF s.hit THEN c \in Supports ELSE @]
<1>1. s \in Request /\ Sound(s) /\ s.pc = "select"
    BY RequestSound DEF Select, At
<1>2. UNCHANGED <<rpm, conc, global, queue, cancelled>>
    BY DEF Select
<1>3. CASE Become(r, Failed(s))
  <2>1. Plain(r, Failed(s))
    BY <1>1, ChannelSets
    DEF Plain, Failed, Request, PCs, Sound, RouteOK, HeldOK, CalledOK, Looping, Trying, QueueFrame, SlotFrame, Left
  <2>2. QED
    BY <1>2, <1>3, <2>1, PlainStep
<1>4. CASE ~s.meta /\ s.chan # NoChannel /\ Become(r, [s EXCEPT !.pc = "overload"])
  <2>1. Plain(r, [s EXCEPT !.pc = "overload"])
    BY <1>1, <1>4, ChannelSets
    DEF Plain, Request, PCs, Sound, RouteOK, HeldOK, CalledOK, Looping, Trying, QueueFrame, SlotFrame, Left
  <2>2. QED
    BY <1>2, <1>4, <2>1, PlainStep
<1>5. ASSUME NEW c \in Allowed[r],
             Become(r, [s EXCEPT !.pc = "overload", !.chan = c, !.hit = @ \/ (~s.meta /\ r \in Affinity)])
      PROVE  Inv'
  <2>1. ASSUME NEW b \in BOOLEAN PROVE Plain(r, [s EXCEPT !.pc = "overload", !.chan = c, !.hit = b])
    BY <1>1, ChannelSets
    DEF Plain, Request, PCs, Sound, RouteOK, HeldOK, CalledOK, Looping, Trying, QueueFrame, SlotFrame, Left
  <2>2. Plain(r, [s EXCEPT !.pc = "overload", !.chan = c, !.hit = s.hit \/ (~s.meta /\ r \in Affinity)])
    BY <2>1, Zenon
  <2>3. QED
    BY <1>2, <1>5, <2>2, PlainStep
<1>6. ASSUME NEW c \in Allowed[r], Become(r, Failed(Lost(c)))
      PROVE  Inv'
  <2> DEFINE b == IF s.hit THEN c \in Supports ELSE s.source
  <2>1. b \in BOOLEAN
    <3>1. s.source \in BOOLEAN
      BY <1>1 DEF Request
    <3>2. CASE s.hit
      BY <3>2, SMT
    <3>3. CASE ~s.hit
      BY <3>1, <3>3
    <3>4. QED
      BY <3>2, <3>3
  <2> HIDE DEF b
  <2>2. Plain(r, Failed([s EXCEPT !.chan = c, !.source = b]))
    BY <1>1, <2>1, ChannelSets
    DEF Plain, Failed, Request, PCs, Sound, RouteOK, HeldOK, CalledOK, Looping, Trying, QueueFrame, SlotFrame, Left
  <2>3. Become(r, Failed([s EXCEPT !.chan = c, !.source = b]))
    BY <1>6 DEF b
  <2>4. QED
    BY <1>2, <2>2, <2>3, PlainStep
<1>7. CASE Become(r, [Lost(s.chan) EXCEPT !.pc = "enqueue"])
  <2> DEFINE b == IF s.hit THEN s.chan \in Supports ELSE s.source
  <2>1. b \in BOOLEAN
    <3>1. s.source \in BOOLEAN
      BY <1>1 DEF Request
    <3>2. CASE s.hit
      BY <3>2, SMT
    <3>3. CASE ~s.hit
      BY <3>1, <3>3
    <3>4. QED
      BY <3>2, <3>3
  <2>2. b => s.hit \/ s.source
    OBVIOUS
  <2> HIDE DEF b
  <2> DEFINE n == [[s EXCEPT !.chan = s.chan, !.source = b] EXCEPT !.pc = "enqueue"]
  <2>3. n \in Request /\ QueueFrame(s, n) /\ SlotFrame(s, n)
    BY <1>1, <2>1 DEF Request, PCs, QueueFrame, SlotFrame, Left
  <2>4. Sound(n)
    BY <1>1, <2>1, <2>2, ChannelSets DEF Request, Sound, RouteOK, HeldOK, CalledOK, Looping, Trying
  <2>5. Become(r, n)
    BY <1>7 DEF b
  <2>6. QED
    BY <1>2, <2>3, <2>4, <2>5, PlainStep DEF Plain
<1>8. CASE /\ Fallback # <<>>
           /\ GetFallback(r, [s EXCEPT !.transfer = TRUE], Failed([s EXCEPT !.transfer = TRUE]))
  <2>1. UnusedFallback(r) # {}
    BY <1>1, <1>8, FirstFallbackUnused DEF Sound, RouteOK
  <2>2. [s EXCEPT !.transfer = TRUE] = [s EXCEPT !.transfer = TRUE, !.checked = s.checked] /\ s.checked \in BOOLEAN
    BY <1>1 DEF Request
  <2>3. LET u == [s EXCEPT !.transfer = TRUE, !.checked = s.checked]
        IN  GetFallback(r, u, IF s.pc = "chain" THEN u ELSE Failed(u))
    BY <1>1, <1>8, <2>2
  <2>4. QED
    BY <1>1, <1>2, <2>1, <2>2, <2>3, GetFallbackKeeps
<1>9. QED
    BY <1>3, <1>4, <1>5, <1>6, <1>7, <1>8 DEF Select, GetPrimary

LEMMA CheckOverloadKeeps == ASSUME Inv, NEW r \in Requests, CheckOverload(r) PROVE Inv'
<1> DEFINE s == req[r]
           check == s.chan \in Protected /\ ~s.checked
           b == s.checked \/ check
<1>1. s \in Request /\ Sound(s) /\ s.pc = "overload"
    BY RequestSound DEF CheckOverload, At
<1>2. UNCHANGED <<rpm, conc, global, queue, cancelled>>
    BY DEF CheckOverload
<1>3. b \in BOOLEAN
    BY Zenon
<1> HIDE DEF b
<1>4. CASE Become(r, Failed(s))
  <2>1. Plain(r, Failed(s))
    BY <1>1, ChannelSets
    DEF Plain, Failed, Request, PCs, Sound, RouteOK, HeldOK, CalledOK, Looping, Trying, QueueFrame, SlotFrame, Left
  <2>2. QED
    BY <1>2, <1>4, <2>1, PlainStep
<1>5. CASE Become(r, [[s EXCEPT !.checked = b] EXCEPT !.pc = "rpm", !.meta = TRUE])
  <2> DEFINE n == [[s EXCEPT !.checked = b] EXCEPT !.pc = "rpm", !.meta = TRUE]
  <2>1. n \in Request
    BY <1>1, <1>3, ControlPoints DEF Request
  <2>2. Plain(r, n)
    BY <1>1, <1>3, <2>1, ChannelSets
    DEF Plain, Request, Sound, RouteOK, HeldOK, CalledOK, Looping, Trying, QueueFrame, SlotFrame, Left
  <2>3. QED
    BY <1>2, <1>5, <2>2, PlainStep
<1>6. CASE /\ Fallback # <<>>
           /\ LET u == [[s EXCEPT !.checked = b] EXCEPT !.transfer = TRUE] IN GetFallback(r, u, Failed(u))
  <2>1. UnusedFallback(r) # {}
    BY <1>1, <1>6, FirstFallbackUnused DEF Sound, RouteOK
  <2>2. [[s EXCEPT !.checked = b] EXCEPT !.transfer = TRUE] = [s EXCEPT !.transfer = TRUE, !.checked = b]
    BY <1>1 DEF Request
  <2>3. LET u == [s EXCEPT !.transfer = TRUE, !.checked = b]
        IN  GetFallback(r, u, IF s.pc = "chain" THEN u ELSE Failed(u))
    BY <1>1, <1>6, <2>2
  <2>4. QED
    BY <1>1, <1>2, <1>3, <2>1, <2>3, GetFallbackKeeps
<1>7. QED
    BY <1>4, <1>5, <1>6 DEF CheckOverload, b

LEMMA RefusedKeeps == ASSUME Inv, NEW r \in Requests, Refused(r) PROVE Inv'
<1> DEFINE s == req[r]
           u == s.used \cup {s.chan}
           n1 == [s EXCEPT !.pc = "chain", !.used = u]
           n2 == [s EXCEPT !.pc = "after", !.used = u, !.onFallback = FALSE]
           n3(b) == [s EXCEPT !.pc = "enqueue", !.source = b]
           n4 == [s EXCEPT !.pc = "enqueue", !.used = u]
<1>1. s \in Request /\ Sound(s) /\ s.pc = "refused"
    BY RequestSound DEF Refused, At
<1>2. s.inChain => Plain(r, n1)
    BY <1>1, ChannelSets
    DEF Plain, Request, PCs, Sound, RouteOK, HeldOK, CalledOK, Looping, Trying, QueueFrame, SlotFrame, Left
<1>3. ~s.inChain => Plain(r, n2)
    BY <1>1, ChannelSets
    DEF Plain, Request, PCs, Sound, RouteOK, HeldOK, CalledOK, Looping, Trying, QueueFrame, SlotFrame, Left
<1>4. ASSUME NEW b \in BOOLEAN, ~s.onFallback PROVE Plain(r, n3(b))
    BY <1>1, <1>4, ChannelSets
    DEF Plain, Request, PCs, Sound, RouteOK, HeldOK, CalledOK, Looping, Trying, QueueFrame, SlotFrame, Left
<1>5. ~s.onFallback => Plain(r, n4)
    BY <1>1, ChannelSets
    DEF Plain, Request, PCs, Sound, RouteOK, HeldOK, CalledOK, Looping, Trying, QueueFrame, SlotFrame, Left
<1>6. \/ s.inChain /\ Become(r, n1)
      \/ ~s.inChain /\ Become(r, n2)
      \/ ~s.onFallback /\ Become(r, n3(s.chan \in Supports))
      \/ ~s.onFallback /\ Become(r, n4)
    BY DEF Refused
<1>7. ~s.onFallback => Plain(r, n3(s.chan \in Supports))
  <2>1. (s.chan \in Supports) \in BOOLEAN
    OBVIOUS
  <2>2. QED
    BY <1>4, <2>1, Zenon
<1>8. UNCHANGED <<rpm, conc, global, queue, cancelled>>
    BY DEF Refused
<1> HIDE DEF n1, n2, n3, n4
<1>9. QED
    BY <1>2, <1>3, <1>5, <1>6, <1>7, <1>8, PlainStep

-----------------------------------------------------------------------------
(* The upstream call and the fallback chain.                               *)

LEMMA SucceedKeeps == ASSUME Inv, NEW r \in Requests, Succeed(r) PROVE Inv'
<1> DEFINE s == req[r]
           n == [s EXCEPT !.pc = "release", !.err = FALSE, !.served = TRUE, !.called = @ \cup {s.chan}]
<1>1. s \in Request /\ Sound(s) /\ s.pc = "serve"
    BY RequestSound DEF Succeed, At
<1>2. Plain(r, n)
  <2>1. n \in Request
    BY <1>1, ControlPoints, TryingChannel DEF Request, Sound, Trying
  <2>2. QueueFrame(req[r], n) /\ SlotFrame(req[r], n)
    BY <1>1 DEF Request, QueueFrame, SlotFrame, Left
  <2>3. RouteOK(n)
    BY <1>1, ChannelSets DEF Request, Sound, RouteOK, Looping, Trying
  <2>4. HeldOK(n)
    BY <1>1, ChannelSets DEF Request, Sound, HeldOK, Looping, Trying
  <2>5. CalledOK(n)
    BY <1>1, ChannelSets DEF Request, Sound, CalledOK, Looping, Trying
  <2>6. QED
    BY <2>1, <2>2, <2>3, <2>4, <2>5 DEF Plain, Sound
<1>3. QED
    BY <1>2, PlainStep DEF Succeed

LEMMA PreflightFailsKeeps == ASSUME Inv, NEW r \in Requests, PreflightFails(r) PROVE Inv'
<1> DEFINE s == req[r]
<1>1. s \in Request /\ Sound(s) /\ s.pc = "serve"
    BY RequestSound DEF PreflightFails, At
<1>2. s.inChain => Plain(r, [s EXCEPT !.pc = "chain"])
    BY <1>1, ChannelSets, ControlPoints
    DEF Plain, Request, Sound, RouteOK, HeldOK, CalledOK, Looping, Trying, QueueFrame, SlotFrame, Left
<1>3. Plain(r, [s EXCEPT !.pc = "release", !.err = TRUE])
    BY <1>1, ChannelSets, ControlPoints
    DEF Plain, Request, Sound, RouteOK, HeldOK, CalledOK, Looping, Trying, QueueFrame, SlotFrame, Left
<1>4. ~s.inChain => Plain(r, Failed(s))
    BY <1>1, ChannelSets, ControlPoints
    DEF Plain, Failed, Request, Sound, RouteOK, HeldOK, CalledOK, Looping, Trying, QueueFrame, SlotFrame, Left
<1>5. QED
    BY <1>2, <1>3, <1>4, PlainStep DEF PreflightFails

LEMMA UpstreamFailsKeeps == ASSUME Inv, NEW r \in Requests, UpstreamFails(r) PROVE Inv'
<1>1. req[r] \in Request /\ Sound(req[r]) /\ req[r].pc = "serve"
    BY RequestSound DEF UpstreamFails, At
<1>2. PICK w \in BOOLEAN, aborted \in BOOLEAN :
        LET s == [req[r] EXCEPT !.called = @ \cup {req[r].chan}, !.wrote = @ \/ w,
                                !.used = IF req[r].onFallback THEN @ ELSE @ \cup {req[r].chan}]
        IN  \/ Become(r, [s EXCEPT !.pc = "release", !.err = TRUE])
            \/ s.inChain /\ Become(r, [s EXCEPT !.pc = "chain"])
            \/ /\ ~s.inChain
               /\ Become(r, [Failed(s) EXCEPT !.source = IF s.onFallback THEN @ ELSE s.chan \in Supports])
    BY DEF UpstreamFails
<1> DEFINE c == req[r].chan
           b == req[r].wrote \/ w
           u == IF req[r].onFallback THEN req[r].used ELSE req[r].used \cup {c}
           s == [req[r] EXCEPT !.called = @ \cup {c}, !.wrote = b, !.used = u]
           k == IF req[r].onFallback THEN req[r].source ELSE c \in Supports
<1>3. b \in BOOLEAN
    BY Zenon
<1>4. u \subseteq Channels /\ c \in u /\ req[r].used \subseteq u /\ c \in Channels
    BY <1>1, ChannelSets DEF Request, Sound, RouteOK, CalledOK, Trying
<1>5. k \in BOOLEAN
  <2>1. req[r].source \in BOOLEAN
    BY <1>1 DEF Request
  <2>2. CASE req[r].onFallback
    BY <2>1, <2>2
  <2>3. CASE ~req[r].onFallback
    BY <2>3, SMT
  <2>4. QED
    BY <2>2, <2>3
<1>6. /\ s.inChain = req[r].inChain /\ s.onFallback = req[r].onFallback /\ s.chan = c
      /\ Failed(s).source = req[r].source
    BY <1>1 DEF Request, Failed
<1> HIDE DEF b, u
<1>7. \/ Become(r, [s EXCEPT !.pc = "release", !.err = TRUE])
      \/ req[r].inChain /\ Become(r, [s EXCEPT !.pc = "chain"])
      \/ ~req[r].inChain /\ Become(r, [Failed(s) EXCEPT !.source = k])
    BY <1>2, <1>6 DEF b, u
<1> HIDE DEF k
<1>8. s \in Request
    BY <1>1, <1>3, <1>4 DEF Request
<1>9. Plain(r, [s EXCEPT !.pc = "release", !.err = TRUE])
  <2> DEFINE n == [s EXCEPT !.pc = "release", !.err = TRUE]
  <2>1. n \in Request
    BY <1>8, ControlPoints DEF Request
  <2>2. QED
    BY <1>1, <1>3, <1>4, <2>1, ChannelSets
      DEF Plain, Request, Sound, RouteOK, HeldOK, CalledOK, Looping, Trying, QueueFrame, SlotFrame, Left
<1>10. req[r].inChain => Plain(r, [s EXCEPT !.pc = "chain"])
  <2> DEFINE n == [s EXCEPT !.pc = "chain"]
  <2>1. n \in Request
    BY <1>8, ControlPoints DEF Request
  <2>2. QED
    BY <1>1, <1>3, <1>4, <2>1, ChannelSets
      DEF Plain, Request, Sound, RouteOK, HeldOK, CalledOK, Looping, Trying, QueueFrame, SlotFrame, Left
<1>11. ~req[r].inChain => Plain(r, [Failed(s) EXCEPT !.source = k])
  <2> DEFINE n == [Failed(s) EXCEPT !.source = k]
  <2>1. n \in Request
    BY <1>5, <1>8, ControlPoints DEF Request, Failed
  <2>2. QED
    BY <1>1, <1>3, <1>4, <1>5, <2>1, ChannelSets
      DEF Plain, Failed, Request, Sound, RouteOK, HeldOK, CalledOK, Looping, Trying, QueueFrame, SlotFrame, Left
<1>12. UNCHANGED <<rpm, conc, global, queue, cancelled>>
    BY DEF UpstreamFails
<1>13. QED
    BY <1>7, <1>9, <1>10, <1>11, <1>12, PlainStep

LEMMA AfterKeeps == ASSUME Inv, NEW r \in Requests, After(r) PROVE Inv'
<1> DEFINE s == req[r]
           n1 == [s EXCEPT !.pc = "retry"]
           n2 == [s EXCEPT !.pc = "chain", !.inChain = TRUE]
           n3 == [s EXCEPT !.pc = "release"]
<1>1. s \in Request /\ Sound(s) /\ s.pc = "after"
    BY RequestSound DEF After, At
<1>2. n1 \in Request /\ n2 \in Request /\ n3 \in Request
    BY <1>1, ControlPoints DEF Request
<1>3. s.source \/ s.transfer => Plain(r, n1)
    BY <1>1, <1>2, ChannelSets
    DEF Plain, Request, Sound, RouteOK, HeldOK, CalledOK, Looping, Trying, QueueFrame, SlotFrame, Left
<1>4. Plain(r, n2)
    BY <1>1, <1>2, ChannelSets
    DEF Plain, Request, Sound, RouteOK, HeldOK, CalledOK, Looping, Trying, QueueFrame, SlotFrame, Left
<1>5. Plain(r, n3)
    BY <1>1, <1>2, ChannelSets
    DEF Plain, Request, Sound, RouteOK, HeldOK, CalledOK, Looping, Trying, QueueFrame, SlotFrame, Left
<1>6. QED
    BY <1>3, <1>4, <1>5, PlainStep DEF After, CanFallback

LEMMA RetryOnceKeeps == ASSUME Inv, NEW r \in Requests, RetryOnce(r) PROVE Inv'
<1> DEFINE s == [req[r] EXCEPT !.pc = "release", !.called = @ \cup {req[r].chan}]
           n1 == [s EXCEPT !.served = TRUE]
           n2 == [s EXCEPT !.err = TRUE]
<1>1. req[r] \in Request /\ Sound(req[r]) /\ req[r].pc = "retry"
    BY RequestSound DEF RetryOnce, At
<1>2. n1 \in Request /\ n2 \in Request
    BY <1>1, ControlPoints DEF Request, Sound, RouteOK
<1>3. Plain(r, n1)
    BY <1>1, <1>2, ChannelSets
    DEF Plain, Request, Sound, RouteOK, HeldOK, CalledOK, Looping, Trying, QueueFrame, SlotFrame, Left
<1>4. Plain(r, n2)
    BY <1>1, <1>2, ChannelSets
    DEF Plain, Request, Sound, RouteOK, HeldOK, CalledOK, Looping, Trying, QueueFrame, SlotFrame, Left
<1>5. QED
    BY <1>3, <1>4, PlainStep DEF RetryOnce

LEMMA ChainKeeps == ASSUME Inv, NEW r \in Requests, Chain(r) PROVE Inv'
<1> DEFINE s == req[r]
           n == [s EXCEPT !.pc = "release", !.err = TRUE]
<1>1. s \in Request /\ Sound(s) /\ s.pc = "chain"
    BY RequestSound DEF Chain, At
<1>2. UNCHANGED <<rpm, conc, global, queue, cancelled>>
    BY DEF Chain
<1>3. CASE Become(r, n)
  <2>1. n \in Request
    BY <1>1, ControlPoints DEF Request
  <2>2. Plain(r, n)
    BY <1>1, <2>1, ChannelSets
    DEF Plain, Request, Sound, RouteOK, HeldOK, CalledOK, Looping, Trying, QueueFrame, SlotFrame, Left
  <2>3. QED
    BY <1>2, <1>3, <2>2, PlainStep
<1>4. CASE UnusedFallback(r) # {} /\ GetFallback(r, s, s)
  <2>1. s.transfer \in BOOLEAN /\ s.checked \in BOOLEAN
    BY <1>1 DEF Request
  <2>2. [s EXCEPT !.transfer = s.transfer, !.checked = s.checked] = s
    BY <1>1 DEF Request
  <2>3. LET u == [s EXCEPT !.transfer = s.transfer, !.checked = s.checked]
        IN  GetFallback(r, u, IF s.pc = "chain" THEN u ELSE Failed(u))
    BY <1>1, <1>4, <2>2
  <2>4. QED
    BY <1>1, <1>2, <1>4, <2>1, <2>3, GetFallbackKeeps
<1>5. QED
    BY <1>3, <1>4 DEF Chain

-----------------------------------------------------------------------------
(* The steps that take or give back a slot.                                *)

LEMMA SlotStep ==
    ASSUME Inv, NEW r \in Requests, NEW n \in Request, Sound(n), QueueFrame(req[r], n), Become(r, n),
           rpm' \in [Channels -> Nat], conc' \in [Channels -> Nat], global' \in Nat,
           RpmExact', ConcExact', GlobalExact', UNCHANGED <<queue, cancelled>>
    PROVE  Inv'
<1>1. req' \in [Requests -> Request] /\ AllSound'
    BY BecomeSound DEF Inv
<1>2. QueueOK'
    BY BecomeQueue DEF Inv
<1>3. SlotsAccounted'
    BY SlotPartsPrime
<1>4. QED
    BY <1>1, <1>2, <1>3 DEF Inv, TypeOK

LEMMA TrackerTypes ==
    ASSUME TypeOK, NEW c \in Channels
    PROVE  /\ rpm[c] \in Nat /\ [rpm EXCEPT ![c] = @ + 1] \in [Channels -> Nat]
           /\ [rpm EXCEPT ![c] = Minus1(@)] \in [Channels -> Nat]
           /\ conc[c] \in Nat /\ [conc EXCEPT ![c] = @ + 1] \in [Channels -> Nat]
           /\ [conc EXCEPT ![c] = Minus1(@)] \in [Channels -> Nat]
           /\ global \in Nat /\ Minus1(global) \in Nat
BY DEF TypeOK, Minus1

LEMMA TryIncrementKeeps == ASSUME Inv, NEW r \in Requests, TryIncrement(r) PROVE Inv'
<1> DEFINE s == req[r]
           c == s.chan
           n1 == [s EXCEPT !.pc = "conc", !.rpmHeld = @ \cup {c}]
           n2 == [s EXCEPT !.pc = "conc"]
           n3 == [s EXCEPT !.pc = "refused"]
<1>1. s \in Request /\ Sound(s) /\ s.pc = "rpm"
    BY RequestSound DEF TryIncrement, At
<1>2. c \in Channels
    BY <1>1, TryingChannel DEF Sound, Trying
<1>3. n1 \in Request /\ n2 \in Request /\ n3 \in Request
    BY <1>1, <1>2, ControlPoints DEF Request
<1>4. CASE MaxRPM[c] > 0 /\ rpm[c] < MaxRPM[c] /\ rpm' = [rpm EXCEPT ![c] = @ + 1] /\ Become(r, n1)
  <2>1. Sound(n1) /\ QueueFrame(s, n1)
    BY <1>1, <1>2, <1>3, <1>4, ChannelSets
    DEF Request, Sound, RouteOK, HeldOK, CalledOK, Looping, Trying, QueueFrame, Left
  <2>2. /\ n1.rpmHeld = s.rpmHeld \cup {c} /\ c \notin s.rpmHeld
        /\ n1.concHeld = s.concHeld /\ n1.counted = s.counted
    BY <1>1 DEF Request, Sound, HeldOK
  <2>3. conc' = conc /\ global' = global /\ queue' = queue /\ cancelled' = cancelled
    BY DEF TryIncrement
  <2>4. TypeOK /\ RpmExact /\ ConcExact /\ GlobalExact
    BY SlotParts DEF Inv
  <2>5. RpmExact' /\ ConcExact' /\ GlobalExact'
    BY <1>2, <1>4, <2>2, <2>3, <2>4, RpmTake, ConcSame, GlobalSame
  <2>6. rpm' \in [Channels -> Nat] /\ conc' \in [Channels -> Nat] /\ global' \in Nat
    BY <1>2, <1>4, <2>3, <2>4, TrackerTypes DEF TypeOK
  <2>7. QED
    BY <1>3, <1>4, <2>1, <2>3, <2>5, <2>6, SlotStep
<1>5. MaxRPM[c] = 0 => Plain(r, n2)
    BY <1>1, <1>3, ChannelSets
    DEF Plain, Request, Sound, RouteOK, HeldOK, CalledOK, Looping, Trying, QueueFrame, SlotFrame, Left
<1>6. Plain(r, n3)
    BY <1>1, <1>3, ChannelSets
    DEF Plain, Request, Sound, RouteOK, HeldOK, CalledOK, Looping, Trying, QueueFrame, SlotFrame, Left
<1>7. QED
    BY <1>4, <1>5, <1>6, PlainStep DEF TryIncrement

LEMMA TryAcquireKeeps == ASSUME Inv, NEW r \in Requests, TryAcquire(r) PROVE Inv'
<1> DEFINE s == req[r]
           c == s.chan
           n1 == [s EXCEPT !.pc = "admit", !.concHeld = @ \cup {c}]
           n2 == [s EXCEPT !.pc = "admit"]
           n3 == [s EXCEPT !.pc = "giveBack"]
           n4 == [s EXCEPT !.pc = "refused"]
<1>1. s \in Request /\ Sound(s) /\ s.pc = "conc"
    BY RequestSound DEF TryAcquire, At
<1>2. c \in Channels
    BY <1>1, TryingChannel DEF Sound, Trying
<1>3. n1 \in Request /\ n2 \in Request /\ n3 \in Request /\ n4 \in Request
    BY <1>1, <1>2, ControlPoints DEF Request
<1>4. CASE conc[c] < MaxConcurrency[c] /\ conc' = [conc EXCEPT ![c] = @ + 1] /\ Become(r, n1)
  <2>1. Sound(n1) /\ QueueFrame(s, n1)
    BY <1>1, <1>2, <1>3, <1>4, ChannelSets
    DEF Request, Sound, RouteOK, HeldOK, CalledOK, Looping, Trying, QueueFrame, Left
  <2>2. /\ n1.concHeld = s.concHeld \cup {c} /\ c \notin s.concHeld
        /\ n1.rpmHeld = s.rpmHeld /\ n1.counted = s.counted
    BY <1>1 DEF Request, Sound, HeldOK
  <2>3. rpm' = rpm /\ global' = global /\ queue' = queue /\ cancelled' = cancelled
    BY DEF TryAcquire
  <2>4. TypeOK /\ RpmExact /\ ConcExact /\ GlobalExact
    BY SlotParts DEF Inv
  <2>5. RpmExact' /\ ConcExact' /\ GlobalExact'
    BY <1>2, <1>4, <2>2, <2>3, <2>4, RpmSame, ConcTake, GlobalSame
  <2>6. rpm' \in [Channels -> Nat] /\ conc' \in [Channels -> Nat] /\ global' \in Nat
    BY <1>2, <1>4, <2>3, <2>4, TrackerTypes DEF TypeOK
  <2>7. QED
    BY <1>3, <1>4, <2>1, <2>3, <2>5, <2>6, SlotStep
<1>5. MaxConcurrency[c] = 0 => Plain(r, n2)
    BY <1>1, <1>2, <1>3, ChannelSets
    DEF Plain, Request, Sound, RouteOK, HeldOK, CalledOK, Looping, Trying, QueueFrame, SlotFrame, Left
<1>6. MaxRPM[c] > 0 => Plain(r, n3)
    BY <1>1, <1>2, <1>3, ChannelSets
    DEF Plain, Request, Sound, RouteOK, HeldOK, CalledOK, Looping, Trying, QueueFrame, SlotFrame, Left
<1>7. ~(MaxRPM[c] > 0) => Plain(r, n4)
    BY <1>1, <1>2, <1>3, ChannelSets
    DEF Plain, Request, Sound, RouteOK, HeldOK, CalledOK, Looping, Trying, QueueFrame, SlotFrame, Left
<1>8. QED
    BY <1>4, <1>5, <1>6, <1>7, PlainStep DEF TryAcquire

LEMMA GiveBackRpmKeeps == ASSUME Inv, NEW r \in Requests, GiveBackRpm(r) PROVE Inv'
<1> DEFINE s == req[r]
           c == s.chan
           n == [s EXCEPT !.pc = "refused", !.rpmHeld = @ \ {c}]
<1>1. s \in Request /\ Sound(s) /\ s.pc = "giveBack"
    BY RequestSound DEF GiveBackRpm, At
<1>2. c \in Channels
    BY <1>1, TryingChannel DEF Sound, Trying
<1>3. n \in Request
    BY <1>1, <1>2, ControlPoints DEF Request
<1>4. Sound(n) /\ QueueFrame(s, n)
    BY <1>1, <1>2, <1>3, ChannelSets
    DEF Request, Sound, RouteOK, HeldOK, CalledOK, Looping, Trying, QueueFrame, Left
<1>5. /\ n.rpmHeld = s.rpmHeld \ {c} /\ c \in s.rpmHeld
      /\ n.concHeld = s.concHeld /\ n.counted = s.counted
    BY <1>1 DEF Request, Sound, HeldOK
<1>6. /\ Become(r, n) /\ rpm' = [rpm EXCEPT ![c] = Minus1(@)]
      /\ conc' = conc /\ global' = global /\ queue' = queue /\ cancelled' = cancelled
    BY DEF GiveBackRpm
<1>7. TypeOK /\ RpmExact /\ ConcExact /\ GlobalExact
    BY SlotParts DEF Inv
<1>8. RpmExact' /\ ConcExact' /\ GlobalExact'
    BY <1>2, <1>5, <1>6, <1>7, RpmDrop, ConcSame, GlobalSame
<1>9. rpm' \in [Channels -> Nat] /\ conc' \in [Channels -> Nat] /\ global' \in Nat
    BY <1>2, <1>6, <1>7, TrackerTypes DEF TypeOK
<1>10. QED
    BY <1>3, <1>4, <1>6, <1>8, <1>9, SlotStep

LEMMA AdmitKeeps == ASSUME Inv, NEW r \in Requests, Admit(r) PROVE Inv'
<1> DEFINE s == req[r]
           c == s.chan
           count == c \in Protected /\ ~s.counted
           k == s.counted \/ count
           l == s.selected \/ ~s.inChain \/ Limited(c)
           u == IF s.onFallback THEN s.used \cup {c} ELSE s.used
           n == [s EXCEPT !.pc = "serve", !.counted = k, !.selected = l, !.used = u]
<1>1. s \in Request /\ Sound(s) /\ s.pc = "admit"
    BY RequestSound DEF Admit, At
<1>2. c \in Channels
    BY <1>1, TryingChannel DEF Sound, Trying
<1>3. k \in BOOLEAN /\ l \in BOOLEAN
    BY Zenon
<1>4. u \subseteq Channels /\ s.used \subseteq u /\ (s.onFallback => c \in u)
    BY <1>1, <1>2 DEF Request
<1>6. /\ Become(r, n) /\ global' = IF count THEN global + 1 ELSE global
      /\ conc' = conc /\ rpm' = rpm /\ queue' = queue /\ cancelled' = cancelled
    BY DEF Admit
<1>7. count => ~s.counted /\ k
    OBVIOUS
<1>8. ~count => k = s.counted
    BY <1>1 DEF Request
<1> HIDE DEF count, k, l, u
<1>9. n \in Request
    BY <1>1, <1>3, <1>4, ControlPoints DEF Request
<1>10. Sound(n) /\ QueueFrame(s, n)
    BY <1>1, <1>2, <1>3, <1>4, <1>9, ChannelSets
    DEF Request, Sound, RouteOK, HeldOK, CalledOK, Looping, Trying, QueueFrame, Left
<1>11. n.rpmHeld = s.rpmHeld /\ n.concHeld = s.concHeld /\ n.counted = k
    BY <1>1 DEF Request
<1>12. TypeOK /\ RpmExact /\ ConcExact /\ GlobalExact
    BY SlotParts DEF Inv
<1>13. GlobalExact'
  <2>1. CASE count
    BY <1>6, <1>7, <1>11, <1>12, <2>1, GlobalTake
  <2>2. CASE ~count
    BY <1>6, <1>8, <1>11, <1>12, <2>2, GlobalSame
  <2>3. QED
    BY <2>1, <2>2
<1>14. RpmExact' /\ ConcExact'
    BY <1>6, <1>11, <1>12, RpmSame, ConcSame
<1>15. rpm' \in [Channels -> Nat] /\ conc' \in [Channels -> Nat] /\ global' \in Nat
    BY <1>6, <1>12 DEF TypeOK
<1>16. QED
    BY <1>6, <1>9, <1>10, <1>13, <1>14, <1>15, SlotStep

LEMMA ReleaseRpmKeeps == ASSUME Inv, NEW r \in Requests, ReleaseRpm(r) PROVE Inv'
<1> DEFINE s == req[r]
<1>1. s \in Request /\ Sound(s) /\ s.pc = "release"
    BY RequestSound DEF ReleaseRpm, At
<1>2. PICK c \in s.rpmHeld : rpm' = [rpm EXCEPT ![c] = Minus1(@)] /\ Become(r, [s EXCEPT !.rpmHeld = @ \ {c}])
    BY DEF ReleaseRpm
<1> DEFINE n == [s EXCEPT !.rpmHeld = @ \ {c}]
<1>3. c \in Channels /\ n \in Request
    BY <1>1 DEF Request
<1>4. Sound(n) /\ QueueFrame(s, n)
    BY <1>1, <1>3
    DEF Request, Sound, RouteOK, HeldOK, CalledOK, Looping, Trying, QueueFrame, Left
<1>5. n.rpmHeld = s.rpmHeld \ {c} /\ n.concHeld = s.concHeld /\ n.counted = s.counted
    BY <1>1 DEF Request
<1>6. conc' = conc /\ global' = global /\ queue' = queue /\ cancelled' = cancelled
    BY DEF ReleaseRpm
<1>7. TypeOK /\ RpmExact /\ ConcExact /\ GlobalExact
    BY SlotParts DEF Inv
<1>8. RpmExact' /\ ConcExact' /\ GlobalExact'
    BY <1>2, <1>3, <1>5, <1>6, <1>7, RpmDrop, ConcSame, GlobalSame
<1>9. rpm' \in [Channels -> Nat] /\ conc' \in [Channels -> Nat] /\ global' \in Nat
    BY <1>2, <1>3, <1>6, <1>7, TrackerTypes DEF TypeOK
<1>10. QED
    BY <1>2, <1>3, <1>4, <1>6, <1>8, <1>9, SlotStep

LEMMA ReleaseConcKeeps == ASSUME Inv, NEW r \in Requests, ReleaseConc(r) PROVE Inv'
<1> DEFINE s == req[r]
<1>1. s \in Request /\ Sound(s) /\ s.pc = "release"
    BY RequestSound DEF ReleaseConc, At
<1>2. PICK c \in s.concHeld : conc' = [conc EXCEPT ![c] = Minus1(@)] /\ Become(r, [s EXCEPT !.concHeld = @ \ {c}])
    BY DEF ReleaseConc
<1> DEFINE n == [s EXCEPT !.concHeld = @ \ {c}]
<1>3. c \in Channels /\ n \in Request
    BY <1>1 DEF Request
<1>4. Sound(n) /\ QueueFrame(s, n)
    BY <1>1, <1>3
    DEF Request, Sound, RouteOK, HeldOK, CalledOK, Looping, Trying, QueueFrame, Left
<1>5. n.concHeld = s.concHeld \ {c} /\ n.rpmHeld = s.rpmHeld /\ n.counted = s.counted
    BY <1>1 DEF Request
<1>6. rpm' = rpm /\ global' = global /\ queue' = queue /\ cancelled' = cancelled
    BY DEF ReleaseConc
<1>7. TypeOK /\ RpmExact /\ ConcExact /\ GlobalExact
    BY SlotParts DEF Inv
<1>8. RpmExact' /\ ConcExact' /\ GlobalExact'
    BY <1>2, <1>3, <1>5, <1>6, <1>7, RpmSame, ConcDrop, GlobalSame
<1>9. rpm' \in [Channels -> Nat] /\ conc' \in [Channels -> Nat] /\ global' \in Nat
    BY <1>2, <1>3, <1>6, <1>7, TrackerTypes DEF TypeOK
<1>10. QED
    BY <1>2, <1>3, <1>4, <1>6, <1>8, <1>9, SlotStep

LEMMA ReleaseGlobalKeeps == ASSUME Inv, NEW r \in Requests, ReleaseGlobal(r) PROVE Inv'
<1> DEFINE s == req[r]
           n == [s EXCEPT !.counted = FALSE]
<1>1. s \in Request /\ Sound(s) /\ s.pc = "release" /\ s.counted
    BY RequestSound DEF ReleaseGlobal, At
<1>2. n \in Request
    BY <1>1 DEF Request
<1>3. Sound(n) /\ QueueFrame(s, n)
    BY <1>1, <1>2
    DEF Request, Sound, RouteOK, HeldOK, CalledOK, Looping, Trying, QueueFrame, Left
<1>4. n.concHeld = s.concHeld /\ n.rpmHeld = s.rpmHeld /\ ~n.counted
    BY <1>1 DEF Request
<1>5. /\ global' = Minus1(global) /\ Become(r, n)
      /\ rpm' = rpm /\ conc' = conc /\ queue' = queue /\ cancelled' = cancelled
    BY DEF ReleaseGlobal
<1>6. TypeOK /\ RpmExact /\ ConcExact /\ GlobalExact
    BY SlotParts DEF Inv
<1>7. RpmExact' /\ ConcExact' /\ GlobalExact'
    BY <1>1, <1>4, <1>5, <1>6, RpmSame, ConcSame, GlobalDrop
<1>8. rpm' \in [Channels -> Nat] /\ conc' \in [Channels -> Nat] /\ global' \in Nat
    BY <1>5, <1>6 DEF TypeOK, Minus1
<1>9. QED
    BY <1>2, <1>3, <1>5, <1>7, <1>8, SlotStep

-----------------------------------------------------------------------------
(* The queue.                                                              *)

LEMMA QueueTyped ==
    ASSUME TypeOK
    PROVE  /\ Len(queue) \in Nat /\ DOMAIN queue = 1 .. Len(queue)
           /\ \A i \in DOMAIN queue : queue[i] \in Requests
BY LenProperties DEF TypeOK

\* The queue without r: a sequence of the same other requests, each once.
LEMMA RemoveItemIs ==
    ASSUME TypeOK, QueuedOnce, NEW r \in Requests
    PROVE  /\ RemoveItem(r) \in Seq(Requests)
           /\ \A i, j \in DOMAIN RemoveItem(r) : RemoveItem(r)[i] = RemoveItem(r)[j] => i = j
           /\ \A q \in Requests : (\E i \in DOMAIN RemoveItem(r) : RemoveItem(r)[i] = q) <=> (q # r /\ InQueue(q))
<1>1. CASE ~InQueue(r)
    BY <1>1 DEF RemoveItem, InQueue, TypeOK, QueuedOnce
<1>2. CASE InQueue(r)
  <2> DEFINE k == CHOOSE i \in DOMAIN queue : queue[i] = r
             w == Without(queue, k)
             m == Len(queue) - 1
  <2>1. k \in DOMAIN queue /\ queue[k] = r
    BY <1>2 DEF InQueue
  <2> HIDE DEF k
  <2>2. /\ k \in 1 .. Len(queue) /\ Len(queue) \in Nat /\ m \in Nat /\ DOMAIN w = 1 .. m
        /\ DOMAIN queue = 1 .. Len(queue)
    BY <2>1, QueueTyped DEF Without
  <2>3. ASSUME NEW i \in 1 .. m
        PROVE  /\ i < k => w[i] = queue[i] /\ i \in DOMAIN queue
               /\ ~(i < k) => w[i] = queue[i + 1] /\ i + 1 \in DOMAIN queue
    BY <2>2 DEF Without
  <2>4. \A i \in 1 .. m : w[i] \in Requests
    BY <2>3, QueueTyped
  <2>5. w \in Seq(Requests)
    BY <2>2, <2>4, SeqDef DEF Without
  <2>6. ASSUME NEW i \in 1 .. m, NEW j \in 1 .. m, w[i] = w[j]
        PROVE  i = j
    <3>1. CASE i < k /\ j < k
      BY <2>3, <2>6, <3>1 DEF QueuedOnce
    <3>2. CASE i < k /\ ~(j < k)
      BY <2>2, <2>3, <2>6, <3>2 DEF QueuedOnce
    <3>3. CASE ~(i < k) /\ j < k
      BY <2>2, <2>3, <2>6, <3>3 DEF QueuedOnce
    <3>4. CASE ~(i < k) /\ ~(j < k)
      BY <2>2, <2>3, <2>6, <3>4 DEF QueuedOnce
    <3>5. QED
      BY <3>1, <3>2, <3>3, <3>4
  <2>7. ASSUME NEW i \in 1 .. m PROVE w[i] # r /\ InQueue(w[i])
    BY <2>1, <2>2, <2>3 DEF QueuedOnce, InQueue
  <2>8. ASSUME NEW q \in Requests, q # r, InQueue(q) PROVE \E i \in 1 .. m : w[i] = q
    <3>1. PICK j \in DOMAIN queue : queue[j] = q
      BY <2>8 DEF InQueue
    <3>2. CASE j < k
      <4>1. j \in 1 .. m
        BY <2>2, <3>2
      <4>2. QED
        BY <2>3, <3>1, <3>2, <4>1
    <3>3. CASE ~(j < k)
      <4>1. j - 1 \in 1 .. m /\ ~(j - 1 < k) /\ (j - 1) + 1 = j
        BY <2>1, <2>2, <2>8, <3>1, <3>3
      <4>2. w[j - 1] = queue[j]
        BY <2>3, <4>1
      <4>3. QED
        BY <3>1, <4>1, <4>2
    <3>4. QED
      BY <3>2, <3>3
  <2>9. RemoveItem(r) = w
    BY <1>2 DEF RemoveItem, k
  <2>10. QED
    BY <2>2, <2>5, <2>6, <2>7, <2>8, <2>9
<1>3. QED
    BY <1>1, <1>2

LEMMA QueueStep ==
    ASSUME Inv, NEW r \in Requests, NEW n \in Request, Sound(n), SlotFrame(req[r], n), Become(r, n),
           queue' \in Seq(Requests), QueueOK', UNCHANGED <<rpm, conc, global, cancelled>>
    PROVE  Inv'
<1>1. req' \in [Requests -> Request] /\ AllSound'
    BY BecomeSound DEF Inv
<1>2. SlotsAccounted'
    BY BecomeSlots DEF Inv
<1>3. QED
    BY <1>1, <1>2 DEF Inv, TypeOK

\* r leaves the queue for good: it is notified, or has seen its deadline, or ends.
LEMMA LeavesQueue ==
    ASSUME TypeOK, QueueOK, NEW r \in Requests, NEW n \in Request, Become(r, n),
           req[r].pc \in {"queued", "waiting"}, n.pc \notin {"queued", "waiting", "close"},
           n.closes = req[r].closes, n.notified = req[r].notified,
           n.notified \/ n.deadline = "passed" \/ Left(n),
           queue' \in Seq(Requests),
           \A i, j \in DOMAIN queue' : queue'[i] = queue'[j] => i = j,
           \A q \in Requests : InQueue(q)' <=> (q # r /\ InQueue(q))
    PROVE  QueueOK'
<1>1. req'[r] = n /\ \A q \in Requests \ {r} : req'[q] = req[q]
    BY BecomeIs
<1>2. \A i \in DOMAIN queue' : queue'[i] \in Requests
    BY LenProperties
<1>3. \A q \in Requests : req'[q].closes = req[q].closes /\ req'[q].notified = req[q].notified
    BY <1>1
<1>4. QueuedOnce'
    BY DEF QueuedOnce
<1>5. QueuedWait'
  <2>1. ASSUME NEW i \in DOMAIN queue', NEW q \in Requests, queue'[i] = q
        PROVE  req'[q].pc \in {"queued", "waiting"} /\ ~req'[q].notified
    <3>1. InQueue(q)'
      BY <2>1 DEF InQueue
    <3>2. q # r /\ InQueue(q)
      BY <3>1
    <3>3. QED
      BY <1>1, <3>2 DEF QueueOK, QueuedWait, InQueue
  <2>2. QED
    BY <1>2, <2>1 DEF QueuedWait
<1>6. Notifiers'
    BY <1>1 DEF QueueOK, Notifiers
<1>7. NotifiedSoon'
  <2>1. ASSUME NEW q \in Requests, NEW p \in Requests, req'[q].closes = p
        PROVE  /\ ~InQueue(p)' /\ ~req'[p].notified
               /\ req'[p].pc \in {"queued", "waiting"} \/ req'[p].deadline = "passed" \/ Left(req'[p])
    <3>1. req[q].closes = p
      BY <1>3, <2>1
    <3>2. /\ ~InQueue(p) /\ ~req[p].notified
          /\ req[p].pc \in {"queued", "waiting"} \/ req[p].deadline = "passed" \/ Left(req[p])
      BY <3>1 DEF QueueOK, NotifiedSoon
    <3>3. QED
      BY <1>1, <3>2
  <2>2. QED
    BY <2>1 DEF NotifiedSoon, Left
<1>8. OneNotifier'
    BY <1>3 DEF QueueOK, OneNotifier
<1>9. Covered'
    BY <1>1, <1>3 DEF QueueOK, Covered
<1>10. QED
    BY <1>4, <1>5, <1>6, <1>7, <1>8, <1>9 DEF QueueOK

\* r stays a waiter.
LEMMA StaysWaiter ==
    ASSUME TypeOK, QueueOK, NEW r \in Requests, NEW n \in Request, Become(r, n), queue' = queue,
           req[r].pc \in {"queued", "waiting"}, n.pc \in {"queued", "waiting"},
           n.closes = req[r].closes, n.notified = req[r].notified
    PROVE  QueueOK'
<1>1. req'[r] = n /\ \A q \in Requests \ {r} : req'[q] = req[q]
    BY BecomeIs
<1>2. \A q \in Requests : /\ req'[q].closes = req[q].closes /\ req'[q].notified = req[q].notified
                          /\ req'[q].pc \in {"queued", "waiting"} <=> req[q].pc \in {"queued", "waiting"}
                          /\ req'[q].pc = "close" <=> req[q].pc = "close"
    BY <1>1
<1>3. \A q \in Requests : InQueue(q)' <=> InQueue(q)
    BY DEF InQueue
<1>4. QueuedOnce'
    BY DEF QueueOK, QueuedOnce
<1>5. QueuedWait'
    BY <1>2, QueueTyped DEF QueueOK, QueuedWait
<1>6. Notifiers'
    BY <1>2 DEF QueueOK, Notifiers
<1>7. NotifiedSoon'
  <2>1. ASSUME NEW q \in Requests, NEW p \in Requests, req'[q].closes = p
        PROVE  /\ ~InQueue(p)' /\ ~req'[p].notified
               /\ req'[p].pc \in {"queued", "waiting"} \/ req'[p].deadline = "passed" \/ Left(req'[p])
    <3>1. /\ ~InQueue(p) /\ ~req[p].notified
          /\ req[p].pc \in {"queued", "waiting"} \/ req[p].deadline = "passed" \/ Left(req[p])
      BY <1>2, <2>1 DEF QueueOK, NotifiedSoon
    <3>2. QED
      BY <1>1, <1>2, <1>3, <3>1
  <2>2. QED
    BY <2>1 DEF NotifiedSoon, Left
<1>8. OneNotifier'
    BY <1>2 DEF QueueOK, OneNotifier
<1>9. Covered'
    BY <1>2, <1>3 DEF QueueOK, Covered
<1>10. QED
    BY <1>4, <1>5, <1>6, <1>7, <1>8, <1>9 DEF QueueOK

LEMMA EnqueueKeeps == ASSUME Inv, NEW r \in Requests, Enqueue(r) PROVE Inv'
<1> DEFINE s == req[r]
           n == [s EXCEPT !.pc = "queued", !.deadline = "set", !.meta = TRUE, !.notified = FALSE]
<1>1. s \in Request /\ Sound(s) /\ s.pc = "enqueue"
    BY RequestSound DEF Enqueue, At
<1>2. CASE Become(r, Failed(s)) /\ queue' = queue
  <2>1. Failed(s) \in Request
    BY <1>1, ControlPoints DEF Request, Failed
  <2>2. Plain(r, Failed(s))
    BY <1>1, <2>1, ChannelSets
    DEF Plain, Failed, Request, Sound, RouteOK, HeldOK, CalledOK, Looping, Trying, QueueFrame, SlotFrame, Left
  <2>3. QED
    BY <1>2, <2>2, PlainStep DEF Enqueue
<1>3. CASE s.deadline # "passed" /\ queue' = Append(queue, r) /\ Become(r, n)
  <2>1. n \in Request
    BY <1>1, ControlPoints DEF Request
  <2>2. Sound(n) /\ SlotFrame(s, n)
    BY <1>1, <2>1, ChannelSets
    DEF Request, Sound, RouteOK, HeldOK, CalledOK, Looping, Trying, SlotFrame
  <2>3. TypeOK /\ QueueOK
    BY DEF Inv
  <2> DEFINE l == Len(queue)
  <2>4. /\ queue' \in Seq(Requests) /\ l \in Nat /\ DOMAIN queue = 1 .. l
        /\ DOMAIN queue' = 1 .. (l + 1) /\ queue'[l + 1] = r
        /\ \A i \in 1 .. l : queue'[i] = queue[i] /\ queue[i] \in Requests
    BY <1>3, <2>3, QueueTyped, AppendProperties, LenProperties DEF TypeOK
  <2>5. ~InQueue(r) /\ \A q \in Requests : req[q].closes # r
    BY <1>1, <1>3, <2>3 DEF QueueOK, QueuedWait, NotifiedSoon, InQueue, Left, Sound, RouteOK, Looping
  <2>6. req'[r] = n /\ \A q \in Requests \ {r} : req'[q] = req[q]
    BY <1>3, <2>3, BecomeIs
  <2>7. n.pc = "queued" /\ ~n.notified /\ n.closes = s.closes
    BY <1>1 DEF Request
  <2> HIDE DEF l
  <2>8. \A q \in Requests : InQueue(q)' <=> (q = r \/ InQueue(q))
    BY <2>4 DEF InQueue
  <2>9. QueuedOnce'
    BY <2>3, <2>4, <2>5 DEF QueueOK, QueuedOnce, InQueue
  <2>10. QueuedWait'
    <3>1. ASSUME NEW i \in 1 .. l
          PROVE  req'[queue'[i]].pc \in {"queued", "waiting"} /\ ~req'[queue'[i]].notified
      <4>1. queue[i] # r /\ queue[i] \in Requests /\ queue'[i] = queue[i]
        BY <2>4, <2>5 DEF InQueue
      <4>2. req'[queue[i]] = req[queue[i]]
        BY <2>6, <4>1
      <4>3. QED
        BY <2>3, <2>4, <4>1, <4>2 DEF QueueOK, QueuedWait
    <3>2. req'[queue'[l + 1]].pc = "queued" /\ ~req'[queue'[l + 1]].notified
      BY <2>4, <2>6, <2>7
    <3>3. \A i \in 1 .. (l + 1) : i \in 1 .. l \/ i = l + 1
      BY <2>4
    <3>4. QED
      BY <2>4, <3>1, <3>2, <3>3 DEF QueuedWait
  <2>11. \A q \in Requests : req'[q].closes = req[q].closes
    BY <2>6, <2>7
  <2>12. Notifiers'
    BY <1>1, <2>3, <2>6, <2>7 DEF QueueOK, Notifiers
  <2>13. NotifiedSoon'
    <3>1. ASSUME NEW q \in Requests, NEW p \in Requests, req'[q].closes = p
          PROVE  /\ ~InQueue(p)' /\ ~req'[p].notified
                 /\ req'[p].pc \in {"queued", "waiting"} \/ req'[p].deadline = "passed" \/ Left(req'[p])
      <4>1. req[q].closes = p /\ p # r
        BY <2>5, <2>11, <3>1
      <4>2. QED
        BY <2>3, <2>6, <2>8, <4>1 DEF QueueOK, NotifiedSoon
    <3>2. QED
      BY <3>1 DEF NotifiedSoon, Left
  <2>14. OneNotifier'
    BY <2>3, <2>11 DEF QueueOK, OneNotifier
  <2>15. Covered'
    BY <2>3, <2>6, <2>8, <2>11 DEF QueueOK, Covered
  <2>16. QueueOK'
    BY <2>9, <2>10, <2>12, <2>13, <2>14, <2>15 DEF QueueOK
  <2>17. QED
    BY <1>3, <2>1, <2>2, <2>4, <2>16, QueueStep DEF Enqueue
<1>4. QED
    BY <1>2, <1>3 DEF Enqueue

\* A waiter that ends: its item is out of the queue, whoever took it out.
LEMMA WaiterFails ==
    ASSUME Inv, NEW r \in Requests, req[r].pc \in {"queued", "waiting"},
           queue' = RemoveItem(r), Become(r, Failed(req[r])), UNCHANGED <<rpm, conc, global, cancelled>>
    PROVE  Inv'
<1> DEFINE s == req[r]
           n == Failed(s)
<1>1. s \in Request /\ Sound(s) /\ TypeOK /\ QueueOK
    BY RequestSound DEF Inv
<1>2. n \in Request
    BY <1>1, ControlPoints DEF Request, Failed
<1>3. Sound(n) /\ SlotFrame(s, n)
    BY <1>1, <1>2, ChannelSets
    DEF Failed, Request, Sound, RouteOK, HeldOK, CalledOK, Looping, Trying, SlotFrame
<1>4. n.pc = "after" /\ n.closes = s.closes /\ n.notified = s.notified
    BY <1>1 DEF Request, Failed
<1>5. /\ queue' \in Seq(Requests)
      /\ \A i, j \in DOMAIN queue' : queue'[i] = queue'[j] => i = j
      /\ \A q \in Requests : InQueue(q)' <=> (q # r /\ InQueue(q))
    BY <1>1, RemoveItemIs DEF QueueOK, InQueue
<1> HIDE DEF n
<1>6. Left(n)
    BY <1>4 DEF Left
<1>7. Become(r, n)
    BY DEF n
<1>8. QueueOK'
    BY <1>1, <1>2, <1>4, <1>5, <1>6, <1>7, LeavesQueue
<1>9. QED
    BY <1>2, <1>3, <1>5, <1>7, <1>8, QueueStep

\* A waiter that is not in the queue starts over.
LEMMA WokenKeeps ==
    ASSUME Inv, NEW r \in Requests, req[r].pc \in {"queued", "waiting"}, ~InQueue(r),
           req[r].notified \/ req[r].deadline = "passed",
           queue' = queue, Woken(r), UNCHANGED <<rpm, conc, global, cancelled>>
    PROVE  Inv'
<1> DEFINE s == req[r]
           n == [s EXCEPT !.pc = "select", !.used = {}]
<1>1. s \in Request /\ Sound(s) /\ TypeOK /\ QueueOK
    BY RequestSound DEF Inv
<1>2. RemoveItem(r) = queue
    BY DEF RemoveItem
<1>3. CASE Become(r, Failed(s))
    BY <1>2, <1>3, WaiterFails
<1>4. CASE Become(r, n)
  <2>1. n \in Request
    BY <1>1, ControlPoints DEF Request
  <2>2. Sound(n) /\ SlotFrame(s, n)
    BY <1>1, <2>1, ChannelSets
    DEF Request, Sound, RouteOK, HeldOK, CalledOK, Looping, Trying, SlotFrame
  <2>3. n.pc = "select" /\ n.closes = s.closes /\ n.notified = s.notified /\ n.deadline = s.deadline
    BY <1>1 DEF Request
  <2>4. /\ queue' \in Seq(Requests)
        /\ \A i, j \in DOMAIN queue' : queue'[i] = queue'[j] => i = j
        /\ \A q \in Requests : InQueue(q)' <=> (q # r /\ InQueue(q))
    BY <1>1, <1>2, RemoveItemIs DEF QueueOK, InQueue
  <2> HIDE DEF n
  <2>5. n.notified \/ n.deadline = "passed"
    BY <2>3
  <2>6. QueueOK'
    BY <1>1, <1>4, <2>1, <2>3, <2>4, <2>5, LeavesQueue
  <2>7. QED
    BY <1>4, <2>1, <2>2, <2>4, <2>6, QueueStep
<1>5. QED
    BY <1>3, <1>4 DEF Woken

LEMMA StartWaitKeeps == ASSUME Inv, NEW r \in Requests, StartWait(r) PROVE Inv'
<1> DEFINE s == req[r]
           n == [s EXCEPT !.pc = "waiting"]
<1>1. s \in Request /\ Sound(s) /\ s.pc = "queued" /\ TypeOK /\ QueueOK
    BY RequestSound DEF StartWait, At, Inv
<1>2. CASE queue' = RemoveItem(r) /\ Become(r, Failed(s))
    BY <1>1, <1>2, WaiterFails DEF StartWait
<1>3. CASE Become(r, n) /\ queue' = queue
  <2>1. n \in Request
    BY <1>1, ControlPoints DEF Request
  <2>2. Sound(n) /\ SlotFrame(s, n)
    BY <1>1, <2>1, ChannelSets
    DEF Request, Sound, RouteOK, HeldOK, CalledOK, Looping, Trying, SlotFrame
  <2>3. n.pc = "waiting" /\ n.closes = s.closes /\ n.notified = s.notified
    BY <1>1 DEF Request
  <2>4. QueueOK'
    BY <1>1, <1>3, <2>1, <2>3, StaysWaiter
  <2>5. queue' \in Seq(Requests)
    BY <1>1, <1>3 DEF TypeOK
  <2>6. QED
    BY <1>3, <2>1, <2>2, <2>4, <2>5, QueueStep DEF StartWait
<1>4. QED
    BY <1>2, <1>3 DEF StartWait

LEMMA WakeKeeps == ASSUME Inv, NEW r \in Requests, Wake(r) PROVE Inv'
<1>1. req[r].pc = "waiting" /\ req[r].notified
    BY DEF Wake, At
<1>2. ~InQueue(r)
    BY <1>1 DEF Inv, QueueOK, QueuedWait, InQueue
<1>3. QED
    BY <1>1, <1>2, WokenKeeps DEF Wake

LEMMA TimeoutKeeps == ASSUME Inv, NEW r \in Requests, Timeout(r) PROVE Inv'
<1>1. req[r].pc = "waiting" /\ req[r].deadline = "passed"
    BY DEF Timeout, At
<1>2. CASE InQueue(r)
    BY <1>1, <1>2, WaiterFails DEF Timeout
<1>3. CASE ~InQueue(r)
  <2>1. queue' = queue
    BY <1>3 DEF Timeout, RemoveItem
  <2>2. QED
    BY <1>1, <1>3, <2>1, WokenKeeps DEF Timeout
<1>4. QED
    BY <1>2, <1>3

LEMMA CancelWaitKeeps == ASSUME Inv, NEW r \in Requests, CancelWait(r) PROVE Inv'
BY WaiterFails DEF CancelWait, At

LEMMA DeadlinePassesKeeps == ASSUME Inv, NEW r \in Requests, DeadlinePasses(r) PROVE Inv'
<1> DEFINE s == req[r]
           n == [s EXCEPT !.deadline = "passed"]
<1>1. s \in Request /\ Sound(s) /\ TypeOK /\ QueueOK /\ s.pc \in BeforeAdmission
    BY RequestSound DEF DeadlinePasses, Inv
<1>2. n \in Request
    BY <1>1 DEF Request
<1>3. Sound(n) /\ SlotFrame(s, n)
    BY <1>1, <1>2
    DEF Request, Sound, RouteOK, HeldOK, CalledOK, Looping, Trying, SlotFrame
<1>4. /\ n.pc = s.pc /\ n.closes = s.closes /\ n.notified = s.notified
      /\ n.deadline = "passed" /\ n.inChain = s.inChain
    BY <1>1 DEF Request
<1>5. Become(r, n) /\ UNCHANGED <<rpm, conc, global, queue, cancelled>>
    BY DEF DeadlinePasses
<1>6. CASE s.pc \in {"queued", "waiting"}
  <2>1. QueueOK'
    BY <1>1, <1>2, <1>4, <1>5, <1>6, StaysWaiter
  <2>2. queue' \in Seq(Requests)
    BY <1>1, <1>5 DEF TypeOK
  <2>3. QED
    BY <1>2, <1>3, <1>5, <2>1, <2>2, QueueStep
<1>7. CASE s.pc \notin {"queued", "waiting"}
  <2> HIDE DEF n
  <2>1. QueueFrame(s, n)
    BY <1>1, <1>4, <1>7 DEF QueueFrame, Left, BeforeAdmission
  <2>2. QED
    BY <1>2, <1>3, <1>5, <2>1, PlainStep DEF Plain
<1>8. QED
    BY <1>6, <1>7

LEMMA NotifyRpmReleaseKeeps == ASSUME Inv, NEW r \in Requests, NotifyRpmRelease(r) PROVE Inv'
<1> DEFINE s == req[r]
<1>1. s \in Request /\ Sound(s) /\ s.pc = "release" /\ TypeOK /\ QueueOK
    BY RequestSound DEF NotifyRpmRelease, At, Inv
<1>2. CASE Become(r, [s EXCEPT !.pc = "done"]) /\ queue' = queue
  <2> DEFINE n == [s EXCEPT !.pc = "done"]
  <2>1. n \in Request
    BY <1>1, ControlPoints DEF Request
  <2>2. Plain(r, n)
    BY <1>1, <2>1, ChannelSets
    DEF Plain, Request, Sound, RouteOK, HeldOK, CalledOK, Looping, Trying, QueueFrame, SlotFrame, Left
  <2>3. QED
    BY <1>2, <2>2, PlainStep DEF NotifyRpmRelease
<1>3. CASE /\ queue # <<>> /\ queue' = Tail(queue)
           /\ Become(r, [s EXCEPT !.pc = "close", !.closes = Head(queue)])
  <2> DEFINE h == Head(queue)
             n == [s EXCEPT !.pc = "close", !.closes = h]
             l == Len(queue)
  <2>1. /\ h \in Requests /\ queue' \in Seq(Requests)
        /\ l \in Nat \ {0} /\ DOMAIN queue = 1 .. l /\ DOMAIN queue' = 1 .. (l - 1)
        /\ h = queue[1] /\ \A i \in 1 .. (l - 1) : queue'[i] = queue[i + 1]
    BY <1>1, <1>3, HeadTailProperties, LenProperties, EmptySeq DEF TypeOK
  <2>2. n \in Request
    BY <1>1, <2>1, ControlPoints DEF Request
  <2>3. Sound(n) /\ SlotFrame(s, n)
    BY <1>1, <2>2, ChannelSets
    DEF Request, Sound, RouteOK, HeldOK, CalledOK, Looping, Trying, SlotFrame
  <2>4. n.pc = "close" /\ n.closes = h /\ n.notified = s.notified
    BY <1>1 DEF Request
  <2>5. Become(r, n)
    BY <1>3
  <2> HIDE DEF h, n, l
  <2>6. req'[r] = n /\ \A q \in Requests \ {r} : req'[q] = req[q]
    BY <1>1, <2>5, BecomeIs
  <2>7. \A i \in 1 .. (l - 1) : i + 1 \in DOMAIN queue /\ queue'[i] = queue[i + 1] /\ queue[i + 1] \in Requests
    BY <1>1, <2>1, QueueTyped
  <2>8. /\ InQueue(h) /\ req[h].pc \in {"queued", "waiting"} /\ ~req[h].notified
        /\ h # r /\ ~InQueue(r) /\ s.closes = NoChannel
    BY <1>1, <2>1 DEF InQueue, QueueOK, QueuedWait, Notifiers
  <2>9. \A q \in Requests : InQueue(q)' <=> (q # h /\ InQueue(q))
    <3>1. ASSUME NEW q \in Requests, InQueue(q)' PROVE q # h /\ InQueue(q)
      BY <1>1, <2>1, <2>7, <3>1 DEF InQueue, QueueOK, QueuedOnce
    <3>2. ASSUME NEW q \in Requests, q # h, InQueue(q) PROVE InQueue(q)'
      <4>1. PICK i \in 1 .. l : queue[i] = q
        BY <2>1, <3>2 DEF InQueue
      <4>2. i - 1 \in 1 .. (l - 1) /\ (i - 1) + 1 = i
        BY <2>1, <3>2, <4>1
      <4>3. queue'[i - 1] = q
        BY <2>7, <4>1, <4>2
      <4>4. QED
        BY <2>1, <4>2, <4>3 DEF InQueue
    <3>3. QED
      BY <3>1, <3>2
  <2>10. QueuedOnce'
    BY <1>1, <2>1, <2>7 DEF QueueOK, QueuedOnce
  <2>11. QueuedWait'
    <3>1. ASSUME NEW i \in 1 .. (l - 1)
          PROVE  req'[queue'[i]].pc \in {"queued", "waiting"} /\ ~req'[queue'[i]].notified
      <4>1. queue[i + 1] # r
        BY <2>7, <2>8 DEF InQueue
      <4>2. req'[queue[i + 1]] = req[queue[i + 1]]
        BY <2>6, <2>7, <4>1
      <4>3. QED
        BY <1>1, <2>7, <4>2 DEF QueueOK, QueuedWait
    <3>2. QED
      BY <2>1, <3>1 DEF QueuedWait
  <2>12. Notifiers'
    <3>1. h # NoChannel
      BY <2>1, RequestsAssumption
    <3>2. QED
      BY <1>1, <2>4, <2>6, <3>1 DEF QueueOK, Notifiers
  <2>13. \A q \in Requests : q # r => req[q].closes # h
    BY <1>1, <2>1, <2>8 DEF QueueOK, NotifiedSoon
  <2>14. NotifiedSoon'
    <3>1. ASSUME NEW q \in Requests, NEW p \in Requests, req'[q].closes = p
          PROVE  /\ ~InQueue(p)' /\ ~req'[p].notified
                 /\ req'[p].pc \in {"queued", "waiting"} \/ req'[p].deadline = "passed" \/ Left(req'[p])
      <4>1. CASE q = r
        BY <2>4, <2>6, <2>8, <2>9, <3>1, <4>1
      <4>2. CASE q # r
        <5>1. req[q].closes = p
          BY <2>6, <3>1, <4>2
        <5>2. /\ ~InQueue(p) /\ ~req[p].notified
              /\ req[p].pc \in {"queued", "waiting"} \/ req[p].deadline = "passed" \/ Left(req[p])
          BY <1>1, <5>1 DEF QueueOK, NotifiedSoon
        <5>3. req'[r].pc = "close" /\ req'[r].notified = req[r].notified /\ Left(req'[r])
          BY <2>4, <2>6 DEF Left
        <5>4. QED
          BY <2>6, <2>9, <5>2, <5>3
      <4>3. QED
        BY <4>1, <4>2
    <3>2. QED
      BY <3>1 DEF NotifiedSoon, Left
  <2>15. OneNotifier'
    BY <1>1, <2>4, <2>6, <2>13 DEF QueueOK, OneNotifier
  <2>16. Covered'
    <3>1. ASSUME NEW p \in Requests, req'[p].pc \in {"queued", "waiting"}
          PROVE  InQueue(p)' \/ req'[p].notified \/ \E q \in Requests : req'[q].closes = p
      <4>1. p # r /\ req'[p] = req[p]
        BY <2>4, <2>6, <3>1
      <4>2. CASE p = h
        BY <2>4, <2>6, <4>2
      <4>3. CASE p # h
        <5>1. InQueue(p) \/ req[p].notified \/ \E q \in Requests : req[q].closes = p
          BY <1>1, <3>1, <4>1 DEF QueueOK, Covered
        <5>2. \A q \in Requests : req[q].closes = p => q # r
          BY <2>8, RequestsAssumption
        <5>3. QED
          BY <2>6, <2>9, <4>1, <4>3, <5>1, <5>2
      <4>4. QED
        BY <4>2, <4>3
    <3>2. QED
      BY <3>1 DEF Covered
  <2>17. QueueOK'
    BY <2>10, <2>11, <2>12, <2>14, <2>15, <2>16 DEF QueueOK
  <2>18. QED
    BY <2>1, <2>2, <2>3, <2>5, <2>17, QueueStep DEF NotifyRpmRelease
<1>4. QED
    BY <1>2, <1>3 DEF NotifyRpmRelease

LEMMA CloseNotifyKeeps == ASSUME Inv, NEW r \in Requests, CloseNotify(r) PROVE Inv'
<1> DEFINE h == req[r].closes
<1>1. req[r] \in Request /\ Sound(req[r]) /\ req[r].pc = "close" /\ TypeOK /\ AllSound /\ QueueOK /\ SlotsAccounted
    BY RequestSound DEF CloseNotify, At, Inv
<1>2. h \in Requests
    BY <1>1 DEF QueueOK, Notifiers, Request
<1>3. req' = [req EXCEPT ![h].notified = TRUE, ![r].pc = "done", ![r].closes = NoChannel]
    BY DEF CloseNotify
<1>4. UNCHANGED <<rpm, conc, global, queue, cancelled>>
    BY DEF CloseNotify
<1> HIDE DEF h
<1>5. \A q \in Requests : req[q] \in Request
    BY <1>1 DEF TypeOK
<1> DEFINE Told(s) == [s EXCEPT !.notified = TRUE]
           Ended(s) == [s EXCEPT !.pc = "done", !.closes = NoChannel]
<1>6. /\ \A q \in Requests \ {h, r} : req'[q] = req[q]
      /\ h # r => req'[h] = Told(req[h]) /\ req'[r] = Ended(req[r])
      /\ h = r => req'[r] = Ended(Told(req[r]))
  <2>1. DOMAIN req = Requests
    BY <1>1 DEF TypeOK
  <2>2. QED
    BY <1>2, <1>3, <1>5, <2>1 DEF Request
<1>7. ASSUME NEW q \in Requests
      PROVE  /\ req'[q] \in Request
             /\ req'[q].pc = IF q = r THEN "done" ELSE req[q].pc
             /\ req'[q].closes = IF q = r THEN NoChannel ELSE req[q].closes
             /\ req'[q].notified <=> (q = h \/ req[q].notified)
             /\ req'[q].deadline = req[q].deadline
             /\ SlotFrame(req[q], req'[q])
             /\ Left(req[q]) => Left(req'[q])
             /\ Sound(req'[q])
  <2>1. req[q] \in Request /\ Sound(req[q])
    BY <1>1, <1>5 DEF AllSound
  <2>2. CASE q \notin {h, r}
    BY <1>6, <2>1, <2>2 DEF SlotFrame
  <2>3. CASE q = h /\ h # r
    <3>1. Told(req[q]) \in Request
      BY <2>1 DEF Request
    <3>2. Sound(Told(req[q]))
      BY <2>1 DEF Request, Sound, RouteOK, HeldOK, CalledOK, Looping, Trying
    <3>3. QED
      BY <1>6, <2>1, <2>3, <3>1, <3>2 DEF Request, SlotFrame, Left
  <2>4. CASE q = r /\ h # r
    <3>1. Ended(req[r]) \in Request
      BY <1>1, ControlPoints DEF Request
    <3>2. Sound(Ended(req[r]))
      BY <1>1 DEF Request, Sound, RouteOK, HeldOK, CalledOK, Looping, Trying
    <3>3. QED
      BY <1>6, <2>1, <2>4, <3>1, <3>2 DEF Request, SlotFrame, Left
  <2>5. CASE q = r /\ h = r
    <3>1. Ended(Told(req[r])) \in Request
      BY <1>1, ControlPoints DEF Request
    <3>2. Sound(Ended(Told(req[r])))
      BY <1>1 DEF Request, Sound, RouteOK, HeldOK, CalledOK, Looping, Trying
    <3>3. /\ Ended(Told(req[r])).pc = "done" /\ Ended(Told(req[r])).closes = NoChannel
          /\ Ended(Told(req[r])).notified /\ Ended(Told(req[r])).deadline = req[r].deadline
          /\ SlotFrame(req[r], Ended(Told(req[r])))
      BY <1>1 DEF Request, SlotFrame
    <3>4. Left(Ended(Told(req[r])))
      BY <3>3 DEF Left
    <3> HIDE DEF Told, Ended
    <3>5. QED
      BY <1>6, <2>5, <3>1, <3>2, <3>3, <3>4
  <2>6. QED
    BY <2>2, <2>3, <2>4, <2>5
<1> HIDE DEF Told, Ended
<1>8. \A q \in Requests : Left(req[q]) => Left(req'[q])
    BY <1>7
<1>10. AllSound'
    BY <1>7 DEF AllSound, Sound, RouteOK, HeldOK, CalledOK
<1>11. TypeOK'
    BY <1>1, <1>3, <1>4, <1>7 DEF TypeOK
<1>12. SlotsAccounted'
  <2>1. /\ \A c \in Channels : RpmHolders(c)' = RpmHolders(c) /\ ConcHolders(c)' = ConcHolders(c)
        /\ Counted' = Counted
    BY <1>7 DEF SlotFrame, RpmHolders, ConcHolders, Counted
  <2>2. QED
    BY <1>1, <1>4, <2>1 DEF SlotsAccounted
<1>13. \A q \in Requests : InQueue(q)' <=> InQueue(q)
    BY <1>4 DEF InQueue
<1>14. ~InQueue(h) /\ ~InQueue(r)
    BY <1>1, <1>2 DEF QueueOK, NotifiedSoon, QueuedWait, InQueue, h
<1>15. QueuedOnce'
    BY <1>1, <1>4 DEF QueueOK, QueuedOnce
<1>16. QueuedWait'
  <2>1. \A i \in DOMAIN queue : queue[i] \in Requests /\ queue[i] # r /\ queue[i] # h
    BY <1>1, <1>14, QueueTyped DEF InQueue
  <2>2. QED
    BY <1>1, <1>4, <1>7, <2>1 DEF QueueOK, QueuedWait
<1>17. Notifiers'
    BY <1>1, <1>7 DEF QueueOK, Notifiers
<1>18. NotifiedSoon'
  <2>1. ASSUME NEW q \in Requests, NEW p \in Requests, req'[q].closes = p
        PROVE  /\ ~InQueue(p)' /\ ~req'[p].notified
               /\ req'[p].pc \in {"queued", "waiting"} \/ req'[p].deadline = "passed" \/ Left(req'[p])
    <3>1. q # r /\ req[q].closes = p
      BY <1>7, <2>1, RequestsAssumption
    <3>2. p # h
      BY <1>1, <1>2, <3>1, RequestsAssumption DEF QueueOK, OneNotifier, h
    <3>3. /\ ~InQueue(p) /\ ~req[p].notified
          /\ req[p].pc \in {"queued", "waiting"} \/ req[p].deadline = "passed" \/ Left(req[p])
      BY <1>1, <3>1 DEF QueueOK, NotifiedSoon
    <3>4. CASE p = r
      BY <1>1, <1>7, <1>8, <1>13, <3>2, <3>3, <3>4
    <3>5. CASE p # r
      BY <1>7, <1>8, <1>13, <3>2, <3>3, <3>5
    <3>6. QED
      BY <3>4, <3>5
  <2>2. QED
    BY <2>1 DEF NotifiedSoon, Left
<1>19. OneNotifier'
    BY <1>1, <1>7 DEF QueueOK, OneNotifier
<1>20. Covered'
  <2>1. ASSUME NEW p \in Requests, req'[p].pc \in {"queued", "waiting"}
        PROVE  InQueue(p)' \/ req'[p].notified \/ \E q \in Requests : req'[q].closes = p
    <3>1. p # r /\ req[p].pc \in {"queued", "waiting"}
      BY <1>7, <2>1
    <3>2. InQueue(p) \/ req[p].notified \/ \E q \in Requests : req[q].closes = p
      BY <1>1, <3>1 DEF QueueOK, Covered
    <3>3. CASE p = h
      BY <1>7, <3>3
    <3>4. CASE p # h
      BY <1>7, <1>13, <3>2, <3>4 DEF h
    <3>5. QED
      BY <3>3, <3>4
  <2>2. QED
    BY <2>1 DEF Covered
<1>21. QED
    BY <1>10, <1>11, <1>12, <1>15, <1>16, <1>17, <1>18, <1>19, <1>20 DEF Inv, QueueOK

-----------------------------------------------------------------------------
(* The environment, and the theorems.                                      *)

LEMMA SameRequests ==
    ASSUME Inv, UNCHANGED <<queue, req>>
    PROVE  /\ QueueOK' /\ AllSound'
           /\ \A c \in Channels : RpmHolders(c)' = RpmHolders(c) /\ ConcHolders(c)' = ConcHolders(c)
           /\ Counted' = Counted
<1>1. QueueOK'
    BY DEF Inv, QueueOK, QueuedOnce, QueuedWait, Notifiers, NotifiedSoon, OneNotifier, Covered, InQueue, Left
<1>2. AllSound'
    BY DEF Inv, AllSound, Sound, RouteOK, HeldOK, CalledOK
<1>3. QED
    BY <1>1, <1>2 DEF RpmHolders, ConcHolders, Counted

LEMMA CancelKeeps == ASSUME Inv, NEW r \in Requests, Cancel(r) PROVE Inv'
BY SameRequests DEF Cancel, Inv, TypeOK, SlotsAccounted

LEMMA ExpireRpmKeeps == ASSUME Inv, ExpireRpm PROVE Inv'
<1>1. PICK c \in Channels : rpm[c] > 0 /\ rpm' = [rpm EXCEPT ![c] = @ - 1]
    BY DEF ExpireRpm
<1>2. UNCHANGED <<conc, global, queue, req, cancelled>> /\ WindowPasses
    BY DEF ExpireRpm
<1>3. rpm \in [Channels -> Nat] /\ rpm' \in [Channels -> Nat]
    BY <1>1 DEF Inv, TypeOK
<1>4. ASSUME NEW d \in Channels
      PROVE  /\ MaxRPM[d] > 0 => rpm'[d] <= MaxRPM[d]
             /\ rpm'[d] <= Cardinality(RpmHolders(d))
  <2>1. rpm'[d] <= rpm[d] /\ rpm[d] \in Nat /\ rpm'[d] \in Nat /\ MaxRPM[d] \in Nat
    BY <1>1, <1>3, ChannelSets
  <2>2. Cardinality(RpmHolders(d)) \in Nat
    BY HoldersFinite
  <2>3. QED
    BY <2>1, <2>2 DEF Inv, SlotsAccounted
<1>5. SlotsAccounted'
    BY <1>2, <1>4, SameRequests DEF Inv, SlotsAccounted
<1>6. QED
    BY <1>2, <1>3, <1>5, SameRequests DEF Inv, TypeOK

LEMMA ExpireGlobalKeeps == ASSUME Inv, ExpireGlobal PROVE Inv'
<1>1. UNCHANGED <<rpm, conc, queue, req, cancelled>> /\ WindowPasses /\ global > 0 /\ global' = global - 1
    BY DEF ExpireGlobal
<1>2. global \in Nat /\ global' \in Nat /\ Cardinality(Counted) \in Nat
    BY <1>1, HoldersFinite DEF Inv, TypeOK
<1>3. SlotsAccounted'
    BY <1>1, <1>2, SameRequests DEF Inv, SlotsAccounted
<1>4. QED
    BY <1>1, <1>2, <1>3, SameRequests DEF Inv, TypeOK

LEMMA InitInv == Init => Inv
<1> SUFFICES ASSUME Init PROVE Inv
    OBVIOUS
<1>1. Fresh \in Request
  <2>1. "distribute" \in PCs
    BY DEF PCs
  <2>2. QED
    BY <2>1 DEF Fresh, Request
<1>2. TypeOK
    BY <1>1, EmptySeq DEF Init, TypeOK
<1>3. \A r \in Requests : req[r] = Fresh
    BY DEF Init
<1>4. Sound(Fresh)
    BY DEF Fresh, Sound, RouteOK, HeldOK, CalledOK, Looping, Trying
<1>5. QueueOK
  <2>1. DOMAIN queue = {}
    BY DEF Init
  <2>2. \A r \in Requests : req[r].pc = "distribute" /\ req[r].closes = NoChannel
    BY <1>3 DEF Fresh
  <2>3. QED
    BY <2>1, <2>2, RequestsAssumption
    DEF QueueOK, QueuedOnce, QueuedWait, Notifiers, NotifiedSoon, OneNotifier, Covered, InQueue
<1>6. SlotsAccounted
  <2>1. \A r \in Requests : req[r].rpmHeld = {} /\ req[r].concHeld = {} /\ ~req[r].counted
    BY <1>3 DEF Fresh
  <2>2. (\A c \in Channels : RpmHolders(c) = {} /\ ConcHolders(c) = {}) /\ Counted = {}
    BY <2>1 DEF RpmHolders, ConcHolders, Counted
  <2>3. Cardinality({}) = 0
    BY FS_EmptySet
  <2>4. global = 0 /\ \A c \in Channels : rpm[c] = 0 /\ conc[c] = 0 /\ MaxRPM[c] \in Nat /\ MaxConcurrency[c] \in Nat
    BY ChannelSets DEF Init
  <2>5. QED
    BY <2>2, <2>3, <2>4 DEF SlotsAccounted
<1>7. QED
    BY <1>2, <1>3, <1>4, <1>5, <1>6 DEF Inv, AllSound

LEMMA StepKeeps == ASSUME Inv, NEW r \in Requests, Step(r) PROVE Inv'
BY DistributeKeeps, SelectKeeps, CheckOverloadKeeps, TryIncrementKeeps, TryAcquireKeeps, GiveBackRpmKeeps,
   RefusedKeeps, EnqueueKeeps, StartWaitKeeps, WakeKeeps, TimeoutKeeps, CancelWaitKeeps, AdmitKeeps,
   SucceedKeeps, PreflightFailsKeeps, UpstreamFailsKeeps, AfterKeeps, RetryOnceKeeps, ChainKeeps,
   ReleaseRpmKeeps, ReleaseConcKeeps, ReleaseGlobalKeeps, NotifyRpmReleaseKeeps, CloseNotifyKeeps
   DEF Step

LEMMA StutterKeeps == ASSUME Inv, UNCHANGED vars PROVE Inv'
BY SameRequests DEF vars, Inv, TypeOK, SlotsAccounted

LEMMA NextKeeps == Inv /\ [Next]_vars => Inv'
<1> SUFFICES ASSUME Inv, [Next]_vars PROVE Inv'
    OBVIOUS
<1>1. ASSUME NEW r \in Requests, Step(r) \/ Cancel(r) \/ DeadlinePasses(r) PROVE Inv'
    BY <1>1, StepKeeps, CancelKeeps, DeadlinePassesKeeps
<1>2. QED
    BY <1>1, ExpireRpmKeeps, ExpireGlobalKeeps, StutterKeeps DEF Next, AllDone

\* The invariant of the relay's admission (controller/relay.go, service/rpm_queue.go).
THEOREM AdmissionInvariant == Spec => []Inv
BY InitInv, NextKeeps, PTL DEF Spec

\* Every local of a request, the trackers and the queue keep their types.
THEOREM AdmissionTypeCorrect == Spec => []TypeOK
<1>1. Inv => TypeOK
    BY DEF Inv
<1>2. QED
    BY <1>1, AdmissionInvariant, PTL

\* acquireChannelSlots, its rollback and the deferred release leak no slot and free
\* none twice, for any limits and any interleaving.
THEOREM SlotsNeverLeak == Spec => []SlotsAccounted
<1>1. Inv => SlotsAccounted
    BY DEF Inv
<1>2. QED
    BY <1>1, AdmissionInvariant, PTL

\* waitForRpmQueue: nobody holds a slot and waits.
THEOREM NoHoldAndWait == Spec => []WaitersHoldNothing
<1>1. Inv => WaitersHoldNothing
    BY DEF Inv, WaitersHoldNothing, InQueue, QueueOK, QueuedWait, AllSound, Sound, RouteOK, HeldOK, Looping
<1>2. QED
    BY <1>1, AdmissionInvariant, PTL

\* Enqueue, RemoveItem and Dequeue keep each waiter once in the queue, and one that
\* was taken off it is notified or about to be.
THEOREM NoWaiterForgotten == Spec => []WaitersAreTracked
<1>1. Inv => WaitersAreTracked
    BY DEF Inv, WaitersAreTracked, InQueue, QueueOK, QueuedOnce, QueuedWait, Covered
<1>2. QED
    BY <1>1, AdmissionInvariant, PTL

\* The loop and the chain call a limited channel only with both of its slots.
THEOREM CalledWithSlots == Spec => []AdmittedWithSlots
<1>1. Inv => AdmittedWithSlots
    BY DEF Inv, AdmittedWithSlots, HoldsSlots, At, AllSound, Sound, HeldOK
<1>2. QED
    BY <1>1, AdmissionInvariant, PTL

\* The loop and the chain together call no channel twice, although a waiter's
\* UsedChannelIds are emptied.
THEOREM NeverCalledTwice == Spec => []CalledOnce
<1>1. Inv => CalledOnce
    BY DEF Inv, CalledOnce, At, AllSound, Sound, CalledOK, Trying
<1>2. QED
    BY <1>1, AdmissionInvariant, PTL
=============================================================================
