------------------------ MODULE PlaygroundChatProofs ------------------------
(***************************************************************************)
(* Safety of the playground page for any user, any number of requests and  *)
(* both modes.                                                             *)
(*                                                                         *)
(* Events go to the last message.  They reach the right one as long as the *)
(* user does not change the list, and a request during which he does is in *)
(* interrupted from then on: Own says that the last message is the answer  *)
(* of every other request under way.  Until the first such change there is *)
(* only one request under way, and Calm relates the two references that    *)
(* all requests share to it and to the message that is pending.            *)
(***************************************************************************)
EXTENDS PlaygroundChat, FiniteSetTheorems, SequenceTheorems, TLAPS

Message == [from : {"user", "assistant"}, key : Keys,
            status : {"none", "loading", "streaming", "complete", "error"},
            parts : SUBSET (0 .. MaxRequests)]

\* Message m holds no text of another request than its own and those in X.
TextOK(m, X) == m.parts \subseteq {Typed, m.key} \union X

\* A list of messages with keys of their own, which hold the text of no other requests than those in X.
ListOK(ms, X) ==
    /\ ms \in Seq(Message)
    /\ \A i \in 1 .. Len(ms) : ms[i].parts \subseteq {Typed, ms[i].key} \union X
    /\ \A i, j \in 1 .. Len(ms) : ms[i].key = ms[j].key => i = j

\* A request that is still to be made has no messages.
Unborn(ms, r) == \A i \in 1 .. Len(ms) : ms[i].key # r /\ ms[i].key # UserKey(r)

\* The last message is the answer to r.
Awaits(ms, r) == ms # <<>> /\ Newest(ms).from = "assistant" /\ Newest(ms).key = r

\* Only the last message is pending, and only while some stream is referenced.
PendingOK(ms, src) == \A i \in 1 .. Len(ms) : IsPending(ms[i]) => src # 0 /\ i = Len(ms)

Scalars ==
    /\ stream \in BOOLEAN /\ streamComplete \in BOOLEAN
    /\ req \in [Requests -> {"new", "open", "over"}]
    /\ source \in 0 .. MaxRequests /\ draining \in 0 .. MaxRequests
    /\ editing \in Keys \union {0}
    /\ interrupted \in SUBSET Requests

\* Events of r may arrive.
Live(r) == req[r] = "open" \/ draining = r

Own ==
    /\ Scalars
    /\ ListOK(messages, interrupted)
    /\ \A r \in Requests : req[r] = "new" => Unborn(messages, r)
    /\ \A r \in Requests : Live(r) /\ r \notin interrupted => Awaits(messages, r)

Control ==
    /\ \A q, r \in Requests : req[q] = "open" /\ req[r] = "open" => q = r
    /\ \A r \in Requests : req[r] = "open" =>
          draining = 0 /\ IF stream THEN source = r /\ ~streamComplete ELSE source = 0
    /\ ~stream => source = 0 /\ draining = 0
    /\ draining # 0 => source = 0

Calm ==
    /\ Control
    /\ \A r \in Requests : source = r => Awaits(messages, r)
    /\ draining # 0 => Newest(messages).status = "error"
    /\ \A r \in Requests : ~stream /\ req[r] = "open" => Newest(messages).status = "loading"
    /\ stream => PendingOK(messages, source)

Inv == Own /\ (interrupted = {} => Calm)

-----------------------------------------------------------------------------
(* Lists.                                                                  *)

\* What an error keeps: no message that failed has another status afterwards.
Sticks(ms, ns) ==
    \A i \in 1 .. Len(ms), j \in 1 .. Len(ns) :
        ms[i].status = "error" /\ ns[j].key = ms[i].key => ns[j].status = "error"

LEMMA Numbers ==
    /\ MaxRequests \in Nat \ {0}
    /\ \A r \in Requests : r \in Nat /\ r # 0 /\ r \in Keys /\ UserKey(r) \in Keys /\ r \in 0 .. MaxRequests
    /\ \A q, r \in Requests : UserKey(q) # r /\ (UserKey(q) = UserKey(r) => q = r)
    /\ 0 \notin Requests
BY RequestsAssumption DEF Requests, Keys, UserKey

LEMMA ListIs ==
    ASSUME NEW X, NEW ms, ListOK(ms, X)
    PROVE  Len(ms) \in Nat /\ DOMAIN ms = 1 .. Len(ms) /\ (\A i \in 1 .. Len(ms) : ms[i] \in Message)
           /\ (ms # <<>> => Len(ms) \in 1 .. Len(ms) /\ Newest(ms) = ms[Len(ms)] /\ Newest(ms) \in Message)
<1>1. ms \in Seq(Message)
    BY DEF ListOK
<1>2. Len(ms) \in Nat /\ DOMAIN ms = 1 .. Len(ms) /\ \A i \in 1 .. Len(ms) : ms[i] \in Message
    BY <1>1
<1>3. ms # <<>> => Len(ms) \in 1 .. Len(ms)
    BY <1>1, <1>2, EmptySeq
<1>4. QED
    BY <1>2, <1>3 DEF Newest

LEMMA ListFrom ==
    ASSUME NEW X, NEW n \in Nat, NEW ms \in [1 .. n -> Message],
           \A i \in 1 .. n : ms[i].parts \subseteq {Typed, ms[i].key} \union X,
           \A i, j \in 1 .. n : ms[i].key = ms[j].key => i = j
    PROVE  ListOK(ms, X) /\ Len(ms) = n
<1>1. ms \in Seq(Message) /\ Len(ms) = n
    OBVIOUS
<1>2. QED
    BY <1>1 DEF ListOK

\* The last message gets another status or other parts.
LEMMA LastChanged ==
    ASSUME NEW X, NEW ms, ListOK(ms, X), ms # <<>>, NEW m \in Message, m.key = Newest(ms).key, m.from = Newest(ms).from,
           TextOK(m, X), NEW ns, ns = [ms EXCEPT ![Len(ms)] = m]
    PROVE  /\ ListOK(ns, X) /\ ns # <<>> /\ Newest(ns) = m /\ Len(ns) = Len(ms)
           /\ \A i \in 1 .. Len(ms) : ns[i] = IF i = Len(ms) THEN m ELSE ms[i]
           /\ \A i \in 1 .. Len(ms) : ns[i].key = ms[i].key
           /\ (Newest(ms).status = "error" => m.status = "error") => Sticks(ms, ns)
<1>1. ms \in Seq(Message) /\ Len(ms) \in Nat /\ Len(ms) \in 1 .. Len(ms) /\ Newest(ms) = ms[Len(ms)]
    BY ListIs DEF ListOK
<1>2. /\ ns \in Seq(Message) /\ Len(ns) = Len(ms)
      /\ \A i \in 1 .. Len(ms) : ns[i] = IF i = Len(ms) THEN m ELSE ms[i]
    BY <1>1, ExceptSeq
<1>3. \A i \in 1 .. Len(ms) : ns[i].key = ms[i].key
    BY <1>1, <1>2
<1>4. ns # <<>> /\ Newest(ns) = m
    BY <1>1, <1>2, EmptySeq DEF Newest
<1>5. ASSUME NEW i \in 1 .. Len(ns) PROVE ns[i].parts \subseteq {Typed, ns[i].key} \union X
  <2>1. ns[i] = m \/ ns[i] = ms[i]
    BY <1>2
  <2>2. ms[i].parts \subseteq {Typed, ms[i].key} \union X
    BY <1>2 DEF ListOK
  <2>3. QED
    BY <2>1, <2>2 DEF TextOK
<1>6. \A i, j \in 1 .. Len(ns) : ns[i].key = ns[j].key => i = j
    BY <1>2, <1>3 DEF ListOK
<1>7. ListOK(ns, X)
    BY <1>2, <1>5, <1>6 DEF ListOK
<1>8. (Newest(ms).status = "error" => m.status = "error") => Sticks(ms, ns)
  <2>1. SUFFICES ASSUME Newest(ms).status = "error" => m.status = "error",
                        NEW i \in 1 .. Len(ms), NEW j \in 1 .. Len(ns), ms[i].status = "error", ns[j].key = ms[i].key
                 PROVE  ns[j].status = "error"
    BY DEF Sticks
  <2>2. j = i
    BY <1>2, <1>3, <2>1 DEF ListOK
  <2>3. QED
    BY <1>1, <1>2, <2>1, <2>2
<1>9. QED
    BY <1>2, <1>3, <1>4, <1>7, <1>8

\* Messages of request r, none of which was there before, are added at the end.
LEMMA Added ==
    ASSUME NEW X, NEW ms, ListOK(ms, X), NEW r \in Requests, Unborn(ms, r)
    PROVE  LET ns == Append(ms, Loading(r))
           IN  /\ ListOK(ns, X) /\ ns # <<>> /\ Newest(ns) = Loading(r) /\ Len(ns) = Len(ms) + 1
               /\ \A i \in 1 .. Len(ns) : ns[i] = IF i = Len(ns) THEN Loading(r) ELSE ms[i]
<1> DEFINE ns == Append(ms, Loading(r))
<1>1. ms \in Seq(Message) /\ Len(ms) \in Nat
    BY ListIs DEF ListOK
<1>2. Loading(r) \in Message /\ Loading(r).key = r /\ Loading(r).parts = {}
    BY Numbers DEF Loading, Message
<1>3. /\ ns \in Seq(Message) /\ Len(ns) = Len(ms) + 1
      /\ \A i \in 1 .. Len(ns) : ns[i] = IF i = Len(ns) THEN Loading(r) ELSE ms[i]
  <2> DEFINE m == Loading(r)
  <2>1. m \in Message
    BY <1>2
  <2> HIDE DEF m
  <2>2. Append(ms, m) \in Seq(Message) /\ Len(Append(ms, m)) = Len(ms) + 1
        /\ \A i \in 1 .. Len(ms) + 1 : Append(ms, m)[i] = IF i = Len(ms) + 1 THEN m ELSE ms[i]
    BY <1>1, <2>1
  <2>3. QED
    BY <2>2 DEF m
<1> HIDE DEF ns
<1>4. ns # <<>> /\ Newest(ns) = Loading(r)
    BY <1>1, <1>3, EmptySeq DEF Newest
<1>5. \A i \in 1 .. Len(ns) : ns[i].parts \subseteq {Typed, ns[i].key} \union X
    BY <1>1, <1>2, <1>3 DEF ListOK
<1>6. \A i, j \in 1 .. Len(ns) : ns[i].key = ns[j].key => i = j
    BY <1>1, <1>2, <1>3 DEF ListOK, Unborn
<1>7. ListOK(ns, X)
    BY <1>3, <1>5, <1>6 DEF ListOK
<1>8. QED
    BY <1>3, <1>4, <1>7 DEF ns

\* A message of ms with other text, perhaps; a list of such messages.
From(ms, m) == \E i \in 1 .. Len(ms) : m.key = ms[i].key /\ m.status = ms[i].status
Derived(ms, ns, X) == ListOK(ns, X) /\ \A j \in 1 .. Len(ns) : From(ms, ns[j])

\* The list with which request r is sent: messages of ms, perhaps one of the user, and the answer.
Sends(ms, ns, r, X) ==
    /\ ListOK(ns, X) /\ Awaits(ns, r)
    /\ \A j \in 1 .. (Len(ns) - 1) : From(ms, ns[j]) \/ (ns[j].key = UserKey(r) /\ ns[j].status = "none")

LEMMA DerivedKeeps ==
    ASSUME NEW X, NEW ms, ListOK(ms, X), NEW ns, Derived(ms, ns, X)
    PROVE  /\ Sticks(ms, ns)
           /\ \A r : Unborn(ms, r) => Unborn(ns, r)
           /\ (\A i \in 1 .. Len(ms) : ~IsPending(ms[i])) => \A i \in 1 .. Len(ns) : ~IsPending(ns[i])
<1>1. Sticks(ms, ns)
    BY DEF Sticks, Derived, From, ListOK
<1>2. \A r : Unborn(ms, r) => Unborn(ns, r)
    BY DEF Unborn, Derived, From
<1>3. (\A i \in 1 .. Len(ms) : ~IsPending(ms[i])) => \A i \in 1 .. Len(ns) : ~IsPending(ns[i])
    BY DEF IsPending, Derived, From
<1>4. QED
    BY <1>1, <1>2, <1>3

LEMMA SendsKeeps ==
    ASSUME NEW X, NEW ms, ListOK(ms, X), NEW r \in Requests, Unborn(ms, r), NEW ns, Sends(ms, ns, r, X)
    PROVE  /\ Sticks(ms, ns)
           /\ \A q \in Requests : q # r /\ Unborn(ms, q) => Unborn(ns, q)
           /\ (\A i \in 1 .. Len(ms) : ~IsPending(ms[i])) => \A i \in 1 .. Len(ns) : IsPending(ns[i]) => i = Len(ns)
<1>1. Len(ns) \in Nat /\ Len(ns) \in 1 .. Len(ns) /\ ns[Len(ns)].key = r
    BY ListIs DEF Sends, Awaits
<1>2. \A j \in 1 .. Len(ns) : j = Len(ns) \/ j \in 1 .. (Len(ns) - 1)
    BY <1>1
<1>3. Sticks(ms, ns)
  <2>1. SUFFICES ASSUME NEW i \in 1 .. Len(ms), NEW j \in 1 .. Len(ns), ms[i].status = "error", ns[j].key = ms[i].key
                 PROVE  ns[j].status = "error"
    BY DEF Sticks
  <2>2. j \in 1 .. (Len(ns) - 1) /\ ns[j].key # UserKey(r)
    BY <1>1, <1>2, <2>1 DEF Unborn
  <2>3. From(ms, ns[j])
    BY <2>2 DEF Sends
  <2>4. QED
    BY <2>1, <2>3 DEF From, ListOK
<1>4. \A q \in Requests : q # r /\ Unborn(ms, q) => Unborn(ns, q)
  <2>1. SUFFICES ASSUME NEW q \in Requests, q # r, Unborn(ms, q), NEW j \in 1 .. Len(ns)
                 PROVE  ns[j].key # q /\ ns[j].key # UserKey(q)
    BY DEF Unborn
  <2>2. CASE j = Len(ns)
    BY <1>1, <2>1, <2>2, Numbers
  <2>3. CASE j \in 1 .. (Len(ns) - 1)
    <3>1. CASE From(ms, ns[j])
      BY <2>1, <3>1 DEF From, Unborn
    <3>2. CASE ns[j].key = UserKey(r)
      BY <2>1, <3>2, Numbers
    <3>3. QED
      BY <2>3, <3>1, <3>2 DEF Sends
  <2>4. QED
    BY <1>2, <2>2, <2>3
<1>5. ASSUME \A i \in 1 .. Len(ms) : ~IsPending(ms[i]), NEW j \in 1 .. Len(ns), IsPending(ns[j]) PROVE j = Len(ns)
    BY <1>2, <1>5 DEF Sends, From, IsPending
<1>6. QED
    BY <1>3, <1>4, <1>5

LEMMA PrefixDerived ==
    ASSUME NEW X, NEW ms, ListOK(ms, X), NEW n \in 0 .. Len(ms)
    PROVE  Derived(ms, SubSeq(ms, 1, n), X) /\ Len(SubSeq(ms, 1, n)) = n
<1>1. ms \in Seq(Message) /\ Len(ms) \in Nat /\ n \in Int /\ n \in Nat
    BY ListIs DEF ListOK
<1>2. \A i \in 1 .. n : i \in 1 .. Len(ms) /\ ms[i] \in Message
    BY <1>1, ListIs
<1>3. PICK ns : ns = SubSeq(ms, 1, n)
    OBVIOUS
<1>4. ns \in Seq(Message) /\ Len(ns) = n /\ \A i \in 1 .. n : ns[i] = ms[i]
  <2>1. /\ SubSeq(ms, 1, n) \in Seq(Message) /\ Len(SubSeq(ms, 1, n)) = IF 1 <= n THEN n - 1 + 1 ELSE 0
        /\ \A i \in 1 .. n - 1 + 1 : SubSeq(ms, 1, n)[i] = ms[1 + i - 1]
    BY <1>1, <1>2, SubSeqProperties
  <2>2. QED
    BY <1>1, <1>3, <2>1
<1>5. ListOK(ns, X)
    BY <1>2, <1>4 DEF ListOK
<1>6. \A j \in 1 .. n : From(ms, ns[j])
    BY <1>2, <1>4 DEF From
<1>7. QED
    BY <1>3, <1>4, <1>5, <1>6 DEF Derived

LEMMA EditedDerived ==
    ASSUME NEW X, NEW ms, ListOK(ms, X), NEW k
    PROVE  Derived(ms, Edited(ms, k), X) /\ Len(Edited(ms, k)) = Len(ms)
<1>1. PICK n \in Nat : n = Len(ms)
    BY ListIs
<1> DEFINE v(i) == IF ms[i].key = k THEN [ms[i] EXCEPT !.parts = {Typed}] ELSE ms[i]
           ns == [i \in 1 .. n |-> v(i)]
<1>2. ASSUME NEW i \in 1 .. n
      PROVE  v(i) \in Message /\ v(i).key = ms[i].key /\ v(i).status = ms[i].status /\ v(i).parts \subseteq {Typed, v(i).key} \union X
  <2>1. ms[i] \in Message /\ ms[i].parts \subseteq {Typed, ms[i].key} \union X
    BY <1>1, ListIs DEF ListOK
  <2> DEFINE p == {Typed}
  <2>2. p \in SUBSET (0 .. MaxRequests) /\ p \subseteq {Typed, ms[i].key}
    BY Numbers DEF Typed
  <2> HIDE DEF p
  <2>3. PICK m \in Message : m = ms[i]
    BY <2>1
  <2>4. /\ [m EXCEPT !.parts = p] \in Message /\ [m EXCEPT !.parts = p].key = m.key
        /\ [m EXCEPT !.parts = p].status = m.status /\ [m EXCEPT !.parts = p].parts = p
    BY <2>2 DEF Message
  <2>5. v(i) = IF m.key = k THEN [m EXCEPT !.parts = p] ELSE m
    BY <2>3 DEF p
  <2> HIDE DEF v
  <2>6. QED
    BY <2>1, <2>2, <2>3, <2>4, <2>5
<1>3. Edited(ms, k) = ns
    BY <1>1 DEF Edited
<1> HIDE DEF v
<1>4. ns \in [1 .. n -> Message] /\ \A i \in 1 .. n : ns[i] = v(i)
    BY <1>2
<1> HIDE DEF ns
<1>5. ListOK(ns, X) /\ Len(ns) = n
  <2>1. \A i \in 1 .. n : ns[i].parts \subseteq {Typed, ns[i].key} \union X
    BY <1>2, <1>4
  <2>2. \A i, j \in 1 .. n : ns[i].key = ns[j].key => i = j
    BY <1>1, <1>2, <1>4 DEF ListOK
  <2>3. QED
    BY <1>4, <2>1, <2>2, ListFrom
<1>6. \A j \in 1 .. n : From(ms, ns[j])
    BY <1>1, <1>2, <1>4 DEF From
<1>7. QED
    BY <1>1, <1>3, <1>5, <1>6 DEF Derived

LEMMA WithoutDerived ==
    ASSUME NEW X, NEW ms, ListOK(ms, X), NEW i \in 1 .. Len(ms)
    PROVE  Derived(ms, Without(ms, i), X)
<1>1. PICK n \in Nat : n = Len(ms) - 1 /\ i \in 1 .. n + 1
    BY ListIs
<1> DEFINE f(a) == IF a < i THEN a ELSE a + 1
           ns == [a \in 1 .. n |-> ms[f(a)]]
<1>2. ASSUME NEW a \in 1 .. n PROVE f(a) \in 1 .. Len(ms) /\ \A b \in 1 .. n : f(a) = f(b) => a = b
    BY <1>1, ListIs
<1>3. Without(ms, i) = ns
    BY <1>1 DEF Without
<1> HIDE DEF f
<1>4. ns \in [1 .. n -> Message] /\ \A a \in 1 .. n : ns[a] = ms[f(a)]
    BY <1>2, ListIs
<1> HIDE DEF ns
<1>5. \A a, b \in 1 .. n : ns[a].key = ns[b].key => a = b
    BY <1>2, <1>4 DEF ListOK
<1>6. \A a \in 1 .. n : ns[a].parts \subseteq {Typed, ns[a].key} \union X
    BY <1>2, <1>4 DEF ListOK
<1>7. ListOK(ns, X) /\ Len(ns) = n
    BY <1>4, <1>5, <1>6, ListFrom
<1>8. \A j \in 1 .. n : From(ms, ns[j])
    BY <1>2, <1>4 DEF From
<1>9. QED
    BY <1>3, <1>7, <1>8 DEF Derived

LEMMA LoadingIs ==
    ASSUME NEW r \in Requests
    PROVE  /\ Loading(r) \in Message /\ Loading(r).key = r /\ Loading(r).parts = {} /\ Loading(r).from = "assistant"
           /\ Loading(r).status = "loading"
           /\ UserMessage(r) \in Message /\ UserMessage(r).key = UserKey(r) /\ UserMessage(r).status = "none"
           /\ UserMessage(r).parts = {Typed}
<1>1. {} \in SUBSET (0 .. MaxRequests) /\ {Typed} \in SUBSET (0 .. MaxRequests)
    BY Numbers DEF Typed
<1>2. QED
    BY <1>1, Numbers DEF Loading, UserMessage, Message

LEMMA AppendSends ==
    ASSUME NEW X, NEW ms, NEW bs, Derived(ms, bs, X), NEW r \in Requests, Unborn(ms, r), ListOK(ms, X)
    PROVE  Sends(ms, Append(bs, Loading(r)), r, X) /\ Newest(Append(bs, Loading(r))) = Loading(r)
<1>1. ListOK(bs, X) /\ Unborn(bs, r) /\ Len(bs) \in Nat
    BY DerivedKeeps, ListIs DEF Derived
<1>2. PICK ns : ns = Append(bs, Loading(r))
    OBVIOUS
<1>3. /\ ListOK(ns, X) /\ ns # <<>> /\ Newest(ns) = Loading(r) /\ Len(ns) = Len(bs) + 1
      /\ \A i \in 1 .. Len(ns) : ns[i] = IF i = Len(ns) THEN Loading(r) ELSE bs[i]
    BY <1>1, <1>2, Added
<1>4. Awaits(ns, r)
    BY <1>3, LoadingIs DEF Awaits
<1>5. \A j \in 1 .. (Len(ns) - 1) : From(ms, ns[j])
  <2>1. SUFFICES ASSUME NEW j \in 1 .. (Len(ns) - 1) PROVE From(ms, ns[j])
    OBVIOUS
  <2>2. ns[j] = bs[j] /\ j \in 1 .. Len(bs)
    BY <1>1, <1>3
  <2>3. QED
    BY <2>2 DEF Derived
<1>6. QED
    BY <1>2, <1>3, <1>4, <1>5 DEF Sends

LEMMA AskSends ==
    ASSUME NEW X, NEW ms, ListOK(ms, X), NEW r \in Requests, Unborn(ms, r)
    PROVE  LET ns == ms \o <<UserMessage(r), Loading(r)>>
           IN  Sends(ms, ns, r, X) /\ Newest(ns) = Loading(r)
<1>1. PICK u \in Message, l \in Message :
          /\ u = UserMessage(r) /\ l = Loading(r)
          /\ l.key = r /\ l.parts = {} /\ l.from = "assistant"
          /\ u.key = UserKey(r) /\ u.status = "none" /\ u.parts = {Typed}
    BY LoadingIs
<1>2. PICK n \in Nat : n = Len(ms)
    BY ListIs
<1>3. ms \in Seq(Message) /\ <<u, l>> \in Seq(Message) /\ Len(<<u, l>>) = 2
    BY <1>1 DEF ListOK
<1>4. PICK ns : ns = ms \o <<u, l>>
    OBVIOUS
<1>5. /\ ns \in Seq(Message) /\ Len(ns) = n + 2 /\ \A i \in 1 .. n : ns[i] = ms[i]
      /\ ns[n + 1] = u /\ ns[n + 2] = l
  <2>1. /\ ms \o <<u, l>> \in Seq(Message)
        /\ Len(ms \o <<u, l>>) = Len(ms) + Len(<<u, l>>)
        /\ \A i \in 1 .. Len(ms) + Len(<<u, l>>) : (ms \o <<u, l>>)[i] =
               IF i <= Len(ms) THEN ms[i] ELSE <<u, l>>[i - Len(ms)]
    BY <1>3, ConcatProperties
  <2>2. \A i \in 1 .. n + 2 : ns[i] = IF i <= n THEN ms[i] ELSE <<u, l>>[i - n]
    BY <1>2, <1>3, <1>4, <2>1
  <2>3. (n + 1) - n = 1 /\ (n + 2) - n = 2 /\ n + 1 \in 1 .. n + 2 /\ n + 2 \in 1 .. n + 2 /\ <<u, l>>[1] = u /\ <<u, l>>[2] = l
    OBVIOUS
  <2>4. ns[n + 1] = u /\ ns[n + 2] = l
    BY <2>2, <2>3
  <2>5. QED
    BY <1>2, <1>3, <1>4, <2>1, <2>2, <2>4
<1>6. \A i \in 1 .. n + 2 : i \in 1 .. n \/ i = n + 1 \/ i = n + 2
    OBVIOUS
<1>7. \A i \in 1 .. n : ms[i].key # r /\ ms[i].key # UserKey(r) /\ ms[i].parts \subseteq {Typed, ms[i].key} \union X
    BY <1>2 DEF Unborn, ListOK
<1>8. \A i \in 1 .. n + 2 : ns[i].parts \subseteq {Typed, ns[i].key} \union X
    BY <1>1, <1>5, <1>6, <1>7
<1>9. \A i, j \in 1 .. n + 2 : ns[i].key = ns[j].key => i = j
  <2>1. UserKey(r) # r
    BY Numbers
  <2>2. \A i, j \in 1 .. n : ms[i].key = ms[j].key => i = j
    BY <1>2 DEF ListOK
  <2>3. QED
    BY <1>1, <1>5, <1>6, <1>7, <2>1, <2>2
<1>10. ListOK(ns, X)
    BY <1>5, <1>8, <1>9 DEF ListOK
<1>11. ns # <<>> /\ Newest(ns) = l
    BY <1>5, EmptySeq DEF Newest
<1>12. \A j \in 1 .. (Len(ns) - 1) : From(ms, ns[j]) \/ (ns[j].key = UserKey(r) /\ ns[j].status = "none")
  <2>1. SUFFICES ASSUME NEW j \in 1 .. n + 1 PROVE From(ms, ns[j]) \/ (ns[j].key = UserKey(r) /\ ns[j].status = "none")
    BY <1>5
  <2>2. CASE j \in 1 .. n
    BY <1>2, <1>5, <2>2 DEF From
  <2>3. CASE j = n + 1
    BY <1>1, <1>5, <2>3
  <2>4. QED
    BY <2>2, <2>3
<1>13. Sends(ms, ns, r, X) /\ Newest(ns) = Loading(r)
    BY <1>1, <1>10, <1>11, <1>12 DEF Sends, Awaits
<1>14. QED
    BY <1>1, <1>4, <1>13

LEMMA Sanitized ==
    ASSUME NEW X, NEW ms, ListOK(ms, X), NEW ns, ns = SanitizeMessagesOnLoad(ms)
    PROVE  /\ ListOK(ns, X) /\ Sticks(ms, ns) /\ \A r : Unborn(ms, r) => Unborn(ns, r)
           /\ \A src : PendingOK(ms, src) => \A i \in 1 .. Len(ns) : ~IsPending(ns[i])
<1>1. PICK n \in Nat : n = Len(ms)
    BY ListIs
<1> DEFINE v(i) == IF i \in PendingAt(ms) /\ \A j \in PendingAt(ms) : j <= i THEN Sanitize(ms[i]) ELSE ms[i]
           xs == [i \in 1 .. n |-> v(i)]
<1>2. ASSUME NEW m \in Message
      PROVE  /\ Sanitize(m) \in Message /\ Sanitize(m).key = m.key /\ Sanitize(m).parts = m.parts
             /\ ~IsPending(Sanitize(m))
  <2>1. PICK st \in {"complete", "error"} : Sanitize(m) = [m EXCEPT !.status = st]
    BY DEF Sanitize, Complete
  <2>2. /\ [m EXCEPT !.status = st] \in Message /\ [m EXCEPT !.status = st].key = m.key
        /\ [m EXCEPT !.status = st].parts = m.parts /\ [m EXCEPT !.status = st].status = st
    BY <2>1 DEF Message
  <2>3. QED
    BY <2>1, <2>2 DEF IsPending
<1>3. ASSUME NEW i \in 1 .. n
      PROVE  /\ v(i) \in Message /\ v(i).key = ms[i].key /\ v(i).parts = ms[i].parts
             /\ ~IsPending(ms[i]) => v(i) = ms[i]
             /\ (\A j \in PendingAt(ms) : j <= i) => ~IsPending(v(i))
  <2>1. ms[i] \in Message
    BY <1>1, ListIs
  <2>2. i \in PendingAt(ms) <=> IsPending(ms[i])
    BY <1>1 DEF PendingAt
  <2>3. QED
    BY <1>2, <2>1, <2>2
<1>4. ns = xs
    BY <1>1 DEF SanitizeMessagesOnLoad
<1> HIDE DEF v
<1>5. xs \in [1 .. n -> Message] /\ \A i \in 1 .. n : xs[i] = v(i)
    BY <1>3
<1> HIDE DEF xs
<1>6. ListOK(ns, X) /\ Len(ns) = n
  <2>1. \A i \in 1 .. n : xs[i].parts \subseteq {Typed, xs[i].key} \union X
    BY <1>1, <1>3, <1>5 DEF ListOK
  <2>2. \A i, j \in 1 .. n : xs[i].key = xs[j].key => i = j
    BY <1>1, <1>3, <1>5 DEF ListOK
  <2>3. QED
    BY <1>4, <1>5, <2>1, <2>2, ListFrom
<1>7. Sticks(ms, ns)
  <2>1. SUFFICES ASSUME NEW i \in 1 .. n, NEW j \in 1 .. n, ms[i].status = "error", ns[j].key = ms[i].key
                 PROVE  ns[j].status = "error"
    BY <1>1, <1>6 DEF Sticks
  <2>2. j = i
    BY <1>1, <1>3, <1>4, <1>5, <2>1 DEF ListOK
  <2>3. ~IsPending(ms[i])
    BY <2>1 DEF IsPending
  <2>4. QED
    BY <1>3, <1>4, <1>5, <2>1, <2>2, <2>3
<1>8. \A r : Unborn(ms, r) => Unborn(ns, r)
    BY <1>1, <1>3, <1>4, <1>5, <1>6 DEF Unborn
<1>9. ASSUME NEW src, PendingOK(ms, src), NEW i \in 1 .. n PROVE ~IsPending(ns[i])
  <2>1. CASE IsPending(ms[i])
    <3>1. \A j \in PendingAt(ms) : j <= i
      BY <1>1, <1>9, <2>1 DEF PendingOK, PendingAt
    <3>2. QED
      BY <1>3, <1>4, <1>5, <3>1
  <2>2. CASE ~IsPending(ms[i])
    BY <1>3, <1>4, <1>5, <2>2
  <2>3. QED
    BY <2>1, <2>2
<1>10. QED
    BY <1>6, <1>7, <1>8, <1>9

-----------------------------------------------------------------------------
LEMMA ListGrows ==
    ASSUME NEW X, NEW Y, X \subseteq Y, NEW ms, ListOK(ms, X)
    PROVE  ListOK(ms, Y)
<1>1. ASSUME NEW i \in 1 .. Len(ms) PROVE ms[i].parts \subseteq {Typed, ms[i].key} \union Y
  <2>1. ms[i].parts \subseteq {Typed, ms[i].key} \union X
    BY DEF ListOK
  <2>2. QED
    BY <2>1
<1>2. QED
    BY <1>1 DEF ListOK

LEMMA DerivedTransitive ==
    ASSUME NEW X, NEW ms, NEW ks, NEW ns, Derived(ms, ks, X), Derived(ks, ns, X)
    PROVE  Derived(ms, ns, X)
BY DEF Derived, From

LEMMA SameSticks ==
    ASSUME NEW X, NEW ms, ListOK(ms, X)
    PROVE  Sticks(ms, ms)
BY DEF Sticks, ListOK

-----------------------------------------------------------------------------
(* What a step does to the last message.                                   *)

\* Message n is message m with another status or other parts, which may come from T.
PartsFrom(p, m, T) == p \subseteq m.parts \union T
Rewrites(m, n, T) == n \in Message /\ n.key = m.key /\ n.from = m.from /\ PartsFrom(n.parts, m, T)

LEMMA StatusRewrites ==
    ASSUME NEW m \in Message, NEW st \in {"none", "loading", "streaming", "complete", "error"},
           NEW p \in SUBSET (0 .. MaxRequests), NEW T, PartsFrom(p, m, T),
           NEW n, n = [m EXCEPT !.parts = p, !.status = st]
    PROVE  Rewrites(m, n, T) /\ n.status = st
BY DEF Rewrites, Message

LEMMA SameRewrites ==
    ASSUME NEW m \in Message, NEW T
    PROVE  Rewrites(m, m, T)
BY DEF Rewrites, PartsFrom

LEMMA ErrorRewrites ==
    ASSUME NEW m \in Message, NEW T
    PROVE  Rewrites(m, HandleStreamError(m), T) /\ HandleStreamError(m).status = "error"
<1>1. PICK p \in SUBSET (0 .. MaxRequests) : p = {} /\ PartsFrom(p, m, T)
  <2>1. {} \in SUBSET (0 .. MaxRequests) /\ PartsFrom({}, m, T)
    BY DEF PartsFrom
  <2>2. QED
    BY <2>1
<1>7. PartsFrom(p, m, T)
    BY <1>1
<1>2. PICK st \in {"none", "loading", "streaming", "complete", "error"} : st = "error"
    OBVIOUS
<1>3. PICK n : n = [m EXCEPT !.parts = p, !.status = st]
    OBVIOUS
<1>4. HandleStreamError(m) = n
    BY <1>1, <1>2, <1>3 DEF HandleStreamError
<1>5. n \in Message /\ n.key = m.key /\ n.from = m.from /\ n.parts = p /\ n.status = st
    BY <1>3 DEF Message
<1>6. QED
    BY <1>2, <1>4, <1>5, <1>7 DEF Rewrites

LEMMA CompleteRewrites ==
    ASSUME NEW m \in Message, NEW T
    PROVE  Rewrites(m, Complete(m), T) /\ Complete(m).status = "complete"
BY DEF Complete, Rewrites, Message, PartsFrom

LEMMA StopRewrites ==
    ASSUME NEW m \in Message, NEW T
    PROVE  /\ Rewrites(m, StopGeneration(m), T) /\ ~IsPending(StopGeneration(m))
           /\ m.status = "error" => StopGeneration(m).status = "error"
BY CompleteRewrites, SameRewrites DEF StopGeneration, IsPending

LEMMA DoneRewrites ==
    ASSUME NEW m \in Message, NEW T
    PROVE  /\ Rewrites(m, HandleStreamComplete(m), T) /\ ~IsPending(HandleStreamComplete(m))
           /\ m.status = "error" => HandleStreamComplete(m).status = "error"
BY CompleteRewrites, SameRewrites DEF HandleStreamComplete, IsPending

LEMMA ChunkRewrites ==
    ASSUME NEW m \in Message, NEW r \in Requests
    PROVE  /\ Rewrites(m, AddChunk(m, r), {r})
           /\ m.status = "error" => AddChunk(m, r).status = "error"
<1>1. CASE m.status = "error"
    BY <1>1, SameRewrites DEF AddChunk
<1>2. CASE m.status # "error"
  <2>1. m.parts \in SUBSET (0 .. MaxRequests)
    BY DEF Message
  <2> DEFINE p == m.parts \union {r}
  <2>2. p \in SUBSET (0 .. MaxRequests) /\ PartsFrom(p, m, {r})
    BY <2>1, Numbers DEF PartsFrom
  <2>3. AddChunk(m, r) = [m EXCEPT !.parts = p, !.status = "streaming"]
    BY <1>2 DEF AddChunk, Message
  <2> HIDE DEF p
  <2>4. QED
    BY <1>2, <2>2, <2>3, StatusRewrites
<1>3. QED
    BY <1>1, <1>2

LEMMA AnswerRewrites ==
    ASSUME NEW m \in Message, NEW r \in Requests
    PROVE  Rewrites(m, Answered(m, r), {r})
<1> DEFINE p == {r}
<1>1. p \in SUBSET (0 .. MaxRequests) /\ PartsFrom(p, m, {r})
    BY Numbers DEF PartsFrom
<1>2. Answered(m, r) = [m EXCEPT !.parts = p, !.status = "complete"]
    BY DEF Answered, Complete, Message
<1> HIDE DEF p
<1>3. QED
    BY <1>1, <1>2, StatusRewrites

\* Message m is the last one of ms with text that belongs there.
Belongs(ms, m, T, X) ==
    /\ \A t \in T : Awaits(ms, t) \/ t \in X
    /\ Newest(ms) \in Message => Rewrites(Newest(ms), m, T)

LEMMA LastRewritten ==
    ASSUME NEW X, NEW ms, ListOK(ms, X), NEW T, NEW m, Belongs(ms, m, T, X), NEW ns, ns = UpdateLast(ms, m)
    PROVE  /\ ListOK(ns, X) /\ Len(ns) = Len(ms)
           /\ \A q : Awaits(ms, q) => /\ Awaits(ns, q) /\ Newest(ns) = m
                                      /\ \A i \in 1 .. Len(ms) : ns[i] = IF i = Len(ms) THEN m ELSE ms[i]
           /\ \A q : Unborn(ms, q) => Unborn(ns, q)
           /\ (Newest(ms) \in Message /\ Newest(ms).status = "error" => m.status = "error") => Sticks(ms, ns)
<1>1. CASE ms # <<>> /\ Newest(ms).from = "assistant"
  <2>1. Newest(ms) \in Message /\ Newest(ms) = ms[Len(ms)] /\ Len(ms) \in 1 .. Len(ms)
    BY <1>1, ListIs
  <2>10. ms # <<>> /\ ns = [ms EXCEPT ![Len(ms)] = m]
    BY <1>1 DEF UpdateLast
  <2>2. m \in Message /\ m.key = Newest(ms).key /\ m.from = Newest(ms).from /\ PartsFrom(m.parts, Newest(ms), T)
    BY <2>1 DEF Rewrites, Belongs
  <2>3. T \subseteq {Newest(ms).key} \union X
    BY DEF Awaits, Belongs
  <2>4. Newest(ms).parts \subseteq {Typed, Newest(ms).key} \union X
    BY <2>1 DEF ListOK
  <2>5. TextOK(m, X)
    BY <2>2, <2>3, <2>4 DEF TextOK, PartsFrom
  <2>6. /\ ListOK(ns, X) /\ ns # <<>> /\ Newest(ns) = m /\ Len(ns) = Len(ms)
        /\ \A i \in 1 .. Len(ms) : ns[i] = IF i = Len(ms) THEN m ELSE ms[i]
        /\ \A i \in 1 .. Len(ms) : ns[i].key = ms[i].key
        /\ (Newest(ms).status = "error" => m.status = "error") => Sticks(ms, ns)
    BY <2>2, <2>5, <2>10, LastChanged
  <2>7. \A q : Awaits(ms, q) => Awaits(ns, q)
    BY <2>2, <2>6 DEF Awaits
  <2>8. \A q : Unborn(ms, q) => Unborn(ns, q)
    BY <2>6 DEF Unborn
  <2>9. QED
    BY <2>1, <2>6, <2>7, <2>8
<1>2. CASE ms = <<>> \/ Newest(ms).from # "assistant"
  <2>1. ns = ms /\ \A q : ~Awaits(ms, q)
    BY <1>2 DEF UpdateLast, Awaits
  <2>2. QED
    BY <2>1, SameSticks
<1>3. QED
    BY <1>1, <1>2

LEMMA FailSends ==
    ASSUME NEW X, NEW ms, NEW ns, NEW r \in Requests, Sends(ms, ns, r, X), Newest(ns) = Loading(r),
           NEW xs, xs = UpdateLast(ns, HandleStreamError(Newest(ns)))
    PROVE  Sends(ms, xs, r, X) /\ Newest(xs).status = "error"
<1>1. ListOK(ns, X) /\ Awaits(ns, r) /\ Len(ns) \in Nat
    BY ListIs DEF Sends
<1>2. PICK T : T = {}
    OBVIOUS
<1>3. PICK m : m = HandleStreamError(Newest(ns)) /\ Rewrites(Newest(ns), m, T) /\ m.status = "error"
    BY LoadingIs, ErrorRewrites
<1>7. Belongs(ns, m, T, X)
    BY <1>2, <1>3 DEF Belongs
<1>4. /\ ListOK(xs, X) /\ Len(xs) = Len(ns)
      /\ Awaits(xs, r) /\ Newest(xs) = m /\ \A i \in 1 .. Len(ns) : xs[i] = IF i = Len(ns) THEN m ELSE ns[i]
    BY <1>1, <1>3, <1>7, LastRewritten
<1>5. \A j \in 1 .. (Len(xs) - 1) : xs[j] = ns[j]
    BY <1>1, <1>4
<1>6. QED
    BY <1>3, <1>4, <1>5 DEF Sends

-----------------------------------------------------------------------------
(* What the user does to the list.                                         *)

LEMMA InterruptsIs ==
    ASSUME Own, Interrupts
    PROVE  /\ interrupted' \in SUBSET Requests /\ interrupted \subseteq interrupted'
           /\ \A r \in Requests : req[r] = "open" => r \in interrupted'
           /\ ListOK(messages, interrupted')
           /\ interrupted' = {} => source = 0 /\ interrupted = {} /\ \A r \in Requests : req[r] # "open"
<1>1. interrupted' = interrupted \union InFlight \union ({source} \ {0})
    BY DEF Interrupts
<1>2. interrupted \in SUBSET Requests /\ ({source} \ {0}) \subseteq Requests /\ InFlight \subseteq Requests
    BY Numbers DEF Own, Scalars, InFlight, Requests
<1>3. interrupted' \in SUBSET Requests /\ interrupted \subseteq interrupted' /\ InFlight \subseteq interrupted'
    BY <1>1, <1>2
<1>4. ListOK(messages, interrupted')
    BY <1>3, ListGrows DEF Own
<1>5. interrupted' = {} => source = 0 /\ interrupted = {} /\ InFlight = {}
    BY <1>1
<1>6. QED
    BY <1>3, <1>4, <1>5 DEF InFlight

\* Request r is sent with list ns.
Starts(r, ns) ==
    /\ Sends(messages, ns, r, interrupted') /\ Newest(ns) = Loading(r) /\ SendChat(r, ns)
    /\ draining = 0 /\ Fresh(r) /\ Interrupts
    /\ UNCHANGED <<stream, draining>> /\ editing' \in {editing, 0}

LEMMA AskStarts ==
    ASSUME Own, NEW r \in Requests, Send(r) \/ HandleSuggestionClick(r)
    PROVE  \E ns : Starts(r, ns)
<1>1. draining = 0 /\ Fresh(r) /\ Ask(r) /\ Interrupts
    BY DEF Send, HandleSuggestionClick, Guarded, Unguarded, Ask
<1>2. PICK ns : ns = messages \o <<UserMessage(r), Loading(r)>>
    OBVIOUS
<1>3. ListOK(messages, interrupted') /\ Unborn(messages, r)
    BY <1>1, InterruptsIs DEF Own, Fresh
<1>4. Sends(messages, ns, r, interrupted') /\ Newest(ns) = Loading(r)
    BY <1>2, <1>3, AskSends
<1>5. Starts(r, ns)
    BY <1>1, <1>2, <1>4 DEF Ask, Starts
<1>6. QED
    BY <1>5

LEMMA RegenerateStarts ==
    ASSUME Own, NEW r \in Requests, NEW i \in 1 .. Len(messages), HandleRegenerateMessage(r, i)
    PROVE  \E ns : Starts(r, ns)
<1>1. draining = 0 /\ Fresh(r) /\ Interrupts
    BY DEF HandleRegenerateMessage, Guarded, Unguarded
<1>2. ListOK(messages, interrupted') /\ Unborn(messages, r) /\ Len(messages) \in Nat
    BY <1>1, InterruptsIs, ListIs DEF Own, Fresh
<1>3. PICK bs : bs = SubSeq(messages, 1, i - 1)
    OBVIOUS
<1>4. i - 1 \in 0 .. Len(messages)
    BY <1>2
<1>5. Derived(messages, bs, interrupted')
    BY <1>2, <1>3, <1>4, PrefixDerived
<1>6. PICK ns : ns = Append(bs, Loading(r))
    OBVIOUS
<1>7. Sends(messages, ns, r, interrupted') /\ Newest(ns) = Loading(r)
    BY <1>2, <1>5, <1>6, AppendSends
<1>8. Starts(r, ns)
    BY <1>1, <1>3, <1>6, <1>7 DEF HandleRegenerateMessage, Starts
<1>9. QED
    BY <1>8

LEMMA SubmitStarts ==
    ASSUME Own, NEW r \in Requests, NEW i \in 1 .. Len(messages), SaveEditAndSubmit(r, i)
    PROVE  \E ns : Starts(r, ns)
<1>1. draining = 0 /\ Fresh(r) /\ Interrupts
    BY DEF SaveEditAndSubmit, Unguarded
<1>2. ListOK(messages, interrupted') /\ Unborn(messages, r) /\ Len(messages) \in Nat
    BY <1>1, InterruptsIs, ListIs DEF Own, Fresh
<1>3. PICK es : es = Edited(messages, editing)
    OBVIOUS
<1>4. Derived(messages, es, interrupted') /\ Len(es) = Len(messages) /\ ListOK(es, interrupted')
    BY <1>2, <1>3, EditedDerived DEF Derived
<1>5. PICK bs : bs = SubSeq(es, 1, i)
    OBVIOUS
<1>6. i \in 0 .. Len(es)
    BY <1>2, <1>4
<1>7. Derived(es, bs, interrupted')
    BY <1>4, <1>5, <1>6, PrefixDerived
<1>8. Derived(messages, bs, interrupted')
    BY <1>4, <1>7, DerivedTransitive
<1>9. PICK ns : ns = Append(bs, Loading(r))
    OBVIOUS
<1>10. Sends(messages, ns, r, interrupted') /\ Newest(ns) = Loading(r)
    BY <1>2, <1>8, <1>9, AppendSends
<1>11. Starts(r, ns)
    BY <1>1, <1>3, <1>5, <1>9, <1>10 DEF SaveEditAndSubmit, Starts
<1>12. QED
    BY <1>11

\* The user edits or deletes a message.
Alters ==
    /\ Derived(messages, messages', interrupted')
    /\ draining = 0 /\ Interrupts
    /\ UNCHANGED <<stream, req, source, streamComplete, draining>> /\ editing' \in {editing, 0}

LEMMA DeleteAlters ==
    ASSUME Own, NEW i \in 1 .. Len(messages), HandleDeleteMessage(i)
    PROVE  Alters
<1>1. ListOK(messages, interrupted') /\ messages' = Without(messages, i)
    BY InterruptsIs DEF HandleDeleteMessage
<1>2. Derived(messages, messages', interrupted')
    BY <1>1, WithoutDerived
<1>3. QED
    BY <1>2 DEF HandleDeleteMessage, Guarded, Unguarded, Alters

LEMMA SaveEditAlters ==
    ASSUME Own, SaveEdit
    PROVE  Alters
<1>1. ListOK(messages, interrupted')
    BY InterruptsIs DEF SaveEdit
<1>2. PICK k : k = editing
    OBVIOUS
<1>3. Derived(messages, messages', interrupted')
    BY <1>1, <1>2, EditedDerived DEF SaveEdit
<1>4. QED
    BY <1>3 DEF SaveEdit, Unguarded, Alters

-----------------------------------------------------------------------------
(* The text of every message, whatever the user does.                      *)

LEMMA StartOwn ==
    ASSUME Own, NEW r \in Requests, NEW ns, Starts(r, ns)
    PROVE  Own' /\ Sticks(messages, messages')
<1>1. ListOK(messages, interrupted') /\ Unborn(messages, r) /\ req[r] = "new" /\ Scalars /\ draining' = 0
    BY InterruptsIs DEF Own, Fresh, Starts
<1>2. Sends(messages, messages', r, interrupted')
    BY FailSends DEF Starts, SendChat
<1>3. /\ Sticks(messages, messages')
      /\ \A q \in Requests : q # r /\ Unborn(messages, q) => Unborn(messages', q)
    BY <1>1, <1>2, SendsKeeps
<1>4. PICK st \in {"open", "over"} : req' = [req EXCEPT ![r] = st]
    BY DEF Starts, SendChat
<1>5. req' \in [Requests -> {"new", "open", "over"}] /\ \A q \in Requests : req'[q] = IF q = r THEN st ELSE req[q]
    BY <1>1, <1>4 DEF Scalars
<1>6. Scalars'
  <2>1. source' \in {r, 0, source}
    BY DEF Starts, SendChat
  <2>2. source' \in 0 .. MaxRequests /\ draining' \in 0 .. MaxRequests /\ editing' \in Keys \union {0}
    BY <1>1, <2>1, Numbers DEF Scalars, Starts
  <2>3. stream' \in BOOLEAN /\ streamComplete' \in BOOLEAN
    BY <1>1 DEF Scalars, Starts, SendChat
  <2>4. interrupted' \in SUBSET Requests
    BY InterruptsIs DEF Starts
  <2>5. QED
    BY <1>5, <2>2, <2>3, <2>4 DEF Scalars
<1>7. ListOK(messages', interrupted') /\ Awaits(messages', r)
    BY <1>2 DEF Sends
<1>8. \A q \in Requests : req'[q] = "new" => Unborn(messages', q)
    BY <1>3, <1>5 DEF Own
<1>9. \A q \in Requests : Live(q)' /\ q \notin interrupted' => q = r
    BY <1>1, <1>5, InterruptsIs, Numbers DEF Live, Starts
<1>10. QED
    BY <1>3, <1>6, <1>7, <1>8, <1>9 DEF Own

LEMMA AlterOwn ==
    ASSUME Own, Alters
    PROVE  Own' /\ Sticks(messages, messages')
<1>1. ListOK(messages, interrupted') /\ interrupted' \in SUBSET Requests
    BY InterruptsIs DEF Alters
<1>2. Sticks(messages, messages') /\ \A r : Unborn(messages, r) => Unborn(messages', r)
    BY <1>1, DerivedKeeps DEF Alters
<1>3. Scalars'
    BY <1>1 DEF Alters, Own, Scalars
<1>4. ListOK(messages', interrupted')
    BY DEF Alters, Derived
<1>5. \A r \in Requests : Live(r)' => r \in interrupted'
    BY InterruptsIs, Numbers DEF Alters, Live
<1>6. \A r \in Requests : req'[r] = "new" => Unborn(messages', r)
    BY <1>2 DEF Own, Alters
<1>7. QED
    BY <1>2, <1>3, <1>4, <1>5, <1>6 DEF Own

\* The list stays, or its last message is rewritten, and no request begins.
LEMMA UpdateOwn ==
    ASSUME Own, NEW T, NEW m, Belongs(messages, m, T, interrupted),
           messages' = UpdateLast(messages, m) \/ messages' = messages, Scalars', interrupted' = interrupted,
           \A q \in Requests : (req'[q] = "new" => req[q] = "new") /\ (Live(q)' => Live(q))
    PROVE  /\ Own'
           /\ (Newest(messages) \in Message /\ Newest(messages).status = "error" => m.status = "error")
                 => Sticks(messages, messages')
<1>1. ListOK(messages, interrupted)
    BY DEF Own
<1>2. CASE messages' = UpdateLast(messages, m)
  <2>1. /\ ListOK(messages', interrupted)
        /\ \A q : Awaits(messages, q) => Awaits(messages', q)
        /\ \A q : Unborn(messages, q) => Unborn(messages', q)
        /\ (Newest(messages) \in Message /\ Newest(messages).status = "error" => m.status = "error")
              => Sticks(messages, messages')
    BY <1>1, <1>2, LastRewritten
  <2>2. QED
    BY <2>1 DEF Own
<1>3. CASE messages' = messages
  <2>1. Sticks(messages, messages')
    BY <1>1, <1>3, SameSticks
  <2>2. QED
    BY <1>3, <2>1 DEF Own
<1>4. QED
    BY <1>2, <1>3

LEMMA EventsOwn ==
    ASSUME Own, NEW r \in Requests, Chunk(r) \/ ParseError(r) \/ Ends(r)
    PROVE  Own' /\ (stream \/ Newest(messages).status # "error" => Sticks(messages, messages'))
<1>1. Live(r)
    BY DEF Chunk, ParseError, Ends, Done, StreamError, CutOff, Answer, AnswerWithoutChoice, AnswerError, Respond,
           Dispatches, Live
<1>2. PICK m : /\ messages' = UpdateLast(messages, m) \/ messages' = messages
               /\ \/ m = AddChunk(Newest(messages), r) \/ m = HandleStreamComplete(Newest(messages))
                  \/ m = HandleStreamError(Newest(messages)) \/ (~stream /\ m = Answered(Newest(messages), r))
    BY DEF Chunk, ParseError, HandleError, Ends, Done, StreamError, CutOff, Answer, AnswerWithoutChoice, AnswerError, Respond
<1>3. Newest(messages) \in Message =>
          Rewrites(Newest(messages), m, {r}) /\ (stream /\ Newest(messages).status = "error" => m.status = "error")
    BY <1>2, ChunkRewrites, DoneRewrites, ErrorRewrites, AnswerRewrites
<1>4. Belongs(messages, m, {r}, interrupted)
    BY <1>1, <1>3 DEF Belongs, Own
<1>5. req' = req \/ req' = [req EXCEPT ![r] = "over"]
    BY DEF Chunk, ParseError, Ends, Done, CloseSource, StreamError, CutOff, Answer, AnswerWithoutChoice, AnswerError, Respond
<1>6. /\ stream' = stream /\ editing' = editing /\ source' \in {0, source} /\ draining' \in {r, draining}
      /\ streamComplete' \in {TRUE, streamComplete} /\ interrupted' = interrupted
    BY DEF Chunk, ParseError, HandleError, Ends, Done, CloseSource, StreamError, CutOff, Answer, AnswerWithoutChoice,
           AnswerError, Respond
<1>7. Scalars'
  <2>1. req' \in [Requests -> {"new", "open", "over"}]
    BY <1>5 DEF Own, Scalars
  <2>2. source' \in 0 .. MaxRequests /\ draining' \in 0 .. MaxRequests
    BY <1>6, Numbers DEF Own, Scalars
  <2>3. stream' \in BOOLEAN /\ streamComplete' \in BOOLEAN /\ editing' \in Keys \union {0}
    BY <1>6 DEF Own, Scalars
  <2>4. QED
    BY <1>6, <2>1, <2>2, <2>3 DEF Own, Scalars
<1>8. \A q \in Requests : (req'[q] = "new" => req[q] = "new") /\ (Live(q)' => Live(q))
  <2>1. req \in [Requests -> {"new", "open", "over"}]
    BY DEF Own, Scalars
  <2>2. \A q \in Requests : req'[q] = req[q] \/ (q = r /\ req'[q] = "over")
    BY <1>5, <2>1
  <2>3. QED
    BY <1>1, <1>6, <2>2 DEF Live
<1>9. /\ Own'
      /\ (Newest(messages) \in Message /\ Newest(messages).status = "error" => m.status = "error")
            => Sticks(messages, messages')
    BY <1>2, <1>4, <1>6, <1>7, <1>8, UpdateOwn
<1>10. QED
    BY <1>3, <1>9

LEMMA StopOwn ==
    ASSUME Own, Stop
    PROVE  Own' /\ Sticks(messages, messages')
<1>1. PICK r \in Requests : r = source
    BY DEF Stop, Generating, Own, Scalars, Requests
<1>2. PICK m : m = StopGeneration(Newest(messages))
    OBVIOUS
<1>3. PICK T : T = {}
    OBVIOUS
<1>4. Newest(messages) \in Message =>
          Rewrites(Newest(messages), m, T) /\ (Newest(messages).status = "error" => m.status = "error")
    BY <1>2, StopRewrites
<1>5. Belongs(messages, m, T, interrupted)
    BY <1>3, <1>4 DEF Belongs
<1>6. req' \in [Requests -> {"new", "open", "over"}] /\ \A q \in Requests : req'[q] = IF q = r THEN "over" ELSE req[q]
    BY <1>1 DEF Stop, Own, Scalars
<1>7. Scalars'
    BY <1>6, Numbers DEF Stop, Own, Scalars
<1>8. \A q \in Requests : (req'[q] = "new" => req[q] = "new") /\ (Live(q)' => Live(q))
    BY <1>6 DEF Stop, Live
<1>9. messages' = UpdateLast(messages, m) /\ interrupted' = interrupted
    BY <1>2 DEF Stop
<1>10. /\ Own'
       /\ (Newest(messages) \in Message /\ Newest(messages).status = "error" => m.status = "error")
             => Sticks(messages, messages')
    BY <1>5, <1>7, <1>8, <1>9, UpdateOwn
<1>11. QED
    BY <1>4, <1>10

LEMMA ReloadOwn ==
    ASSUME Own, Reload
    PROVE  Own' /\ Sticks(messages, messages')
<1>1. ListOK(messages, interrupted) /\ messages' = SanitizeMessagesOnLoad(messages)
    BY DEF Own, Reload
<1>2. ListOK(messages', interrupted) /\ Sticks(messages, messages') /\ \A r : Unborn(messages, r) => Unborn(messages', r)
    BY <1>1, Sanitized
<1>3. \A r \in Requests : req'[r] # "open" /\ (req'[r] = "new" => req[r] = "new")
    BY DEF Reload
<1>4. Scalars'
    BY Numbers DEF Reload, Own, Scalars
<1>5. \A r \in Requests : ~Live(r)'
    BY <1>3, Numbers DEF Live, Reload
<1>6. QED
    BY <1>2, <1>3, <1>4, <1>5 DEF Own, Reload

\* The editor is opened or closed, a batch ends, or nothing happens.
LEMMA SameOwn ==
    ASSUME Own, editing' \in Keys \union {0}, draining' \in {0, draining},
           UNCHANGED <<stream, messages, req, source, streamComplete, interrupted>>
    PROVE  Own' /\ Sticks(messages, messages')
<1>1. Sticks(messages, messages')
    BY SameSticks DEF Own
<1>2. Scalars'
    BY Numbers DEF Own, Scalars
<1>3. \A r \in Requests : Live(r)' => Live(r)
    BY Numbers DEF Live
<1>4. QED
    BY <1>1, <1>2, <1>3 DEF Own

LEMMA EditOwn ==
    ASSUME Own, CancelEdit \/ \E i \in 1 .. Len(messages) : HandleEditMessage(i)
    PROVE  /\ editing' \in Keys \union {0}
           /\ UNCHANGED <<stream, messages, req, source, streamComplete, draining, interrupted>>
<1>1. CASE CancelEdit
    BY <1>1 DEF CancelEdit
<1>2. CASE \E i \in 1 .. Len(messages) : HandleEditMessage(i)
  <2>1. PICK i \in 1 .. Len(messages) : HandleEditMessage(i)
    BY <1>2
  <2>2. messages[i] \in Message
    BY ListIs DEF Own
  <2>3. messages[i].key \in Keys
    BY <2>2 DEF Message
  <2>4. QED
    BY <2>1, <2>3 DEF HandleEditMessage
<1>3. QED
    BY <1>1, <1>2

\* What the steps of the user are.
LEMMA UserSteps ==
    ASSUME Own, User
    PROVE  \/ \E r \in Requests : \E ns : Starts(r, ns)
           \/ Alters \/ Stop \/ Reload
           \/ /\ editing' \in Keys \union {0}
              /\ UNCHANGED <<stream, messages, req, source, streamComplete, draining, interrupted>>
<1>1. ASSUME NEW r \in Requests, Send(r) \/ HandleSuggestionClick(r) PROVE \E ns : Starts(r, ns)
    BY <1>1, AskStarts
<1>2. ASSUME NEW r \in Requests, NEW i \in 1 .. Len(messages), HandleRegenerateMessage(r, i) \/ SaveEditAndSubmit(r, i)
      PROVE  \E ns : Starts(r, ns)
    BY <1>2, RegenerateStarts, SubmitStarts
<1>3. ASSUME NEW i \in 1 .. Len(messages), HandleDeleteMessage(i) PROVE Alters
    BY <1>3, DeleteAlters
<1>4. QED
    BY <1>1, <1>2, <1>3, EditOwn, SaveEditAlters DEF User

LEMMA NextOwn ==
    ASSUME Own, [Next]_vars
    PROVE  Own' /\ (stream \/ Calm => Sticks(messages, messages'))
<1>1. CASE UNCHANGED vars
    BY <1>1, SameOwn DEF vars, Own, Scalars
<1>2. CASE User
    BY <1>2, UserSteps, StartOwn, AlterOwn, StopOwn, ReloadOwn, SameOwn
<1>3. CASE Events
  <2>1. PICK r \in Requests : Chunk(r) \/ ParseError(r) \/ Ends(r)
    BY <1>3 DEF Events
  <2>2. stream \/ Calm => stream \/ Newest(messages).status # "error"
    BY <2>1 DEF Chunk, ParseError, Dispatches, Ends, Done, StreamError, CutOff, Answer, AnswerWithoutChoice, AnswerError,
                Respond, Calm
  <2>3. QED
    BY <2>1, <2>2, EventsOwn
<1>4. CASE EndOfBatch
    BY <1>4, SameOwn DEF EndOfBatch, Own, Scalars
<1>5. QED
    BY <1>1, <1>2, <1>3, <1>4 DEF Next

-----------------------------------------------------------------------------
(* The page before the user first interrupts a request.                    *)

Undisturbed == Own /\ Calm /\ interrupted = {}

LEMMA QuietSettled ==
    ASSUME Undisturbed, source = 0
    PROVE  stream => \A i \in 1 .. Len(messages) : ~IsPending(messages[i])
BY DEF Undisturbed, Calm, PendingOK

LEMMA StartCalm ==
    ASSUME Undisturbed, NEW r \in Requests, NEW ns, Starts(r, ns), interrupted' = {}
    PROVE  Calm'
<1>1. ListOK(messages, interrupted') /\ Unborn(messages, r) /\ req \in [Requests -> {"new", "open", "over"}]
    BY InterruptsIs DEF Undisturbed, Own, Scalars, Fresh, Starts
<1>2. source = 0 /\ draining' = 0 /\ r # 0 /\ (\A q \in Requests : q # 0 /\ req[q] # "open") /\ stream' = stream
    BY InterruptsIs, Numbers DEF Undisturbed, Starts
<1>3. CASE /\ messages' = ns /\ req' = [req EXCEPT ![r] = "open"]
           /\ source' = (IF stream THEN r ELSE source)
           /\ streamComplete' = (IF stream THEN FALSE ELSE streamComplete)
  <2>1. Newest(messages').status = "loading" /\ Sends(messages, messages', r, interrupted')
    BY <1>3, LoadingIs DEF Starts
  <2>2. (\A i \in 1 .. Len(messages) : ~IsPending(messages[i]))
           => \A i \in 1 .. Len(messages') : IsPending(messages'[i]) => i = Len(messages')
    BY <1>1, <2>1, SendsKeeps
  <2>3. \A q \in Requests : req'[q] = "open" => q = r
    BY <1>1, <1>2, <1>3
  <2>4. Control'
    BY <1>2, <1>3, <2>3 DEF Control
  <2>5. stream' => PendingOK(messages', source')
    BY <1>2, <1>3, <2>2, QuietSettled DEF PendingOK
  <2>6. Awaits(messages', r)
    BY <2>1 DEF Sends
  <2>7. \A q \in Requests : source' = q => Awaits(messages', q)
    BY <1>2, <1>3, <2>6
  <2>8. QED
    BY <1>2, <2>1, <2>4, <2>5, <2>7 DEF Calm
<1>4. CASE /\ stream /\ messages' = UpdateLast(ns, HandleStreamError(Newest(ns)))
           /\ req' = [req EXCEPT ![r] = "over"] /\ source' = 0 /\ streamComplete' = FALSE
  <2>1. Newest(messages').status = "error" /\ Sends(messages, messages', r, interrupted')
    BY <1>4, FailSends DEF Starts
  <2>2. (\A i \in 1 .. Len(messages) : ~IsPending(messages[i]))
           => \A i \in 1 .. Len(messages') : IsPending(messages'[i]) => i = Len(messages')
    BY <1>1, <2>1, SendsKeeps
  <2>3. \A q \in Requests : req'[q] # "open"
    BY <1>1, <1>2, <1>4
  <2>4. Control'
    BY <1>2, <1>4, <2>3 DEF Control
  <2>5. \A i \in 1 .. Len(messages') : ~IsPending(messages'[i])
    BY <1>2, <1>4, <2>1, <2>2, QuietSettled DEF IsPending, Newest
  <2>6. QED
    BY <1>2, <1>4, <2>3, <2>4, <2>5 DEF Calm, PendingOK
<1>5. QED
    BY <1>3, <1>4 DEF Starts, SendChat

LEMMA AlterCalm ==
    ASSUME Undisturbed, Alters, interrupted' = {}
    PROVE  Calm'
<1>1. ListOK(messages, interrupted') /\ source = 0 /\ \A r \in Requests : r # 0 /\ req[r] # "open"
    BY InterruptsIs, Numbers DEF Undisturbed, Alters
<1>2. (\A i \in 1 .. Len(messages) : ~IsPending(messages[i])) => \A i \in 1 .. Len(messages') : ~IsPending(messages'[i])
    BY <1>1, DerivedKeeps DEF Alters
<1>3. Control'
    BY DEF Undisturbed, Calm, Control, Alters
<1>4. stream' => PendingOK(messages', source')
    BY <1>1, <1>2, QuietSettled DEF PendingOK, Alters
<1>5. QED
    BY <1>1, <1>3, <1>4 DEF Calm, Alters

LEMMA ReloadCalm ==
    ASSUME Undisturbed, Reload
    PROVE  Calm'
<1>1. ListOK(messages, interrupted) /\ messages' = SanitizeMessagesOnLoad(messages)
    BY DEF Undisturbed, Own, Reload
<1>2. \A src : PendingOK(messages, src) => \A i \in 1 .. Len(messages') : ~IsPending(messages'[i])
    BY <1>1, Sanitized
<1>3. stream' => PendingOK(messages', source')
    BY <1>2 DEF PendingOK, Reload, Undisturbed, Calm
<1>4. \A r \in Requests : r # 0 /\ req'[r] # "open"
    BY Numbers DEF Reload
<1>5. Control' /\ draining' = 0 /\ source' = 0
    BY <1>4 DEF Reload, Control
<1>6. QED
    BY <1>3, <1>4, <1>5 DEF Calm

LEMMA SameCalm ==
    ASSUME Undisturbed, UNCHANGED <<stream, messages, req, source, streamComplete>>, draining' \in {0, draining}
    PROVE  Calm'
BY DEF Undisturbed, Calm, Control

\* Events of r may arrive, or the page refers to it: the last message is its answer.
Current(r) == Live(r) \/ source = r

LEMMA CurrentIs ==
    ASSUME Undisturbed, NEW r \in Requests, Current(r)
    PROVE  /\ Awaits(messages, r) /\ ListOK(messages, interrupted) /\ Newest(messages) \in Message
           /\ \A q \in Requests : req[q] = "open" => q = r
<1>1. Awaits(messages, r) /\ ListOK(messages, interrupted)
    BY DEF Undisturbed, Own, Calm, Current
<1>2. Newest(messages) \in Message
    BY <1>1, ListIs DEF Awaits
<1>3. \A q \in Requests : req[q] = "open" => q = r
    BY Numbers DEF Undisturbed, Calm, Control, Current, Live
<1>4. QED
    BY <1>1, <1>2, <1>3

\* The step puts m in the place of the last message, which answers r.
RewritesLast(r, m) ==
    /\ Rewrites(Newest(messages), m, {r})
    /\ messages' = UpdateLast(messages, m)
    /\ stream' = stream
    /\ \A q \in Requests : source' = q => q = r
    /\ draining' # 0 => m.status = "error"
    /\ stream \/ \A q \in Requests : req'[q] # "open"
    /\ stream /\ IsPending(m) => source' # 0

LEMMA RewriteCalm ==
    ASSUME Undisturbed, NEW r \in Requests, Current(r), NEW m, RewritesLast(r, m), Control'
    PROVE  Calm'
<1>1. Awaits(messages, r) /\ ListOK(messages, interrupted) /\ messages' = UpdateLast(messages, m)
    BY CurrentIs DEF RewritesLast
<1>2. Belongs(messages, m, {r}, interrupted)
    BY <1>1 DEF Belongs, RewritesLast
<1>3. /\ Len(messages') = Len(messages) /\ Awaits(messages', r) /\ Newest(messages') = m
      /\ \A i \in 1 .. Len(messages) : messages'[i] = IF i = Len(messages) THEN m ELSE messages[i]
    BY <1>1, <1>2, LastRewritten
<1>4. stream' => PendingOK(messages', source')
  <2>1. SUFFICES ASSUME stream, NEW i \in 1 .. Len(messages), IsPending(messages'[i])
                 PROVE  source' # 0 /\ i = Len(messages)
    BY <1>3 DEF PendingOK, RewritesLast
  <2>2. i = Len(messages)
    BY <1>3, <2>1 DEF Undisturbed, Calm, PendingOK
  <2>3. QED
    BY <1>3, <2>1, <2>2 DEF RewritesLast
<1>5. \A q \in Requests : source' = q => Awaits(messages', q)
    BY <1>3 DEF RewritesLast
<1>6. /\ draining' # 0 => Newest(messages').status = "error"
      /\ \A q \in Requests : ~stream' /\ req'[q] = "open" => Newest(messages').status = "loading"
    BY <1>3 DEF RewritesLast
<1>7. QED
    BY <1>4, <1>5, <1>6 DEF Calm

LEMMA RequestOver ==
    ASSUME Undisturbed, NEW r \in Requests, Current(r), req' = [req EXCEPT ![r] = "over"]
    PROVE  \A q \in Requests : q # 0 /\ req'[q] # "open"
<1>1. \A q \in Requests : req'[q] = IF q = r THEN "over" ELSE req[q]
    BY DEF Undisturbed, Own, Scalars
<1>2. QED
    BY <1>1, CurrentIs, Numbers

LEMMA StopCalm ==
    ASSUME Undisturbed, Stop
    PROVE  Calm'
<1>1. PICK r \in Requests : r = source
    BY DEF Stop, Generating, Undisturbed, Own, Scalars, Requests
<1>2. Current(r) /\ stream /\ draining' = 0 /\ req' = [req EXCEPT ![r] = "over"] /\ source' = 0 /\ stream' = stream
    BY <1>1, Numbers DEF Current, Stop, Undisturbed, Own, Scalars, Calm, Control
<1>3. \A q \in Requests : q # 0 /\ req'[q] # "open"
    BY <1>2, RequestOver
<1>4. PICK m : m = StopGeneration(Newest(messages))
    OBVIOUS
<1>5. Rewrites(Newest(messages), m, {r}) /\ ~IsPending(m)
    BY <1>2, <1>4, CurrentIs, StopRewrites
<1>6. Control'
    BY <1>2, <1>3 DEF Control
<1>7. RewritesLast(r, m)
    BY <1>2, <1>3, <1>4, <1>5 DEF RewritesLast, Stop
<1>8. QED
    BY <1>2, <1>6, <1>7, RewriteCalm

LEMMA DispatchesCurrent ==
    ASSUME Undisturbed, NEW r \in Requests, Dispatches(r)
    PROVE  /\ Current(r) /\ stream
           /\ draining # 0 => draining = r /\ source = 0 /\ Newest(messages).status = "error"
           /\ draining = 0 => source = r
BY DEF Undisturbed, Calm, Control, Dispatches, Current, Live

LEMMA ChunkCalm ==
    ASSUME Undisturbed, NEW r \in Requests, Chunk(r)
    PROVE  Calm'
<1>1. /\ Current(r) /\ stream
      /\ draining # 0 => draining = r /\ source = 0 /\ Newest(messages).status = "error"
      /\ draining = 0 => source = r
    BY DispatchesCurrent DEF Chunk
<1>2. PICK m : m = AddChunk(Newest(messages), r)
    OBVIOUS
<1>3. Rewrites(Newest(messages), m, {r}) /\ (Newest(messages).status = "error" => m.status = "error")
    BY <1>1, <1>2, CurrentIs, ChunkRewrites
<1>4. Control' /\ \A q \in Requests : source' = q => q = r
    BY <1>1, Numbers DEF Chunk, Undisturbed, Calm, Control
<1>5. RewritesLast(r, m)
    BY <1>1, <1>2, <1>3, <1>4, Numbers DEF RewritesLast, Chunk, IsPending
<1>6. QED
    BY <1>1, <1>4, <1>5, RewriteCalm

LEMMA DoneCalm ==
    ASSUME Undisturbed, NEW r \in Requests, Done(r)
    PROVE  Calm'
<1>1. Current(r) /\ stream /\ (draining # 0 => Newest(messages).status = "error")
    BY DispatchesCurrent DEF Done
<1>2. req' = [req EXCEPT ![r] = "over"] /\ source' = 0 /\ stream' = stream /\ draining' = draining
    BY DEF Done, CloseSource
<1>3. \A q \in Requests : q # 0 /\ req'[q] # "open"
    BY <1>1, <1>2, RequestOver
<1>4. PICK m : m = HandleStreamComplete(Newest(messages))
    OBVIOUS
<1>5. Rewrites(Newest(messages), m, {r}) /\ ~IsPending(m) /\ (Newest(messages).status = "error" => m.status = "error")
    BY <1>1, <1>4, CurrentIs, DoneRewrites
<1>6. Control'
    BY <1>1, <1>2, <1>3 DEF Control
<1>7. RewritesLast(r, m)
    BY <1>1, <1>2, <1>3, <1>4, <1>5 DEF RewritesLast, Done
<1>8. QED
    BY <1>1, <1>6, <1>7, RewriteCalm

\* The current request fails, and its batch may go on.
LEMMA FailureCalm ==
    ASSUME Undisturbed, NEW r \in Requests, Current(r), stream, HandleError(r), ~streamComplete,
           req' = [req EXCEPT ![r] = "over"], draining' \in {0, r}, stream' = stream
    PROVE  Calm'
<1>1. messages' = UpdateLast(messages, HandleStreamError(Newest(messages))) /\ source' = 0
    BY DEF HandleError
<1>2. \A q \in Requests : q # 0 /\ req'[q] # "open"
    BY RequestOver
<1>3. PICK m : m = HandleStreamError(Newest(messages))
    OBVIOUS
<1>4. Rewrites(Newest(messages), m, {r}) /\ m.status = "error" /\ ~IsPending(m)
    BY <1>3, CurrentIs, ErrorRewrites DEF IsPending
<1>5. Control'
    BY <1>1, <1>2 DEF Control
<1>6. RewritesLast(r, m)
    BY <1>1, <1>2, <1>3, <1>4 DEF RewritesLast
<1>7. QED
    BY <1>5, <1>6, RewriteCalm

LEMMA ParseErrorCalm ==
    ASSUME Undisturbed, NEW r \in Requests, ParseError(r)
    PROVE  Calm'
<1>1. Current(r) /\ stream
    BY DispatchesCurrent DEF ParseError
<1>2. CASE streamComplete
    BY <1>2, SameCalm DEF ParseError, HandleError
<1>3. CASE ~streamComplete
    BY <1>1, <1>3, FailureCalm DEF ParseError
<1>4. QED
    BY <1>2, <1>3

LEMMA StreamErrorCalm ==
    ASSUME Undisturbed, NEW r \in Requests, StreamError(r)
    PROVE  Calm'
<1>1. Current(r) /\ stream /\ ~streamComplete /\ draining' \in {0, r}
    BY DEF StreamError, Current, Live, Undisturbed, Calm, Control
<1>2. QED
    BY <1>1, FailureCalm DEF StreamError

\* A request ends without any message being told.
LEMMA SilentCalm ==
    ASSUME Undisturbed, NEW r \in Requests, req[r] = "open", req' = [req EXCEPT ![r] = "over"],
           UNCHANGED <<stream, messages, source, streamComplete, draining>>
    PROVE  Calm'
<1>1. \A q \in Requests : q # 0 /\ req'[q] # "open"
    BY RequestOver DEF Current, Live
<1>2. QED
    BY <1>1 DEF Undisturbed, Calm, Control

LEMMA AnswerCalm ==
    ASSUME Undisturbed, NEW r \in Requests, Answer(r) \/ AnswerError(r)
    PROVE  Calm'
<1>1. PICK m : /\ m = Answered(Newest(messages), r) \/ m = HandleStreamError(Newest(messages))
               /\ Respond(r, UpdateLast(messages, m))
    BY DEF Answer, AnswerError
<1>2. /\ ~stream /\ req[r] = "open" /\ req' = [req EXCEPT ![r] = "over"] /\ messages' = UpdateLast(messages, m)
      /\ UNCHANGED <<stream, source, streamComplete, draining>>
    BY <1>1 DEF Respond
<1>3. Current(r) /\ source = 0 /\ draining = 0 /\ Newest(messages).status = "loading"
    BY <1>2 DEF Current, Live, Undisturbed, Calm, Control
<1>4. Rewrites(Newest(messages), m, {r})
    BY <1>1, <1>3, CurrentIs, AnswerRewrites, ErrorRewrites
<1>5. \A q \in Requests : q # 0 /\ req'[q] # "open"
    BY <1>2, <1>3, RequestOver
<1>6. Control'
    BY <1>2, <1>3, <1>5 DEF Control
<1>7. RewritesLast(r, m)
    BY <1>2, <1>3, <1>4, <1>5 DEF RewritesLast
<1>8. QED
    BY <1>3, <1>6, <1>7, RewriteCalm

LEMMA EventsCalm ==
    ASSUME Undisturbed, NEW r \in Requests, Chunk(r) \/ ParseError(r) \/ Ends(r)
    PROVE  Calm'
<1>1. CASE CutOff(r)
    BY <1>1, SilentCalm DEF CutOff
<1>2. CASE AnswerWithoutChoice(r)
    BY <1>2, SilentCalm DEF AnswerWithoutChoice, Respond
<1>3. QED
    BY <1>1, <1>2, ChunkCalm, ParseErrorCalm, DoneCalm, StreamErrorCalm, AnswerCalm DEF Ends

LEMMA NextCalm ==
    ASSUME Undisturbed, [Next]_vars, interrupted' = {}
    PROVE  Calm'
<1>1. CASE UNCHANGED vars
    BY <1>1, SameCalm DEF vars
<1>2. CASE User
  <2>1. Own
    BY DEF Undisturbed
  <2>2. QED
    BY <1>2, <2>1, UserSteps, StartCalm, AlterCalm, StopCalm, ReloadCalm, SameCalm
<1>3. CASE Events
    BY <1>3, EventsCalm DEF Events
<1>4. CASE EndOfBatch
    BY <1>4, SameCalm DEF EndOfBatch
<1>5. QED
    BY <1>1, <1>2, <1>3, <1>4 DEF Next

\* What is interrupted stays so.
LEMMA InterruptedGrows ==
    ASSUME Own, [Next]_vars
    PROVE  interrupted \subseteq interrupted'
<1>1. CASE UNCHANGED vars
    BY <1>1 DEF vars
<1>2. CASE User
    BY <1>2, UserSteps, InterruptsIs DEF Starts, Alters, Stop, Reload
<1>3. CASE Events
    BY <1>3 DEF Events, Chunk, ParseError, Ends, Done, StreamError, CutOff, Answer, AnswerWithoutChoice, AnswerError, Respond
<1>4. CASE EndOfBatch
    BY <1>4 DEF EndOfBatch
<1>5. QED
    BY <1>1, <1>2, <1>3, <1>4 DEF Next

-----------------------------------------------------------------------------
(* The theorems.                                                           *)

LEMMA InitInv ==
    Init => Inv
<1>1. SUFFICES ASSUME Init PROVE Inv
    OBVIOUS
<1>2. messages = <<>> /\ Len(messages) = 0 /\ messages \in Seq(Message)
    BY <1>1 DEF Init
<1>3. ListOK(messages, interrupted) /\ PendingOK(messages, source) /\ \A r \in Requests : Unborn(messages, r)
    BY <1>2 DEF ListOK, PendingOK, Unborn
<1>4. \A r \in Requests : req[r] = "new" /\ ~Live(r) /\ r # 0
    BY <1>1, Numbers DEF Init, Live
<1>5. Scalars
  <2>1. stream \in BOOLEAN /\ streamComplete \in BOOLEAN
    BY <1>1, ModesAssumption DEF Init
  <2>2. req \in [Requests -> {"new", "open", "over"}]
    BY <1>1 DEF Init
  <2>3. source \in 0 .. MaxRequests /\ draining \in 0 .. MaxRequests /\ editing \in Keys \union {0}
    BY <1>1, Numbers DEF Init
  <2>4. interrupted \in SUBSET Requests
    BY <1>1 DEF Init
  <2>5. QED
    BY <2>1, <2>2, <2>3, <2>4 DEF Scalars
<1>6. Own
    BY <1>3, <1>4, <1>5 DEF Own
<1>7. Control /\ draining = 0 /\ source = 0
    BY <1>1, <1>4 DEF Init, Control
<1>8. Calm
    BY <1>3, <1>4, <1>7 DEF Calm
<1>9. QED
    BY <1>6, <1>8 DEF Inv

LEMMA NextInv ==
    ASSUME Inv, [Next]_vars
    PROVE  Inv' /\ (stream \/ interrupted = {} => Sticks(messages, messages'))
<1>1. Own /\ (interrupted = {} => Calm)
    BY DEF Inv
<1>2. Own' /\ (stream \/ Calm => Sticks(messages, messages'))
    BY <1>1, NextOwn
<1>3. ASSUME interrupted' = {} PROVE Calm'
  <2>1. interrupted = {}
    BY <1>1, <1>3, InterruptedGrows
  <2>2. Undisturbed
    BY <1>1, <2>1 DEF Undisturbed
  <2>3. QED
    BY <1>3, <2>2, NextCalm
<1>4. QED
    BY <1>1, <1>2, <1>3 DEF Inv

(* Whatever the user does: the last message is the answer of every request  *)
(* under way that he has not interrupted.  Until he first interrupts one,   *)
(* there is one request under way at most, the reference to the source is   *)
(* that of its stream, and only its answer is pending.                      *)
THEOREM PlaygroundInvariant ==
    Spec => []Inv
<1>1. Inv /\ [Next]_vars => Inv'
    BY NextInv
<1>2. QED
    BY <1>1, InitInv, PTL DEF Spec

(* The variables of the page keep their types, whatever the user does while *)
(* a request is under way.                                                  *)
THEOREM PlaygroundTypes ==
    Spec => []TypeOK
<1>1. Inv => TypeOK
  <2>1. SUFFICES ASSUME Inv PROVE TypeOK
    OBVIOUS
  <2>2. \A i \in 1 .. Len(messages) : messages[i] \in Message
    BY <2>1, ListIs DEF Inv, Own
  <2>3. QED
    BY <2>1, <2>2 DEF TypeOK, Message, Inv, Own, Scalars
<1>2. QED
    BY <1>1, PlaygroundInvariant, PTL

(* Chunks, answers and errors are written to the last message of the list,  *)
(* and still an answer holds the text of no other request than its own and  *)
(* those during which the user changed the list.                            *)
THEOREM AnswersAreOwn ==
    Spec => []OwnAnswer
<1>1. Inv => OwnAnswer
    BY DEF Inv, Own, ListOK, OwnAnswer
<1>2. QED
    BY <1>1, PlaygroundInvariant, PTL

(* As long as the user has not changed the list with a request under way:   *)
(* with no stream referenced, after its end, failure, stop or a reload, no  *)
(* message of a streaming page is left loading.                             *)
THEOREM SettledWhenIdle ==
    Spec => []IdleIsSettled
<1>1. Inv => IdleIsSettled
    BY DEF Inv, Calm, PendingOK, IdleIsSettled, Generating
<1>2. QED
    BY <1>1, PlaygroundInvariant, PTL

(* On a streaming page nothing takes an answer that failed out of its       *)
(* error: no later event of the batch or of another stream, no stop, edit,  *)
(* deletion or reload, however many requests are under way.  Without        *)
(* streaming this holds until the user first interrupts a request.          *)
THEOREM FailureIsKept ==
    Spec => ErrorSticks
<1> DEFINE A == \A i \in 1 .. Len(messages), j \in 1 .. Len(messages') :
                    (stream \/ interrupted = {}) /\ messages[i].status = "error" /\ messages'[j].key = messages[i].key
                        => messages'[j].status = "error"
<1>1. Inv /\ [Next]_vars => [A]_vars
    BY NextInv DEF Sticks
<1>2. QED
    BY <1>1, PlaygroundInvariant, PTL DEF Spec, ErrorSticks
=============================================================================
