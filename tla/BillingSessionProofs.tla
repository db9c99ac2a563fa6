------------------------ MODULE BillingSessionProofs ------------------------
(***************************************************************************)
(* Type correctness of BillingSession and what a request has taken from    *)
(* the accounts, for every set of requests, of profiles, of costs and of   *)
(* initial balances, and every number of database errors.                  *)
(*                                                                         *)
(* Types: one lemma per action shows that the action keeps TypeOK and that *)
(* it changes the state of the acting request only (Untouched).            *)
(*                                                                         *)
(* Ledger: LedgerInv gives, for each control point of a request, the       *)
(* amount that the request holds on each account.  It speaks of one        *)
(* request at a time, so there is one lemma per action for the acting      *)
(* request, by cases on the outcome of the database statement; Untouched   *)
(* does the others.  The properties the runs check are corollaries.        *)
(***************************************************************************)
EXTENDS BillingSession, TLAPS

\* A step of r leaves the state of the other requests alone.
Untouched(r) ==
    /\ profile' = profile
    /\ \A q \in Requests \ {r} :
          /\ sess'[q] = sess[q] /\ record'[q] = record[q]
          /\ taken'[q] = taken[q] /\ lost'[q] = lost[q]


\* The session a request starts with is well typed.
LEMMA FreshType == Fresh \in Session
  BY DEF Fresh, Session, PCs, Sources

\* Going to a well-typed session is a well-typed step of one request.
LEMMA GotoType ==
  ASSUME sess \in [Requests -> Session], NEW r \in Requests, NEW s \in Session, Goto(r, s)
  PROVE  /\ sess' \in [Requests -> Session]
         /\ sess'[r] = s
         /\ \A q \in Requests \ {r} : sess'[q] = sess[q]
  BY DEF Goto

\* Moving an amount between an account and a request is well typed.
LEMMA MoveType ==
  ASSUME TypeOK, NEW r \in Requests, NEW a \in Accounts, NEW amt \in Int, Move(r, a, amt)
  PROVE  /\ balance' \in [Accounts -> Int]
         /\ taken' \in [Requests -> [Accounts -> Int]]
         /\ \A q \in Requests \ {r} : taken'[q] = taken[q]
         /\ \A b \in Accounts : taken'[r][b] = IF b = a THEN taken[r][b] + amt ELSE taken[r][b]
  BY DEF TypeOK, Move

\* The fields of a well-typed session.
LEMMA SessionFields ==
  ASSUME TypeOK, NEW r \in Requests
  PROVE  /\ sess[r] \in Session
         /\ sess[r].src \in Sources /\ sess[r].next \in Sources \cup {"none"}
         /\ sess[r].opens \in Nat /\ sess[r].seenToken \in Int /\ sess[r].attempts \in Nat
         /\ sess[r].want \in Nat /\ sess[r].pre \in Nat /\ sess[r].actual \in Nat
         /\ sess[r].tokenConsumed \in Nat /\ sess[r].fundConsumed \in Int /\ sess[r].extra \in Nat
         /\ profile[r] \in Profile /\ profile[r].quota \in Nat
         /\ \A a \in Accounts : balance[a] \in Int /\ taken[r][a] \in Int
  BY DEF TypeOK, Session, Profile

\* A statement that may fail changes the two ledgers of r only.
LEMMA TryMoveType ==
  ASSUME TypeOK, NEW r \in Requests, NEW a \in Accounts, NEW amt \in Int, NEW due \in BOOLEAN,
         TryMove(r, a, amt, due)
  PROVE  /\ balance' \in [Accounts -> Int]
         /\ taken' \in [Requests -> [Accounts -> Int]]
         /\ lost' \in [Requests -> SUBSET (Accounts \cup {Unheard})]
         /\ faults' \in Nat
         /\ \A q \in Requests \ {r} : taken'[q] = taken[q] /\ lost'[q] = lost[q]
<1>1. Move(r, a, amt) \/ NoMove
  BY DEF TryMove
<1>2. Lose(r, a) \/ UNCHANGED lost
  BY DEF TryMove
<1>3. faults' = faults \/ (faults > 0 /\ faults' = faults - 1)
  BY DEF TryMove, DbOk, DbError
<1>4. /\ lost' \in [Requests -> SUBSET (Accounts \cup {Unheard})]
      /\ \A q \in Requests \ {r} : lost'[q] = lost[q]
  BY <1>2 DEF TypeOK, Lose
<1>5. faults' \in Nat
  BY <1>3 DEF TypeOK
<1> QED  BY <1>1, <1>4, <1>5, MoveType DEF TypeOK, NoMove


\* GiveUp goes to a well-typed session.
LEMMA GiveUpType ==
  ASSUME TypeOK, NEW r \in Requests, NEW i \in BOOLEAN, GiveUp(r, i)
  PROVE  /\ sess' \in [Requests -> Session]
         /\ \A q \in Requests \ {r} : sess'[q] = sess[q]
<1> DEFINE again == i /\ sess[r].next # "none"
           pc == IF again THEN "check" ELSE "failed"
           src == IF again THEN sess[r].next ELSE Fresh.src
           v == [Fresh EXCEPT !.pc = pc, !.src = src, !.opens = sess[r].opens,
                              !.seenToken = sess[r].seenToken]
<1>1. Goto(r, v)
  BY DEF GiveUp
<1>2. pc \in PCs /\ src \in Sources /\ sess[r].opens \in Nat /\ sess[r].seenToken \in Int
  BY SessionFields DEF PCs, Sources, Fresh
<1>3. v \in Session
  <2> HIDE DEF pc, src
  <2> QED  BY <1>2, FreshType, Zenon DEF Session
<1> HIDE DEF v
<1> QED  BY <1>1, <1>3, GotoType DEF TypeOK


\* The auth middleware is well typed and concerns r alone.
LEMMA AuthenticateType ==
  ASSUME TypeOK, NEW r \in Requests, Authenticate(r)
  PROVE  TypeOK' /\ Untouched(r)
<1> DEFINE v == [sess[r] EXCEPT !.pc = "new", !.seenToken = balance["token"]]
<1>0. sess[r] \in Session /\ balance["token"] \in Int
  BY SessionFields DEF Accounts
<1>1. v \in Session
  BY <1>0, Zenon DEF Session, PCs
<1>2. Goto(r, v)
  BY DEF Authenticate
<1>3. /\ sess' \in [Requests -> Session]
      /\ \A q \in Requests \ {r} : sess'[q] = sess[q]
  <2> HIDE DEF v
  <2> QED  BY <1>1, <1>2, GotoType DEF TypeOK
<1> QED  BY <1>3 DEF TypeOK, Untouched, Authenticate

\* Opening a session is well typed and concerns r alone.
LEMMA OpenType ==
  ASSUME TypeOK, NEW r \in Requests, Open(r)
  PROVE  TypeOK' /\ Untouched(r)
<1> DEFINE v1 == [sess[r] EXCEPT !.pc = "free"]
           v2 == [sess[r] EXCEPT !.pc = "check", !.src = FirstSource(r),
                                     !.next = SecondSource(r), !.opens = sess[r].opens + 1]
           v3 == [sess[r] EXCEPT !.pc = "failed", !.opens = sess[r].opens + 1]
<1>0. sess[r] \in Session /\ sess[r].opens + 1 \in Nat
      /\ FirstSource(r) \in Sources /\ SecondSource(r) \in Sources \cup {"none"}
  BY SessionFields DEF FirstSource, SecondSource, Sources
<1>1. v1 \in Session
  BY <1>0, Zenon DEF Session, PCs
<1>2. v2 \in Session
  BY <1>0, Zenon DEF Session, PCs
<1>3. v3 \in Session
  BY <1>0, Zenon DEF Session, PCs
<1>4. Goto(r, v1) \/ Goto(r, v2) \/ Goto(r, v3)
  BY DEF Open
<1>5. /\ sess' \in [Requests -> Session]
      /\ \A q \in Requests \ {r} : sess'[q] = sess[q]
  <2> HIDE DEF v1, v2, v3
  <2> QED  BY <1>1, <1>2, <1>3, <1>4, GotoType DEF TypeOK
<1>6. faults' \in Nat
  <2>1. DbOk \/ DbError
    BY DEF Open
  <2> QED  BY <2>1 DEF DbOk, DbError, TypeOK
<1> QED  BY <1>5, <1>6 DEF TypeOK, Untouched, Open

\* The check of the funding source is well typed and concerns r alone.
LEMMA CheckFundsType ==
  ASSUME TypeOK, NEW r \in Requests, CheckFunds(r)
  PROVE  TypeOK' /\ Untouched(r)
<1> DEFINE trust == ShouldTrust(r, sess[r].src)
           w == IF trust THEN 0 ELSE Wanted(r, sess[r].src)
           v == [sess[r] EXCEPT !.pc = "token", !.trusted = trust, !.want = w]
<1>0. sess[r] \in Session /\ trust \in BOOLEAN /\ w \in Nat
  BY SessionFields DEF ShouldTrust, Wanted
<1>1. v \in Session
  <2> HIDE DEF trust, w
  <2> QED  BY <1>0, Zenon DEF Session, PCs
<1>2. Goto(r, v) \/ (\E i \in BOOLEAN : GiveUp(r, i))
  BY DEF CheckFunds
<1>3. /\ sess' \in [Requests -> Session]
      /\ \A q \in Requests \ {r} : sess'[q] = sess[q]
  <2> HIDE DEF v
  <2> QED  BY <1>1, <1>2, GotoType, GiveUpType DEF TypeOK
<1>4. faults' \in Nat
  <2>1. DbOk \/ DbError
    BY DEF CheckFunds
  <2> QED  BY <2>1 DEF DbOk, DbError, TypeOK
<1> QED  BY <1>3, <1>4 DEF TypeOK, Untouched, CheckFunds

\* The check of the token is well typed and concerns r alone.
LEMMA CheckTokenType ==
  ASSUME TypeOK, NEW r \in Requests, CheckToken(r)
  PROVE  TypeOK' /\ Untouched(r)
<1> DEFINE v1 == [sess[r] EXCEPT !.pc = "fund", !.tokenConsumed = sess[r].want]
           v2 == [sess[r] EXCEPT !.pc = "tokenDec"]
<1>0. sess[r] \in Session /\ sess[r].want \in Nat
  BY SessionFields
<1>1. v1 \in Session
  BY <1>0, Zenon DEF Session, PCs
<1>2. v2 \in Session
  BY <1>0, Zenon DEF Session, PCs
<1>3. Goto(r, v1) \/ Goto(r, v2) \/ (\E i \in BOOLEAN : GiveUp(r, i))
  BY DEF CheckToken
<1>4. /\ sess' \in [Requests -> Session]
      /\ \A q \in Requests \ {r} : sess'[q] = sess[q]
  <2> HIDE DEF v1, v2
  <2> QED  BY <1>1, <1>2, <1>3, GotoType, GiveUpType DEF TypeOK
<1>5. faults' \in Nat
  <2>1. DbOk \/ DbError
    BY DEF CheckToken
  <2> QED  BY <2>1 DEF DbOk, DbError, TypeOK
<1> QED  BY <1>4, <1>5 DEF TypeOK, Untouched, CheckToken

\* The deduction from the token is well typed and concerns r alone.
LEMMA TakeTokenType ==
  ASSUME TypeOK, NEW r \in Requests, TakeToken(r)
  PROVE  TypeOK' /\ Untouched(r)
<1> DEFINE v == [sess[r] EXCEPT !.pc = "fund", !.tokenConsumed = sess[r].want]
<1>0. sess[r] \in Session /\ sess[r].want \in Nat /\ sess[r].want \in Int
  BY SessionFields
<1>1. v \in Session
  BY <1>0, Zenon DEF Session, PCs
<1>2. Goto(r, v) \/ (\E i \in BOOLEAN : GiveUp(r, i))
  BY DEF TakeToken
<1>3. /\ sess' \in [Requests -> Session]
      /\ \A q \in Requests \ {r} : sess'[q] = sess[q]
  <2> HIDE DEF v
  <2> QED  BY <1>1, <1>2, GotoType, GiveUpType DEF TypeOK
<1>4. /\ balance' \in [Accounts -> Int]
      /\ taken' \in [Requests -> [Accounts -> Int]]
      /\ \A q \in Requests \ {r} : taken'[q] = taken[q]
  <2>1. Move(r, "token", sess[r].want) \/ NoMove
    BY DEF TakeToken, Unanswered
  <2> QED  BY <1>0, <2>1, MoveType DEF NoMove, TypeOK, Accounts, Sources
<1>5. faults' \in Nat
  <2>1. DbOk \/ DbError
    BY DEF TakeToken, Unanswered
  <2> QED  BY <2>1 DEF DbOk, DbError, TypeOK
<1>9. /\ lost' \in [Requests -> SUBSET (Accounts \cup {Unheard})]
      /\ \A q \in Requests \ {r} : lost'[q] = lost[q]
  <2>1. UNCHANGED lost \/ Lose(r, "token")
    BY DEF TakeToken, Unanswered
  <2> QED  BY <1>0, <2>1 DEF TypeOK, Lose, Accounts, Sources
<1> QED  BY <1>3, <1>4, <1>5, <1>9 DEF TypeOK, Untouched, TakeToken

\* The deduction from a wallet is well typed and concerns r alone.
LEMMA TakeWalletType ==
  ASSUME TypeOK, NEW r \in Requests, TakeWallet(r)
  PROVE  TypeOK' /\ Untouched(r)
<1> DEFINE v1 == [sess[r] EXCEPT !.pc = "active", !.pre = sess[r].want,
      !.fundConsumed = sess[r].want]
           v2(i) == [sess[r] EXCEPT !.pc = "rollback", !.insufficient = i]
<1>0. sess[r] \in Session /\ sess[r].want \in Nat /\ sess[r].want \in Int
      /\ sess[r].src \in Sources
  BY SessionFields
<1>1. v1 \in Session
  BY <1>0, Zenon DEF Session, PCs
<1>2. \A i \in BOOLEAN : v2(i) \in Session
  BY <1>0, Zenon DEF Session, PCs
<1>3. Goto(r, v1) \/ (\E i \in BOOLEAN : Goto(r, v2(i)))
  BY DEF TakeWallet, Opened, FundFailed
<1>4. /\ sess' \in [Requests -> Session]
      /\ \A q \in Requests \ {r} : sess'[q] = sess[q]
  <2> HIDE DEF v1, v2
  <2> QED  BY <1>1, <1>2, <1>3, GotoType DEF TypeOK
<1>5. /\ balance' \in [Accounts -> Int]
      /\ taken' \in [Requests -> [Accounts -> Int]]
      /\ \A q \in Requests \ {r} : taken'[q] = taken[q]
  <2>1. Move(r, sess[r].src, sess[r].want) \/ NoMove
    BY DEF TakeWallet, Unanswered
  <2> QED  BY <1>0, <2>1, MoveType DEF NoMove, TypeOK, Accounts, Sources
<1>6. faults' \in Nat
  <2>1. DbOk \/ DbError
    BY DEF TakeWallet, Unanswered
  <2> QED  BY <2>1 DEF DbOk, DbError, TypeOK
<1>9. /\ lost' \in [Requests -> SUBSET (Accounts \cup {Unheard})]
      /\ \A q \in Requests \ {r} : lost'[q] = lost[q]
  <2>1. UNCHANGED lost \/ Lose(r, sess[r].src)
    BY DEF TakeWallet, Unanswered
  <2> QED  BY <1>0, <2>1 DEF TypeOK, Lose, Accounts, Sources
<1> QED  BY <1>4, <1>5, <1>6, <1>9 DEF TypeOK, Untouched, TakeWallet

\* The deduction from the subscription is well typed and concerns r alone.
LEMMA TakeSubscriptionType ==
  ASSUME TypeOK, NEW r \in Requests, TakeSubscription(r)
  PROVE  TypeOK' /\ Untouched(r)
<1> DEFINE v1 == [sess[r] EXCEPT !.pc = "active", !.pre = sess[r].want,
      !.fundConsumed = sess[r].want]
           v2(i) == [sess[r] EXCEPT !.pc = "rollback", !.insufficient = i]
<1>0. sess[r] \in Session /\ sess[r].want \in Nat /\ sess[r].want \in Int
  BY SessionFields
<1>1. v1 \in Session
  BY <1>0, Zenon DEF Session, PCs
<1>2. \A i \in BOOLEAN : v2(i) \in Session
  BY <1>0, Zenon DEF Session, PCs
<1>3. Goto(r, v1) \/ (\E i \in BOOLEAN : Goto(r, v2(i)))
  BY DEF TakeSubscription, Opened, FundFailed
<1>4. /\ sess' \in [Requests -> Session]
      /\ \A q \in Requests \ {r} : sess'[q] = sess[q]
  <2> HIDE DEF v1, v2
  <2> QED  BY <1>1, <1>2, <1>3, GotoType DEF TypeOK
<1>5. /\ balance' \in [Accounts -> Int]
      /\ taken' \in [Requests -> [Accounts -> Int]]
      /\ \A q \in Requests \ {r} : taken'[q] = taken[q]
  <2>1. Move(r, "sub", sess[r].want) \/ NoMove
    BY DEF TakeSubscription
  <2> QED  BY <1>0, <2>1, MoveType DEF NoMove, TypeOK, Accounts, Sources
<1>6. /\ record' \in [Requests -> {"none", "consumed", "refunded"}]
      /\ \A q \in Requests \ {r} : record'[q] = record[q]
  <2>1. UNCHANGED record \/ record' = [record EXCEPT ![r] = "consumed"]
    BY DEF TakeSubscription
  <2> QED  BY <2>1 DEF TypeOK
<1>7. /\ lost' \in [Requests -> SUBSET (Accounts \cup {Unheard})]
      /\ \A q \in Requests \ {r} : lost'[q] = lost[q]
  BY <1>0 DEF TypeOK, TakeSubscription, Lose, Accounts, Sources
<1>8. faults' \in Nat
  <2>1. DbOk \/ DbError
    BY DEF TakeSubscription
  <2> QED  BY <2>1 DEF DbOk, DbError, TypeOK
<1> QED  BY <1>4, <1>5, <1>6, <1>7, <1>8 DEF TypeOK, Untouched, TakeSubscription

\* The rollback of the token is well typed and concerns r alone.
LEMMA RollbackTokenType ==
  ASSUME TypeOK, NEW r \in Requests, RollbackToken(r)
  PROVE  TypeOK' /\ Untouched(r)
<1>0. sess[r] \in Session /\ sess[r].insufficient \in BOOLEAN /\ -sess[r].tokenConsumed \in Int
  BY SessionFields DEF Session
<1>1. \E i \in BOOLEAN : GiveUp(r, i)
  BY <1>0 DEF RollbackToken
<1>2. /\ sess' \in [Requests -> Session]
      /\ \A q \in Requests \ {r} : sess'[q] = sess[q]
  <2> QED  BY <1>1, GiveUpType DEF TypeOK
<1>3. /\ balance' \in [Accounts -> Int]
      /\ taken' \in [Requests -> [Accounts -> Int]]
      /\ lost' \in [Requests -> SUBSET (Accounts \cup {Unheard})]
      /\ faults' \in Nat
      /\ \A q \in Requests \ {r} : taken'[q] = taken[q] /\ lost'[q] = lost[q]
  <2> DEFINE due == ~TokenSkipped(r) /\ sess[r].tokenConsumed > 0
  <2>1. TryMove(r, "token", -sess[r].tokenConsumed, due)
    BY DEF RollbackToken
  <2>2. due \in BOOLEAN
    OBVIOUS
  <2> HIDE DEF due
  <2> QED  BY <1>0, <2>1, <2>2, TryMoveType DEF Accounts, Sources
<1> QED  BY <1>2, <1>3 DEF TypeOK, Untouched, RollbackToken

\* Trying a fallback channel is well typed and concerns r alone.
LEMMA ReopenType ==
  ASSUME TypeOK, NEW r \in Requests, Reopen(r)
  PROVE  TypeOK' /\ Untouched(r)
<1> DEFINE v == [sess[r] EXCEPT !.pc = "new"]
<1>0. sess[r] \in Session
  BY SessionFields
<1>1. v \in Session
  BY <1>0, Zenon DEF Session, PCs
<1>2. Goto(r, v)
  BY DEF Reopen
<1>3. /\ sess' \in [Requests -> Session]
      /\ \A q \in Requests \ {r} : sess'[q] = sess[q]
  <2> HIDE DEF v
  <2> QED  BY <1>1, <1>2, GotoType DEF TypeOK
<1> QED  BY <1>3 DEF TypeOK, Untouched, Reopen

\* Reserving on the funding source is well typed and concerns r alone.
LEMMA ReserveType ==
  ASSUME TypeOK, NEW r \in Requests, NEW target \in Actuals, Reserve(r, target)
  PROVE  TypeOK' /\ Untouched(r)
<1> DEFINE delta == target - sess[r].pre
           f == IF sess[r].src = "sub" THEN sess[r].fundConsumed ELSE sess[r].fundConsumed + delta
           v == [sess[r] EXCEPT !.pc = "reserveToken", !.want = delta, !.fundConsumed = f]
<1>0. sess[r] \in Session /\ delta \in Nat /\ delta \in Int /\ f \in Int /\ sess[r].src \in Sources
  BY SessionFields, ActualsAssumption DEF Reserve
<1>1. v \in Session
  <2> HIDE DEF delta, f
  <2> QED  BY <1>0, Zenon DEF Session, PCs
<1>2. Goto(r, v) \/ UNCHANGED sess
  BY DEF Reserve
<1>3. /\ sess' \in [Requests -> Session]
      /\ \A q \in Requests \ {r} : sess'[q] = sess[q]
  <2> HIDE DEF v
  <2> QED  BY <1>1, <1>2, GotoType DEF TypeOK
<1>4. /\ balance' \in [Accounts -> Int]
      /\ taken' \in [Requests -> [Accounts -> Int]]
      /\ \A q \in Requests \ {r} : taken'[q] = taken[q]
  <2>1. Move(r, sess[r].src, delta) \/ NoMove
    BY DEF Reserve, Unanswered
  <2> QED  BY <1>0, <2>1, MoveType DEF NoMove, TypeOK, Accounts, Sources
<1>5. faults' \in Nat
  <2>1. DbOk \/ DbError
    BY DEF Reserve, Unanswered
  <2> QED  BY <2>1 DEF DbOk, DbError, TypeOK
<1>9. /\ lost' \in [Requests -> SUBSET (Accounts \cup {Unheard})]
      /\ \A q \in Requests \ {r} : lost'[q] = lost[q]
  <2>1. UNCHANGED lost \/ Lose(r, sess[r].src)
    BY DEF Reserve, Unanswered
  <2> QED  BY <1>0, <2>1 DEF TypeOK, Lose, Accounts, Sources
<1> QED  BY <1>3, <1>4, <1>5, <1>9 DEF TypeOK, Untouched, Reserve

\* Reserving on the token is well typed and concerns r alone.
LEMMA ReserveTokenType ==
  ASSUME TypeOK, NEW r \in Requests, ReserveToken(r)
  PROVE  TypeOK' /\ Untouched(r)
<1> DEFINE v1 == [sess[r] EXCEPT !.pc = "active", !.pre = sess[r].pre + sess[r].want,
                               !.tokenConsumed = sess[r].tokenConsumed + sess[r].want,
                                     !.extra = sess[r].extra + sess[r].want]
           v2 == [sess[r] EXCEPT !.pc = "reserveUndo"]
<1>0. sess[r] \in Session /\ sess[r].want \in Int
      /\ sess[r].pre + sess[r].want \in Nat
      /\ sess[r].tokenConsumed + sess[r].want \in Nat /\ sess[r].extra + sess[r].want \in Nat
  BY SessionFields
<1>1. v1 \in Session
  BY <1>0, Zenon DEF Session, PCs
<1>2. v2 \in Session
  BY <1>0, Zenon DEF Session, PCs
<1>3. Goto(r, v1) \/ Goto(r, v2)
  BY DEF ReserveToken
<1>4. /\ sess' \in [Requests -> Session]
      /\ \A q \in Requests \ {r} : sess'[q] = sess[q]
  <2> HIDE DEF v1, v2
  <2> QED  BY <1>1, <1>2, <1>3, GotoType DEF TypeOK
<1>5. /\ balance' \in [Accounts -> Int]
      /\ taken' \in [Requests -> [Accounts -> Int]]
      /\ \A q \in Requests \ {r} : taken'[q] = taken[q]
  <2>1. Move(r, "token", sess[r].want) \/ NoMove
    BY DEF ReserveToken, Unanswered
  <2> QED  BY <1>0, <2>1, MoveType DEF NoMove, TypeOK, Accounts, Sources
<1>6. faults' \in Nat
  <2>1. DbOk \/ DbError
    BY DEF ReserveToken, Unanswered
  <2> QED  BY <2>1 DEF DbOk, DbError, TypeOK
<1>9. /\ lost' \in [Requests -> SUBSET (Accounts \cup {Unheard})]
      /\ \A q \in Requests \ {r} : lost'[q] = lost[q]
  <2>1. UNCHANGED lost \/ Lose(r, "token")
    BY DEF ReserveToken, Unanswered
  <2> QED  BY <1>0, <2>1 DEF TypeOK, Lose, Accounts, Sources
<1> QED  BY <1>4, <1>5, <1>6, <1>9 DEF TypeOK, Untouched, ReserveToken

\* Undoing a reservation is well typed and concerns r alone.
LEMMA ReserveUndoType ==
  ASSUME TypeOK, NEW r \in Requests, ReserveUndo(r)
  PROVE  TypeOK' /\ Untouched(r)
<1> DEFINE f == IF sess[r].src = "sub" THEN sess[r].fundConsumed ELSE sess[r].fundConsumed -
      sess[r].want
           v1 == [sess[r] EXCEPT !.pc = "active", !.fundConsumed = f]
           v2 == [sess[r] EXCEPT !.pc = "active"]
<1>0. sess[r] \in Session /\ -sess[r].want \in Int /\ sess[r].src \in Sources /\ f \in Int
  BY SessionFields
<1>1. v1 \in Session
  <2> HIDE DEF f
  <2> QED  BY <1>0, Zenon DEF Session, PCs
<1>2. v2 \in Session
  <2> HIDE DEF f
  <2> QED  BY <1>0, Zenon DEF Session, PCs
<1>3. Goto(r, v1) \/ Goto(r, v2)
  BY DEF ReserveUndo
<1>4. /\ sess' \in [Requests -> Session]
      /\ \A q \in Requests \ {r} : sess'[q] = sess[q]
  <2> HIDE DEF v1, v2
  <2> QED  BY <1>1, <1>2, <1>3, GotoType DEF TypeOK
<1>5. /\ balance' \in [Accounts -> Int]
      /\ taken' \in [Requests -> [Accounts -> Int]]
      /\ \A q \in Requests \ {r} : taken'[q] = taken[q]
  <2>1. Move(r, sess[r].src, -sess[r].want) \/ NoMove
    BY DEF ReserveUndo
  <2> QED  BY <1>0, <2>1, MoveType DEF NoMove, TypeOK, Accounts, Sources
<1>6. /\ lost' \in [Requests -> SUBSET (Accounts \cup {Unheard})]
      /\ \A q \in Requests \ {r} : lost'[q] = lost[q]
  BY <1>0 DEF TypeOK, ReserveUndo, Lose, Accounts, Sources
<1>7. faults' \in Nat
  <2>1. DbOk \/ DbError
    BY DEF ReserveUndo
  <2> QED  BY <2>1 DEF DbOk, DbError, TypeOK
<1> QED  BY <1>4, <1>5, <1>6, <1>7 DEF TypeOK, Untouched, ReserveUndo

\* Settling with the funding source is well typed and concerns r alone.
LEMMA SettleType ==
  ASSUME TypeOK, NEW r \in Requests, NEW actual \in Actuals, Settle(r, actual)
  PROVE  TypeOK' /\ Untouched(r)
<1> DEFINE v1 == [sess[r] EXCEPT !.pc = "settled", !.actual = actual, !.settled = TRUE]
           v2 == [sess[r] EXCEPT !.pc = "adjust", !.actual = actual, !.fundingSettled = TRUE]
           v3 == [sess[r] EXCEPT !.pc = "unsettled", !.actual = actual]
<1>0. sess[r] \in Session /\ actual \in Nat /\ actual - sess[r].pre \in Int
      /\ sess[r].src \in Sources
  BY SessionFields, ActualsAssumption
<1>1. v1 \in Session
  BY <1>0, Zenon DEF Session, PCs
<1>2. v2 \in Session
  BY <1>0, Zenon DEF Session, PCs
<1>3. v3 \in Session
  BY <1>0, Zenon DEF Session, PCs
<1>4. Goto(r, v1) \/ Goto(r, v2) \/ Goto(r, v3)
  BY DEF Settle
<1>5. /\ sess' \in [Requests -> Session]
      /\ \A q \in Requests \ {r} : sess'[q] = sess[q]
  <2> HIDE DEF v1, v2, v3
  <2> QED  BY <1>1, <1>2, <1>3, <1>4, GotoType DEF TypeOK
<1>6. /\ balance' \in [Accounts -> Int]
      /\ taken' \in [Requests -> [Accounts -> Int]]
      /\ \A q \in Requests \ {r} : taken'[q] = taken[q]
  <2>1. Move(r, sess[r].src, actual - sess[r].pre) \/ NoMove
    BY DEF Settle, Unanswered
  <2> QED  BY <1>0, <2>1, MoveType DEF NoMove, TypeOK, Accounts, Sources
<1>7. faults' \in Nat
  <2>1. DbOk \/ DbError
    BY DEF Settle, Unanswered
  <2> QED  BY <2>1 DEF DbOk, DbError, TypeOK
<1>9. /\ lost' \in [Requests -> SUBSET (Accounts \cup {Unheard})]
      /\ \A q \in Requests \ {r} : lost'[q] = lost[q]
  <2>1. \/ UNCHANGED lost
        \/ lost' = [lost EXCEPT ![r] = @ \cup {sess[r].src}
                      \cup IF actual - sess[r].pre < 0 THEN {Unheard} ELSE {}]
    BY DEF Settle
  <2> QED  BY <1>0, <2>1 DEF TypeOK, Accounts, Sources
<1> QED  BY <1>5, <1>6, <1>7, <1>9 DEF TypeOK, Untouched, Settle

\* Settling with the token is well typed and concerns r alone.
LEMMA SettleTokenType ==
  ASSUME TypeOK, NEW r \in Requests, SettleToken(r)
  PROVE  TypeOK' /\ Untouched(r)
<1> DEFINE v == [sess[r] EXCEPT !.pc = "settled", !.settled = TRUE]
<1>0. sess[r] \in Session /\ sess[r].actual - sess[r].pre \in Int
  BY SessionFields
<1>1. v \in Session
  BY <1>0, Zenon DEF Session, PCs
<1>2. Goto(r, v)
  BY DEF SettleToken
<1>3. /\ sess' \in [Requests -> Session]
      /\ \A q \in Requests \ {r} : sess'[q] = sess[q]
  <2> HIDE DEF v
  <2> QED  BY <1>1, <1>2, GotoType DEF TypeOK
<1>4. /\ balance' \in [Accounts -> Int]
      /\ taken' \in [Requests -> [Accounts -> Int]]
      /\ lost' \in [Requests -> SUBSET (Accounts \cup {Unheard})]
      /\ faults' \in Nat
      /\ \A q \in Requests \ {r} : taken'[q] = taken[q] /\ lost'[q] = lost[q]
  <2> DEFINE due == ~TokenSkipped(r)
  <2>1. TryMove(r, "token", sess[r].actual - sess[r].pre, due)
    BY DEF SettleToken
  <2>2. due \in BOOLEAN
    OBVIOUS
  <2> HIDE DEF due
  <2> QED  BY <1>0, <2>1, <2>2, TryMoveType DEF Accounts, Sources
<1> QED  BY <1>3, <1>4 DEF TypeOK, Untouched, SettleToken

\* Charging a free model to the wallet is well typed and concerns r alone.
LEMMA SettleFreeType ==
  ASSUME TypeOK, NEW r \in Requests, NEW actual \in Actuals, SettleFree(r, actual)
  PROVE  TypeOK' /\ Untouched(r)
<1> DEFINE v1 == [sess[r] EXCEPT !.pc = "freeToken", !.actual = actual]
           v2 == [sess[r] EXCEPT !.pc = "done"]
<1>0. sess[r] \in Session /\ actual \in Nat /\ actual \in Int
  BY SessionFields, ActualsAssumption
<1>1. v1 \in Session
  BY <1>0, Zenon DEF Session, PCs
<1>2. v2 \in Session
  BY <1>0, Zenon DEF Session, PCs
<1>3. Goto(r, v1) \/ Goto(r, v2)
  BY DEF SettleFree
<1>4. /\ sess' \in [Requests -> Session]
      /\ \A q \in Requests \ {r} : sess'[q] = sess[q]
  <2> HIDE DEF v1, v2
  <2> QED  BY <1>1, <1>2, <1>3, GotoType DEF TypeOK
<1>5. /\ balance' \in [Accounts -> Int]
      /\ taken' \in [Requests -> [Accounts -> Int]]
      /\ \A q \in Requests \ {r} : taken'[q] = taken[q]
  <2>1. Move(r, "wallet", actual) \/ NoMove
    BY DEF SettleFree, Unanswered
  <2> QED  BY <1>0, <2>1, MoveType DEF NoMove, TypeOK, Accounts, Sources
<1>6. faults' \in Nat
  <2>1. DbOk \/ DbError
    BY DEF SettleFree, Unanswered
  <2> QED  BY <2>1 DEF DbOk, DbError, TypeOK
<1>9. /\ lost' \in [Requests -> SUBSET (Accounts \cup {Unheard})]
      /\ \A q \in Requests \ {r} : lost'[q] = lost[q]
  <2>1. UNCHANGED lost \/ Lose(r, "wallet")
    BY DEF SettleFree, Unanswered
  <2> QED  BY <1>0, <2>1 DEF TypeOK, Lose, Accounts, Sources
<1> QED  BY <1>4, <1>5, <1>6, <1>9 DEF TypeOK, Untouched, SettleFree

\* Charging a free model to the token is well typed and concerns r alone.
LEMMA SettleFreeTokenType ==
  ASSUME TypeOK, NEW r \in Requests, SettleFreeToken(r)
  PROVE  TypeOK' /\ Untouched(r)
<1> DEFINE v == [sess[r] EXCEPT !.pc = "done"]
<1>0. sess[r] \in Session /\ sess[r].actual \in Int
  BY SessionFields
<1>1. v \in Session
  BY <1>0, Zenon DEF Session, PCs
<1>2. Goto(r, v)
  BY DEF SettleFreeToken
<1>3. /\ sess' \in [Requests -> Session]
      /\ \A q \in Requests \ {r} : sess'[q] = sess[q]
  <2> HIDE DEF v
  <2> QED  BY <1>1, <1>2, GotoType DEF TypeOK
<1>4. /\ balance' \in [Accounts -> Int]
      /\ taken' \in [Requests -> [Accounts -> Int]]
      /\ lost' \in [Requests -> SUBSET (Accounts \cup {Unheard})]
      /\ faults' \in Nat
      /\ \A q \in Requests \ {r} : taken'[q] = taken[q] /\ lost'[q] = lost[q]
  <2> DEFINE due == ~TokenSkipped(r)
  <2>1. TryMove(r, "token", sess[r].actual, due)
    BY DEF SettleFreeToken
  <2>2. due \in BOOLEAN
    OBVIOUS
  <2> HIDE DEF due
  <2> QED  BY <1>0, <2>1, <2>2, TryMoveType DEF Accounts, Sources
<1> QED  BY <1>3, <1>4 DEF TypeOK, Untouched, SettleFreeToken

\* Answering the client is well typed and concerns r alone.
LEMMA CompleteType ==
  ASSUME TypeOK, NEW r \in Requests, Complete(r)
  PROVE  TypeOK' /\ Untouched(r)
<1> DEFINE v == [sess[r] EXCEPT !.pc = "done"]
<1>0. sess[r] \in Session
  BY SessionFields
<1>1. v \in Session
  BY <1>0, Zenon DEF Session, PCs
<1>2. Goto(r, v)
  BY DEF Complete
<1>3. /\ sess' \in [Requests -> Session]
      /\ \A q \in Requests \ {r} : sess'[q] = sess[q]
  <2> HIDE DEF v
  <2> QED  BY <1>1, <1>2, GotoType DEF TypeOK
<1> QED  BY <1>3 DEF TypeOK, Untouched, Complete

\* Starting the refund is well typed and concerns r alone.
LEMMA RefundType ==
  ASSUME TypeOK, NEW r \in Requests, Refund(r)
  PROVE  TypeOK' /\ Untouched(r)
<1> DEFINE v1 == [sess[r] EXCEPT !.pc = "refundFund", !.refunded = TRUE]
           v2 == [sess[r] EXCEPT !.pc = "returned"]
<1>0. sess[r] \in Session
  BY SessionFields
<1>1. v1 \in Session
  BY <1>0, Zenon DEF Session, PCs
<1>2. v2 \in Session
  BY <1>0, Zenon DEF Session, PCs
<1>3. Goto(r, v1) \/ Goto(r, v2)
  BY DEF Refund
<1>4. /\ sess' \in [Requests -> Session]
      /\ \A q \in Requests \ {r} : sess'[q] = sess[q]
  <2> HIDE DEF v1, v2
  <2> QED  BY <1>1, <1>2, <1>3, GotoType DEF TypeOK
<1> QED  BY <1>4 DEF TypeOK, Untouched, Refund

\* Refunding a wallet is well typed and concerns r alone.
LEMMA RefundWalletType ==
  ASSUME TypeOK, NEW r \in Requests, RefundWallet(r)
  PROVE  TypeOK' /\ Untouched(r)
<1> DEFINE v == [sess[r] EXCEPT !.pc = "refundExtra"]
<1>0. sess[r] \in Session /\ -sess[r].fundConsumed \in Int /\ sess[r].src \in Sources
  BY SessionFields
<1>1. v \in Session
  BY <1>0, Zenon DEF Session, PCs
<1>2. Goto(r, v)
  BY DEF RefundWallet
<1>3. /\ sess' \in [Requests -> Session]
      /\ \A q \in Requests \ {r} : sess'[q] = sess[q]
  <2> HIDE DEF v
  <2> QED  BY <1>1, <1>2, GotoType DEF TypeOK
<1>4. /\ balance' \in [Accounts -> Int]
      /\ taken' \in [Requests -> [Accounts -> Int]]
      /\ \A q \in Requests \ {r} : taken'[q] = taken[q]
  <2>1. Move(r, sess[r].src, -sess[r].fundConsumed) \/ NoMove
    BY DEF RefundWallet, TryMove
  <2> QED  BY <1>0, <2>1, MoveType DEF NoMove, TypeOK, Accounts, Sources
<1>5. /\ lost' \in [Requests -> SUBSET (Accounts \cup {Unheard})]
      /\ \A q \in Requests \ {r} : lost'[q] = lost[q]
  BY <1>0 DEF TypeOK, RefundWallet, Lose, Accounts, Sources, TryMove
<1>6. faults' \in Nat
  <2>1. DbOk \/ DbError
    BY DEF RefundWallet, TryMove
  <2> QED  BY <2>1 DEF DbOk, DbError, TypeOK
<1> QED  BY <1>3, <1>4, <1>5, <1>6 DEF TypeOK, Untouched, RefundWallet, TryMove

\* Refunding the subscription is well typed and concerns r alone.
LEMMA RefundSubscriptionType ==
  ASSUME TypeOK, NEW r \in Requests, RefundSubscription(r)
  PROVE  TypeOK' /\ Untouched(r)
<1> DEFINE n == sess[r].attempts + 1
           c == IF n < MaxAttempts THEN "refundFund" ELSE "refundExtra"
           v1 == [sess[r] EXCEPT !.attempts = n, !.pc = c]
           v2 == [sess[r] EXCEPT !.pc = "refundExtra"]
<1>0. sess[r] \in Session /\ -sess[r].fundConsumed \in Int /\ n \in Nat /\ c \in PCs
  BY SessionFields DEF PCs
<1>1. v1 \in Session
  <2> HIDE DEF n, c
  <2> QED  BY <1>0, Zenon DEF Session, PCs
<1>2. v2 \in Session
  <2> HIDE DEF n, c
  <2> QED  BY <1>0, Zenon DEF Session, PCs
<1>3. Goto(r, v1) \/ Goto(r, v2)
  BY DEF RefundSubscription
<1>4. /\ sess' \in [Requests -> Session]
      /\ \A q \in Requests \ {r} : sess'[q] = sess[q]
  <2> HIDE DEF v1, v2
  <2> QED  BY <1>1, <1>2, <1>3, GotoType DEF TypeOK
<1>5. /\ balance' \in [Accounts -> Int]
      /\ taken' \in [Requests -> [Accounts -> Int]]
      /\ \A q \in Requests \ {r} : taken'[q] = taken[q]
  <2>1. Move(r, "sub", -sess[r].fundConsumed) \/ NoMove
    BY DEF RefundSubscription
  <2> QED  BY <1>0, <2>1, MoveType DEF NoMove, TypeOK, Accounts, Sources
<1>6. /\ record' \in [Requests -> {"none", "consumed", "refunded"}]
      /\ \A q \in Requests \ {r} : record'[q] = record[q]
  <2>1. UNCHANGED record \/ record' = [record EXCEPT ![r] = "refunded"]
    BY DEF RefundSubscription
  <2> QED  BY <2>1 DEF TypeOK
<1>7. /\ lost' \in [Requests -> SUBSET (Accounts \cup {Unheard})]
      /\ \A q \in Requests \ {r} : lost'[q] = lost[q]
  BY <1>0 DEF TypeOK, RefundSubscription, Lose, Accounts, Sources
<1>8. faults' \in Nat
  <2>1. DbOk \/ DbError
    BY DEF RefundSubscription
  <2> QED  BY <2>1 DEF DbOk, DbError, TypeOK
<1> QED  BY <1>4, <1>5, <1>6, <1>7, <1>8 DEF TypeOK, Untouched, RefundSubscription

\* Refunding the reserved amount is well typed and concerns r alone.
LEMMA RefundExtraType ==
  ASSUME TypeOK, NEW r \in Requests, RefundExtra(r)
  PROVE  TypeOK' /\ Untouched(r)
<1> DEFINE v == [sess[r] EXCEPT !.pc = "refundToken"]
<1>0. sess[r] \in Session /\ -sess[r].extra \in Int
  BY SessionFields
<1>1. v \in Session
  BY <1>0, Zenon DEF Session, PCs
<1>2. Goto(r, v)
  BY DEF RefundExtra
<1>3. /\ sess' \in [Requests -> Session]
      /\ \A q \in Requests \ {r} : sess'[q] = sess[q]
  <2> HIDE DEF v
  <2> QED  BY <1>1, <1>2, GotoType DEF TypeOK
<1>4. /\ balance' \in [Accounts -> Int]
      /\ taken' \in [Requests -> [Accounts -> Int]]
      /\ lost' \in [Requests -> SUBSET (Accounts \cup {Unheard})]
      /\ faults' \in Nat
      /\ \A q \in Requests \ {r} : taken'[q] = taken[q] /\ lost'[q] = lost[q]
  <2> DEFINE due == sess[r].extra > 0 /\ sess[r].src = "sub"
  <2>1. TryMove(r, "sub", -sess[r].extra, due)
    BY DEF RefundExtra
  <2>2. due \in BOOLEAN
    OBVIOUS
  <2> HIDE DEF due
  <2> QED  BY <1>0, <2>1, <2>2, TryMoveType DEF Accounts, Sources
<1> QED  BY <1>3, <1>4 DEF TypeOK, Untouched, RefundExtra

\* Refunding the token is well typed and concerns r alone.
LEMMA RefundTokenType ==
  ASSUME TypeOK, NEW r \in Requests, RefundToken(r)
  PROVE  TypeOK' /\ Untouched(r)
<1> DEFINE v == [sess[r] EXCEPT !.pc = "done"]
<1>0. sess[r] \in Session /\ -sess[r].tokenConsumed \in Int
  BY SessionFields
<1>1. v \in Session
  BY <1>0, Zenon DEF Session, PCs
<1>2. Goto(r, v)
  BY DEF RefundToken
<1>3. /\ sess' \in [Requests -> Session]
      /\ \A q \in Requests \ {r} : sess'[q] = sess[q]
  <2> HIDE DEF v
  <2> QED  BY <1>1, <1>2, GotoType DEF TypeOK
<1>4. /\ balance' \in [Accounts -> Int]
      /\ taken' \in [Requests -> [Accounts -> Int]]
      /\ lost' \in [Requests -> SUBSET (Accounts \cup {Unheard})]
      /\ faults' \in Nat
      /\ \A q \in Requests \ {r} : taken'[q] = taken[q] /\ lost'[q] = lost[q]
  <2> DEFINE due == sess[r].tokenConsumed > 0 /\ ~TokenSkipped(r)
  <2>1. TryMove(r, "token", -sess[r].tokenConsumed, due)
    BY DEF RefundToken
  <2>2. due \in BOOLEAN
    OBVIOUS
  <2> HIDE DEF due
  <2> QED  BY <1>0, <2>1, <2>2, TryMoveType DEF Accounts, Sources
<1> QED  BY <1>3, <1>4 DEF TypeOK, Untouched, RefundToken

RequestStep(r) == OpenSession(r) \/ UseSession(r) \/ RefundGoroutine(r)

\* Every step of a request is well typed and concerns that request alone.
LEMMA RequestStepType ==
  ASSUME TypeOK, NEW r \in Requests, RequestStep(r)
  PROVE  TypeOK' /\ Untouched(r)
<1>1. CASE OpenSession(r)
  BY <1>1, AuthenticateType, OpenType, CheckFundsType, CheckTokenType, TakeTokenType,
        TakeWalletType,
     TakeSubscriptionType, RollbackTokenType, ReopenType DEF OpenSession
<1>2. CASE UseSession(r)
  BY <1>2, ReserveType, ReserveTokenType, ReserveUndoType, SettleType, SettleTokenType,
        SettleFreeType,
     SettleFreeTokenType, CompleteType, RefundType DEF UseSession
<1>3. CASE RefundGoroutine(r)
  BY <1>3, RefundWalletType, RefundSubscriptionType, RefundExtraType,
        RefundTokenType DEF RefundGoroutine
<1> QED  BY <1>1, <1>2, <1>3 DEF RequestStep

\* TypeOK holds in every reachable state of the billing sessions.
THEOREM TypeCorrect == Spec => []TypeOK
<1>1. Init => TypeOK
  <2>1. Init => profile \in [Requests -> Profile] /\ faults \in Nat
    BY CasesAssumption DEF Init
  <2> QED  BY <2>1, FreshType, Balance0Assumption DEF Init, TypeOK
<1>2. TypeOK /\ [Next]_vars => TypeOK'
  <2> SUFFICES ASSUME TypeOK, [Next]_vars PROVE TypeOK'
    OBVIOUS
  <2>1. CASE \E r \in Requests : RequestStep(r)
    BY <2>1, RequestStepType
  <2>2. CASE ExpireSubscription
    BY <2>2 DEF ExpireSubscription, TypeOK
  <2>3. CASE UNCHANGED vars
    BY <2>3 DEF vars, TypeOK
  <2> QED  BY <2>1, <2>2, <2>3 DEF Next, RequestStep, AllDone
<1> QED  BY <1>1, <1>2, PTL DEF Spec

-----------------------------------------------------------------------------
(* The ledger.                                                             *)

\* The auth middleware keeps the ledger of r.
LEMMA AuthenticateLedger ==
  ASSUME TypeOK, NEW r \in Requests, RequestInv(r), Authenticate(r)
  PROVE  RequestInv(r)'
<1> DEFINE s == sess[r]
           n == sess'[r]
<1> USE DEF BeforeOpen, InSession, InRefund, Accounts, Sources, Unheard
<1>0. /\ s \in Session /\ s.pc = "auth" /\ s.src \in Sources /\ s.want \in Nat /\ s.pre \in Nat
      /\ s.tokenConsumed \in Nat /\ s.fundConsumed \in Int /\ s.extra \in Nat /\ s.actual \in Nat
      /\ profile'[r] = profile[r]
      /\ \A a \in Accounts : taken[r][a] \in Int
  BY SessionFields DEF Authenticate
<1>1. /\ LedgerOf(profile[r], s, record[r], taken[r], lost[r])
      /\ FlagsOf(s)
      /\ SessionOf(profile[r], s, record[r], taken[r], lost[r])
  BY DEF RequestInv
<1>2. CASE UNCHANGED <<taken, record, lost>>
           /\ Goto(r, [s EXCEPT !.pc = "new", !.seenToken = balance["token"]])
  <2>1. /\ n = [s EXCEPT !.pc = "new", !.seenToken = balance["token"]]
        /\ taken'[r] = taken[r]
        /\ record'[r] = record[r] /\ lost'[r] = lost[r]
    BY <1>0, <1>2 DEF TypeOK, Goto
  <2> HIDE DEF n, s
  <2> QED  BY <1>0, <1>1, <1>2, <2>1
           DEF n, RequestInv, LedgerOf, Balanced, Exactly, Due, FlagsOf, SessionOf, Session
<1> QED  BY <1>0, <1>2 DEF Authenticate

\* Opening a session keeps the ledger of r.
LEMMA OpenLedger ==
  ASSUME TypeOK, NEW r \in Requests, RequestInv(r), Open(r)
  PROVE  RequestInv(r)'
<1> DEFINE s == sess[r]
           n == sess'[r]
<1> USE DEF BeforeOpen, InSession, InRefund, Accounts, Sources, Unheard
<1>0. /\ s \in Session /\ s.pc = "new" /\ s.src \in Sources /\ s.want \in Nat /\ s.pre \in Nat
      /\ s.tokenConsumed \in Nat /\ s.fundConsumed \in Int /\ s.extra \in Nat /\ s.actual \in Nat
      /\ profile'[r] = profile[r]
      /\ FirstSource(r) \in Sources
      /\ \A a \in Accounts : taken[r][a] \in Int
  BY SessionFields DEF Open, FirstSource, Sources
<1>1. /\ LedgerOf(profile[r], s, record[r], taken[r], lost[r])
      /\ FlagsOf(s)
      /\ SessionOf(profile[r], s, record[r], taken[r], lost[r])
  BY DEF RequestInv
<1>2. CASE UNCHANGED <<taken, record, lost>>
           /\ Goto(r, [s EXCEPT !.pc = "free"])
  <2>1. /\ n = [s EXCEPT !.pc = "free"]
        /\ taken'[r] = taken[r]
        /\ record'[r] = record[r] /\ lost'[r] = lost[r]
    BY <1>0, <1>2 DEF TypeOK, Goto
  <2> HIDE DEF n, s
  <2> QED  BY <1>0, <1>1, <1>2, <2>1
           DEF n, RequestInv, LedgerOf, Balanced, Exactly, Due, FlagsOf, SessionOf, Session
<1>3. CASE UNCHANGED <<taken, record, lost>>
           /\ Goto(r, [s EXCEPT !.pc = "check", !.src = FirstSource(r), !.next = SecondSource(r),
                    !.opens = s.opens + 1])
  <2>1. /\ n = [s EXCEPT !.pc = "check", !.src = FirstSource(r), !.next = SecondSource(r),
                 !.opens = s.opens + 1]
        /\ taken'[r] = taken[r]
        /\ record'[r] = record[r] /\ lost'[r] = lost[r]
    BY <1>0, <1>3 DEF TypeOK, Goto
  <2> HIDE DEF n, s
  <2> QED  BY <1>0, <1>1, <1>3, <2>1
           DEF n, RequestInv, LedgerOf, Balanced, Exactly, Due, FlagsOf, SessionOf, Session
<1>4. CASE UNCHANGED <<taken, record, lost>>
           /\ Goto(r, [s EXCEPT !.pc = "failed", !.opens = s.opens + 1])
  <2>1. /\ n = [s EXCEPT !.pc = "failed", !.opens = s.opens + 1]
        /\ taken'[r] = taken[r]
        /\ record'[r] = record[r] /\ lost'[r] = lost[r]
    BY <1>0, <1>4 DEF TypeOK, Goto
  <2> HIDE DEF n, s
  <2> QED  BY <1>0, <1>1, <1>4, <2>1
           DEF n, RequestInv, LedgerOf, Balanced, Exactly, Due, FlagsOf, SessionOf, Session
<1> QED  BY <1>0, <1>2, <1>3, <1>4 DEF Open

\* The check of the funding source keeps the ledger of r.
LEMMA CheckFundsLedger ==
  ASSUME TypeOK, NEW r \in Requests, RequestInv(r), CheckFunds(r)
  PROVE  RequestInv(r)'
<1> DEFINE s == sess[r]
           n == sess'[r]
           trust == ShouldTrust(r, s.src)
           w == IF trust THEN 0 ELSE Wanted(r, s.src)
<1> USE DEF BeforeOpen, InSession, InRefund, Accounts, Sources, Unheard
<1>0. /\ s \in Session /\ s.pc = "check" /\ s.src \in Sources /\ s.want \in Nat /\ s.pre \in Nat
      /\ s.tokenConsumed \in Nat /\ s.fundConsumed \in Int /\ s.extra \in Nat /\ s.actual \in Nat
      /\ profile'[r] = profile[r]
      /\ s.next \in Sources \cup {"none"} /\ profile[r].quota \in Nat /\ w \in Nat
      /\ s.src = "sub" => w = (IF profile[r].quota = 0 THEN 1 ELSE profile[r].quota)
      /\ \A a \in Accounts : taken[r][a] \in Int
  BY SessionFields DEF CheckFunds, ShouldTrust, Wanted
<1>1. /\ LedgerOf(profile[r], s, record[r], taken[r], lost[r])
      /\ FlagsOf(s)
      /\ SessionOf(profile[r], s, record[r], taken[r], lost[r])
  BY DEF RequestInv
<1>2. CASE UNCHANGED <<taken, record, lost>>
           /\ Goto(r, [s EXCEPT !.pc = "token", !.trusted = trust, !.want = w])
  <2>1. /\ n = [s EXCEPT !.pc = "token", !.trusted = trust, !.want = w]
        /\ taken'[r] = taken[r]
        /\ record'[r] = record[r] /\ lost'[r] = lost[r]
    BY <1>0, <1>2 DEF TypeOK, Goto
  <2> HIDE DEF n, s
  <2> QED  BY <1>0, <1>1, <1>2, <2>1
           DEF n, RequestInv, LedgerOf, Balanced, Exactly, Due, FlagsOf, SessionOf, Session
<1>3. CASE ~(TRUE /\ s.next # "none") /\ UNCHANGED <<taken, record, lost>>
           /\ GiveUp(r, TRUE)
  <2>1. /\ n = [Fresh EXCEPT !.pc = "failed", !.src = Fresh.src,
                            !.opens = s.opens, !.seenToken = s.seenToken]
        /\ taken'[r] = taken[r]
        /\ record'[r] = record[r] /\ lost'[r] = lost[r]
    BY <1>0, <1>3 DEF TypeOK, DbOk, Goto, GiveUp, Fresh
  <2> HIDE DEF n, s
  <2> QED  BY <1>0, <1>1, <1>3, <2>1
           DEF n, RequestInv, LedgerOf, Balanced, Exactly, Due, FlagsOf, SessionOf, Session, Fresh
<1>4. CASE s.next # "none" /\ UNCHANGED <<taken, record, lost>>
           /\ GiveUp(r, TRUE)
  <2>1. /\ n = [Fresh EXCEPT !.pc = "check", !.src = s.next,
                            !.opens = s.opens, !.seenToken = s.seenToken]
        /\ taken'[r] = taken[r]
        /\ record'[r] = record[r] /\ lost'[r] = lost[r]
    BY <1>0, <1>4 DEF TypeOK, DbOk, Goto, GiveUp, Fresh
  <2> HIDE DEF n, s
  <2> QED  BY <1>0, <1>1, <1>4, <2>1
           DEF n, RequestInv, LedgerOf, Balanced, Exactly, Due, FlagsOf, SessionOf, Session, Fresh
<1>5. CASE ~(FALSE /\ s.next # "none") /\ UNCHANGED <<taken, record, lost>>
           /\ GiveUp(r, FALSE)
  <2>1. /\ n = [Fresh EXCEPT !.pc = "failed", !.src = Fresh.src,
                            !.opens = s.opens, !.seenToken = s.seenToken]
        /\ taken'[r] = taken[r]
        /\ record'[r] = record[r] /\ lost'[r] = lost[r]
    BY <1>0, <1>5 DEF TypeOK, DbOk, Goto, GiveUp, Fresh
  <2> HIDE DEF n, s
  <2> QED  BY <1>0, <1>1, <1>5, <2>1
           DEF n, RequestInv, LedgerOf, Balanced, Exactly, Due, FlagsOf, SessionOf, Session, Fresh
<1> QED  BY <1>0, <1>2, <1>3, <1>4, <1>5 DEF CheckFunds

\* The check of the token keeps the ledger of r.
LEMMA CheckTokenLedger ==
  ASSUME TypeOK, NEW r \in Requests, RequestInv(r), CheckToken(r)
  PROVE  RequestInv(r)'
<1> DEFINE s == sess[r]
           n == sess'[r]
<1> USE DEF BeforeOpen, InSession, InRefund, Accounts, Sources, Unheard
<1>0. /\ s \in Session /\ s.pc = "token" /\ s.src \in Sources /\ s.want \in Nat /\ s.pre \in Nat
      /\ s.tokenConsumed \in Nat /\ s.fundConsumed \in Int /\ s.extra \in Nat /\ s.actual \in Nat
      /\ profile'[r] = profile[r]
      /\ \A a \in Accounts : taken[r][a] \in Int
  BY SessionFields DEF CheckToken
<1>1. /\ LedgerOf(profile[r], s, record[r], taken[r], lost[r])
      /\ FlagsOf(s)
      /\ SessionOf(profile[r], s, record[r], taken[r], lost[r])
  BY DEF RequestInv
<1>2. CASE (s.want = 0 \/ profile[r].playground) /\ UNCHANGED <<taken, record, lost>>
           /\ Goto(r, [s EXCEPT !.pc = "fund", !.tokenConsumed = s.want])
  <2>1. /\ n = [s EXCEPT !.pc = "fund", !.tokenConsumed = s.want]
        /\ taken'[r] = taken[r]
        /\ record'[r] = record[r] /\ lost'[r] = lost[r]
    BY <1>0, <1>2 DEF TypeOK, Goto
  <2> HIDE DEF n, s
  <2> QED  BY <1>0, <1>1, <1>2, <2>1
           DEF n, RequestInv, LedgerOf, Balanced, Exactly, Due, FlagsOf, SessionOf, Session
<1>3. CASE ~profile[r].playground /\ UNCHANGED <<taken, record, lost>>
           /\ Goto(r, [s EXCEPT !.pc = "tokenDec"])
  <2>1. /\ n = [s EXCEPT !.pc = "tokenDec"]
        /\ taken'[r] = taken[r]
        /\ record'[r] = record[r] /\ lost'[r] = lost[r]
    BY <1>0, <1>3 DEF TypeOK, Goto
  <2> HIDE DEF n, s
  <2> QED  BY <1>0, <1>1, <1>3, <2>1
           DEF n, RequestInv, LedgerOf, Balanced, Exactly, Due, FlagsOf, SessionOf, Session
<1>4. CASE ~(FALSE /\ s.next # "none") /\ UNCHANGED <<taken, record, lost>>
           /\ GiveUp(r, FALSE)
  <2>1. /\ n = [Fresh EXCEPT !.pc = "failed", !.src = Fresh.src,
                            !.opens = s.opens, !.seenToken = s.seenToken]
        /\ taken'[r] = taken[r]
        /\ record'[r] = record[r] /\ lost'[r] = lost[r]
    BY <1>0, <1>4 DEF TypeOK, DbOk, Goto, GiveUp, Fresh
  <2> HIDE DEF n, s
  <2> QED  BY <1>0, <1>1, <1>4, <2>1
           DEF n, RequestInv, LedgerOf, Balanced, Exactly, Due, FlagsOf, SessionOf, Session, Fresh
<1> QED  BY <1>0, <1>2, <1>3, <1>4 DEF CheckToken, TokenSkipped

\* The deduction from the token keeps the ledger of r.
LEMMA TakeTokenLedger ==
  ASSUME TypeOK, NEW r \in Requests, RequestInv(r), TakeToken(r)
  PROVE  RequestInv(r)'
<1> DEFINE s == sess[r]
           n == sess'[r]
<1> USE DEF BeforeOpen, InSession, InRefund, Accounts, Sources, Unheard
<1>0. /\ s \in Session /\ s.pc = "tokenDec" /\ s.src \in Sources /\ s.want \in Nat
      /\ s.pre \in Nat
      /\ s.tokenConsumed \in Nat /\ s.fundConsumed \in Int /\ s.extra \in Nat /\ s.actual \in Nat
      /\ profile'[r] = profile[r]
      /\ \A a \in Accounts : taken[r][a] \in Int
  BY SessionFields DEF TakeToken
<1>1. /\ LedgerOf(profile[r], s, record[r], taken[r], lost[r])
      /\ FlagsOf(s)
      /\ SessionOf(profile[r], s, record[r], taken[r], lost[r])
  BY DEF RequestInv
<1>2. CASE Move(r, "token", s.want) /\ UNCHANGED <<record, lost>>
           /\ Goto(r, [s EXCEPT !.pc = "fund", !.tokenConsumed = s.want])
  <2>1. /\ n = [s EXCEPT !.pc = "fund", !.tokenConsumed = s.want]
        /\ \A a \in Accounts : taken'[r][a] = IF a = "token" THEN taken[r][a] + s.want
                   ELSE taken[r][a]
        /\ record'[r] = record[r] /\ lost'[r] = lost[r]
    BY <1>0, <1>2 DEF TypeOK, Goto, Move
  <2> HIDE DEF n, s
  <2> QED  BY <1>0, <1>1, <1>2, <2>1
           DEF n, RequestInv, LedgerOf, Balanced, Exactly, Due, FlagsOf, SessionOf, Session
<1>3. CASE ~(FALSE /\ s.next # "none") /\ NoMove /\ UNCHANGED <<record, lost>>
           /\ GiveUp(r, FALSE)
  <2>1. /\ n = [Fresh EXCEPT !.pc = "failed", !.src = Fresh.src,
                            !.opens = s.opens, !.seenToken = s.seenToken]
        /\ taken'[r] = taken[r]
        /\ record'[r] = record[r] /\ lost'[r] = lost[r]
    BY <1>0, <1>3 DEF TypeOK, NoMove, Goto, GiveUp, Fresh
  <2> HIDE DEF n, s
  <2> QED  BY <1>0, <1>1, <1>3, <2>1
           DEF n, RequestInv, LedgerOf, Balanced, Exactly, Due, FlagsOf, SessionOf, Session, Fresh
<1>4. CASE ~(FALSE /\ s.next # "none") /\ Move(r, "token", s.want) /\ Lose(r, "token")
           /\ UNCHANGED record
           /\ GiveUp(r, FALSE)
  <2>1. /\ n = [Fresh EXCEPT !.pc = "failed", !.src = Fresh.src,
                            !.opens = s.opens, !.seenToken = s.seenToken]
        /\ \A a \in Accounts : taken'[r][a] = IF a = "token" THEN taken[r][a] + s.want
                   ELSE taken[r][a]
        /\ record'[r] = record[r] /\ lost'[r] = lost[r] \cup {"token"}
    BY <1>0, <1>4 DEF TypeOK, Goto, Move, Lose, GiveUp, Fresh
  <2> HIDE DEF n, s
  <2> QED  BY <1>0, <1>1, <1>4, <2>1
           DEF n, RequestInv, LedgerOf, Balanced, Exactly, Due, FlagsOf, SessionOf, Session, Fresh
<1> QED  BY <1>0, <1>2, <1>3, <1>4 DEF TakeToken, Unanswered

\* The deduction from a wallet keeps the ledger of r.
LEMMA TakeWalletLedger ==
  ASSUME TypeOK, NEW r \in Requests, RequestInv(r), TakeWallet(r)
  PROVE  RequestInv(r)'
<1> DEFINE s == sess[r]
           n == sess'[r]
<1> USE DEF BeforeOpen, InSession, InRefund, Accounts, Sources, Unheard
<1>0. /\ s \in Session /\ s.pc = "fund" /\ s.src # "sub" /\ s.src \in Sources
      /\ s.want \in Nat /\ s.pre \in Nat
      /\ s.tokenConsumed \in Nat /\ s.fundConsumed \in Int /\ s.extra \in Nat /\ s.actual \in Nat
      /\ profile'[r] = profile[r]
      /\ \A a \in Accounts : taken[r][a] \in Int
  BY SessionFields DEF TakeWallet
<1>1. /\ LedgerOf(profile[r], s, record[r], taken[r], lost[r])
      /\ FlagsOf(s)
      /\ SessionOf(profile[r], s, record[r], taken[r], lost[r])
  BY DEF RequestInv
<1>2. CASE s.want = 0 /\ NoMove /\ UNCHANGED <<record, lost>>
           /\ Goto(r, [s EXCEPT !.pc = "active", !.pre = s.want, !.fundConsumed = s.want])
  <2>1. /\ n = [s EXCEPT !.pc = "active", !.pre = s.want, !.fundConsumed = s.want]
        /\ taken'[r] = taken[r]
        /\ record'[r] = record[r] /\ lost'[r] = lost[r]
    BY <1>0, <1>2 DEF TypeOK, Goto, NoMove
  <2> HIDE DEF n, s
  <2> QED  BY <1>0, <1>1, <1>2, <2>1
           DEF n, RequestInv, LedgerOf, Balanced, Exactly, Due, FlagsOf, SessionOf, Session
<1>3. CASE Move(r, s.src, s.want) /\ UNCHANGED <<record, lost>>
           /\ Goto(r, [s EXCEPT !.pc = "active", !.pre = s.want, !.fundConsumed = s.want])
  <2>1. /\ n = [s EXCEPT !.pc = "active", !.pre = s.want, !.fundConsumed = s.want]
        /\ \A a \in Accounts : taken'[r][a] = IF a = s.src THEN taken[r][a] + s.want
                   ELSE taken[r][a]
        /\ record'[r] = record[r] /\ lost'[r] = lost[r]
    BY <1>0, <1>3 DEF TypeOK, Goto, Move
  <2> HIDE DEF n, s
  <2> QED  BY <1>0, <1>1, <1>3, <2>1
           DEF n, RequestInv, LedgerOf, Balanced, Exactly, Due, FlagsOf, SessionOf, Session
<1>4. CASE NoMove /\ UNCHANGED <<record, lost>>
           /\ Goto(r, [s EXCEPT !.pc = "rollback", !.insufficient = FALSE])
  <2>1. /\ n = [s EXCEPT !.pc = "rollback", !.insufficient = FALSE]
        /\ taken'[r] = taken[r]
        /\ record'[r] = record[r] /\ lost'[r] = lost[r]
    BY <1>0, <1>4 DEF TypeOK, Goto, NoMove
  <2> HIDE DEF n, s
  <2> QED  BY <1>0, <1>1, <1>4, <2>1
           DEF n, RequestInv, LedgerOf, Balanced, Exactly, Due, FlagsOf, SessionOf, Session
<1>5. CASE Move(r, s.src, s.want) /\ Lose(r, s.src) /\ UNCHANGED record
           /\ Goto(r, [s EXCEPT !.pc = "rollback", !.insufficient = FALSE])
  <2>1. /\ n = [s EXCEPT !.pc = "rollback", !.insufficient = FALSE]
        /\ \A a \in Accounts : taken'[r][a] = IF a = s.src THEN taken[r][a] + s.want
                   ELSE taken[r][a]
        /\ record'[r] = record[r] /\ lost'[r] = lost[r] \cup {s.src}
    BY <1>0, <1>5 DEF TypeOK, Goto, Move, Lose
  <2> HIDE DEF n, s
  <2> QED  BY <1>0, <1>1, <1>5, <2>1
           DEF n, RequestInv, LedgerOf, Balanced, Exactly, Due, FlagsOf, SessionOf, Session
<1> QED  BY <1>0, <1>2, <1>3, <1>4, <1>5 DEF TakeWallet, Opened, FundFailed, Unanswered

\* The deduction from the subscription keeps the ledger of r.
LEMMA TakeSubscriptionLedger ==
  ASSUME TypeOK, NEW r \in Requests, RequestInv(r), TakeSubscription(r)
  PROVE  RequestInv(r)'
<1> DEFINE s == sess[r]
           n == sess'[r]
<1> USE DEF BeforeOpen, InSession, InRefund, Accounts, Sources, Unheard
<1>0. /\ s \in Session /\ s.pc = "fund" /\ s.src = "sub" /\ s.src \in Sources
      /\ s.want \in Nat /\ s.pre \in Nat
      /\ s.tokenConsumed \in Nat /\ s.fundConsumed \in Int /\ s.extra \in Nat /\ s.actual \in Nat
      /\ profile'[r] = profile[r] /\ profile[r].quota \in Nat
      /\ \A a \in Accounts : taken[r][a] \in Int
  BY SessionFields DEF TakeSubscription
<1>1. /\ LedgerOf(profile[r], s, record[r], taken[r], lost[r])
      /\ FlagsOf(s)
      /\ SessionOf(profile[r], s, record[r], taken[r], lost[r])
  BY DEF RequestInv
<1>2. CASE record[r] = "consumed" /\ NoMove /\ UNCHANGED record
           /\ lost' = [lost EXCEPT ![r] = @ \ {"sub"}] /\ Goto(r, [s EXCEPT !.pc = "active",
                    !.pre = s.want, !.fundConsumed = s.want])
  <2>1. /\ n = [s EXCEPT !.pc = "active", !.pre = s.want, !.fundConsumed = s.want]
        /\ taken'[r] = taken[r]
        /\ record'[r] = record[r] /\ lost'[r] = lost[r] \ {"sub"}
    BY <1>0, <1>2 DEF TypeOK, Goto, NoMove
  <2> HIDE DEF n, s
  <2> QED  BY <1>0, <1>1, <1>2, <2>1
           DEF n, RequestInv, LedgerOf, Balanced, Exactly, Due, FlagsOf, SessionOf, Session
<1>3. CASE record[r] = "none" /\ Move(r, "sub", s.want)
           /\ record' = [record EXCEPT ![r] = "consumed"] /\ UNCHANGED lost
           /\ Goto(r, [s EXCEPT !.pc = "active", !.pre = s.want, !.fundConsumed = s.want])
  <2>1. /\ n = [s EXCEPT !.pc = "active", !.pre = s.want, !.fundConsumed = s.want]
        /\ \A a \in Accounts : taken'[r][a] = IF a = "sub" THEN taken[r][a] + s.want
                   ELSE taken[r][a]
        /\ record'[r] = "consumed" /\ lost'[r] = lost[r]
    BY <1>0, <1>3 DEF TypeOK, Goto, Move
  <2> HIDE DEF n, s
  <2> QED  BY <1>0, <1>1, <1>3, <2>1
           DEF n, RequestInv, LedgerOf, Balanced, Exactly, Due, FlagsOf, SessionOf, Session
<1>4. CASE record[r] = "none" /\ Move(r, "sub", s.want) /\ Lose(r, "sub")
           /\ record' = [record EXCEPT ![r] = "consumed"] /\ Goto(r, [s EXCEPT !.pc = "rollback",
                    !.insufficient = FALSE])
  <2>1. /\ n = [s EXCEPT !.pc = "rollback", !.insufficient = FALSE]
        /\ \A a \in Accounts : taken'[r][a] = IF a = "sub" THEN taken[r][a] + s.want
                   ELSE taken[r][a]
        /\ record'[r] = "consumed" /\ lost'[r] = lost[r] \cup {"sub"}
    BY <1>0, <1>4 DEF TypeOK, Goto, Move, Lose
  <2> HIDE DEF n, s
  <2> QED  BY <1>0, <1>1, <1>4, <2>1
           DEF n, RequestInv, LedgerOf, Balanced, Exactly, Due, FlagsOf, SessionOf, Session
<1>5. CASE NoMove /\ UNCHANGED <<record, lost>>
           /\ \E i \in BOOLEAN : Goto(r, [s EXCEPT !.pc = "rollback", !.insufficient = i])
  <2>1. /\ \E i \in BOOLEAN : n = [s EXCEPT !.pc = "rollback", !.insufficient = i]
        /\ taken'[r] = taken[r]
        /\ record'[r] = record[r] /\ lost'[r] = lost[r]
    BY <1>0, <1>5 DEF TypeOK, Goto, NoMove
  <2> HIDE DEF n, s
  <2> QED  BY <1>0, <1>1, <1>5, <2>1
           DEF n, RequestInv, LedgerOf, Balanced, Exactly, Due, FlagsOf, SessionOf, Session
<1> QED  BY <1>0, <1>2, <1>3, <1>4, <1>5 DEF TakeSubscription, Opened, FundFailed

\* The rollback of the token keeps the ledger of r.
LEMMA RollbackTokenLedger ==
  ASSUME TypeOK, NEW r \in Requests, RequestInv(r), RollbackToken(r)
  PROVE  RequestInv(r)'
<1> DEFINE s == sess[r]
           n == sess'[r]
<1> USE DEF BeforeOpen, InSession, InRefund, Accounts, Sources, Unheard
<1>0. /\ s \in Session /\ s.pc = "rollback" /\ s.src \in Sources /\ s.want \in Nat
      /\ s.pre \in Nat
      /\ s.tokenConsumed \in Nat /\ s.fundConsumed \in Int /\ s.extra \in Nat /\ s.actual \in Nat
      /\ profile'[r] = profile[r] /\ s.next \in Sources \cup {"none"}
      /\ \A a \in Accounts : taken[r][a] \in Int
  BY SessionFields DEF RollbackToken
<1>1. /\ LedgerOf(profile[r], s, record[r], taken[r], lost[r])
      /\ FlagsOf(s)
      /\ SessionOf(profile[r], s, record[r], taken[r], lost[r])
  BY DEF RequestInv
<1>2. CASE ~(s.insufficient /\ s.next # "none") /\ ~profile[r].playground /\ Move(r, "token",
            -s.tokenConsumed) /\ UNCHANGED <<record, lost>>
           /\ GiveUp(r, s.insufficient)
  <2>1. /\ n = [Fresh EXCEPT !.pc = "failed", !.src = Fresh.src,
                            !.opens = s.opens, !.seenToken = s.seenToken]
        /\ \A a \in Accounts : taken'[r][a] =
                   IF a = "token" THEN taken[r][a] + -s.tokenConsumed ELSE taken[r][a]
        /\ record'[r] = record[r] /\ lost'[r] = lost[r]
    BY <1>0, <1>2 DEF TypeOK, Move, Goto, GiveUp, Fresh
  <2> HIDE DEF n, s
  <2> QED  BY <1>0, <1>1, <1>2, <2>1
           DEF n, RequestInv, LedgerOf, Balanced, Exactly, Due, FlagsOf, SessionOf, Session, Fresh
<1>3. CASE s.insufficient /\ s.next # "none" /\ ~profile[r].playground /\ Move(r, "token",
            -s.tokenConsumed) /\ UNCHANGED <<record, lost>>
           /\ GiveUp(r, s.insufficient)
  <2>1. /\ n = [Fresh EXCEPT !.pc = "check", !.src = s.next,
                            !.opens = s.opens, !.seenToken = s.seenToken]
        /\ \A a \in Accounts : taken'[r][a] =
                   IF a = "token" THEN taken[r][a] + -s.tokenConsumed ELSE taken[r][a]
        /\ record'[r] = record[r] /\ lost'[r] = lost[r]
    BY <1>0, <1>3 DEF TypeOK, Move, Goto, GiveUp, Fresh
  <2> HIDE DEF n, s
  <2> QED  BY <1>0, <1>1, <1>3, <2>1
           DEF n, RequestInv, LedgerOf, Balanced, Exactly, Due, FlagsOf, SessionOf, Session, Fresh
<1>4. CASE ~(s.insufficient /\ s.next # "none") /\ NoMove /\ Lose(r, "token") /\ UNCHANGED record
           /\ GiveUp(r, s.insufficient)
  <2>1. /\ n = [Fresh EXCEPT !.pc = "failed", !.src = Fresh.src,
                            !.opens = s.opens, !.seenToken = s.seenToken]
        /\ taken'[r] = taken[r]
        /\ record'[r] = record[r] /\ lost'[r] = lost[r] \cup {"token"}
    BY <1>0, <1>4 DEF TypeOK, NoMove, Lose, Goto, GiveUp, Fresh
  <2> HIDE DEF n, s
  <2> QED  BY <1>0, <1>1, <1>4, <2>1
           DEF n, RequestInv, LedgerOf, Balanced, Exactly, Due, FlagsOf, SessionOf, Session, Fresh
<1>5. CASE s.insufficient /\ s.next # "none" /\ NoMove /\ Lose(r, "token") /\ UNCHANGED record
           /\ GiveUp(r, s.insufficient)
  <2>1. /\ n = [Fresh EXCEPT !.pc = "check", !.src = s.next,
                            !.opens = s.opens, !.seenToken = s.seenToken]
        /\ taken'[r] = taken[r]
        /\ record'[r] = record[r] /\ lost'[r] = lost[r] \cup {"token"}
    BY <1>0, <1>5 DEF TypeOK, NoMove, Lose, Goto, GiveUp, Fresh
  <2> HIDE DEF n, s
  <2> QED  BY <1>0, <1>1, <1>5, <2>1
           DEF n, RequestInv, LedgerOf, Balanced, Exactly, Due, FlagsOf, SessionOf, Session, Fresh
<1>6. CASE ~(s.insufficient /\ s.next # "none")
           /\ (~profile[r].playground => s.tokenConsumed = 0) /\ NoMove /\ UNCHANGED <<record,
                    lost>>
           /\ GiveUp(r, s.insufficient)
  <2>1. /\ n = [Fresh EXCEPT !.pc = "failed", !.src = Fresh.src,
                            !.opens = s.opens, !.seenToken = s.seenToken]
        /\ taken'[r] = taken[r]
        /\ record'[r] = record[r] /\ lost'[r] = lost[r]
    BY <1>0, <1>6 DEF TypeOK, NoMove, Goto, GiveUp, Fresh
  <2> HIDE DEF n, s
  <2> QED  BY <1>0, <1>1, <1>6, <2>1
           DEF n, RequestInv, LedgerOf, Balanced, Exactly, Due, FlagsOf, SessionOf, Session, Fresh
<1>7. CASE s.insufficient /\ s.next # "none"
           /\ (~profile[r].playground => s.tokenConsumed = 0) /\ NoMove /\ UNCHANGED <<record,
                    lost>>
           /\ GiveUp(r, s.insufficient)
  <2>1. /\ n = [Fresh EXCEPT !.pc = "check", !.src = s.next,
                            !.opens = s.opens, !.seenToken = s.seenToken]
        /\ taken'[r] = taken[r]
        /\ record'[r] = record[r] /\ lost'[r] = lost[r]
    BY <1>0, <1>7 DEF TypeOK, NoMove, Goto, GiveUp, Fresh
  <2> HIDE DEF n, s
  <2> QED  BY <1>0, <1>1, <1>7, <2>1
           DEF n, RequestInv, LedgerOf, Balanced, Exactly, Due, FlagsOf, SessionOf, Session, Fresh
<1> QED  BY <1>0, <1>2, <1>3, <1>4, <1>5, <1>6, <1>7 DEF RollbackToken, TryMove, TokenSkipped

\* Trying a fallback channel keeps the ledger of r.
LEMMA ReopenLedger ==
  ASSUME TypeOK, NEW r \in Requests, RequestInv(r), Reopen(r)
  PROVE  RequestInv(r)'
<1> DEFINE s == sess[r]
           n == sess'[r]
<1> USE DEF BeforeOpen, InSession, InRefund, Accounts, Sources, Unheard
<1>0. /\ s \in Session /\ s.pc = "failed" /\ s.src \in Sources /\ s.want \in Nat /\ s.pre \in Nat
      /\ s.tokenConsumed \in Nat /\ s.fundConsumed \in Int /\ s.extra \in Nat /\ s.actual \in Nat
      /\ profile'[r] = profile[r]
      /\ \A a \in Accounts : taken[r][a] \in Int
  BY SessionFields DEF Reopen
<1>1. /\ LedgerOf(profile[r], s, record[r], taken[r], lost[r])
      /\ FlagsOf(s)
      /\ SessionOf(profile[r], s, record[r], taken[r], lost[r])
  BY DEF RequestInv
<1>2. CASE UNCHANGED <<taken, record, lost>>
           /\ Goto(r, [s EXCEPT !.pc = "new"])
  <2>1. /\ n = [s EXCEPT !.pc = "new"]
        /\ taken'[r] = taken[r]
        /\ record'[r] = record[r] /\ lost'[r] = lost[r]
    BY <1>0, <1>2 DEF TypeOK, Goto
  <2> HIDE DEF n, s
  <2> QED  BY <1>0, <1>1, <1>2, <2>1
           DEF n, RequestInv, LedgerOf, Balanced, Exactly, Due, FlagsOf, SessionOf, Session
<1> QED  BY <1>0, <1>2 DEF Reopen

\* Reserving on the funding source keeps the ledger of r.
LEMMA ReserveLedger ==
  ASSUME TypeOK, NEW r \in Requests, NEW target \in Actuals, RequestInv(r), Reserve(r, target)
  PROVE  RequestInv(r)'
<1> DEFINE s == sess[r]
           n == sess'[r]
           d == target - s.pre
           f == IF s.src = "sub" THEN s.fundConsumed ELSE s.fundConsumed + d
<1> USE DEF BeforeOpen, InSession, InRefund, Accounts, Sources, Unheard
<1>0. /\ s \in Session /\ s.pc = "active" /\ s.src \in Sources /\ s.want \in Nat /\ s.pre \in Nat
      /\ s.tokenConsumed \in Nat /\ s.fundConsumed \in Int /\ s.extra \in Nat /\ s.actual \in Nat
      /\ profile'[r] = profile[r] /\ d \in Nat
      /\ \A a \in Accounts : taken[r][a] \in Int
  BY SessionFields, ActualsAssumption DEF Reserve
<1>1. /\ LedgerOf(profile[r], s, record[r], taken[r], lost[r])
      /\ FlagsOf(s)
      /\ SessionOf(profile[r], s, record[r], taken[r], lost[r])
  BY DEF RequestInv
<1>2. CASE Move(r, s.src, d) /\ UNCHANGED <<record, lost>>
           /\ Goto(r, [s EXCEPT !.pc = "reserveToken", !.want = d, !.fundConsumed = f])
  <2>1. /\ n = [s EXCEPT !.pc = "reserveToken", !.want = d, !.fundConsumed = f]
        /\ \A a \in Accounts : taken'[r][a] = IF a = s.src THEN taken[r][a] + d ELSE taken[r][a]
        /\ record'[r] = record[r] /\ lost'[r] = lost[r]
    BY <1>0, <1>2 DEF TypeOK, Goto, Move
  <2> HIDE DEF n, s
  <2> QED  BY <1>0, <1>1, <1>2, <2>1
           DEF n, RequestInv, LedgerOf, Balanced, Exactly, Due, FlagsOf, SessionOf, Session
<1>3. CASE NoMove /\ UNCHANGED <<record, lost, sess>>
  <2>1. /\ n = s
        /\ taken'[r] = taken[r]
        /\ record'[r] = record[r] /\ lost'[r] = lost[r]
    BY <1>0, <1>3 DEF TypeOK, NoMove
  <2> HIDE DEF n, s
  <2> QED  BY <1>0, <1>1, <1>3, <2>1
           DEF n, RequestInv, LedgerOf, Balanced, Exactly, Due, FlagsOf, SessionOf, Session
<1>4. CASE Move(r, s.src, d) /\ Lose(r, s.src) /\ UNCHANGED record
           /\ UNCHANGED sess
  <2>1. /\ n = s
        /\ \A a \in Accounts : taken'[r][a] = IF a = s.src THEN taken[r][a] + d
                   ELSE taken[r][a]
        /\ record'[r] = record[r] /\ lost'[r] = lost[r] \cup {s.src}
    BY <1>0, <1>4 DEF TypeOK, Goto, Move, Lose
  <2> HIDE DEF n, s
  <2> QED  BY <1>0, <1>1, <1>4, <2>1
           DEF n, RequestInv, LedgerOf, Balanced, Exactly, Due, FlagsOf, SessionOf, Session
<1> QED  BY <1>0, <1>2, <1>3, <1>4 DEF Reserve, Unanswered

\* Reserving on the token keeps the ledger of r.
LEMMA ReserveTokenLedger ==
  ASSUME TypeOK, NEW r \in Requests, RequestInv(r), ReserveToken(r)
  PROVE  RequestInv(r)'
<1> DEFINE s == sess[r]
           n == sess'[r]
<1> USE DEF BeforeOpen, InSession, InRefund, Accounts, Sources, Unheard
<1>0. /\ s \in Session /\ s.pc = "reserveToken" /\ s.src \in Sources /\ s.want \in Nat
      /\ s.pre \in Nat
      /\ s.tokenConsumed \in Nat /\ s.fundConsumed \in Int /\ s.extra \in Nat /\ s.actual \in Nat
      /\ profile'[r] = profile[r]
      /\ \A a \in Accounts : taken[r][a] \in Int
  BY SessionFields DEF ReserveToken
<1>1. /\ LedgerOf(profile[r], s, record[r], taken[r], lost[r])
      /\ FlagsOf(s)
      /\ SessionOf(profile[r], s, record[r], taken[r], lost[r])
  BY DEF RequestInv
<1>2. CASE profile[r].playground /\ NoMove /\ UNCHANGED <<record, lost>>
           /\ Goto(r, [s EXCEPT !.pc = "active", !.pre = s.pre + s.want,
                    !.tokenConsumed = s.tokenConsumed + s.want, !.extra = s.extra + s.want])
  <2>1. /\ n = [s EXCEPT !.pc = "active", !.pre = s.pre + s.want,
                 !.tokenConsumed = s.tokenConsumed + s.want, !.extra = s.extra + s.want]
        /\ taken'[r] = taken[r]
        /\ record'[r] = record[r] /\ lost'[r] = lost[r]
    BY <1>0, <1>2 DEF TypeOK, Goto, NoMove
  <2> HIDE DEF n, s
  <2> QED  BY <1>0, <1>1, <1>2, <2>1
           DEF n, RequestInv, LedgerOf, Balanced, Exactly, Due, FlagsOf, SessionOf, Session
<1>3. CASE ~profile[r].playground /\ Move(r, "token", s.want) /\ UNCHANGED <<record, lost>>
           /\ Goto(r, [s EXCEPT !.pc = "active", !.pre = s.pre + s.want,
                    !.tokenConsumed = s.tokenConsumed + s.want, !.extra = s.extra + s.want])
  <2>1. /\ n = [s EXCEPT !.pc = "active", !.pre = s.pre + s.want,
                 !.tokenConsumed = s.tokenConsumed + s.want, !.extra = s.extra + s.want]
        /\ \A a \in Accounts : taken'[r][a] = IF a = "token" THEN taken[r][a] + s.want
                   ELSE taken[r][a]
        /\ record'[r] = record[r] /\ lost'[r] = lost[r]
    BY <1>0, <1>3 DEF TypeOK, Goto, Move
  <2> HIDE DEF n, s
  <2> QED  BY <1>0, <1>1, <1>3, <2>1
           DEF n, RequestInv, LedgerOf, Balanced, Exactly, Due, FlagsOf, SessionOf, Session
<1>4. CASE NoMove /\ UNCHANGED <<record, lost>>
           /\ Goto(r, [s EXCEPT !.pc = "reserveUndo"])
  <2>1. /\ n = [s EXCEPT !.pc = "reserveUndo"]
        /\ taken'[r] = taken[r]
        /\ record'[r] = record[r] /\ lost'[r] = lost[r]
    BY <1>0, <1>4 DEF TypeOK, Goto, NoMove
  <2> HIDE DEF n, s
  <2> QED  BY <1>0, <1>1, <1>4, <2>1
           DEF n, RequestInv, LedgerOf, Balanced, Exactly, Due, FlagsOf, SessionOf, Session
<1>5. CASE ~profile[r].playground /\ Move(r, "token", s.want) /\ Lose(r, "token")
           /\ UNCHANGED record
           /\ Goto(r, [s EXCEPT !.pc = "reserveUndo"])
  <2>1. /\ n = [s EXCEPT !.pc = "reserveUndo"]
        /\ \A a \in Accounts : taken'[r][a] = IF a = "token" THEN taken[r][a] + s.want
                   ELSE taken[r][a]
        /\ record'[r] = record[r] /\ lost'[r] = lost[r] \cup {"token"}
    BY <1>0, <1>5 DEF TypeOK, Goto, Move, Lose
  <2> HIDE DEF n, s
  <2> QED  BY <1>0, <1>1, <1>5, <2>1
           DEF n, RequestInv, LedgerOf, Balanced, Exactly, Due, FlagsOf, SessionOf, Session
<1> QED  BY <1>0, <1>2, <1>3, <1>4, <1>5 DEF ReserveToken, TokenSkipped, Unanswered

\* Undoing a reservation keeps the ledger of r.
LEMMA ReserveUndoLedger ==
  ASSUME TypeOK, NEW r \in Requests, RequestInv(r), ReserveUndo(r)
  PROVE  RequestInv(r)'
<1> DEFINE s == sess[r]
           n == sess'[r]
           f == IF s.src = "sub" THEN s.fundConsumed ELSE s.fundConsumed - s.want
<1> USE DEF BeforeOpen, InSession, InRefund, Accounts, Sources, Unheard
<1>0. /\ s \in Session /\ s.pc = "reserveUndo" /\ s.src \in Sources /\ s.want \in Nat
      /\ s.pre \in Nat
      /\ s.tokenConsumed \in Nat /\ s.fundConsumed \in Int /\ s.extra \in Nat /\ s.actual \in Nat
      /\ profile'[r] = profile[r]
      /\ \A a \in Accounts : taken[r][a] \in Int
  BY SessionFields DEF ReserveUndo
<1>1. /\ LedgerOf(profile[r], s, record[r], taken[r], lost[r])
      /\ FlagsOf(s)
      /\ SessionOf(profile[r], s, record[r], taken[r], lost[r])
  BY DEF RequestInv
<1>2. CASE Move(r, s.src, -s.want) /\ UNCHANGED <<record, lost>>
           /\ Goto(r, [s EXCEPT !.pc = "active", !.fundConsumed = f])
  <2>1. /\ n = [s EXCEPT !.pc = "active", !.fundConsumed = f]
        /\ \A a \in Accounts : taken'[r][a] = IF a = s.src THEN taken[r][a] + -s.want
                   ELSE taken[r][a]
        /\ record'[r] = record[r] /\ lost'[r] = lost[r]
    BY <1>0, <1>2 DEF TypeOK, Goto, Move
  <2> HIDE DEF n, s
  <2> QED  BY <1>0, <1>1, <1>2, <2>1
           DEF n, RequestInv, LedgerOf, Balanced, Exactly, Due, FlagsOf, SessionOf, Session
<1>3. CASE NoMove /\ Lose(r, s.src) /\ UNCHANGED record
           /\ Goto(r, [s EXCEPT !.pc = "active"])
  <2>1. /\ n = [s EXCEPT !.pc = "active"]
        /\ taken'[r] = taken[r]
        /\ record'[r] = record[r] /\ lost'[r] = lost[r] \cup {s.src}
    BY <1>0, <1>3 DEF TypeOK, Goto, NoMove, Lose
  <2> HIDE DEF n, s
  <2> QED  BY <1>0, <1>1, <1>3, <2>1
           DEF n, RequestInv, LedgerOf, Balanced, Exactly, Due, FlagsOf, SessionOf, Session
<1>4. CASE s.src = "sub" /\ Move(r, s.src, -s.want) /\ UNCHANGED <<record, lost>>
           /\ Goto(r, [s EXCEPT !.pc = "active"])
  <2>1. /\ n = [s EXCEPT !.pc = "active"]
        /\ \A a \in Accounts : taken'[r][a] = IF a = s.src THEN taken[r][a] + -s.want
                   ELSE taken[r][a]
        /\ record'[r] = record[r] /\ lost'[r] = lost[r]
    BY <1>0, <1>4 DEF TypeOK, Goto, Move, Lose
  <2> HIDE DEF n, s
  <2> QED  BY <1>0, <1>1, <1>4, <2>1
           DEF n, RequestInv, LedgerOf, Balanced, Exactly, Due, FlagsOf, SessionOf, Session
<1>5. CASE s.src # "sub" /\ Move(r, s.src, -s.want) /\ UNCHANGED record
           /\ lost' = [lost EXCEPT ![r] = @ \cup {s.src, Unheard}]
           /\ Goto(r, [s EXCEPT !.pc = "active"])
  <2>1. /\ n = [s EXCEPT !.pc = "active"]
        /\ \A a \in Accounts : taken'[r][a] = IF a = s.src THEN taken[r][a] + -s.want
                   ELSE taken[r][a]
        /\ record'[r] = record[r] /\ lost'[r] = lost[r] \cup {s.src, Unheard}
    BY <1>0, <1>5 DEF TypeOK, Goto, Move
  <2>2. /\ n.pc = "active" /\ n.src = s.src /\ n.want = s.want /\ n.pre = s.pre
        /\ n.tokenConsumed = s.tokenConsumed /\ n.fundConsumed = s.fundConsumed
        /\ n.extra = s.extra /\ n.actual = s.actual
        /\ n.settled = s.settled /\ n.refunded = s.refunded
        /\ n.fundingSettled = s.fundingSettled
    BY <1>0, <2>1 DEF Session
  <2>3. s.src # "sub" /\ n = sess'[r]
    BY <1>5
  <2> HIDE DEF n, s
  <2>4. Balanced(profile[r], s, taken[r], lost[r], s.pre + s.want, s.pre)
    BY <1>0, <1>1 DEF LedgerOf
  <2>5. Balanced(profile[r], n, taken'[r], lost'[r], n.pre, n.pre)
    BY <1>0, <2>1, <2>2, <2>4 DEF Balanced, Exactly, Due
  <2>6. \A a \in Accounts : taken'[r][a] >= 0 \/ (Unheard \in lost'[r] /\ a = n.src)
    BY <1>0, <1>1, <2>1, <2>2 DEF LedgerOf
  <2>7. FlagsOf(n)
    BY <1>0, <1>1, <2>2 DEF FlagsOf
  <2>8. LedgerOf(profile[r], n, record'[r], taken'[r], lost'[r])
    BY <1>0, <2>1, <2>2, <2>5, <2>6, <2>7 DEF LedgerOf, FlagsOf
  <2>9. SessionOf(profile[r], n, record'[r], taken'[r], lost'[r])
    BY <1>0, <1>1, <2>1, <2>2, <2>3 DEF SessionOf
  <2> QED  BY <1>0, <2>3, <2>7, <2>8, <2>9 DEF RequestInv
<1>6. [lost EXCEPT ![r] = @ \cup {}] = lost
  BY DEF TypeOK
<1> QED  BY <1>0, <1>2, <1>3, <1>4, <1>5, <1>6 DEF ReserveUndo

\* Settling with the funding source keeps the ledger of r.
LEMMA SettleLedger ==
  ASSUME TypeOK, NEW r \in Requests, NEW actual \in Actuals, RequestInv(r), Settle(r, actual)
  PROVE  RequestInv(r)'
<1> DEFINE s == sess[r]
           n == sess'[r]
           d == actual - s.pre
<1> USE DEF BeforeOpen, InSession, InRefund, Accounts, Sources, Unheard
<1>0. /\ s \in Session /\ s.pc = "active" /\ s.src \in Sources /\ s.want \in Nat /\ s.pre \in Nat
      /\ s.tokenConsumed \in Nat /\ s.fundConsumed \in Int /\ s.extra \in Nat /\ s.actual \in Nat
      /\ profile'[r] = profile[r] /\ actual \in Nat
      /\ \A a \in Accounts : taken[r][a] \in Int
  BY SessionFields, ActualsAssumption DEF Settle
<1>1. /\ LedgerOf(profile[r], s, record[r], taken[r], lost[r])
      /\ FlagsOf(s)
      /\ SessionOf(profile[r], s, record[r], taken[r], lost[r])
  BY DEF RequestInv
<1>2. CASE d = 0 /\ NoMove /\ UNCHANGED <<record, lost>>
           /\ Goto(r, [s EXCEPT !.pc = "settled", !.actual = actual, !.settled = TRUE])
  <2>1. /\ n = [s EXCEPT !.pc = "settled", !.actual = actual, !.settled = TRUE]
        /\ taken'[r] = taken[r]
        /\ record'[r] = record[r] /\ lost'[r] = lost[r]
    BY <1>0, <1>2 DEF TypeOK, Goto, NoMove
  <2> HIDE DEF n, s
  <2> QED  BY <1>0, <1>1, <1>2, <2>1
           DEF n, RequestInv, LedgerOf, Balanced, Exactly, Due, FlagsOf, SessionOf, Session
<1>3. CASE Move(r, s.src, d) /\ UNCHANGED <<record, lost>>
           /\ Goto(r, [s EXCEPT !.pc = "adjust", !.actual = actual, !.fundingSettled = TRUE])
  <2>1. /\ n = [s EXCEPT !.pc = "adjust", !.actual = actual, !.fundingSettled = TRUE]
        /\ \A a \in Accounts : taken'[r][a] = IF a = s.src THEN taken[r][a] + d ELSE taken[r][a]
        /\ record'[r] = record[r] /\ lost'[r] = lost[r]
    BY <1>0, <1>3 DEF TypeOK, Goto, Move
  <2> HIDE DEF n, s
  <2> QED  BY <1>0, <1>1, <1>3, <2>1
           DEF n, RequestInv, LedgerOf, Balanced, Exactly, Due, FlagsOf, SessionOf, Session
<1>4. CASE NoMove /\ UNCHANGED <<record, lost>>
           /\ Goto(r, [s EXCEPT !.pc = "unsettled", !.actual = actual])
  <2>1. /\ n = [s EXCEPT !.pc = "unsettled", !.actual = actual]
        /\ taken'[r] = taken[r]
        /\ record'[r] = record[r] /\ lost'[r] = lost[r]
    BY <1>0, <1>4 DEF TypeOK, Goto, NoMove
  <2> HIDE DEF n, s
  <2> QED  BY <1>0, <1>1, <1>4, <2>1
           DEF n, RequestInv, LedgerOf, Balanced, Exactly, Due, FlagsOf, SessionOf, Session
<1>5. CASE d >= 0 /\ Move(r, s.src, d) /\ UNCHANGED record
           /\ lost' = [lost EXCEPT ![r] = @ \cup {s.src}]
           /\ Goto(r, [s EXCEPT !.pc = "unsettled", !.actual = actual])
  <2>1. /\ n = [s EXCEPT !.pc = "unsettled", !.actual = actual]
        /\ \A a \in Accounts : taken'[r][a] = IF a = s.src THEN taken[r][a] + d
                   ELSE taken[r][a]
        /\ record'[r] = record[r] /\ lost'[r] = lost[r] \cup {s.src}
    BY <1>0, <1>5 DEF TypeOK, Goto, Move, Lose
  <2> HIDE DEF n, s
  <2> QED  BY <1>0, <1>1, <1>5, <2>1
           DEF n, RequestInv, LedgerOf, Balanced, Exactly, Due, FlagsOf, SessionOf, Session
<1>6. CASE d < 0 /\ Move(r, s.src, d) /\ UNCHANGED record
           /\ lost' = [lost EXCEPT ![r] = @ \cup {s.src, Unheard}]
           /\ Goto(r, [s EXCEPT !.pc = "unsettled", !.actual = actual])
  <2>1. /\ n = [s EXCEPT !.pc = "unsettled", !.actual = actual]
        /\ \A a \in Accounts : taken'[r][a] = IF a = s.src THEN taken[r][a] + d
                   ELSE taken[r][a]
        /\ record'[r] = record[r] /\ lost'[r] = lost[r] \cup {s.src, Unheard}
    BY <1>0, <1>6 DEF TypeOK, Goto, Move, Lose
  <2> HIDE DEF n, s
  <2> QED  BY <1>0, <1>1, <1>6, <2>1
           DEF n, RequestInv, LedgerOf, Balanced, Exactly, Due, FlagsOf, SessionOf, Session
<1> QED  BY <1>0, <1>2, <1>3, <1>4, <1>5, <1>6 DEF Settle

\* Settling with the token keeps the ledger of r.
LEMMA SettleTokenLedger ==
  ASSUME TypeOK, NEW r \in Requests, RequestInv(r), SettleToken(r)
  PROVE  RequestInv(r)'
<1> DEFINE s == sess[r]
           n == sess'[r]
           d == s.actual - s.pre
<1> USE DEF BeforeOpen, InSession, InRefund, Accounts, Sources, Unheard
<1>0. /\ s \in Session /\ s.pc = "adjust" /\ s.src \in Sources /\ s.want \in Nat /\ s.pre \in Nat
      /\ s.tokenConsumed \in Nat /\ s.fundConsumed \in Int /\ s.extra \in Nat /\ s.actual \in Nat
      /\ profile'[r] = profile[r]
      /\ \A a \in Accounts : taken[r][a] \in Int
  BY SessionFields DEF SettleToken
<1>1. /\ LedgerOf(profile[r], s, record[r], taken[r], lost[r])
      /\ FlagsOf(s)
      /\ SessionOf(profile[r], s, record[r], taken[r], lost[r])
  BY DEF RequestInv
<1>2. CASE ~profile[r].playground /\ Move(r, "token", d) /\ UNCHANGED <<record, lost>>
           /\ Goto(r, [s EXCEPT !.pc = "settled", !.settled = TRUE])
  <2>1. /\ n = [s EXCEPT !.pc = "settled", !.settled = TRUE]
        /\ \A a \in Accounts : taken'[r][a] = IF a = "token" THEN taken[r][a] + d ELSE taken[r][a]
        /\ record'[r] = record[r] /\ lost'[r] = lost[r]
    BY <1>0, <1>2 DEF TypeOK, Goto, Move
  <2> HIDE DEF n, s
  <2> QED  BY <1>0, <1>1, <1>2, <2>1
           DEF n, RequestInv, LedgerOf, Balanced, Exactly, Due, FlagsOf, SessionOf, Session
<1>3. CASE NoMove /\ Lose(r, "token") /\ UNCHANGED record
           /\ Goto(r, [s EXCEPT !.pc = "settled", !.settled = TRUE])
  <2>1. /\ n = [s EXCEPT !.pc = "settled", !.settled = TRUE]
        /\ taken'[r] = taken[r]
        /\ record'[r] = record[r] /\ lost'[r] = lost[r] \cup {"token"}
    BY <1>0, <1>3 DEF TypeOK, Goto, NoMove, Lose
  <2> HIDE DEF n, s
  <2> QED  BY <1>0, <1>1, <1>3, <2>1
           DEF n, RequestInv, LedgerOf, Balanced, Exactly, Due, FlagsOf, SessionOf, Session
<1>4. CASE profile[r].playground /\ NoMove /\ UNCHANGED <<record, lost>>
           /\ Goto(r, [s EXCEPT !.pc = "settled", !.settled = TRUE])
  <2>1. /\ n = [s EXCEPT !.pc = "settled", !.settled = TRUE]
        /\ taken'[r] = taken[r]
        /\ record'[r] = record[r] /\ lost'[r] = lost[r]
    BY <1>0, <1>4 DEF TypeOK, Goto, NoMove
  <2> HIDE DEF n, s
  <2> QED  BY <1>0, <1>1, <1>4, <2>1
           DEF n, RequestInv, LedgerOf, Balanced, Exactly, Due, FlagsOf, SessionOf, Session
<1> QED  BY <1>0, <1>2, <1>3, <1>4 DEF SettleToken, TryMove, TokenSkipped

\* Charging a free model to the wallet keeps the ledger of r.
LEMMA SettleFreeLedger ==
  ASSUME TypeOK, NEW r \in Requests, NEW actual \in Actuals, RequestInv(r), SettleFree(r, actual)
  PROVE  RequestInv(r)'
<1> DEFINE s == sess[r]
           n == sess'[r]
<1> USE DEF BeforeOpen, InSession, InRefund, Accounts, Sources, Unheard
<1>0. /\ s \in Session /\ s.pc = "free" /\ s.src \in Sources /\ s.want \in Nat /\ s.pre \in Nat
      /\ s.tokenConsumed \in Nat /\ s.fundConsumed \in Int /\ s.extra \in Nat /\ s.actual \in Nat
      /\ profile'[r] = profile[r] /\ actual \in Nat
      /\ \A a \in Accounts : taken[r][a] \in Int
  BY SessionFields, ActualsAssumption DEF SettleFree
<1>1. /\ LedgerOf(profile[r], s, record[r], taken[r], lost[r])
      /\ FlagsOf(s)
      /\ SessionOf(profile[r], s, record[r], taken[r], lost[r])
  BY DEF RequestInv
<1>2. CASE Move(r, "wallet", actual) /\ UNCHANGED <<record, lost>>
           /\ Goto(r, [s EXCEPT !.pc = "freeToken", !.actual = actual])
  <2>1. /\ n = [s EXCEPT !.pc = "freeToken", !.actual = actual]
        /\ \A a \in Accounts : taken'[r][a] = IF a = "wallet" THEN taken[r][a] + actual
                   ELSE taken[r][a]
        /\ record'[r] = record[r] /\ lost'[r] = lost[r]
    BY <1>0, <1>2 DEF TypeOK, Goto, Move
  <2> HIDE DEF n, s
  <2> QED  BY <1>0, <1>1, <1>2, <2>1
           DEF n, RequestInv, LedgerOf, Balanced, Exactly, Due, FlagsOf, SessionOf, Session
<1>3. CASE NoMove /\ UNCHANGED <<record, lost>>
           /\ Goto(r, [s EXCEPT !.pc = "done"])
  <2>1. /\ n = [s EXCEPT !.pc = "done"]
        /\ taken'[r] = taken[r]
        /\ record'[r] = record[r] /\ lost'[r] = lost[r]
    BY <1>0, <1>3 DEF TypeOK, Goto, NoMove
  <2> HIDE DEF n, s
  <2> QED  BY <1>0, <1>1, <1>3, <2>1
           DEF n, RequestInv, LedgerOf, Balanced, Exactly, Due, FlagsOf, SessionOf, Session
<1>4. CASE Move(r, "wallet", actual) /\ Lose(r, "wallet") /\ UNCHANGED record
           /\ Goto(r, [s EXCEPT !.pc = "done"])
  <2>1. /\ n = [s EXCEPT !.pc = "done"]
        /\ \A a \in Accounts : taken'[r][a] = IF a = "wallet" THEN taken[r][a] + actual
                   ELSE taken[r][a]
        /\ record'[r] = record[r] /\ lost'[r] = lost[r] \cup {"wallet"}
    BY <1>0, <1>4 DEF TypeOK, Goto, Move, Lose
  <2> HIDE DEF n, s
  <2> QED  BY <1>0, <1>1, <1>4, <2>1
           DEF n, RequestInv, LedgerOf, Balanced, Exactly, Due, FlagsOf, SessionOf, Session
<1> QED  BY <1>0, <1>2, <1>3, <1>4 DEF SettleFree, Unanswered

\* Charging a free model to the token keeps the ledger of r.
LEMMA SettleFreeTokenLedger ==
  ASSUME TypeOK, NEW r \in Requests, RequestInv(r), SettleFreeToken(r)
  PROVE  RequestInv(r)'
<1> DEFINE s == sess[r]
           n == sess'[r]
<1> USE DEF BeforeOpen, InSession, InRefund, Accounts, Sources, Unheard
<1>0. /\ s \in Session /\ s.pc = "freeToken" /\ s.src \in Sources /\ s.want \in Nat
      /\ s.pre \in Nat
      /\ s.tokenConsumed \in Nat /\ s.fundConsumed \in Int /\ s.extra \in Nat /\ s.actual \in Nat
      /\ profile'[r] = profile[r]
      /\ \A a \in Accounts : taken[r][a] \in Int
  BY SessionFields DEF SettleFreeToken
<1>1. /\ LedgerOf(profile[r], s, record[r], taken[r], lost[r])
      /\ FlagsOf(s)
      /\ SessionOf(profile[r], s, record[r], taken[r], lost[r])
  BY DEF RequestInv
<1>2. CASE ~profile[r].playground /\ Move(r, "token", s.actual) /\ UNCHANGED <<record, lost>>
           /\ Goto(r, [s EXCEPT !.pc = "done"])
  <2>1. /\ n = [s EXCEPT !.pc = "done"]
        /\ \A a \in Accounts : taken'[r][a] = IF a = "token" THEN taken[r][a] + s.actual
                   ELSE taken[r][a]
        /\ record'[r] = record[r] /\ lost'[r] = lost[r]
    BY <1>0, <1>2 DEF TypeOK, Goto, Move
  <2> HIDE DEF n, s
  <2> QED  BY <1>0, <1>1, <1>2, <2>1
           DEF n, RequestInv, LedgerOf, Balanced, Exactly, Due, FlagsOf, SessionOf, Session
<1>3. CASE NoMove /\ Lose(r, "token") /\ UNCHANGED record
           /\ Goto(r, [s EXCEPT !.pc = "done"])
  <2>1. /\ n = [s EXCEPT !.pc = "done"]
        /\ taken'[r] = taken[r]
        /\ record'[r] = record[r] /\ lost'[r] = lost[r] \cup {"token"}
    BY <1>0, <1>3 DEF TypeOK, Goto, NoMove, Lose
  <2> HIDE DEF n, s
  <2> QED  BY <1>0, <1>1, <1>3, <2>1
           DEF n, RequestInv, LedgerOf, Balanced, Exactly, Due, FlagsOf, SessionOf, Session
<1>4. CASE profile[r].playground /\ NoMove /\ UNCHANGED <<record, lost>>
           /\ Goto(r, [s EXCEPT !.pc = "done"])
  <2>1. /\ n = [s EXCEPT !.pc = "done"]
        /\ taken'[r] = taken[r]
        /\ record'[r] = record[r] /\ lost'[r] = lost[r]
    BY <1>0, <1>4 DEF TypeOK, Goto, NoMove
  <2> HIDE DEF n, s
  <2> QED  BY <1>0, <1>1, <1>4, <2>1
           DEF n, RequestInv, LedgerOf, Balanced, Exactly, Due, FlagsOf, SessionOf, Session
<1> QED  BY <1>0, <1>2, <1>3, <1>4 DEF SettleFreeToken, TryMove, TokenSkipped

\* Answering the client keeps the ledger of r.
LEMMA CompleteLedger ==
  ASSUME TypeOK, NEW r \in Requests, RequestInv(r), Complete(r)
  PROVE  RequestInv(r)'
<1> DEFINE s == sess[r]
           n == sess'[r]
<1> USE DEF BeforeOpen, InSession, InRefund, Accounts, Sources, Unheard
<1>0. /\ s \in Session /\ s.pc \in {"settled", "unsettled"} /\ s.src \in Sources
      /\ s.want \in Nat /\ s.pre \in Nat
      /\ s.tokenConsumed \in Nat /\ s.fundConsumed \in Int /\ s.extra \in Nat /\ s.actual \in Nat
      /\ profile'[r] = profile[r]
      /\ \A a \in Accounts : taken[r][a] \in Int
  BY SessionFields DEF Complete
<1>1. /\ LedgerOf(profile[r], s, record[r], taken[r], lost[r])
      /\ FlagsOf(s)
      /\ SessionOf(profile[r], s, record[r], taken[r], lost[r])
  BY DEF RequestInv
<1>2. CASE UNCHANGED <<taken, record, lost>>
           /\ Goto(r, [s EXCEPT !.pc = "done"])
  <2>1. /\ n = [s EXCEPT !.pc = "done"]
        /\ taken'[r] = taken[r]
        /\ record'[r] = record[r] /\ lost'[r] = lost[r]
    BY <1>0, <1>2 DEF TypeOK, Goto
  <2> HIDE DEF n, s
  <2> QED  BY <1>0, <1>1, <1>2, <2>1
           DEF n, RequestInv, LedgerOf, Balanced, Exactly, Due, FlagsOf, SessionOf, Session
<1> QED  BY <1>0, <1>2 DEF Complete

\* Starting the refund keeps the ledger of r.
LEMMA RefundLedger ==
  ASSUME TypeOK, NEW r \in Requests, RequestInv(r), Refund(r)
  PROVE  RequestInv(r)'
<1> DEFINE s == sess[r]
           n == sess'[r]
           needs == /\ ~(s.settled \/ s.refunded \/ s.fundingSettled)
                    /\ s.tokenConsumed > 0 \/ (s.src = "sub" /\ s.fundConsumed > 0)
<1> USE DEF BeforeOpen, InSession, InRefund, Accounts, Sources, Unheard
<1>0. /\ s \in Session /\ s.pc \in {"active", "unsettled", "settled"} /\ s.src \in Sources
      /\ s.want \in Nat /\ s.pre \in Nat
      /\ s.tokenConsumed \in Nat /\ s.fundConsumed \in Int /\ s.extra \in Nat /\ s.actual \in Nat
      /\ profile'[r] = profile[r]
      /\ \A a \in Accounts : taken[r][a] \in Int
  BY SessionFields DEF Refund
<1>1. /\ LedgerOf(profile[r], s, record[r], taken[r], lost[r])
      /\ FlagsOf(s)
      /\ SessionOf(profile[r], s, record[r], taken[r], lost[r])
  BY DEF RequestInv
<1>2. CASE needs /\ UNCHANGED <<taken, record, lost>>
           /\ Goto(r, [s EXCEPT !.pc = "refundFund", !.refunded = TRUE])
  <2>1. /\ n = [s EXCEPT !.pc = "refundFund", !.refunded = TRUE]
        /\ taken'[r] = taken[r]
        /\ record'[r] = record[r] /\ lost'[r] = lost[r]
    BY <1>0, <1>2 DEF TypeOK, Goto
  <2> HIDE DEF n, s
  <2> QED  BY <1>0, <1>1, <1>2, <2>1
           DEF n, RequestInv, LedgerOf, Balanced, Exactly, Due, FlagsOf, SessionOf, Session
<1>3. CASE ~needs /\ UNCHANGED <<taken, record, lost>>
           /\ Goto(r, [s EXCEPT !.pc = "returned"])
  <2>1. /\ n = [s EXCEPT !.pc = "returned"]
        /\ taken'[r] = taken[r]
        /\ record'[r] = record[r] /\ lost'[r] = lost[r]
    BY <1>0, <1>3 DEF TypeOK, Goto
  <2> HIDE DEF n, s
  <2> QED  BY <1>0, <1>1, <1>3, <2>1
           DEF n, RequestInv, LedgerOf, Balanced, Exactly, Due, FlagsOf, SessionOf, Session
<1> QED  BY <1>0, <1>2, <1>3 DEF Refund, NeedsRefund

\* Refunding a wallet keeps the ledger of r.
LEMMA RefundWalletLedger ==
  ASSUME TypeOK, NEW r \in Requests, RequestInv(r), RefundWallet(r)
  PROVE  RequestInv(r)'
<1> DEFINE s == sess[r]
           n == sess'[r]
<1> USE DEF BeforeOpen, InSession, InRefund, Accounts, Sources, Unheard
<1>0. /\ s \in Session /\ s.pc = "refundFund" /\ s.src # "sub" /\ s.src \in Sources
      /\ s.want \in Nat /\ s.pre \in Nat
      /\ s.tokenConsumed \in Nat /\ s.fundConsumed \in Int /\ s.extra \in Nat /\ s.actual \in Nat
      /\ profile'[r] = profile[r]
      /\ \A a \in Accounts : taken[r][a] \in Int
  BY SessionFields DEF RefundWallet
<1>1. /\ LedgerOf(profile[r], s, record[r], taken[r], lost[r])
      /\ FlagsOf(s)
      /\ SessionOf(profile[r], s, record[r], taken[r], lost[r])
  BY DEF RequestInv
<1>2. CASE Move(r, s.src, -s.fundConsumed) /\ UNCHANGED <<record, lost>>
           /\ Goto(r, [s EXCEPT !.pc = "refundExtra"])
  <2>1. /\ n = [s EXCEPT !.pc = "refundExtra"]
        /\ \A a \in Accounts : taken'[r][a] = IF a = s.src THEN taken[r][a] + -s.fundConsumed
                   ELSE taken[r][a]
        /\ record'[r] = record[r] /\ lost'[r] = lost[r]
    BY <1>0, <1>2 DEF TypeOK, Goto, Move
  <2> HIDE DEF n, s
  <2> QED  BY <1>0, <1>1, <1>2, <2>1
           DEF n, RequestInv, LedgerOf, Balanced, Exactly, Due, FlagsOf, SessionOf, Session
<1>3. CASE NoMove /\ Lose(r, s.src) /\ UNCHANGED record
           /\ Goto(r, [s EXCEPT !.pc = "refundExtra"])
  <2>1. /\ n = [s EXCEPT !.pc = "refundExtra"]
        /\ taken'[r] = taken[r]
        /\ record'[r] = record[r] /\ lost'[r] = lost[r] \cup {s.src}
    BY <1>0, <1>3 DEF TypeOK, Goto, NoMove, Lose
  <2> HIDE DEF n, s
  <2> QED  BY <1>0, <1>1, <1>3, <2>1
           DEF n, RequestInv, LedgerOf, Balanced, Exactly, Due, FlagsOf, SessionOf, Session
<1>4. CASE s.fundConsumed <= 0 /\ NoMove /\ UNCHANGED <<record, lost>>
           /\ Goto(r, [s EXCEPT !.pc = "refundExtra"])
  <2>1. /\ n = [s EXCEPT !.pc = "refundExtra"]
        /\ taken'[r] = taken[r]
        /\ record'[r] = record[r] /\ lost'[r] = lost[r]
    BY <1>0, <1>4 DEF TypeOK, Goto, NoMove
  <2> HIDE DEF n, s
  <2> QED  BY <1>0, <1>1, <1>4, <2>1
           DEF n, RequestInv, LedgerOf, Balanced, Exactly, Due, FlagsOf, SessionOf, Session
<1> QED  BY <1>0, <1>2, <1>3, <1>4 DEF RefundWallet, TryMove

\* Refunding the subscription keeps the ledger of r.
LEMMA RefundSubscriptionLedger ==
  ASSUME TypeOK, NEW r \in Requests, RequestInv(r), RefundSubscription(r)
  PROVE  RequestInv(r)'
<1> DEFINE s == sess[r]
           n == sess'[r]
           k == s.attempts + 1
<1> USE DEF BeforeOpen, InSession, InRefund, Accounts, Sources, Unheard
<1>0. /\ s \in Session /\ s.pc = "refundFund" /\ s.src = "sub" /\ s.src \in Sources
      /\ s.want \in Nat /\ s.pre \in Nat
      /\ s.tokenConsumed \in Nat /\ s.fundConsumed \in Int /\ s.extra \in Nat /\ s.actual \in Nat
      /\ profile'[r] = profile[r]
      /\ \A a \in Accounts : taken[r][a] \in Int
  BY SessionFields DEF RefundSubscription
<1>1. /\ LedgerOf(profile[r], s, record[r], taken[r], lost[r])
      /\ FlagsOf(s)
      /\ SessionOf(profile[r], s, record[r], taken[r], lost[r])
  BY DEF RequestInv
<1>2. CASE record[r] = "consumed" /\ Move(r, "sub", -s.fundConsumed)
           /\ record' = [record EXCEPT ![r] = "refunded"] /\ UNCHANGED lost
           /\ Goto(r, [s EXCEPT !.pc = "refundExtra"])
  <2>1. /\ n = [s EXCEPT !.pc = "refundExtra"]
        /\ \A a \in Accounts : taken'[r][a] = IF a = "sub" THEN taken[r][a] + -s.fundConsumed
                   ELSE taken[r][a]
        /\ record'[r] = "refunded" /\ lost'[r] = lost[r]
    BY <1>0, <1>2 DEF TypeOK, Goto, Move
  <2> HIDE DEF n, s
  <2> QED  BY <1>0, <1>1, <1>2, <2>1
           DEF n, RequestInv, LedgerOf, Balanced, Exactly, Due, FlagsOf, SessionOf, Session
<1>3. CASE record[r] # "consumed" /\ NoMove /\ UNCHANGED <<record, lost>>
           /\ Goto(r, [s EXCEPT !.pc = "refundExtra"])
  <2>1. /\ n = [s EXCEPT !.pc = "refundExtra"]
        /\ taken'[r] = taken[r]
        /\ record'[r] = record[r] /\ lost'[r] = lost[r]
    BY <1>0, <1>3 DEF TypeOK, Goto, NoMove
  <2> HIDE DEF n, s
  <2> QED  BY <1>0, <1>1, <1>3, <2>1
           DEF n, RequestInv, LedgerOf, Balanced, Exactly, Due, FlagsOf, SessionOf, Session
<1>4. CASE record[r] = "consumed" /\ Move(r, "sub", -s.fundConsumed)
           /\ record' = [record EXCEPT ![r] = "refunded"] /\ UNCHANGED lost
           /\ Goto(r, [s EXCEPT !.attempts = k, !.pc = "refundFund"])
  <2>1. /\ n = [s EXCEPT !.attempts = k, !.pc = "refundFund"]
        /\ \A a \in Accounts : taken'[r][a] = IF a = "sub" THEN taken[r][a] + -s.fundConsumed
                   ELSE taken[r][a]
        /\ record'[r] = "refunded" /\ lost'[r] = lost[r]
    BY <1>0, <1>4 DEF TypeOK, Goto, Move
  <2> HIDE DEF n, s
  <2> QED  BY <1>0, <1>1, <1>4, <2>1
           DEF n, RequestInv, LedgerOf, Balanced, Exactly, Due, FlagsOf, SessionOf, Session
<1>5. CASE record[r] = "consumed" /\ Move(r, "sub", -s.fundConsumed)
           /\ record' = [record EXCEPT ![r] = "refunded"] /\ UNCHANGED lost
           /\ Goto(r, [s EXCEPT !.attempts = k, !.pc = "refundExtra"])
  <2>1. /\ n = [s EXCEPT !.attempts = k, !.pc = "refundExtra"]
        /\ \A a \in Accounts : taken'[r][a] = IF a = "sub" THEN taken[r][a] + -s.fundConsumed
                   ELSE taken[r][a]
        /\ record'[r] = "refunded" /\ lost'[r] = lost[r]
    BY <1>0, <1>5 DEF TypeOK, Goto, Move
  <2> HIDE DEF n, s
  <2> QED  BY <1>0, <1>1, <1>5, <2>1
           DEF n, RequestInv, LedgerOf, Balanced, Exactly, Due, FlagsOf, SessionOf, Session
<1>6. CASE NoMove /\ UNCHANGED <<record, lost>>
           /\ Goto(r, [s EXCEPT !.attempts = k, !.pc = "refundFund"])
  <2>1. /\ n = [s EXCEPT !.attempts = k, !.pc = "refundFund"]
        /\ taken'[r] = taken[r]
        /\ record'[r] = record[r] /\ lost'[r] = lost[r]
    BY <1>0, <1>6 DEF TypeOK, Goto, NoMove
  <2> HIDE DEF n, s
  <2> QED  BY <1>0, <1>1, <1>6, <2>1
           DEF n, RequestInv, LedgerOf, Balanced, Exactly, Due, FlagsOf, SessionOf, Session
<1>7. CASE record[r] # "consumed" /\ NoMove /\ UNCHANGED <<record, lost>>
           /\ Goto(r, [s EXCEPT !.attempts = k, !.pc = "refundExtra"])
  <2>1. /\ n = [s EXCEPT !.attempts = k, !.pc = "refundExtra"]
        /\ taken'[r] = taken[r]
        /\ record'[r] = record[r] /\ lost'[r] = lost[r]
    BY <1>0, <1>7 DEF TypeOK, Goto, NoMove
  <2> HIDE DEF n, s
  <2> QED  BY <1>0, <1>1, <1>7, <2>1
           DEF n, RequestInv, LedgerOf, Balanced, Exactly, Due, FlagsOf, SessionOf, Session
<1>8. CASE NoMove /\ Lose(r, "sub") /\ UNCHANGED record
           /\ Goto(r, [s EXCEPT !.attempts = k, !.pc = "refundExtra"])
  <2>1. /\ n = [s EXCEPT !.attempts = k, !.pc = "refundExtra"]
        /\ taken'[r] = taken[r]
        /\ record'[r] = record[r] /\ lost'[r] = lost[r] \cup {"sub"}
    BY <1>0, <1>8 DEF TypeOK, Goto, NoMove, Lose
  <2> HIDE DEF n, s
  <2> QED  BY <1>0, <1>1, <1>8, <2>1
           DEF n, RequestInv, LedgerOf, Balanced, Exactly, Due, FlagsOf, SessionOf, Session
<1>9. CASE k < MaxAttempts
  BY <1>0, <1>9, <1>2, <1>3, <1>4, <1>5, <1>6, <1>7, <1>8 DEF RefundSubscription
<1>10. CASE ~(k < MaxAttempts)
  BY <1>0, <1>10, <1>2, <1>3, <1>4, <1>5, <1>6, <1>7, <1>8 DEF RefundSubscription
<1> QED  BY <1>9, <1>10

\* Refunding the reserved amount keeps the ledger of r.
LEMMA RefundExtraLedger ==
  ASSUME TypeOK, NEW r \in Requests, RequestInv(r), RefundExtra(r)
  PROVE  RequestInv(r)'
<1> DEFINE s == sess[r]
           n == sess'[r]
<1> USE DEF BeforeOpen, InSession, InRefund, Accounts, Sources, Unheard
<1>0. /\ s \in Session /\ s.pc = "refundExtra" /\ s.src \in Sources /\ s.want \in Nat
      /\ s.pre \in Nat
      /\ s.tokenConsumed \in Nat /\ s.fundConsumed \in Int /\ s.extra \in Nat /\ s.actual \in Nat
      /\ profile'[r] = profile[r]
      /\ \A a \in Accounts : taken[r][a] \in Int
  BY SessionFields DEF RefundExtra
<1>1. /\ LedgerOf(profile[r], s, record[r], taken[r], lost[r])
      /\ FlagsOf(s)
      /\ SessionOf(profile[r], s, record[r], taken[r], lost[r])
  BY DEF RequestInv
<1>2. CASE s.src = "sub" /\ Move(r, "sub", -s.extra) /\ UNCHANGED <<record, lost>>
           /\ Goto(r, [s EXCEPT !.pc = "refundToken"])
  <2>1. /\ n = [s EXCEPT !.pc = "refundToken"]
        /\ \A a \in Accounts : taken'[r][a] = IF a = "sub" THEN taken[r][a] + -s.extra
                   ELSE taken[r][a]
        /\ record'[r] = record[r] /\ lost'[r] = lost[r]
    BY <1>0, <1>2 DEF TypeOK, Goto, Move
  <2> HIDE DEF n, s
  <2> QED  BY <1>0, <1>1, <1>2, <2>1
           DEF n, RequestInv, LedgerOf, Balanced, Exactly, Due, FlagsOf, SessionOf, Session
<1>3. CASE NoMove /\ Lose(r, "sub") /\ UNCHANGED record
           /\ Goto(r, [s EXCEPT !.pc = "refundToken"])
  <2>1. /\ n = [s EXCEPT !.pc = "refundToken"]
        /\ taken'[r] = taken[r]
        /\ record'[r] = record[r] /\ lost'[r] = lost[r] \cup {"sub"}
    BY <1>0, <1>3 DEF TypeOK, Goto, NoMove, Lose
  <2> HIDE DEF n, s
  <2> QED  BY <1>0, <1>1, <1>3, <2>1
           DEF n, RequestInv, LedgerOf, Balanced, Exactly, Due, FlagsOf, SessionOf, Session
<1>4. CASE (s.src = "sub" => s.extra = 0) /\ NoMove /\ UNCHANGED <<record, lost>>
           /\ Goto(r, [s EXCEPT !.pc = "refundToken"])
  <2>1. /\ n = [s EXCEPT !.pc = "refundToken"]
        /\ taken'[r] = taken[r]
        /\ record'[r] = record[r] /\ lost'[r] = lost[r]
    BY <1>0, <1>4 DEF TypeOK, Goto, NoMove
  <2> HIDE DEF n, s
  <2> QED  BY <1>0, <1>1, <1>4, <2>1
           DEF n, RequestInv, LedgerOf, Balanced, Exactly, Due, FlagsOf, SessionOf, Session
<1> QED  BY <1>0, <1>2, <1>3, <1>4 DEF RefundExtra, TryMove

\* Refunding the token keeps the ledger of r.
LEMMA RefundTokenLedger ==
  ASSUME TypeOK, NEW r \in Requests, RequestInv(r), RefundToken(r)
  PROVE  RequestInv(r)'
<1> DEFINE s == sess[r]
           n == sess'[r]
<1> USE DEF BeforeOpen, InSession, InRefund, Accounts, Sources, Unheard
<1>0. /\ s \in Session /\ s.pc = "refundToken" /\ s.src \in Sources /\ s.want \in Nat
      /\ s.pre \in Nat
      /\ s.tokenConsumed \in Nat /\ s.fundConsumed \in Int /\ s.extra \in Nat /\ s.actual \in Nat
      /\ profile'[r] = profile[r]
      /\ \A a \in Accounts : taken[r][a] \in Int
  BY SessionFields DEF RefundToken
<1>1. /\ LedgerOf(profile[r], s, record[r], taken[r], lost[r])
      /\ FlagsOf(s)
      /\ SessionOf(profile[r], s, record[r], taken[r], lost[r])
  BY DEF RequestInv
<1>2. CASE ~profile[r].playground /\ Move(r, "token", -s.tokenConsumed) /\ UNCHANGED <<record,
            lost>>
           /\ Goto(r, [s EXCEPT !.pc = "done"])
  <2>1. /\ n = [s EXCEPT !.pc = "done"]
        /\ \A a \in Accounts : taken'[r][a] =
                   IF a = "token" THEN taken[r][a] + -s.tokenConsumed ELSE taken[r][a]
        /\ record'[r] = record[r] /\ lost'[r] = lost[r]
    BY <1>0, <1>2 DEF TypeOK, Goto, Move
  <2> HIDE DEF n, s
  <2> QED  BY <1>0, <1>1, <1>2, <2>1
           DEF n, RequestInv, LedgerOf, Balanced, Exactly, Due, FlagsOf, SessionOf, Session
<1>3. CASE NoMove /\ Lose(r, "token") /\ UNCHANGED record
           /\ Goto(r, [s EXCEPT !.pc = "done"])
  <2>1. /\ n = [s EXCEPT !.pc = "done"]
        /\ taken'[r] = taken[r]
        /\ record'[r] = record[r] /\ lost'[r] = lost[r] \cup {"token"}
    BY <1>0, <1>3 DEF TypeOK, Goto, NoMove, Lose
  <2> HIDE DEF n, s
  <2> QED  BY <1>0, <1>1, <1>3, <2>1
           DEF n, RequestInv, LedgerOf, Balanced, Exactly, Due, FlagsOf, SessionOf, Session
<1>4. CASE (~profile[r].playground => s.tokenConsumed = 0) /\ NoMove /\ UNCHANGED <<record, lost>>
           /\ Goto(r, [s EXCEPT !.pc = "done"])
  <2>1. /\ n = [s EXCEPT !.pc = "done"]
        /\ taken'[r] = taken[r]
        /\ record'[r] = record[r] /\ lost'[r] = lost[r]
    BY <1>0, <1>4 DEF TypeOK, Goto, NoMove
  <2> HIDE DEF n, s
  <2> QED  BY <1>0, <1>1, <1>4, <2>1
           DEF n, RequestInv, LedgerOf, Balanced, Exactly, Due, FlagsOf, SessionOf, Session
<1> QED  BY <1>0, <1>2, <1>3, <1>4 DEF RefundToken, TryMove, TokenSkipped

\* Every step of a request keeps the ledger of that request.
LEMMA RequestStepLedger ==
  ASSUME TypeOK, NEW r \in Requests, RequestInv(r), RequestStep(r)
  PROVE  RequestInv(r)'
<1>1. CASE OpenSession(r)
  BY <1>1, AuthenticateLedger, OpenLedger, CheckFundsLedger, CheckTokenLedger, TakeTokenLedger,
     TakeWalletLedger, TakeSubscriptionLedger, RollbackTokenLedger, ReopenLedger DEF OpenSession
<1>2. CASE UseSession(r)
  BY <1>2, ReserveLedger, ReserveTokenLedger, ReserveUndoLedger, SettleLedger, SettleTokenLedger,
     SettleFreeLedger, SettleFreeTokenLedger, CompleteLedger, RefundLedger DEF UseSession
<1>3. CASE RefundGoroutine(r)
  BY <1>3, RefundWalletLedger, RefundSubscriptionLedger, RefundExtraLedger, RefundTokenLedger
     DEF RefundGoroutine
<1> QED  BY <1>1, <1>2, <1>3 DEF RequestStep

\* LedgerInv holds initially: nothing has been taken.
LEMMA LedgerInit == Init => LedgerInv
<1> SUFFICES ASSUME Init, NEW r \in Requests PROVE RequestInv(r)
  BY DEF LedgerInv
<1>1. /\ sess[r] = Fresh /\ record[r] = "none" /\ lost[r] = {}
      /\ \A a \in Accounts : taken[r][a] = 0
  BY DEF Init
<1>2. LedgerOf(profile[r], Fresh, "none", taken[r], {})
  BY <1>1 DEF LedgerOf, Balanced, Exactly, Due, Fresh, BeforeOpen
<1>3. FlagsOf(Fresh) /\ SessionOf(profile[r], Fresh, "none", taken[r], {})
  BY DEF FlagsOf, SessionOf, Fresh, BeforeOpen, InSession, InRefund
<1> QED  BY <1>1, <1>2, <1>3 DEF RequestInv

\* LedgerInv is inductive relative to TypeOK.
LEMMA LedgerStep == TypeOK /\ LedgerInv /\ [Next]_vars => LedgerInv'
<1> SUFFICES ASSUME TypeOK, LedgerInv, [Next]_vars PROVE LedgerInv'
  OBVIOUS
<1>1. ASSUME NEW r \in Requests, RequestStep(r) PROVE LedgerInv'
  <2>1. RequestInv(r)'
    BY <1>1, RequestStepLedger DEF LedgerInv
  <2>2. Untouched(r)
    BY <1>1, RequestStepType
  <2>3. ASSUME NEW q \in Requests, q # r PROVE RequestInv(q)'
    BY <2>2, <2>3 DEF LedgerInv, RequestInv, Untouched
  <2> QED  BY <2>1, <2>3 DEF LedgerInv
<1>2. CASE ExpireSubscription
  BY <1>2 DEF ExpireSubscription, LedgerInv, RequestInv
<1>3. CASE UNCHANGED vars
  BY <1>3 DEF vars, LedgerInv, RequestInv
<1> QED  BY <1>1, <1>2, <1>3 DEF Next, RequestStep, AllDone

\* At every control point, each account has given the request exactly what
\* the session believes it holds, unless a database error was only logged.
THEOREM LedgerCorrect == Spec => []LedgerInv
  BY TypeCorrect, LedgerInit, LedgerStep, PTL DEF Spec

\* Due and Holds say the same of one amount.
LEMMA ExactlyHolds ==
  ASSUME NEW r \in Requests, NEW amt,
         Exactly(profile[r], sess[r], taken[r], lost[r], amt, amt)
  PROVE  Holds(r, amt)
  BY DEF Exactly, Due, Holds

\* An open session holds its preConsumedQuota on the source and on the token.
THEOREM OpenSessionsHold == Spec => []OpenHoldsPreConsumed
<1>1. LedgerInv => OpenHoldsPreConsumed
  BY ExactlyHolds DEF LedgerInv, RequestInv, LedgerOf, Balanced, OpenHoldsPreConsumed
<1> QED  BY <1>1, LedgerCorrect, PTL

\* A settled session has paid the actual cost.
THEOREM SettledSessionsPay == Spec => []SettledPaysActual
<1>1. LedgerInv => SettledPaysActual
  BY ExactlyHolds DEF LedgerInv, RequestInv, LedgerOf, SettledPaysActual
<1> QED  BY <1>1, LedgerCorrect, PTL

\* A request that ended in an error without a settlement holds nothing.
THEOREM ErrorsHoldNothing == Spec => []ErrorHoldsNothing
<1>1. LedgerInv => ErrorHoldsNothing
  BY ExactlyHolds DEF LedgerInv, RequestInv, LedgerOf, ErrorHoldsNothing
<1> QED  BY <1>1, LedgerCorrect, PTL

\* A request NewBillingSession refused holds nothing.
THEOREM FailuresHoldNothing == Spec => []FailedHoldsNothing
<1>1. LedgerInv => FailedHoldsNothing
  BY ExactlyHolds DEF LedgerInv, RequestInv, LedgerOf, Balanced, BeforeOpen, FailedHoldsNothing
<1> QED  BY <1>1, LedgerCorrect, PTL

\* No account is given back more than was taken from it, except a funding
\* source that gave something back with its answer lost.
THEOREM RefundsBounded == Spec => []NeverOverRefunded
<1>1. TypeOK /\ LedgerInv => NeverOverRefunded
  BY DEF TypeOK, LedgerInv, RequestInv, LedgerOf, NeverOverRefunded
<1> QED  BY <1>1, TypeCorrect, LedgerCorrect, PTL

\* A step that takes from the GPT wallet more than it holds is a Settle, answered
\* or not.
LEMMA GptStep ==
  ASSUME TypeOK, NEW r \in Requests, RequestInv(r), RequestStep(r),
         balance'["gpt"] < balance["gpt"], balance'["gpt"] < 0
  PROVE  sess[r].pc = "active" /\ sess'[r].pc \in {"adjust", "unsettled"}
<1> DEFINE s == sess[r]
<1>0. /\ s \in Session /\ s.want \in Nat /\ s.pre \in Nat /\ s.fundConsumed \in Int
      /\ balance \in [Accounts -> Int] /\ sess \in [Requests -> Session]
  BY SessionFields DEF TypeOK
<1>1. ~(balance' = balance)
  BY <1>0 DEF Accounts
<1>2. ASSUME NEW a \in {"wallet", "sub", "token"}, NEW amt, Move(r, a, amt) PROVE FALSE
  BY <1>0, <1>2 DEF Move, Accounts
<1>3. ASSUME NEW a \in Accounts, NEW amt \in Int, amt <= 0, Move(r, a, amt) PROVE FALSE
  BY <1>0, <1>3 DEF Move, Accounts
<1>4. ASSUME NEW a \in Accounts, NEW amt \in Int, balance["gpt"] >= amt, Move(r, a, amt)
      PROVE  a # "gpt"
  BY <1>0, <1>4 DEF Move, Accounts
<1>5. s.src \in Sources
  BY SessionFields
<1>6. CASE OpenSession(r)
  <2>1. CASE TakeWallet(r)
    <3>1. s.want \in Int /\ s.src \in {"wallet", "gpt"}
      BY <1>0, <1>5, <2>1 DEF TakeWallet, Sources
    <3>2. Move(r, s.src, s.want)
      BY <1>1, <2>1 DEF TakeWallet, NoMove, Unanswered
    <3>3. ~(s.src = "gpt" /\ balance["gpt"] < s.want)
      BY <1>1, <2>1 DEF TakeWallet, NoMove, Unanswered
    <3>4. s.src = "gpt" => balance["gpt"] >= s.want
      BY <1>0, <3>1, <3>3 DEF Accounts
    <3> HIDE DEF s
    <3> QED  BY <1>2, <1>4, <3>1, <3>2, <3>4 DEF Accounts
  <2>2. ~TakeWallet(r)
          => balance' = balance \/ \E amt : Move(r, "token", amt) \/ Move(r, "sub", amt)
    BY <1>6 DEF OpenSession, Authenticate, Open, CheckFunds, CheckToken, TakeToken,
         TakeSubscription,
                RollbackToken, Reopen, TryMove, NoMove, Unanswered
  <2> QED  BY <1>1, <1>2, <2>1, <2>2
<1>7. CASE UseSession(r)
  <2>1. ASSUME NEW target \in Actuals, Reserve(r, target) PROVE FALSE
    <3> DEFINE d == target - s.pre
    <3>1. d \in Int
      BY <1>0, ActualsAssumption
    <3>2. Move(r, s.src, d) \/ balance' = balance
      BY <2>1 DEF Reserve, NoMove, Unanswered
    <3>3. Move(r, s.src, d) /\ s.src = "gpt" => balance["gpt"] >= d
      BY <1>0, <1>1, <2>1, <3>1 DEF Reserve, NoMove, Unanswered, Accounts
    <3> HIDE DEF d
    <3> QED  BY <1>1, <1>2, <1>4, <1>5, <3>1, <3>2, <3>3 DEF Sources, Accounts
  <2>2. ASSUME NEW actual \in Actuals, Settle(r, actual)
        PROVE  s.pc = "active" /\ sess'[r].pc \in {"adjust", "unsettled"}
    <3>1. s.pc = "active"
      BY <2>2 DEF Settle
    <3>2. \/ Goto(r, [s EXCEPT !.pc = "adjust", !.actual = actual, !.fundingSettled = TRUE])
          \/ Goto(r, [s EXCEPT !.pc = "unsettled", !.actual = actual])
      BY <1>1, <2>2 DEF Settle, NoMove
    <3> QED  BY <1>0, <3>1, <3>2 DEF Goto, Session
  <2>3. CASE ReserveUndo(r)
    <3>1. Move(r, s.src, -s.want)
      BY <1>1, <2>3 DEF ReserveUndo, NoMove
    <3> QED  BY <1>0, <1>3, <1>5, <3>1 DEF Sources, Accounts
  <2>4. CASE \/ ReserveToken(r) \/ SettleToken(r) \/ SettleFreeToken(r) \/ Complete(r)
        \/ Refund(r)
             \/ \E actual \in Actuals : SettleFree(r, actual)
    <3>1. balance' = balance \/ \E amt : Move(r, "token", amt) \/ Move(r, "wallet", amt)
      BY <2>4 DEF ReserveToken, SettleToken, SettleFree, SettleFreeToken, Complete, Refund,
                  TryMove, NoMove, Unanswered
    <3> QED  BY <1>1, <1>2, <3>1
  <2> QED  BY <1>7, <2>1, <2>2, <2>3, <2>4 DEF UseSession
<1>8. CASE RefundGoroutine(r)
  <2>1. CASE RefundWallet(r)
    <3>1. Move(r, s.src, -s.fundConsumed) /\ s.fundConsumed > 0
      BY <1>1, <2>1 DEF RefundWallet, TryMove, NoMove
    <3>2. -s.fundConsumed \in Int /\ -s.fundConsumed <= 0
      BY <1>0, <3>1
    <3> QED  BY <1>3, <1>5, <3>1, <3>2 DEF Sources, Accounts
  <2>2. ~RefundWallet(r)
          => balance' = balance \/ \E amt : Move(r, "token", amt) \/ Move(r, "sub", amt)
    BY <1>8 DEF RefundGoroutine, RefundSubscription, RefundExtra, RefundToken, TryMove, NoMove
  <2> QED  BY <1>1, <1>2, <2>1, <2>2
<1> QED  BY <1>6, <1>7, <1>8 DEF RequestStep

\* Only Settle overdraws the GPT wallet: PreConsume and Reserve deduct under
\* the condition gpt_quota >= amount.
THEOREM GptOverdrawn == Spec => GptOverdrawnOnlyBySettle
<1>1. TypeOK /\ LedgerInv /\ [Next]_vars
        => [balance'["gpt"] < balance["gpt"] /\ balance'["gpt"] < 0
             => \E r \in Requests :
                   sess[r].pc = "active" /\ sess'[r].pc \in {"adjust", "unsettled"}]_vars
  <2> SUFFICES ASSUME TypeOK, LedgerInv, [Next]_vars,
                      balance'["gpt"] < balance["gpt"], balance'["gpt"] < 0
               PROVE  \E r \in Requests :
                         sess[r].pc = "active" /\ sess'[r].pc \in {"adjust", "unsettled"}
    OBVIOUS
  <2>1. balance["gpt"] \in Int
    BY DEF TypeOK, Accounts
  <2>2. balance' # balance
    BY <2>1
  <2>3. PICK r \in Requests : RequestStep(r)
    BY <2>2 DEF Next, RequestStep, ExpireSubscription, AllDone, vars
  <2> QED  BY <2>3, GptStep DEF LedgerInv
<1> QED  BY <1>1, TypeCorrect, LedgerCorrect, PTL DEF Spec, GptOverdrawnOnlyBySettle
=============================================================================
