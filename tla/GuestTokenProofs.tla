--------------------------- MODULE GuestTokenProofs ---------------------------
(***************************************************************************)
(* What the guest token of the web client guarantees for any number of     *)
(* calls, tabs and losses.                                                 *)
(***************************************************************************)
EXTENDS GuestToken, FiniteSetTheorems, TLAPS

-----------------------------------------------------------------------------
(* The inductive invariant *)

(* Every request under way is the pendingTokenRequest of the tab that made *)
(* it.                                                                     *)
Owned == \A t \in Posts : UnderWay(t) => from[t] \in Tabs /\ pending[from[t]] = t

(* Only tokens that have arrived are stored or sent in a header.           *)
Arrived ==
  /\ stored # None => post[stored] = "stored"
  /\ \A c \in Calls : call[c].header # None => post[call[c].header] = "stored"

(* Requests are numbered in the order they are made.                       *)
InOrder ==
  \A t, u \in Posts : u < t /\ post[t] # "unused" => post[u] # "unused"

(* In a single tab the request under way is the newest of all, and the     *)
(* stored token the newest of those that have arrived.                     *)
Alone == \A a, b \in Tabs : a = b
Newest ==
  Alone =>
    /\ \A t, u \in Posts : UnderWay(t) /\ post[u] # "unused" => u <= t
    /\ stored # None => \A t \in Posts : post[t] = "stored" => t <= stored

Inv == TypeOK /\ Owned /\ Arrived /\ InOrder /\ Newest /\ WaitsAreShared

-----------------------------------------------------------------------------
(* The number of tokens is a natural number, and 0 is none of them.        *)
LEMMA PostsFacts == Posts \subseteq Nat /\ None \notin Posts /\ IsFiniteSet(Posts)
<1>1. Cardinality(Calls) \in Nat
  BY CallsAssumption, FS_CardinalityType
<1>2. IsFiniteSet(1..(2 * Cardinality(Calls)))
  BY <1>1, FS_Interval
<1> QED BY <1>1, <1>2 DEF Posts, None

LEMMA InitInv == Init => Inv
BY PostsFacts, LossesAssumption, TabOfAssumption
   DEF Init, Inv, TypeOK, Owned, Arrived, InOrder, Newest, PostPc, SessionState,
       Call, CallPc, Waiting, UnderWay, WaitsAreShared

(* The promise a caller finds is not settled yet, so it has to wait.       *)
LEMMA JoinsUnderWay ==
  ASSUME TypeOK, NEW c \in Calls, JoinRequest(c)
  PROVE  /\ UnderWay(pending[TabOf[c]])
         /\ call' = [call EXCEPT ![c] = Awaiting(c, pending[TabOf[c]])]
BY TabOfAssumption DEF TypeOK, JoinRequest, UnderWay

(* What the three ways through ensureGuestToken leave behind, whatever the *)
(* caller does to localStorage: the request joined or made is the caller's *)
(* tab's, a token sent is the stored one, and a caller without a token     *)
(* sends nothing.                                                          *)
LEMMA EnsureType ==
  ASSUME TypeOK, NEW c \in Calls, call[c].pc \in {"idle", "sent"},
         NEW token \in Posts \cup {None}, EnsureGuestToken(c, token),
         stored' \in Posts \cup {None}, UNCHANGED <<session, losses>>
  PROVE  TypeOK'
<1> USE PostsFacts DEF TypeOK
<1>1. CASE UseStored(c, token)
  BY <1>1 DEF UseStored, Sending, Call, CallPc, Waiting, UnderWay
<1>2. CASE JoinRequest(c)
  BY <1>2, JoinsUnderWay, TabOfAssumption DEF JoinRequest, Awaiting, Call, CallPc, Waiting, UnderWay
<1>3. CASE pending[TabOf[c]] = None /\ NewRequest(c)
  <2>1. PICK t \in Posts :
          /\ post[t] = "unused"
          /\ post' = [post EXCEPT ![t] = "sent"]
          /\ from' = [from EXCEPT ![t] = TabOf[c]]
          /\ pending' = [pending EXCEPT ![TabOf[c]] = t]
          /\ call' = [call EXCEPT ![c] = Awaiting(c, t)]
    BY <1>3 DEF NewRequest
  <2>2. Awaiting(c, t) \in Call
    BY DEF Awaiting, Call, CallPc
  <2>3. \A d \in Calls : Waiting(d)' <=> call'[d].waits # None
    BY <2>1, <2>2 DEF Waiting, Awaiting
  <2>4. \A b \in Tabs : (pending[b] # None => UnderWay(pending[b]))'
    BY <2>1, TabOfAssumption DEF UnderWay
  <2> QED BY <2>1, <2>2, <2>3, <2>4, TabOfAssumption DEF PostPc, UnderWay, Waiting
<1> QED BY <1>1, <1>2, <1>3 DEF EnsureGuestToken

LEMMA EnsureInv ==
  ASSUME Inv, NEW c \in Calls, call[c].pc \in {"idle", "sent"},
         NEW token \in {stored, None}, EnsureGuestToken(c, token),
         stored' \in {stored, None}, UNCHANGED <<session, losses>>
  PROVE  Inv'
<1> USE PostsFacts
<1>t. token \in Posts \cup {None} /\ stored' \in Posts \cup {None}
  BY DEF Inv, TypeOK
<1>1. TypeOK'
  BY <1>t, EnsureType DEF Inv
<1>2. CASE UseStored(c, token) \/ JoinRequest(c)
  <2>1. UNCHANGED <<post, pending, from>>
    BY <1>2 DEF UseStored, JoinRequest
  <2>2. Arrived'
    BY <1>2, <2>1, <1>t, JoinsUnderWay
       DEF Inv, TypeOK, Arrived, UseStored, JoinRequest, Sending, Awaiting, Call
  <2>3. WaitsAreShared'
    BY <1>2, <2>1, JoinsUnderWay
       DEF Inv, TypeOK, WaitsAreShared, Waiting, UseStored, JoinRequest, Sending, Awaiting, Call
  <2> QED BY <1>1, <2>1, <2>2, <2>3 DEF Inv, Owned, InOrder, Newest, UnderWay
<1>3. CASE pending[TabOf[c]] = None /\ NewRequest(c)
  <2>1. PICK t \in Posts :
          /\ post[t] = "unused" /\ \A u \in Posts : u < t => post[u] # "unused"
          /\ post' = [post EXCEPT ![t] = "sent"]
          /\ from' = [from EXCEPT ![t] = TabOf[c]]
          /\ pending' = [pending EXCEPT ![TabOf[c]] = t]
          /\ call' = [call EXCEPT ![c] = Awaiting(c, t)]
    BY <1>3 DEF NewRequest
  <2>b. TabOf[c] \in Tabs
    BY TabOfAssumption
  <2>2. Owned'
    <3> SUFFICES ASSUME NEW u \in Posts, UnderWay(u)'
                 PROVE  from'[u] \in Tabs /\ pending'[from'[u]] = u
      BY DEF Owned
    <3>1. CASE u = t
      BY <3>1, <2>1, <2>b DEF Inv, TypeOK
    <3>2. CASE u # t
      <4>1. UnderWay(u)
        BY <3>2, <2>1 DEF UnderWay, Inv, TypeOK
      <4>2. from[u] \in Tabs /\ pending[from[u]] = u /\ from'[u] = from[u]
        BY <3>2, <4>1, <2>1 DEF Inv, TypeOK, Owned
      <4> QED BY <4>2, <2>1, <1>3, <2>b DEF Inv, TypeOK
    <3> QED BY <3>1, <3>2
  <2>3. Arrived'
    BY <2>1 DEF Inv, TypeOK, Arrived, Awaiting, Call
  <2>4. InOrder'
    BY <2>1 DEF Inv, TypeOK, InOrder, PostPc
  <2>5. Newest'
    <3> SUFFICES ASSUME Alone PROVE Newest'
      BY DEF Newest, Alone
    <3>1. \A u \in Posts : ~ UnderWay(u)
      BY <1>3, <2>b DEF Inv, Owned, Alone
    <3>2. \A u \in Posts : UnderWay(u)' => u = t
      BY <3>1, <2>1 DEF UnderWay, Inv, TypeOK
    <3>3. \A u \in Posts : post'[u] # "unused" => u <= t
      <4> SUFFICES ASSUME NEW u \in Posts, post'[u] # "unused", t < u PROVE FALSE
        OBVIOUS
      <4> QED BY <2>1 DEF Inv, TypeOK, InOrder
    <3>4. \A u \in Posts : post'[u] = "stored" => post[u] = "stored"
      BY <2>1 DEF Inv, TypeOK
    <3> QED BY <3>2, <3>3, <3>4 DEF Newest, Inv
  <2>6. WaitsAreShared'
    <3>1. \A d \in Calls : Waiting(d) => pending[TabOf[d]] # None
      BY DEF Inv, TypeOK, WaitsAreShared
    <3>2. ASSUME NEW d \in Calls \ {c}, Waiting(d)' PROVE call'[d].waits = pending'[TabOf[d]]
      <4>1. call'[d] = call[d] /\ Waiting(d)
        BY <2>1, <3>2 DEF Inv, TypeOK, Waiting
      <4>2. TabOf[d] # TabOf[c] /\ TabOf[d] \in Tabs
        BY <1>3, <3>1, <4>1, TabOfAssumption
      <4> QED BY <2>1, <4>1, <4>2 DEF Inv, TypeOK, WaitsAreShared
    <3>3. call'[c].waits = pending'[TabOf[c]]
      BY <2>1, <2>b DEF Inv, TypeOK, Awaiting
    <3> QED BY <3>2, <3>3 DEF WaitsAreShared
  <2> QED BY <1>1, <2>2, <2>3, <2>4, <2>5, <2>6 DEF Inv
<1> QED BY <1>2, <1>3 DEF EnsureGuestToken

(* A promise that settles takes its request out of pendingTokenRequest.    *)
LEMMA SettledOwned ==
  ASSUME Inv, NEW t \in Posts, NEW pc \in {"stored", "failed"},
         post' = [post EXCEPT ![t] = pc], pending' = Settled(t), from' = from
  PROVE  Owned'
<1> SUFFICES ASSUME NEW u \in Posts, UnderWay(u)'
             PROVE  from[u] \in Tabs /\ pending'[from[u]] = u
  BY DEF Owned
<1>1. u # t /\ UnderWay(u)
  BY DEF UnderWay, Inv, TypeOK
<1>2. from[u] \in Tabs /\ pending[from[u]] = u
  BY <1>1 DEF Inv, Owned
<1> QED BY <1>1, <1>2 DEF Settled

LEMMA ArrivesInv ==
  ASSUME Inv, NEW t \in Posts, TokenArrives(t)
  PROVE  Inv'
<1> USE PostsFacts
<1>a. UnderWay(t)
  BY DEF TokenArrives, UnderWay
<1>1. TypeOK'
  BY DEF TokenArrives, Inv, TypeOK, Settled, Sending, Waiting, UnderWay, Call, CallPc, PostPc
<1>2. Owned'
  BY SettledOwned DEF TokenArrives
<1>3. Arrived'
  BY DEF TokenArrives, Inv, TypeOK, Arrived, Sending, Call
<1>4. InOrder'
  BY DEF TokenArrives, Inv, TypeOK, InOrder
<1>5. Newest'
  BY <1>a DEF TokenArrives, Inv, TypeOK, Newest, UnderWay, Alone
<1>6. WaitsAreShared'
  BY PostsFacts, TabOfAssumption
     DEF TokenArrives, Inv, TypeOK, WaitsAreShared, Settled, Sending, Waiting
<1> QED BY <1>1, <1>2, <1>3, <1>4, <1>5, <1>6 DEF Inv

LEMMA FailsInv ==
  ASSUME Inv, NEW t \in Posts, TokenFails(t)
  PROVE  Inv'
<1> USE PostsFacts
<1>1. TypeOK'
  BY LossesAssumption
     DEF TokenFails, Loss, Inv, TypeOK, Settled, Ended, Waiting, UnderWay, Call, CallPc, PostPc
<1>2. Owned'
  BY SettledOwned DEF TokenFails
<1>3. Arrived'
  BY DEF TokenFails, Inv, TypeOK, Arrived, Ended, Call, UnderWay
<1>4. InOrder'
  BY DEF TokenFails, Inv, TypeOK, InOrder, UnderWay
<1>5. Newest'
  BY DEF TokenFails, Inv, TypeOK, Newest, UnderWay, Alone
<1>6. WaitsAreShared'
  BY PostsFacts, TabOfAssumption
     DEF TokenFails, Inv, TypeOK, WaitsAreShared, Settled, Ended, Waiting
<1> QED BY <1>1, <1>2, <1>3, <1>4, <1>5, <1>6 DEF Inv

(* The server's steps and the end of a call move no token and no request.  *)
LEMMA ServeGuestInv ==
  ASSUME Inv, NEW t \in Posts, ServeGuest(t)
  PROVE  Inv'
<1> USE PostsFacts
<1>1. TypeOK'
  BY DEF ServeGuest, Inv, TypeOK, Waiting, UnderWay, PostPc, SessionState
<1>2. Owned' /\ Arrived' /\ InOrder' /\ Newest'
  BY DEF ServeGuest, Inv, TypeOK, Owned, Arrived, InOrder, Newest, UnderWay, Alone
<1>3. WaitsAreShared'
  BY DEF ServeGuest, Inv, WaitsAreShared, Waiting
<1> QED BY <1>1, <1>2, <1>3 DEF Inv

LEMMA CallInv ==
  ASSUME Inv, NEW c \in Calls, Serve(c) \/ Settle(c) \/ CallFails(c)
  PROVE  Inv'
<1> USE PostsFacts
<1>1. TypeOK'
  BY LossesAssumption
     DEF Serve, Settle, CallFails, Loss, Inv, TypeOK, Flying, Ended, Waiting, UnderWay, Call, CallPc
<1>2. \A d \in Calls : call'[d].header = call[d].header
  BY DEF Serve, Settle, CallFails, Inv, TypeOK, Ended, Call
<1>3. WaitsAreShared'
  <2>1. \A d \in Calls \ {c} : call'[d] = call[d]
    BY DEF Serve, Settle, CallFails, Inv, TypeOK
  <2>2. ~Waiting(c)'
    <3>1. CASE Serve(c)
      <4>1. call'[c].pc = call[c].pc
        BY <3>1 DEF Serve, Inv, TypeOK, Call
      <4> QED BY <3>1, <4>1 DEF Serve, Waiting, Flying
    <3>2. CASE Settle(c) \/ CallFails(c)
      BY <3>2 DEF Settle, CallFails, Inv, TypeOK, Waiting, Ended
    <3> QED BY <3>1, <3>2
  <2>3. UNCHANGED pending
    BY DEF Serve, Settle, CallFails
  <2> QED BY <2>1, <2>2, <2>3 DEF Inv, WaitsAreShared, Waiting
<1> QED BY <1>1, <1>2, <1>3
        DEF Serve, Settle, CallFails, Inv, Owned, Arrived, InOrder, Newest, UnderWay

LEMMA ExpireInv ==
  ASSUME Inv, NEW t \in Posts, Expire(t)
  PROVE  Inv'
BY LossesAssumption
   DEF Expire, Loss, Inv, TypeOK, SessionState, Waiting, UnderWay, Owned, Arrived,
       InOrder, Newest, WaitsAreShared

LEMMA StepInv == Inv /\ [Next]_vars => Inv'
<1> SUFFICES ASSUME Inv, [Next]_vars PROVE Inv'
  OBVIOUS
<1>1. ASSUME NEW c \in Calls, Begin(c) PROVE Inv'
  BY <1>1, EnsureInv DEF Begin
<1>2. ASSUME NEW c \in Calls, Renew(c) PROVE Inv'
  BY <1>2, EnsureInv DEF Renew
<1>3. ASSUME NEW c \in Calls, Serve(c) \/ Settle(c) \/ CallFails(c) PROVE Inv'
  BY <1>3, CallInv
<1>4. ASSUME NEW t \in Posts, ServeGuest(t) PROVE Inv'
  BY <1>4, ServeGuestInv
<1>5. ASSUME NEW t \in Posts, TokenArrives(t) PROVE Inv'
  BY <1>5, ArrivesInv
<1>6. ASSUME NEW t \in Posts, TokenFails(t) PROVE Inv'
  BY <1>6, FailsInv
<1>7. ASSUME NEW t \in Posts, Expire(t) PROVE Inv'
  BY <1>7, ExpireInv
<1>8. CASE UNCHANGED vars
  BY <1>8 DEF vars, Inv, TypeOK, Waiting, UnderWay, Owned, Arrived, InOrder,
              Newest, WaitsAreShared
<1> QED BY <1>1, <1>2, <1>3, <1>4, <1>5, <1>6, <1>7, <1>8 DEF Next, Continue, PostStep

LEMMA InvAlways == Spec => []Inv
BY InitInv, StepInv, PTL DEF Spec

-----------------------------------------------------------------------------
(* A tab has one pendingTokenRequest, so of two requests of one tab only   *)
(* one can be under way.                                                   *)
LEMMA InvSingleFlight == Inv => SingleFlight
BY DEF Inv, Owned, SingleFlight

LEMMA InvStoredIsNewest == Inv => StoredIsNewest
<1> SUFFICES ASSUME Inv, Cardinality(Tabs) = 1 PROVE StoredIsNewest
  BY DEF StoredIsNewest
<1>1. PICK x : Tabs = {x}
  BY TabsAssumption, FS_Singleton
<1> QED BY <1>1 DEF Inv, Newest, Alone, StoredIsNewest

(* A call that has been refused waits for a request made after the one its *)
(* refused token came from had arrived.                                    *)
LEMMA InvFresh ==
  ASSUME Inv, [Next]_vars, NEW c \in Calls,
         call'[c].pc = "resent", call[c].pc # "resent"
  PROVE  call'[c].header # call[c].header
<1> USE PostsFacts DEF Inv, TypeOK, Call
<1>1. CASE \E t \in Posts : TokenArrives(t)
  BY <1>1 DEF TokenArrives, Sending, Arrived
<1>2. CASE \E d \in Calls : Begin(d)
  BY <1>2, JoinsUnderWay DEF Begin, EnsureGuestToken, UseStored, JoinRequest, NewRequest, Sending, Awaiting
<1>3. CASE \E d \in Calls : Renew(d)
  BY <1>3, JoinsUnderWay DEF Renew, EnsureGuestToken, UseStored, JoinRequest, NewRequest, Sending, Awaiting
<1>4. CASE \E d \in Calls : Serve(d) \/ Settle(d) \/ CallFails(d)
  BY <1>4 DEF Serve, Settle, CallFails, Ended
<1>5. CASE \E t \in Posts : TokenFails(t)
  BY <1>5 DEF TokenFails, Ended
<1>6. CASE (\E t \in Posts : ServeGuest(t) \/ Expire(t)) \/ UNCHANGED vars
  BY <1>6 DEF ServeGuest, Expire, vars
<1> QED BY <1>1, <1>2, <1>3, <1>4, <1>5, <1>6 DEF Next, Continue, PostStep

-----------------------------------------------------------------------------
(* Every variable keeps its type and pendingTokenRequest always stands for *)
(* a request under way, for any number of calls, tabs and losses.          *)
THEOREM TokenTypes == Spec => []TypeOK
BY InvAlways, PTL DEF Inv

(* However many calls overlap, of the requests for a session that one tab  *)
(* has made at most one is under way (pendingTokenRequest).                *)
THEOREM OneRequestPerTab == Spec => []SingleFlight
BY InvAlways, InvSingleFlight, PTL

(* A call that awaits a token awaits the request of its own tab, which is  *)
(* under way: no promise that has been settled or replaced keeps a waiter. *)
THEOREM NobodyLeftWaiting ==
  Spec => [](WaitsAreShared /\ \A c \in Calls : Waiting(c) => UnderWay(call[c].waits))
<1>1. Inv => WaitsAreShared /\ \A c \in Calls : Waiting(c) => UnderWay(call[c].waits)
  BY TabOfAssumption DEF Inv, TypeOK, WaitsAreShared
<1> QED BY <1>1, InvAlways, PTL

(* In a single tab localStorage always holds the newest token.             *)
THEOREM NewestTokenStored == Spec => []StoredIsNewest
BY InvAlways, InvStoredIsNewest, PTL

(* The single retry of authorizedFetch carries another token.              *)
THEOREM RetryIsFresh == Spec => SecondTokenIsFresh
<1>1. Inv /\ [Next]_vars =>
        [\A c \in Calls :
           call'[c].pc = "resent" /\ call[c].pc # "resent" =>
             call'[c].header # call[c].header]_vars
  BY InvFresh
<1> QED BY <1>1, InvAlways, PTL DEF Spec, SecondTokenIsFresh

-----------------------------------------------------------------------------
(* Posts is large enough: the requests made so far are no more than the    *)
(* times a call has asked for a token, at its start and after a 401.       *)
Asks == {a \in Calls \X {1, 2} :
           IF a[2] = 1 THEN call[a[1]].pc # "idle"
                       ELSE call[a[1]].pc \notin {"idle", "ask", "sent"}}
MadeUpTo(k) == \A t \in Posts : post[t] # "unused" <=> t <= k
MadeForAsks == \E k \in Nat : k <= Cardinality(Asks) /\ MadeUpTo(k)

(* The number of the next request, which NewRequest looks for.             *)
NextPost(t) == post[t] = "unused" /\ \A u \in Posts : u < t => post[u] # "unused"

LEMMA AsksFinite ==
  /\ IsFiniteSet(Calls \X {1, 2}) /\ Cardinality(Calls \X {1, 2}) = 2 * Cardinality(Calls)
  /\ IsFiniteSet(Asks) /\ Cardinality(Asks) \in Nat
<1>1. IsFiniteSet({1, 2}) /\ Cardinality({1, 2}) = 2
  <2>1. {1, 2} = 1..2
    OBVIOUS
  <2>2. IsFiniteSet(1..2) /\ Cardinality(1..2) = (IF 1 > 2 THEN 0 ELSE 2 - 1 + 1)
    BY ONLY FS_Interval, 1 \in Int, 2 \in Int
  <2> QED BY <2>1, <2>2
<1>2. Cardinality(Calls) \in Nat
  BY CallsAssumption, FS_CardinalityType
<1>3. /\ IsFiniteSet(Calls \X {1, 2})
      /\ Cardinality(Calls \X {1, 2}) = Cardinality(Calls) * 2
  BY <1>1, CallsAssumption, FS_Product
<1>4. Asks \in SUBSET (Calls \X {1, 2})
  BY DEF Asks
<1>5. IsFiniteSet(Asks) /\ Cardinality(Asks) \in Nat
  BY <1>3, <1>4, FS_Subset, FS_CardinalityType
<1> QED BY <1>2, <1>3, <1>5

(* A call never un-asks.                                                   *)
Onward(c) == /\ call[c].pc # "idle" => call'[c].pc # "idle"
             /\ call[c].pc \notin {"idle", "ask", "sent"} =>
                  call'[c].pc \notin {"idle", "ask", "sent"}

LEMMA AsksGrow ==
  ASSUME \A c \in Calls : Onward(c)
  PROVE  Asks \subseteq Asks' /\ IsFiniteSet(Asks') /\ Cardinality(Asks') \in Nat
         /\ Cardinality(Asks) <= Cardinality(Asks')
<1>1. ASSUME NEW a \in Asks PROVE a \in Asks'
  <2>1. PICK c \in Calls : \E i \in {1, 2} : a = <<c, i>>
    BY DEF Asks
  <2>2. Onward(c)
    BY <2>1
  <2> QED BY <2>1, <2>2 DEF Asks, Onward
<1>2. IsFiniteSet(Asks') /\ Cardinality(Asks') \in Nat
  <2>1. Asks' \in SUBSET (Calls \X {1, 2})
    BY DEF Asks
  <2> QED BY <2>1, AsksFinite, FS_Subset, FS_CardinalityType
<1>3. Asks \in SUBSET Asks'
  BY <1>1
<1>4. Cardinality(Asks) <= Cardinality(Asks')
  BY <1>2, <1>3, FS_Subset
<1> QED BY <1>2, <1>3, <1>4

(* Steps that make no request.                                             *)
LEMMA AsksCount ==
  ASSUME MadeForAsks, \A c \in Calls : Onward(c),
         \A t \in Posts : post'[t] # "unused" <=> post[t] # "unused"
  PROVE  MadeForAsks'
<1>1. PICK k \in Nat : k <= Cardinality(Asks) /\ MadeUpTo(k)
  BY DEF MadeForAsks
<1>2. MadeUpTo(k)'
  BY <1>1 DEF MadeUpTo
<1>3. k <= Cardinality(Asks')
  BY <1>1, AsksGrow, AsksFinite
<1> QED BY <1>2, <1>3 DEF MadeForAsks

(* A request made is one more, and so is the time the call asks.           *)
LEMMA NewRequestCount ==
  ASSUME TypeOK, MadeForAsks, NEW c \in Calls, call[c].pc \in {"idle", "sent"},
         NewRequest(c)
  PROVE  MadeForAsks'
<1> USE PostsFacts DEF TypeOK
<1>1. PICK t \in Posts :
        /\ NextPost(t)
        /\ post' = [post EXCEPT ![t] = "sent"]
        /\ call' = [call EXCEPT ![c] = Awaiting(c, t)]
  BY DEF NewRequest, NextPost
<1>2. PICK k \in Nat : k <= Cardinality(Asks) /\ MadeUpTo(k)
  BY DEF MadeForAsks
<1>3. t = k + 1
  <2>1. t \in Nat /\ ~(t <= k)
    BY <1>1, <1>2 DEF NextPost, MadeUpTo
  <2>2. CASE k + 1 < t
    <3>1. k + 1 \in Posts
      BY <2>1, <2>2, CallsAssumption, FS_CardinalityType DEF Posts
    <3> QED BY <1>1, <1>2, <2>2, <3>1 DEF NextPost, MadeUpTo
  <2> QED BY <2>1, <2>2
<1>4. MadeUpTo(k + 1)'
  <2> SUFFICES ASSUME NEW u \in Posts PROVE post'[u] # "unused" <=> u <= k + 1
    BY DEF MadeUpTo
  <2>1. u \in Nat /\ (post[u] # "unused" <=> u <= k)
    BY <1>2 DEF MadeUpTo
  <2> QED BY <1>1, <1>3, <2>1
<1>5. \A d \in Calls : Onward(d)
  BY <1>1 DEF Onward, Awaiting
<1>6. Cardinality(Asks') >= Cardinality(Asks) + 1
  <2>1. PICK i \in {1, 2} : <<c, i>> \notin Asks /\ <<c, i>> \in Asks'
    <3>1. CASE call[c].pc = "idle"
      BY <1>1, <3>1 DEF Asks, Awaiting
    <3>2. CASE call[c].pc = "sent"
      BY <1>1, <3>2 DEF Asks, Awaiting
    <3> QED BY <3>1, <3>2
  <2>2. Asks \cup {<<c, i>>} \in SUBSET Asks'
    BY <1>5, <2>1, AsksGrow
  <2>3. Cardinality(Asks \cup {<<c, i>>}) = Cardinality(Asks) + 1
    BY <2>1, AsksFinite, FS_AddElement
  <2>4. Cardinality(Asks \cup {<<c, i>>}) <= Cardinality(Asks')
    BY <1>5, <2>2, AsksGrow, FS_Subset
  <2> QED BY <2>3, <2>4, <1>5, AsksGrow, AsksFinite
<1>7. k + 1 <= Cardinality(Asks')
  BY <1>2, <1>5, <1>6, AsksGrow, AsksFinite
<1> QED BY <1>4, <1>7 DEF MadeForAsks

LEMMA CountStep == TypeOK /\ MadeForAsks /\ [Next]_vars => MadeForAsks'
<1> SUFFICES ASSUME TypeOK, MadeForAsks, [Next]_vars PROVE MadeForAsks'
  OBVIOUS
<1> USE DEF TypeOK
<1>1. ASSUME NEW c \in Calls, NEW token, EnsureGuestToken(c, token),
             call[c].pc \in {"idle", "sent"}
      PROVE  MadeForAsks'
  <2>1. CASE NewRequest(c)
    BY <1>1, <2>1, NewRequestCount
  <2>2. CASE UseStored(c, token) \/ JoinRequest(c)
    <3>1. \A d \in Calls : Onward(d)
      BY <1>1, <2>2, JoinsUnderWay DEF UseStored, JoinRequest, Sending, Awaiting, Onward
    <3> QED BY <2>2, <3>1, AsksCount DEF UseStored, JoinRequest
  <2> QED BY <1>1, <2>1, <2>2 DEF EnsureGuestToken
<1>2. ASSUME NEW c \in Calls, Begin(c) \/ Renew(c) PROVE MadeForAsks'
  BY <1>1, <1>2 DEF Begin, Renew
<1>3. ASSUME NEW c \in Calls, Serve(c) \/ Settle(c) \/ CallFails(c) PROVE MadeForAsks'
  <2>1. \A d \in Calls : Onward(d)
    <3>1. CASE Serve(c)
      <4>1. call'[c].pc = call[c].pc
        BY <3>1 DEF Serve, Call
      <4> QED BY <3>1, <4>1 DEF Serve, Onward
    <3>2. CASE Settle(c) \/ CallFails(c)
      BY <3>2 DEF Settle, CallFails, Ended, Onward
    <3> QED BY <1>3, <3>1, <3>2
  <2> QED BY <1>3, <2>1, AsksCount DEF Serve, Settle, CallFails
<1>4. ASSUME NEW t \in Posts, TokenArrives(t) \/ TokenFails(t) PROVE MadeForAsks'
  <2>1. \A c \in Calls : call[c].waits = t => Waiting(c)
    BY PostsFacts
  <2>2. \A c \in Calls : Onward(c)
    BY <1>4, <2>1 DEF TokenArrives, TokenFails, Sending, Ended, Onward, Waiting
  <2>3. \A u \in Posts : post'[u] # "unused" <=> post[u] # "unused"
    BY <1>4 DEF TokenArrives, TokenFails, UnderWay
  <2> QED BY <2>2, <2>3, AsksCount
<1>5. CASE (\E t \in Posts : ServeGuest(t) \/ Expire(t)) \/ UNCHANGED vars
  <2>1. \A c \in Calls : Onward(c)
    BY <1>5 DEF ServeGuest, Expire, vars, Onward
  <2>2. \A u \in Posts : post'[u] # "unused" <=> post[u] # "unused"
    BY <1>5 DEF ServeGuest, Expire, vars
  <2> QED BY <2>1, <2>2, AsksCount
<1> QED BY <1>2, <1>3, <1>4, <1>5 DEF Next, Continue, PostStep

(* A call that is about to ask for a token always finds a number for a new *)
(* request: the set Posts bounds nothing the code would do.                *)
THEOREM PostsSuffice ==
  Spec => [](\A c \in Calls : call[c].pc \in {"idle", "sent"} => \E t \in Posts : NextPost(t))
<1> DEFINE Free == \A c \in Calls : call[c].pc \in {"idle", "sent"} => \E t \in Posts : NextPost(t)
<1>1. Init => MadeForAsks
  <2> SUFFICES ASSUME Init PROVE MadeForAsks
    OBVIOUS
  <2>1. MadeUpTo(0) /\ 0 <= Cardinality(Asks)
    BY AsksFinite, PostsFacts DEF Init, MadeUpTo, Posts
  <2> QED BY <2>1 DEF MadeForAsks
<1>2. TypeOK /\ MadeForAsks => Free
  <2> SUFFICES ASSUME MadeForAsks, NEW c \in Calls, call[c].pc \in {"idle", "sent"}
               PROVE  \E t \in Posts : NextPost(t)
    OBVIOUS
  <2>1. PICK k \in Nat : k <= Cardinality(Asks) /\ MadeUpTo(k)
    BY DEF MadeForAsks
  <2>2. Asks \in SUBSET (Calls \X {1, 2}) /\ Asks # Calls \X {1, 2}
    <3>1. <<c, 2>> \in Calls \X {1, 2} /\ <<c, 2>> \notin Asks
      BY DEF Asks
    <3> QED BY <3>1 DEF Asks
  <2>3. Cardinality(Asks) < 2 * Cardinality(Calls)
    BY <2>2, AsksFinite, CallsAssumption, FS_CardinalityType, FS_Subset
  <2>4. k + 1 \in Posts
    BY <2>1, <2>3, AsksFinite, CallsAssumption, FS_CardinalityType DEF Posts
  <2>5. NextPost(k + 1)
    BY <2>1, <2>4, PostsFacts DEF NextPost, MadeUpTo
  <2> QED BY <2>4, <2>5
<1>3. TypeOK /\ MadeForAsks /\ [Next]_vars => MadeForAsks'
  BY CountStep
<1> HIDE DEF Free
<1>4. Spec => []Free
  BY <1>1, <1>2, <1>3, TokenTypes, PTL DEF Spec
<1> QED BY <1>4 DEF Free
=============================================================================
