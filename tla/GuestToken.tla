------------------------------ MODULE GuestToken ------------------------------
(***************************************************************************)
(* How the web client obtains, keeps and renews its guest token while API  *)
(* calls overlap: ensureGuestToken and clearGuestToken (lib/auth.ts) and   *)
(* authorizedFetch (lib/api.ts), against a server on which sessions expire *)
(* and requests may fail.                                                  *)
(*                                                                         *)
(* JavaScript runs to completion between two awaits, so a step is what one *)
(* tab does between them, or the server's handling of one request.         *)
(***************************************************************************)
EXTENDS Naturals, FiniteSets

CONSTANTS
  Calls,       \* API calls, each made once
  Tabs,        \* browser tabs: they share localStorage, not the module
  TabOf,       \* the tab that makes each call
  MaxLosses    \* bound: sessions that expire and requests that fail

ASSUME CallsAssumption == IsFiniteSet(Calls)
ASSUME TabsAssumption == IsFiniteSet(Tabs)
ASSUME TabOfAssumption == TabOf \in [Calls -> Tabs]
ASSUME LossesAssumption == MaxLosses \in Nat

(* The POST /sessions/guest requests in the order they are made, and the   *)
(* tokens they return.  A call asks for a token twice at most.             *)
Posts == 1..(2 * Cardinality(Calls))
None == 0

VARIABLES
  stored,   \* the token in localStorage
  pending,  \* pending[b]: the request pendingTokenRequest of tab b stands for
  post,     \* post[t]: where POST t stands
  from,     \* from[t]: the tab that made POST t (history)
  session,  \* session[t]: the server's session with token t
  call,     \* call[c]: where API call c stands
  losses    \* how many more sessions may expire and requests fail

vars == <<stored, pending, post, from, session, call, losses>>

-----------------------------------------------------------------------------
PostPc == {"unused", "sent", "answered", "stored", "failed"}
SessionState == {"none", "live", "expired"}

(* A call awaits a token ("ask"), then the answer to its request ("sent"); *)
(* "again" and "resent" are the same after a 401.  header is the token in  *)
(* its Authorization header, waits the POST whose promise it awaits.       *)
CallPc == {"idle", "ask", "sent", "again", "resent", "ok", "error"}
Call == [pc : CallPc, header : Posts \cup {None}, waits : Posts \cup {None},
         reply : {"none", "200", "401"}]

Waiting(c) == call[c].pc \in {"ask", "again"}
Flying(c) == call[c].pc \in {"sent", "resent"}
UnderWay(t) == post[t] \in {"sent", "answered"}
Loss == losses > 0 /\ losses' = losses - 1

Sending(c, t) == [pc |-> IF call[c].pc \in {"idle", "ask"} THEN "sent" ELSE "resent",
                  header |-> t, waits |-> None, reply |-> "none"]
Awaiting(c, t) == [pc |-> IF call[c].pc = "idle" THEN "ask" ELSE "again",
                   header |-> call[c].header, waits |-> t, reply |-> "none"]
Ended(c, pc) == [pc |-> pc, header |-> call[c].header, waits |-> None, reply |-> "none"]

Init ==
  /\ stored = None
  /\ pending = [b \in Tabs |-> None]
  /\ post = [t \in Posts |-> "unused"]
  /\ from = [t \in Posts |-> None]
  /\ session = [t \in Posts |-> "none"]
  /\ call = [c \in Calls |-> [pc |-> "idle", header |-> None, waits |-> None,
                              reply |-> "none"]]
  /\ losses = MaxLosses

-----------------------------------------------------------------------------
UseStored(c, token) ==
  /\ token # None
  /\ call' = [call EXCEPT ![c] = Sending(c, token)]
  /\ UNCHANGED <<pending, post, from>>

(* Awaiting a promise that has been settled resolves, or raises, at once.  *)
JoinRequest(c) ==
  LET t == pending[TabOf[c]] IN
  /\ t # None
  /\ call' = [call EXCEPT ![c] = CASE post[t] = "stored" -> Sending(c, t)
                                   [] post[t] = "failed" -> Ended(c, "error")
                                   [] OTHER -> Awaiting(c, t)]
  /\ UNCHANGED <<pending, post, from>>

NewRequest(c) == \E t \in Posts :
  /\ post[t] = "unused" /\ \A u \in Posts : u < t => post[u] # "unused"
  /\ post' = [post EXCEPT ![t] = "sent"]
  /\ from' = [from EXCEPT ![t] = TabOf[c]]
  /\ pending' = [pending EXCEPT ![TabOf[c]] = t]
  /\ call' = [call EXCEPT ![c] = Awaiting(c, t)]

(* Mutant: every caller without a token starts a request of its own.       *)
EnsureAlone(c, token) ==
  UseStored(c, token) \/ (token = None /\ NewRequest(c))

(* ensureGuestToken, called by c when localStorage holds token: use it, or *)
(* await the request under way in this tab, or start one.                  *)
EnsureGuestToken(c, token) ==
  \/ UseStored(c, token)
  \/ /\ token = None
     /\ JoinRequest(c) \/ (pending[TabOf[c]] = None /\ NewRequest(c))

(* authorizedFetch, up to the first request.                               *)
Begin(c) ==
  /\ call[c].pc = "idle"
  /\ EnsureGuestToken(c, stored)
  /\ UNCHANGED <<stored, session, losses>>

(* POST /sessions/guest on the server: a new session.                      *)
ServeGuest(t) ==
  /\ post[t] = "sent"
  /\ post' = [post EXCEPT ![t] = "answered"]
  /\ session' = [session EXCEPT ![t] = "live"]
  /\ UNCHANGED <<stored, pending, from, call, losses>>

(* finally: pendingTokenRequest no longer stands for t.                    *)
Settled(t) == [b \in Tabs |-> IF pending[b] = t THEN None ELSE pending[b]]

(* The promise resolves: the token is stored, and every call that awaited  *)
(* it sends its request.                                                   *)
TokenArrives(t) ==
  /\ post[t] = "answered"
  /\ post' = [post EXCEPT ![t] = "stored"]
  /\ stored' = t
  /\ pending' = Settled(t)
  /\ call' = [c \in Calls |-> IF call[c].waits = t THEN Sending(c, t) ELSE call[c]]
  /\ UNCHANGED <<from, session, losses>>

(* Mutant: pendingTokenRequest is only cleared on success.                 *)
TokenFailsKept(t) ==
  /\ UnderWay(t) /\ Loss
  /\ post' = [post EXCEPT ![t] = "failed"]
  /\ call' = [c \in Calls |-> IF call[c].waits = t THEN Ended(c, "error") ELSE call[c]]
  /\ UNCHANGED <<stored, pending, from, session>>

(* The request for a session fails, on the way there (a 429, the network)  *)
(* or on the way back: its promise is rejected, and every call on it.      *)
TokenFails(t) ==
  /\ UnderWay(t) /\ Loss
  /\ post' = [post EXCEPT ![t] = "failed"]
  /\ pending' = Settled(t)
  /\ call' = [c \in Calls |-> IF call[c].waits = t THEN Ended(c, "error") ELSE call[c]]
  /\ UNCHANGED <<stored, from, session>>

(* The server answers a call: 401 when its session is no longer there.     *)
Serve(c) ==
  /\ Flying(c) /\ call[c].reply = "none"
  /\ call' = [call EXCEPT ![c].reply =
                IF session[call[c].header] = "live" THEN "200" ELSE "401"]
  /\ UNCHANGED <<stored, pending, post, from, session, losses>>

(* The answer is final: a success, or a 401 on the second request.         *)
Settle(c) ==
  /\ Flying(c)
  /\ \/ call[c].reply = "200" /\ call' = [call EXCEPT ![c] = Ended(c, "ok")]
     \/ /\ call[c].reply = "401" /\ call[c].pc = "resent"
        /\ call' = [call EXCEPT ![c] = Ended(c, "error")]
  /\ UNCHANGED <<stored, pending, post, from, session, losses>>

(* The network fails under a request: fetch raises, and the call with it.  *)
CallFails(c) ==
  /\ Flying(c) /\ Loss
  /\ call' = [call EXCEPT ![c] = Ended(c, "error")]
  /\ UNCHANGED <<stored, pending, post, from, session>>

(* Mutant: a 401 is retried without clearing the stored token.             *)
RenewUncleared(c) ==
  /\ call[c].pc = "sent" /\ call[c].reply = "401"
  /\ EnsureGuestToken(c, stored)
  /\ UNCHANGED <<stored, session, losses>>

(* The first 401: the stored token is cleared, whichever it is by now, and *)
(* the request is sent once more with a token from ensureGuestToken.       *)
Renew(c) ==
  /\ call[c].pc = "sent" /\ call[c].reply = "401"
  /\ stored' = None
  /\ EnsureGuestToken(c, None)
  /\ UNCHANGED <<session, losses>>

Expire(t) ==
  /\ session[t] = "live" /\ Loss
  /\ session' = [session EXCEPT ![t] = "expired"]
  /\ UNCHANGED <<stored, pending, post, from, call>>

-----------------------------------------------------------------------------
Continue(c) == Serve(c) \/ Settle(c) \/ Renew(c)
PostStep(t) == ServeGuest(t) \/ TokenArrives(t)

Next ==
  \/ \E c \in Calls : Begin(c) \/ Continue(c) \/ CallFails(c)
  \/ \E t \in Posts : PostStep(t) \/ TokenFails(t) \/ Expire(t)

Spec == Init /\ [][Next]_vars

(* Every request the browser has sent is answered, and its promise runs.   *)
Fairness == /\ \A c \in Calls : WF_vars(Continue(c))
            /\ \A t \in Posts : WF_vars(PostStep(t))
FairSpec == Spec /\ Fairness

-----------------------------------------------------------------------------
(* Properties *)

(* Every variable keeps its type; a call awaits a promise exactly while it *)
(* needs a token, and pendingTokenRequest stands for a request under way,  *)
(* never for one that has been settled (the finally of ensureGuestToken).  *)
TypeOK ==
  /\ stored \in Posts \cup {None}
  /\ pending \in [Tabs -> Posts \cup {None}]
  /\ post \in [Posts -> PostPc] /\ from \in [Posts -> Tabs \cup {None}]
  /\ session \in [Posts -> SessionState]
  /\ call \in [Calls -> Call] /\ losses \in 0..MaxLosses
  /\ \A c \in Calls : Waiting(c) <=> call[c].waits # None
  /\ \A b \in Tabs : pending[b] # None => UnderWay(pending[b])

(* However many calls find no token or are refused at the same moment, no  *)
(* tab ever has two requests for a session under way.                      *)
SingleFlight ==
  \A t, u \in Posts : UnderWay(t) /\ UnderWay(u) /\ from[t] = from[u] => t = u

(* A call that needs a token awaits the request its own tab has under way: *)
(* none is left on a promise that has been settled or replaced, so calls   *)
(* that overlap in a tab come out of their wait together.                  *)
WaitsAreShared ==
  \A c \in Calls : Waiting(c) => call[c].waits = pending[TabOf[c]]

(* With one tab, the stored token is the newest that has arrived: answers  *)
(* of POST /sessions/guest cannot overtake each other into localStorage.   *)
StoredIsNewest ==
  Cardinality(Tabs) = 1 /\ stored # None =>
    \A t \in Posts : post[t] = "stored" => t <= stored

(* The second request of authorizedFetch never carries the token that the  *)
(* first was refused for, whatever other calls did to localStorage.        *)
SecondTokenIsFresh ==
  [][\A c \in Calls :
       call'[c].pc = "resent" /\ call[c].pc # "resent" =>
         call'[c].header # call[c].header]_vars

(* A failure leaves nothing behind: with one tab, a call that begins when  *)
(* sessions no longer expire and requests no longer fail gets its answer,  *)
(* whatever failed before it and whichever token or promise it starts from.*)
CallsRecover ==
  Cardinality(Tabs) = 1 =>
    \A c \in Calls :
      [](losses = 0 /\ call[c].pc = "idle" =>
           [](call[c].pc # "idle" => <>(call[c].pc = "ok")))

(* authorizedFetch recovers from stale tokens only: the token of a session *)
(* that is still live is never dropped from localStorage.                  *)
LiveTokenKept ==
  [][\A t \in Posts : stored = t /\ session[t] = "live" => stored' = t]_vars
=============================================================================
