------------------------------ MODULE SlidingLog ------------------------------
(***************************************************************************)
(* What a limit of L requests a minute promises to its callers: a log of   *)
(* every request it let through, never shortened, and a request is let     *)
(* through exactly when fewer than L entries of the log are at most a      *)
(* window old.  RateWindow, which keeps a deque and forgets, is shown to   *)
(* implement it.                                                           *)
(***************************************************************************)
EXTENDS Naturals, FiniteSets

CONSTANTS Ops, Ips, Sessions, Nobody, IpLimit, SessionLimit, Window, MaxTime, MaxCalls

VARIABLES
  now,   \* the clock
  calls, \* the requests made so far
  log    \* log[k]: what was let through for the operation and caller k

vars == <<now, calls, log>>

Callers == Ips \cup Sessions
Limit(k) == IF k[2] \in Ips THEN IpLimit[k[1]] ELSE SessionLimit[k[1]]

Init ==
  /\ now = 0 /\ calls = 0
  /\ log = [k \in Ops \X Callers |-> {}]

InWindow(k) == {h \in log[k] : now - h.at <= Window}
Free(k) == Limit(k) > 0 => Cardinality(InWindow(k)) < Limit(k)

(* The log after a request, which names an address, a session, both or     *)
(* none.  It is charged to its address and, unless the address is refused, *)
(* to its session; a limit that is off and a refusal leave the log alone.  *)
Charged(op, ip, session) ==
  LET ofIp == {k \in DOMAIN log : k = <<op, ip>>}
      ofSession == {k \in DOMAIN log : k = <<op, session>> /\ \A i \in ofIp : Free(i)}
      charged == {k \in ofIp \cup ofSession : Limit(k) > 0 /\ Free(k)}
      entry == [at |-> now, no |-> calls + 1]
  IN  [k \in DOMAIN log |-> IF k \in charged THEN log[k] \cup {entry} ELSE log[k]]

Request ==
  /\ calls < MaxCalls /\ calls' = calls + 1
  /\ \E op \in Ops, ip \in Ips \cup {Nobody}, session \in Sessions \cup {Nobody} :
       log' = Charged(op, ip, session)
  /\ UNCHANGED now

Tick == now < MaxTime /\ now' = now + 1 /\ UNCHANGED <<calls, log>>

Next == Request \/ Tick

Spec == Init /\ [][Next]_vars
=============================================================================
