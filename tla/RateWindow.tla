------------------------------ MODULE RateWindow ------------------------------
(***************************************************************************)
(* The per-minute limits of the API (enforce_per_minute_limits and         *)
(* _enforce_window in rate_limit.py): sliding windows, kept in the memory  *)
(* of the process, per operation and address and per operation and         *)
(* session.  A call has no await in it, so it is one step.                 *)
(***************************************************************************)
EXTENDS Naturals, FiniteSets

CONSTANTS
  Ops,           \* "session_create", "upload", "reindex", "chat", "verify"
  Ips, Sessions, \* who is counted
  Nobody,        \* no address known, no session needed
  IpLimit, SessionLimit,  \* per operation; 0: off
  Window,        \* _window_seconds
  MaxTime,       \* bound: the clock stops there
  MaxCalls       \* bound: calls made

ASSUME KeyAssumption == Ips \cap Sessions = {} /\ Nobody \notin Ips \cup Sessions
ASSUME LimitAssumption == IpLimit \in [Ops -> Nat] /\ SessionLimit \in [Ops -> Nat]
ASSUME WindowAssumption == {Window, MaxTime, MaxCalls} \subseteq Nat

VARIABLES
  now,      \* time.monotonic()
  calls,    \* the calls so far: numbers the hits
  hits,     \* hits[k]: the deque of bucket k, as the set of its entries
  recorded  \* recorded[k]: every hit ever appended to it (history)

windowVars == <<now, calls, hits, recorded>>

(* The bucket of an operation and an address or a session.                 *)
Keys == Ops \X (Ips \cup Sessions)
Limit(k) == IF k[2] \in Ips THEN IpLimit[k[1]] ELSE SessionLimit[k[1]]

Hit == [at : 0..MaxTime, no : 1..MaxCalls]

WindowInit ==
  /\ now = 0 /\ calls = 0
  /\ hits = [k \in Keys |-> {}]
  /\ recorded = [k \in Keys |-> {}]

(* Mutant: a hit is dropped when it is exactly one window old.             *)
DropAtWindow(entries) == {h \in entries : now - h.at < Window}
(* The entries the while loop leaves: it pops from the old end, and the    *)
(* entries are in the order of the clock.                                  *)
Recent(entries) == {h \in entries : now - h.at <= Window}

(* Mutant: the entries are counted before the old ones are dropped.        *)
CountBeforeDrop(k) == Limit(k) = 0 \/ Cardinality(hits[k]) < Limit(k)
Admits(k) == Limit(k) = 0 \/ Cardinality(Recent(hits[k])) < Limit(k)

(* Mutant: a refused request is counted all the same.                      *)
CountRefused(k, h) ==
  IF Limit(k) = 0 THEN hits[k] ELSE Recent(hits[k]) \cup {h}
(* The bucket after _enforce_window: a limit of 0 leaves it alone, a       *)
(* refusal only drops what is old.                                         *)
Enforced(k, h) ==
  IF Limit(k) = 0 THEN hits[k]
  ELSE IF Admits(k) THEN Recent(hits[k]) \cup {h} ELSE Recent(hits[k])

(* The address first; its hit stays when the session is refused after it.  *)
Call(op, ip, session) ==
  LET h == [at |-> now, no |-> calls + 1]
      ofIp == {k \in Keys : k = <<op, ip>>}
      ofSession == {k \in Keys : k = <<op, session>> /\ \A i \in ofIp : Admits(i)}
  IN
  /\ calls < MaxCalls
  /\ calls' = calls + 1
  /\ hits' = [k \in Keys |-> IF k \in ofIp \cup ofSession THEN Enforced(k, h) ELSE hits[k]]
  /\ recorded' = [k \in Keys |-> recorded[k] \cup (hits'[k] \ hits[k])]
  /\ UNCHANGED now

Tick == now < MaxTime /\ now' = now + 1 /\ UNCHANGED <<calls, hits, recorded>>

WindowNext ==
  \/ \E op \in Ops, ip \in Ips \cup {Nobody}, session \in Sessions \cup {Nobody} :
       Call(op, ip, session)
  \/ Tick

WindowSpec == WindowInit /\ [][WindowNext]_windowVars

-----------------------------------------------------------------------------
(* Properties *)

(* Types; a bucket never holds more than its limit (memory per key).       *)
WindowTypeOK ==
  /\ now \in 0..MaxTime /\ calls \in 0..MaxCalls
  /\ hits \in [Keys -> SUBSET Hit] /\ recorded \in [Keys -> SUBSET Hit]
  /\ \A k \in Keys : Cardinality(hits[k]) <= Limit(k)

Within(entries, start) == {h \in entries : start <= h.at /\ h.at <= start + Window}

(* In every interval as long as the window, ends included and wherever it  *)
(* starts, no more requests than the limit are let through for an address  *)
(* or a session, although the bucket forgets hits as it goes.              *)
WindowBound ==
  \A k \in {key \in Keys : recorded[key] # {} /\ Limit(key) > 0} :
    \A start \in 0..MaxTime : Cardinality(Within(recorded[k], start)) <= Limit(k)

(* The deque decides as a log that forgets nothing would: what it drops    *)
(* never lets a request through that the log refuses, what it keeps never  *)
(* refuses one the log lets through, and a refusal costs the caller        *)
(* nothing later (_enforce_window).  It decides so about each request, not *)
(* only about one that the log might have been asked for: SlidingLog hides *)
(* who asked, and a request that names nobody never changes its log.       *)
Log == INSTANCE SlidingLog WITH log <- recorded
DecidesAlike ==
  \A op \in Ops, ip \in Ips \cup {Nobody}, session \in Sessions \cup {Nobody} :
    Call(op, ip, session) => recorded' = Log!Charged(op, ip, session)
IsSlidingLog == Log!Spec /\ [][calls' # calls => DecidesAlike]_windowVars
=============================================================================
