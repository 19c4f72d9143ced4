--------------------------- MODULE RateWindowProofs ---------------------------
(***************************************************************************)
(* Theorems about RateWindow, for any operations, addresses, sessions,     *)
(* limits and window.                                                      *)
(***************************************************************************)
EXTENDS RateWindow, FiniteSetTheorems, TLAPS

-----------------------------------------------------------------------------
(* A bucket holding e, into which all went, at time t after c calls: it    *)
(* has kept every hit that is recent, and no window holds too many.        *)
Bucket(k, e, all, t, c) ==
  /\ all \in SUBSET Hit /\ e \subseteq all /\ IsFiniteSet(all)
  /\ \A h \in all : h.at <= t /\ h.no <= c
  /\ \A h \in all : t - h.at <= Window => h \in e
  /\ Cardinality(e) <= Limit(k)
  /\ \A start \in 0..MaxTime :
       Limit(k) > 0 => Cardinality(Within(all, start)) <= Limit(k)

WindowInv ==
  /\ now \in 0..MaxTime /\ calls \in 0..MaxCalls
  /\ hits \in [Keys -> SUBSET Hit] /\ recorded \in [Keys -> SUBSET Hit]
  /\ \A k \in Keys : Bucket(k, hits[k], recorded[k], now, calls)

LEMMA Parameters == Window \in Nat /\ MaxTime \in Nat /\ MaxCalls \in Nat
BY WindowAssumption

LEMMA LimitType == ASSUME NEW k \in Keys PROVE Limit(k) \in Nat
BY LimitAssumption DEF Limit, Keys

(* A bucket may be looked at later.                                        *)
LEMMA BucketLater ==
  ASSUME NEW k \in Keys, NEW e, NEW all, NEW t \in Nat, NEW c \in Nat,
         NEW t2 \in Nat, NEW c2 \in Nat, t <= t2, c <= c2, Bucket(k, e, all, t, c)
  PROVE  Bucket(k, e, all, t2, c2)
<1>1. \A h \in all : h.at \in Nat /\ h.no \in Nat
  BY Parameters DEF Bucket, Hit
<1>2. \A h \in all : h.at <= t2 /\ h.no <= c2
  BY <1>1 DEF Bucket
<1>3. \A h \in all : t2 - h.at <= Window => h \in e
  BY <1>1, Parameters DEF Bucket
<1> QED BY <1>2, <1>3 DEF Bucket

(* A refusal, or the step of another bucket, only forgets what is old.     *)
LEMMA BucketForgets ==
  ASSUME WindowInv, NEW k \in Keys
  PROVE  /\ Recent(hits[k]) \subseteq hits[k]
         /\ Bucket(k, Recent(hits[k]), recorded[k], now, calls)
<1> DEFINE e == hits[k]
           all == recorded[k]
<1>1. Bucket(k, e, all, now, calls) BY DEF WindowInv
<1>2. Recent(e) \subseteq e BY DEF Recent
<1>3. IsFiniteSet(e) BY <1>1, FS_Subset DEF Bucket
<1>4. Cardinality(Recent(e)) <= Cardinality(e) /\ Cardinality(e) \in Nat
      /\ Cardinality(Recent(e)) \in Nat
  BY <1>2, <1>3, FS_Subset, FS_CardinalityType
<1>5. Cardinality(Recent(e)) <= Limit(k)
  BY <1>1, <1>4, LimitType DEF Bucket
<1>6. \A h \in all : now - h.at <= Window => h \in Recent(e)
  BY <1>1 DEF Bucket, Recent
<1> QED BY <1>1, <1>2, <1>5, <1>6 DEF Bucket

(* A hit that is let in: the windows it falls into lie within the bucket.  *)
LEMMA BucketGrows ==
  ASSUME WindowInv, NEW k \in Keys, Limit(k) > 0, Admits(k), calls < MaxCalls
  PROVE  LET h == [at |-> now, no |-> calls + 1] IN
           /\ h \in Hit /\ h \notin hits[k]
           /\ Bucket(k, Recent(hits[k]) \cup {h}, recorded[k] \cup {h}, now, calls + 1)
<1> DEFINE h == [at |-> now, no |-> calls + 1]
           e == Recent(hits[k]) \cup {h}
           all == recorded[k] \cup {h}
<1>1. now \in 0..MaxTime /\ now \in Nat /\ calls \in Nat /\ calls + 1 \in 1..MaxCalls
  BY Parameters DEF WindowInv
<1>2. h \in Hit /\ h.at = now /\ h.no = calls + 1 BY <1>1 DEF Hit
<1>3. Bucket(k, Recent(hits[k]), recorded[k], now, calls) BY BucketForgets
<1>4. h \notin recorded[k]
  BY <1>1, <1>2, <1>3 DEF Bucket
<1>5. h \notin hits[k]
  BY <1>4 DEF WindowInv, Bucket
<1>6. /\ all \in SUBSET Hit /\ e \subseteq all
      /\ IsFiniteSet(Recent(hits[k])) /\ IsFiniteSet(recorded[k])
  BY <1>2, <1>3, FS_Subset DEF Bucket
<1>7. IsFiniteSet(all) /\ IsFiniteSet(e)
  <2> HIDE DEF h
  <2>1. IsFiniteSet(all) BY <1>6, FS_AddElement
  <2>2. IsFiniteSet(e) BY <1>6, FS_AddElement
  <2> QED BY <2>1, <2>2
<1>8. h \notin Recent(hits[k]) BY <1>5 DEF Recent
<1>9. Cardinality(e) = Cardinality(Recent(hits[k])) + 1
  BY <1>6, <1>8, FS_AddElement
<1>10. Cardinality(e) <= Limit(k) /\ Cardinality(e) \in Nat
  BY <1>6, <1>9, LimitType, FS_CardinalityType DEF Admits
<1>11. \A g \in all : g.at <= now /\ g.no <= calls + 1
  <2>1. \A g \in recorded[k] : g.no \in Nat /\ g.no <= calls
    BY <1>3, Parameters DEF Bucket, Hit
  <2> QED BY <1>1, <1>2, <1>3, <2>1 DEF Bucket
<1>12. \A g \in all : now - g.at <= Window => g \in e
  BY <1>3 DEF Bucket
<1>13. ASSUME NEW start \in 0..MaxTime PROVE Cardinality(Within(all, start)) <= Limit(k)
  <2>1. CASE start <= now /\ now <= start + Window
    <3>1. ASSUME NEW g \in Within(all, start) PROVE g \in e
      <4>1. g \in all /\ start <= g.at /\ g.at \in Nat
        BY <1>6, Parameters DEF Within, Hit
      <4>2. now - g.at <= Window
        BY <1>1, <2>1, <4>1, Parameters
      <4> QED BY <1>12, <4>1, <4>2
    <3>2. Cardinality(Within(all, start)) <= Cardinality(e)
          /\ Cardinality(Within(all, start)) \in Nat
      BY <1>7, <3>1, FS_Subset, FS_CardinalityType
    <3> QED BY <1>10, <3>2, LimitType
  <2>2. CASE ~(start <= now /\ now <= start + Window)
    <3>1. Within(all, start) = Within(recorded[k], start)
      BY <1>2, <2>2 DEF Within
    <3> QED BY <1>3, <3>1 DEF Bucket
  <2> QED BY <2>1, <2>2
<1> HIDE DEF h, e, all
<1>14. Bucket(k, e, all, now, calls + 1)
  BY <1>6, <1>7, <1>10, <1>11, <1>12, <1>13 DEF Bucket
<1> QED BY <1>2, <1>5, <1>14 DEF h, e, all

(* Whatever _enforce_window does to a bucket, it stays one.                *)
LEMMA BucketEnforced ==
  ASSUME WindowInv, NEW k \in Keys, calls < MaxCalls
  PROVE  LET h == [at |-> now, no |-> calls + 1]
             e == Enforced(k, h)
         IN e \in SUBSET Hit /\ Bucket(k, e, recorded[k] \cup (e \ hits[k]), now, calls + 1)
<1> DEFINE h == [at |-> now, no |-> calls + 1]
           e == Enforced(k, h)
           all == recorded[k] \cup (e \ hits[k])
<1>1. calls \in Nat /\ now \in Nat /\ calls <= calls + 1 /\ hits[k] \in SUBSET Hit
      /\ Limit(k) \in Nat
  BY Parameters, LimitType DEF WindowInv
<1>2. CASE Limit(k) = 0
  <2>1. e = hits[k] /\ all = recorded[k] BY <1>2 DEF Enforced
  <2>2. Bucket(k, hits[k], recorded[k], now, calls) BY DEF WindowInv
  <2>3. Bucket(k, hits[k], recorded[k], now, calls + 1) BY <1>1, <2>2, BucketLater
  <2> QED BY <1>1, <2>1, <2>3
<1>3. CASE Limit(k) > 0 /\ Admits(k)
  <2>1. e = Recent(hits[k]) \cup {h} BY <1>1, <1>3 DEF Enforced
  <2>2. /\ h \in Hit /\ h \notin hits[k] /\ Recent(hits[k]) \subseteq hits[k]
        /\ Bucket(k, Recent(hits[k]) \cup {h}, recorded[k] \cup {h}, now, calls + 1)
    BY <1>3, BucketGrows, BucketForgets
  <2> HIDE DEF h
  <2>3. all = recorded[k] \cup {h} BY <2>1, <2>2
  <2> HIDE DEF e, all
  <2>4. e \in SUBSET Hit BY <1>1, <2>1, <2>2
  <2>5. Bucket(k, e, all, now, calls + 1) BY <2>1, <2>2, <2>3
  <2> QED BY <2>4, <2>5 DEF e, all, h
<1>4. CASE Limit(k) > 0 /\ ~Admits(k)
  <2>1. e = Recent(hits[k]) BY <1>1, <1>4 DEF Enforced
  <2>2. /\ Recent(hits[k]) \subseteq hits[k]
        /\ Bucket(k, Recent(hits[k]), recorded[k], now, calls)
    BY BucketForgets
  <2>3. all = recorded[k] BY <2>1, <2>2
  <2>4. Bucket(k, Recent(hits[k]), recorded[k], now, calls + 1) BY <1>1, <2>2, BucketLater
  <2> QED BY <1>1, <2>1, <2>2, <2>3, <2>4
<1> QED BY <1>1, <1>2, <1>3, <1>4

-----------------------------------------------------------------------------
LEMMA WindowInvInit == WindowInit => WindowInv
<1> SUFFICES ASSUME WindowInit PROVE WindowInv OBVIOUS
<1>1. now \in 0..MaxTime /\ calls \in 0..MaxCalls BY Parameters DEF WindowInit
<1>2. ASSUME NEW k \in Keys PROVE Bucket(k, {}, {}, now, calls)
  <2>1. \A start : Within({}, start) = {} BY DEF Within
  <2> QED BY <2>1, FS_EmptySet, LimitType DEF Bucket
<1> QED BY <1>1, <1>2 DEF WindowInit, WindowInv

LEMMA WindowInvNext == WindowInv /\ [WindowNext]_windowVars => WindowInv'
<1> SUFFICES ASSUME WindowInv, [WindowNext]_windowVars PROVE WindowInv' OBVIOUS
<1>1. ASSUME NEW op \in Ops, NEW ip, NEW session, Call(op, ip, session) PROVE WindowInv'
  <2> DEFINE h == [at |-> now, no |-> calls + 1]
             ofIp == {k \in Keys : k = <<op, ip>>}
             ofSession == {k \in Keys : k = <<op, session>> /\ \A i \in ofIp : Admits(i)}
  <2>1. /\ calls < MaxCalls /\ calls' = calls + 1 /\ now' = now
        /\ hits' = [k \in Keys |-> IF k \in ofIp \cup ofSession THEN Enforced(k, h) ELSE hits[k]]
        /\ recorded' = [k \in Keys |-> recorded[k] \cup (hits'[k] \ hits[k])]
    BY <1>1 DEF Call
  <2> HIDE DEF ofIp, ofSession
  <2>2. calls' \in 0..MaxCalls /\ now' \in 0..MaxTime /\ calls \in Nat /\ now \in Nat
        /\ calls <= calls'
    BY <2>1, Parameters DEF WindowInv
  <2>3. ASSUME NEW k \in Keys
        PROVE  /\ hits'[k] \in SUBSET Hit /\ recorded'[k] \in SUBSET Hit
               /\ Bucket(k, hits'[k], recorded'[k], now', calls')
    <3>1. recorded'[k] = recorded[k] \cup (hits'[k] \ hits[k]) BY <2>1
    <3>2. CASE k \in ofIp \cup ofSession
      <4>1. hits'[k] = Enforced(k, h) BY <2>1, <3>2
      <4>2. /\ Enforced(k, h) \in SUBSET Hit
            /\ Bucket(k, Enforced(k, h), recorded[k] \cup (Enforced(k, h) \ hits[k]), now, calls + 1)
        BY <2>1, BucketEnforced
      <4> HIDE DEF h
      <4>3. Bucket(k, hits'[k], recorded'[k], now', calls') BY <2>1, <3>1, <4>1, <4>2
      <4> QED BY <4>1, <4>2, <4>3 DEF Bucket
    <3>3. CASE k \notin ofIp \cup ofSession
      <4>1. hits'[k] = hits[k] /\ recorded'[k] = recorded[k] BY <2>1, <3>1, <3>3
      <4>2. Bucket(k, hits[k], recorded[k], now, calls) BY DEF WindowInv
      <4>3. Bucket(k, hits[k], recorded[k], now, calls') BY <2>2, <4>2, BucketLater
      <4> QED BY <2>1, <4>1, <4>3 DEF WindowInv
    <3> QED BY <3>2, <3>3
  <2>4. hits' \in [Keys -> SUBSET Hit] /\ recorded' \in [Keys -> SUBSET Hit]
    <3> HIDE DEF h
    <3>1. \A k \in Keys : hits'[k] \in SUBSET Hit /\ recorded'[k] \in SUBSET Hit BY <2>3
    <3>2. hits' = [k \in Keys |-> hits'[k]] /\ recorded' = [k \in Keys |-> recorded'[k]]
      BY <2>1
    <3> QED BY <3>1, <3>2
  <2> QED BY <2>2, <2>3, <2>4 DEF WindowInv
<1>2. ASSUME Tick PROVE WindowInv'
  <2>1. now' = now + 1 /\ now < MaxTime /\ UNCHANGED <<calls, hits, recorded>>
    BY <1>2 DEF Tick
  <2>2. now \in Nat /\ now' \in Nat /\ now <= now' /\ now' \in 0..MaxTime /\ calls \in Nat
    BY <2>1, Parameters DEF WindowInv
  <2>3. \A k \in Keys : Bucket(k, hits[k], recorded[k], now', calls)
    BY <2>2, BucketLater DEF WindowInv
  <2> QED BY <2>1, <2>2, <2>3 DEF WindowInv
<1>3. ASSUME UNCHANGED windowVars PROVE WindowInv'
  BY <1>3 DEF windowVars, WindowInv
<1> QED BY <1>1, <1>2, <1>3 DEF WindowNext

LEMMA AlwaysWindowInv == WindowSpec => []WindowInv
BY WindowInvInit, WindowInvNext, PTL DEF WindowSpec

(* Types; no deque outgrows its limit (_enforce_window).                   *)
THEOREM WindowTypes == WindowSpec => []WindowTypeOK
<1>1. WindowInv => WindowTypeOK BY DEF WindowInv, WindowTypeOK, Bucket
<1> QED BY <1>1, AlwaysWindowInv, PTL

(* However the requests fall, no interval as long as the window lets more  *)
(* of them through than the limit (_enforce_window, which forgets what is  *)
(* older than the window).                                                 *)
THEOREM WindowAlwaysBounds == WindowSpec => []WindowBound
<1>1. WindowInv => WindowBound BY DEF WindowInv, WindowBound, Bucket
<1> QED BY <1>1, AlwaysWindowInv, PTL
-----------------------------------------------------------------------------
(* Refinement of the ideal limiter.                                        *)

(* The deque has forgotten nothing that still counts, so that both decide  *)
(* alike.                                                                  *)
LEMMA SameDecision ==
  ASSUME WindowInv, NEW k \in Keys
  PROVE  Admits(k) <=> Log!Free(k)
<1>1. Bucket(k, hits[k], recorded[k], now, calls) BY DEF WindowInv
<1>2. Recent(hits[k]) = Log!InWindow(k)
  BY <1>1 DEF Bucket, Recent, Log!InWindow
<1>3. Limit(k) = Log!Limit(k) BY DEF Limit, Log!Limit
<1>4. Limit(k) \in Nat BY LimitType
<1> QED BY <1>2, <1>3, <1>4 DEF Admits, Log!Free, Cardinality, Log!Cardinality

(* What is appended to a bucket: the hit, when the limit is on and admits. *)
LEMMA Appended ==
  ASSUME WindowInv, NEW k \in Keys, calls < MaxCalls
  PROVE  LET h == [at |-> now, no |-> calls + 1] IN
           Enforced(k, h) \ hits[k] = IF Limit(k) > 0 /\ Admits(k) THEN {h} ELSE {}
<1> DEFINE h == [at |-> now, no |-> calls + 1]
<1>1. Limit(k) \in Nat BY LimitType
<1>2. Recent(hits[k]) \subseteq hits[k] BY DEF Recent
<1>3. CASE Limit(k) > 0 /\ Admits(k)
  <2>1. h \notin hits[k] BY <1>3, BucketGrows
  <2>2. Enforced(k, h) = Recent(hits[k]) \cup {h} BY <1>1, <1>3 DEF Enforced
  <2>3. Enforced(k, h) \ hits[k] = {h} BY <1>2, <2>1, <2>2
  <2> QED BY <1>3, <2>3
<1>4. CASE ~(Limit(k) > 0 /\ Admits(k))
  <2>1. Enforced(k, h) \subseteq hits[k] BY <1>1, <1>2, <1>4 DEF Enforced
  <2> QED BY <1>4, <2>1
<1> QED BY <1>3, <1>4

LEMMA WindowInitLogs == WindowInit => Log!Init
BY DEF WindowInit, Keys, Log!Init, Log!Callers

LEMMA CallLogs ==
  ASSUME WindowInv, NEW op \in Ops, NEW ip, NEW session, Call(op, ip, session)
  PROVE  recorded' = Log!Charged(op, ip, session)
<1> DEFINE h == [at |-> now, no |-> calls + 1]
           ofIp == {k \in Keys : k = <<op, ip>>}
           ofSession == {k \in Keys : k = <<op, session>> /\ \A i \in ofIp : Admits(i)}
           charged == {k \in ofIp \cup ofSession : Log!Limit(k) > 0 /\ Log!Free(k)}
<1>1. /\ calls < MaxCalls
      /\ hits' = [k \in Keys |-> IF k \in ofIp \cup ofSession THEN Enforced(k, h) ELSE hits[k]]
      /\ recorded' = [k \in Keys |-> recorded[k] \cup (hits'[k] \ hits[k])]
  BY DEF Call
<1>2. DOMAIN recorded = Keys BY DEF WindowInv
<1>3. ofSession = {k \in Keys : k = <<op, session>> /\ \A i \in ofIp : Log!Free(i)}
  BY SameDecision
<1>4. Log!Charged(op, ip, session) =
        [k \in Keys |-> IF k \in charged THEN recorded[k] \cup {h} ELSE recorded[k]]
  BY <1>2, <1>3 DEF Log!Charged
<1> HIDE DEF ofIp, ofSession
<1>5. ASSUME NEW k \in Keys
      PROVE  recorded[k] \cup (hits'[k] \ hits[k])
               = IF k \in charged THEN recorded[k] \cup {h} ELSE recorded[k]
  <2>1. Enforced(k, h) \ hits[k] = IF Limit(k) > 0 /\ Admits(k) THEN {h} ELSE {}
    BY <1>1, Appended
  <2>2. Limit(k) > 0 /\ Admits(k) <=> Log!Limit(k) > 0 /\ Log!Free(k)
    BY SameDecision DEF Limit, Log!Limit
  <2> HIDE DEF h
  <2>3. CASE k \in ofIp \cup ofSession
    <3>1. hits'[k] = Enforced(k, h) BY <1>1, <2>3
    <3> QED BY <2>1, <2>2, <2>3, <3>1
  <2>4. CASE k \notin ofIp \cup ofSession
    <3>1. hits'[k] = hits[k] BY <1>1, <2>4
    <3> QED BY <2>4, <3>1
  <2> QED BY <2>3, <2>4
<1> HIDE DEF charged, h
<1> QED BY <1>1, <1>4, <1>5

LEMMA WindowStepLogs == WindowInv /\ [WindowNext]_windowVars => [Log!Next]_Log!vars
<1> SUFFICES ASSUME WindowInv, [WindowNext]_windowVars PROVE [Log!Next]_Log!vars OBVIOUS
<1>1. ASSUME NEW op \in Ops, NEW ip \in Ips \cup {Nobody}, NEW session \in Sessions \cup {Nobody},
             Call(op, ip, session)
      PROVE  Log!Request
  <2>1. recorded' = Log!Charged(op, ip, session) BY <1>1, CallLogs
  <2>2. calls < MaxCalls /\ calls' = calls + 1 /\ UNCHANGED now BY <1>1 DEF Call
  <2> QED BY <2>1, <2>2 DEF Log!Request
<1>2. ASSUME Tick PROVE Log!Tick BY <1>2 DEF Tick, Log!Tick
<1>3. ASSUME UNCHANGED windowVars PROVE UNCHANGED Log!vars
  BY <1>3 DEF windowVars, Log!vars
<1> QED BY <1>1, <1>2, <1>3 DEF WindowNext, Log!Next

(* The limiter is the ideal one: although it forgets, it lets each request *)
(* through exactly when fewer requests than the limit were let through     *)
(* during the last window (_enforce_window, enforce_per_minute_limits).    *)
THEOREM WindowIsSlidingLog == WindowSpec => IsSlidingLog
<1>1. WindowInv => DecidesAlike BY CallLogs DEF DecidesAlike
<1> QED
  BY <1>1, WindowInitLogs, WindowStepLogs, AlwaysWindowInv, PTL
     DEF WindowSpec, IsSlidingLog, Log!Spec
=============================================================================
