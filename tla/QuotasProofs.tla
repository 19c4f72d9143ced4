----------------------------- MODULE QuotasProofs -----------------------------
(***************************************************************************)
(* Theorems about Quotas, for any requests, sessions, documents and        *)
(* limits.                                                                 *)
(***************************************************************************)
EXTENDS Quotas, FiniteSetTheorems, TLAPS

-----------------------------------------------------------------------------
(* A request that has passed a check and has not yet used what it was      *)
(* granted has a claim.  What is used and what is claimed together stay    *)
(* within the limit, but for the other requests being served.              *)

Claiming(q, s, m) ==
  /\ q # Idle /\ q.by = s
  /\ \/ m = "uploads" /\ q.op = "text" /\ q.pc \in {"capacity", "commit"}
     \/ m \in {"uploads", "bytes"} /\ q.op = "upload" /\ q.pc = "commit"
     \/ m \in RunTypes /\ q.op = m /\ q.pc = "log"
Claims(s, m) == {p \in Slots : Claiming(req[p], s, m)}

Queueing(q, s) ==
  /\ q # Idle /\ q.by = s
  /\ \/ q.op = "upload" /\ q.pc = "quota"
     \/ q.op \notin RunTypes /\ q.pc = "commit"
QueueClaims(s) == {p \in Slots : Queueing(req[p], s)}

InMeters ==
  \A s \in Owners, m \in Meters :
    today[s][m] + Cardinality(Claims(s, m)) < PerDay[m] + Cardinality(Slots)

InQueue ==
  MaxActive > 0 => \A s \in Owners :
    Cardinality(Waiting(s)) + Cardinality(QueueClaims(s)) < MaxActive + Cardinality(Slots)

(* What is known of a request beyond its type.                             *)
Sensible(q) ==
  q # Idle =>
    /\ q \in Request
    /\ q.op = "text" => q.pc \in {"quota", "capacity", "commit", "enqueue"}
    /\ q.op = "upload" =>
         q.left > 0 /\ q.pc \in {"entry", "capacity", "quota", "commit", "enqueue"}
    /\ q.op \in {"reindex", "requeue"} =>
         q.pc \in {"capacity", "commit", "enqueue"} /\ q.target \in Of(q.by)
    /\ q.op \in RunTypes => q.pc \in {"runs", "log"}
    /\ q.op # "upload" => q.left = 0
    /\ q.pc = "enqueue" => q.target \in Of(q.by)

Types ==
  /\ doc \in [Docs -> Row \cup {NoRow}]
  /\ today \in [Owners -> [Meters -> Nat]]
  /\ req \in [Slots -> Request \cup {Idle}]
  /\ faults \in 0..MaxFaults

QuotaInv ==
  /\ Types /\ InMeters /\ InQueue /\ StrandedBounded
  /\ \A p \in Slots : Sensible(req[p])

-----------------------------------------------------------------------------
(* Counting *)

LEMMA Parameters ==
  /\ MaxActive \in Nat /\ MaxFiles \in Nat /\ MaxFaults \in Nat
  /\ \A m \in Meters : PerDay[m] \in Nat
  /\ Cardinality(Slots) \in Nat /\ Cardinality(Slots) > 0
<1>1. Cardinality(Slots) \in Nat /\ Cardinality(Slots) # 0
  BY SlotAssumption, FS_CardinalityType, FS_EmptySet
<1> QED BY <1>1, QuotaAssumption

LEMMA SubsetCounts ==
  ASSUME NEW S, NEW T, IsFiniteSet(T), S \subseteq T
  PROVE  /\ IsFiniteSet(S) /\ Cardinality(S) \in Nat /\ Cardinality(T) \in Nat
         /\ Cardinality(S) <= Cardinality(T)
BY FS_Subset, FS_CardinalityType

LEMMA OneLess ==
  ASSUME NEW S, NEW T, NEW x \in T, IsFiniteSet(T), S \subseteq T \ {x}
  PROVE  Cardinality(S) + 1 <= Cardinality(T)
<1>1. IsFiniteSet(T \ {x}) /\ Cardinality(T \ {x}) = Cardinality(T) - 1
      /\ Cardinality(T) \in Nat
  BY FS_RemoveElement, FS_CardinalityType
<1>2. Cardinality(S) <= Cardinality(T \ {x}) /\ Cardinality(S) \in Nat
  BY <1>1, SubsetCounts
<1> QED BY <1>1, <1>2

LEMMA OneMore ==
  ASSUME NEW S, NEW T, NEW x, IsFiniteSet(T), S \subseteq T \cup {x}
  PROVE  Cardinality(S) <= Cardinality(T) + 1
<1>1. IsFiniteSet(T \cup {x}) /\ Cardinality(T \cup {x}) <= Cardinality(T) + 1
      /\ Cardinality(T \cup {x}) \in Nat /\ Cardinality(T) \in Nat
  BY FS_AddElement, FS_CardinalityType
<1>2. Cardinality(S) <= Cardinality(T \cup {x}) /\ Cardinality(S) \in Nat
  BY <1>1, SubsetCounts
<1> QED BY <1>1, <1>2

LEMMA ClaimsFinite ==
  ASSUME NEW s, NEW m
  PROVE  /\ IsFiniteSet(Claims(s, m)) /\ Cardinality(Claims(s, m)) \in Nat
         /\ IsFiniteSet(QueueClaims(s)) /\ Cardinality(QueueClaims(s)) \in Nat
         /\ IsFiniteSet(Waiting(s)) /\ Cardinality(Waiting(s)) \in Nat
         /\ IsFiniteSet(Active(s)) /\ Cardinality(Active(s)) \in Nat
         /\ Cardinality(Waiting(s)) <= Cardinality(Active(s))
<1>1. Claims(s, m) \subseteq Slots /\ QueueClaims(s) \subseteq Slots
  BY DEF Claims, QueueClaims
<1>2. Waiting(s) \subseteq Active(s) /\ Active(s) \subseteq Docs
  BY DEF Waiting, Active, Of
<1> QED BY <1>1, <1>2, SubsetCounts, SlotAssumption

-----------------------------------------------------------------------------
(* A meter stays within its limit when nothing new is claimed of it, when  *)
(* what is claimed was checked, and when a claim is used up.               *)
LEMMA MeterStep ==
  ASSUME Types, InMeters, NEW s \in Owners, NEW m \in Meters, today'[s][m] \in Nat,
         \/ Claims(s, m)' \subseteq Claims(s, m) /\ today'[s][m] <= today[s][m]
         \/ HasQuota(s, m) /\ Claims(s, m)' \subseteq Slots /\ today'[s][m] <= today[s][m]
         \/ /\ today'[s][m] <= today[s][m] + 1
            /\ \E p \in Claims(s, m) : Claims(s, m)' \subseteq Claims(s, m) \ {p}
  PROVE  today'[s][m] + Cardinality(Claims(s, m)') < PerDay[m] + Cardinality(Slots)
<1>1. /\ today[s][m] \in Nat /\ Cardinality(Claims(s, m)) \in Nat /\ PerDay[m] \in Nat
      /\ Cardinality(Slots) \in Nat /\ IsFiniteSet(Claims(s, m))
      /\ today[s][m] + Cardinality(Claims(s, m)) < PerDay[m] + Cardinality(Slots)
  BY Parameters, ClaimsFinite DEF Types, InMeters
<1>2. CASE Claims(s, m)' \subseteq Claims(s, m) /\ today'[s][m] <= today[s][m]
  <2>1. Cardinality(Claims(s, m)') <= Cardinality(Claims(s, m))
        /\ Cardinality(Claims(s, m)') \in Nat
    BY <1>1, <1>2, SubsetCounts
  <2> QED BY <1>1, <1>2, <2>1
<1>3. CASE HasQuota(s, m) /\ Claims(s, m)' \subseteq Slots /\ today'[s][m] <= today[s][m]
  <2>1. Cardinality(Claims(s, m)') <= Cardinality(Slots) /\ Cardinality(Claims(s, m)') \in Nat
    BY <1>3, SubsetCounts, SlotAssumption
  <2> QED BY <1>1, <1>3, <2>1 DEF HasQuota
<1>4. CASE /\ today'[s][m] <= today[s][m] + 1
           /\ \E p \in Claims(s, m) : Claims(s, m)' \subseteq Claims(s, m) \ {p}
  <2>1. PICK p \in Claims(s, m) : Claims(s, m)' \subseteq Claims(s, m) \ {p} BY <1>4
  <2>2. Cardinality(Claims(s, m)') + 1 <= Cardinality(Claims(s, m)) BY <1>1, <2>1, OneLess
  <2>3. Cardinality(Claims(s, m)') \in Nat BY <1>1, <2>1, SubsetCounts
  <2> QED BY <1>1, <1>4, <2>2, <2>3
<1> QED BY <1>2, <1>3, <1>4

(* So does the queue.                                                      *)
LEMMA QueueStep ==
  ASSUME Types, InQueue, MaxActive > 0, NEW s \in Owners,
         \/ Waiting(s)' \subseteq Waiting(s) /\ QueueClaims(s)' \subseteq QueueClaims(s)
         \/ /\ HasCapacity(s) /\ Waiting(s)' \subseteq Waiting(s)
            /\ QueueClaims(s)' \subseteq Slots
         \/ /\ \E d \in Docs : Waiting(s)' \subseteq Waiting(s) \cup {d}
            /\ \E p \in QueueClaims(s) : QueueClaims(s)' \subseteq QueueClaims(s) \ {p}
  PROVE  Cardinality(Waiting(s)') + Cardinality(QueueClaims(s)')
           < MaxActive + Cardinality(Slots)
<1>1. /\ Cardinality(Waiting(s)) \in Nat /\ Cardinality(QueueClaims(s)) \in Nat
      /\ MaxActive \in Nat /\ Cardinality(Slots) \in Nat
      /\ IsFiniteSet(Waiting(s)) /\ IsFiniteSet(QueueClaims(s))
      /\ Cardinality(Waiting(s)) + Cardinality(QueueClaims(s)) < MaxActive + Cardinality(Slots)
      /\ Cardinality(Waiting(s)) <= Cardinality(Active(s)) /\ Cardinality(Active(s)) \in Nat
  BY Parameters, ClaimsFinite DEF InQueue
<1>2. CASE Waiting(s)' \subseteq Waiting(s) /\ QueueClaims(s)' \subseteq QueueClaims(s)
  <2>1. /\ Cardinality(Waiting(s)') <= Cardinality(Waiting(s))
        /\ Cardinality(Waiting(s)') \in Nat
        /\ Cardinality(QueueClaims(s)') <= Cardinality(QueueClaims(s))
        /\ Cardinality(QueueClaims(s)') \in Nat
    BY <1>1, <1>2, SubsetCounts
  <2> QED BY <1>1, <2>1
<1>3. CASE HasCapacity(s) /\ Waiting(s)' \subseteq Waiting(s) /\ QueueClaims(s)' \subseteq Slots
  <2>1. /\ Cardinality(Waiting(s)') <= Cardinality(Waiting(s))
        /\ Cardinality(Waiting(s)') \in Nat
        /\ Cardinality(QueueClaims(s)') <= Cardinality(Slots)
        /\ Cardinality(QueueClaims(s)') \in Nat
    BY <1>1, <1>3, SubsetCounts, SlotAssumption
  <2> QED BY <1>1, <1>3, <2>1 DEF HasCapacity
<1>4. CASE /\ \E d \in Docs : Waiting(s)' \subseteq Waiting(s) \cup {d}
           /\ \E p \in QueueClaims(s) : QueueClaims(s)' \subseteq QueueClaims(s) \ {p}
  <2>1. Cardinality(Waiting(s)') <= Cardinality(Waiting(s)) + 1
    BY <1>1, <1>4, OneMore
  <2>2. Cardinality(QueueClaims(s)') + 1 <= Cardinality(QueueClaims(s))
    BY <1>1, <1>4, OneLess
  <2>3. Cardinality(Waiting(s)') \in Nat
    <3>1. PICK d \in Docs : Waiting(s)' \subseteq Waiting(s) \cup {d} BY <1>4
    <3>2. IsFiniteSet(Waiting(s) \cup {d}) BY <1>1, FS_AddElement
    <3> QED BY <3>1, <3>2, SubsetCounts
  <2>4. Cardinality(QueueClaims(s)') \in Nat BY <1>1, <1>4, SubsetCounts
  <2> QED BY <1>1, <2>1, <2>2, <2>3, <2>4
<1> QED BY <1>2, <1>3, <1>4

LEMMA OneTimesMore ==
  ASSUME NEW n \in Nat, NEW c \in Nat
  PROVE  n * c \in Nat /\ (n + 1) * c = n * c + c
OBVIOUS

(* More documents are stranded only when a failure pays for them.          *)
LEMMA StrandedStep ==
  ASSUME Types, StrandedBounded,
         \/ UNCHANGED faults /\ Stranded' \subseteq Stranded
         \/ Fault /\ \E S : /\ IsFiniteSet(S) /\ Cardinality(S) <= Cardinality(Slots)
                            /\ Stranded' \subseteq Stranded \cup S
  PROVE  StrandedBounded'
<1> DEFINE n == MaxFaults - faults
           c == Cardinality(Slots)
<1>1. c \in Nat /\ n \in Nat /\ faults \in 0..MaxFaults /\ MaxFaults \in Nat
  BY Parameters DEF Types
<1>2. IsFiniteSet(Stranded) /\ Cardinality(Stranded) \in Nat
  <2>1. Stranded \subseteq Docs BY DEF Stranded
  <2> QED BY <2>1, SubsetCounts, SlotAssumption
<1>3. Cardinality(Stranded) <= n * c BY DEF StrandedBounded
<1>4. CASE UNCHANGED faults /\ Stranded' \subseteq Stranded
  <2>1. Cardinality(Stranded') \in Nat /\ Cardinality(Stranded') <= Cardinality(Stranded)
    BY <1>2, <1>4, SubsetCounts
  <2>2. n * c \in Nat BY <1>1, OneTimesMore
  <2> HIDE DEF n
  <2>3. Cardinality(Stranded') <= n * c BY <1>2, <1>3, <2>1, <2>2
  <2> QED BY <1>4, <2>3 DEF StrandedBounded, n
<1>5. ASSUME Fault, NEW S, IsFiniteSet(S), Cardinality(S) <= c,
             Stranded' \subseteq Stranded \cup S
      PROVE  StrandedBounded'
  <2>1. /\ IsFiniteSet(Stranded \cup S)
        /\ Cardinality(Stranded \cup S)
             = Cardinality(Stranded) + Cardinality(S) - Cardinality(Stranded \cap S)
        /\ IsFiniteSet(Stranded \cap S)
    BY <1>2, <1>5, FS_Union, FS_Intersection
  <2>2. /\ Cardinality(S) \in Nat /\ Cardinality(Stranded \cap S) \in Nat
        /\ Cardinality(Stranded') \in Nat
        /\ Cardinality(Stranded') <= Cardinality(Stranded \cup S)
    BY <1>5, <2>1, SubsetCounts, FS_CardinalityType
  <2>3. n * c \in Nat /\ (n + 1) * c = n * c + c BY <1>1, OneTimesMore
  <2>4. MaxFaults - faults' = n + 1 BY <1>1, <1>5 DEF Fault
  <2> HIDE DEF n, c
  <2>5. Cardinality(Stranded') <= (n + 1) * c
    BY <1>1, <1>2, <1>3, <1>5, <2>1, <2>2, <2>3
  <2> QED BY <2>4, <2>5 DEF StrandedBounded, c
<1> QED BY <1>4, <1>5

LEMMA OneStranded ==
  ASSUME Types, StrandedBounded, Fault, NEW d, Stranded' \subseteq Stranded \cup {d}
  PROVE  StrandedBounded'
<1>1. IsFiniteSet({d}) /\ Cardinality({d}) = 1 BY FS_Singleton
<1>2. 1 <= Cardinality(Slots) BY Parameters
<1> QED BY <1>1, <1>2, StrandedStep

-----------------------------------------------------------------------------
(* One request moves and the rows stay.                                    *)

LEMMA SetReqShape ==
  ASSUME Types, NEW p \in Slots, NEW q \in Request \cup {Idle}, SetReq(p, q)
  PROVE  /\ req' \in [Slots -> Request \cup {Idle}] /\ req'[p] = q
         /\ \A o \in Slots \ {p} : req'[o] = req[o]
BY DEF SetReq, Types

LEMMA RequestStep ==
  ASSUME QuotaInv, NEW p \in Slots, NEW q \in Request \cup {Idle}, SetReq(p, q),
         UNCHANGED <<doc, today, faults>>, ~At(p, "enqueue"), Sensible(q),
         \A s \in Owners, m \in Meters :
           Claiming(q, s, m) => Claiming(req[p], s, m) \/ HasQuota(s, m),
         \A s \in Owners :
           Queueing(q, s) => Queueing(req[p], s) \/ HasCapacity(s)
  PROVE  QuotaInv'
<1>1. /\ req' \in [Slots -> Request \cup {Idle}] /\ req'[p] = q
      /\ \A o \in Slots \ {p} : req'[o] = req[o]
  BY SetReqShape DEF QuotaInv
<1>3. Types' BY <1>1 DEF QuotaInv, Types
<1>5. ASSUME NEW o \in Slots PROVE Sensible(req[o])'
  <2>1. Sensible(req'[o]) BY <1>1 DEF QuotaInv
  <2> QED BY <2>1 DEF Sensible, Of
<1>6. InMeters'
  <2>1. ASSUME NEW s \in Owners, NEW m \in Meters
        PROVE  today'[s][m] + Cardinality(Claims(s, m)') < PerDay[m] + Cardinality(Slots)
    <3>1. today'[s][m] \in Nat /\ today'[s][m] <= today[s][m] BY DEF QuotaInv, Types
    <3>2. Claims(s, m)' \subseteq Slots BY DEF Claims
    <3>3. CASE Claiming(q, s, m) => Claiming(req[p], s, m)
      <4>1. Claims(s, m)' \subseteq Claims(s, m) BY <1>1, <3>3 DEF Claims, Claiming
      <4> QED BY <3>1, <4>1, MeterStep DEF QuotaInv
    <3>4. CASE HasQuota(s, m)
      BY <3>1, <3>2, <3>4, MeterStep DEF QuotaInv
    <3> QED BY <3>3, <3>4
  <2> QED BY <2>1 DEF InMeters
<1>7. InQueue'
  <2> SUFFICES ASSUME MaxActive > 0, NEW s \in Owners
               PROVE  Cardinality(Waiting(s)') + Cardinality(QueueClaims(s)')
                        < MaxActive + Cardinality(Slots)
    BY DEF InQueue
  <2>1. Waiting(s)' \subseteq Waiting(s) BY DEF Waiting, Of
  <2>2. QueueClaims(s)' \subseteq Slots BY DEF QueueClaims
  <2>3. CASE Queueing(q, s) => Queueing(req[p], s)
    <3>1. QueueClaims(s)' \subseteq QueueClaims(s) BY <1>1, <2>3 DEF QueueClaims, Queueing
    <3> QED BY <2>1, <3>1, QueueStep DEF QuotaInv
  <2>4. CASE HasCapacity(s) BY <2>1, <2>2, <2>4, QueueStep DEF QuotaInv
  <2> QED BY <2>3, <2>4
<1>8. StrandedBounded'
  <2>1. \A o \in Slots : \A d : At(o, "enqueue") /\ Holds(o, d) => At(o, "enqueue")' /\ Holds(o, d)'
    BY <1>1 DEF At, Holds
  <2>2. Stranded' \subseteq Stranded BY <2>1 DEF Stranded
  <2> QED BY <2>2, StrandedStep DEF QuotaInv
<1> QED BY <1>3, <1>5, <1>6, <1>7, <1>8 DEF QuotaInv

LEMMA IdleClaimsNothing ==
  /\ Sensible(Idle) /\ \A s, m : ~Claiming(Idle, s, m) /\ ~Queueing(Idle, s)
BY DEF Sensible, Claiming, Queueing

LEMMA FaultType == ASSUME Types, Fault PROVE faults' \in 0..MaxFaults
BY Parameters DEF Types, Fault

(* A response that leaves the rows as they are.                            *)
LEMMA RespondStep ==
  ASSUME QuotaInv, NEW p \in Slots, Respond(p), UNCHANGED <<doc, today, faults>>,
         ~At(p, "enqueue")
  PROVE  QuotaInv'
<1>1. SetReq(p, Idle) /\ Idle \in Request \cup {Idle} BY DEF Respond
<1> HIDE DEF Idle
<1> QED BY <1>1, IdleClaimsNothing, RequestStep

LEMMA ArriveStep ==
  ASSUME QuotaInv, NEW p \in Slots, NEW s \in Owners, NEW op \in Handlers, Arrive(p, s, op)
  PROVE  QuotaInv'
<1>1. /\ req[p] = Idle /\ UNCHANGED <<doc, today, faults>>
      /\ \E q : /\ SetReq(p, q)
               /\ \/ op = "text" /\ q = New(op, s, "quota", 0, NoDoc)
                  \/ op = "upload" /\ \E n \in 1..MaxFiles : q = New(op, s, "entry", n, NoDoc)
                  \/ /\ op \in {"reindex", "requeue"}
                     /\ \E d \in Of(s) : q = New(op, s, "capacity", 0, d)
                  \/ op \in RunTypes /\ q = New(op, s, "runs", 0, NoDoc)
  BY DEF Arrive
<1>2. PICK q : /\ SetReq(p, q)
               /\ \/ op = "text" /\ q = New(op, s, "quota", 0, NoDoc)
                  \/ op = "upload" /\ \E n \in 1..MaxFiles : q = New(op, s, "entry", n, NoDoc)
                  \/ /\ op \in {"reindex", "requeue"}
                     /\ \E d \in Of(s) : q = New(op, s, "capacity", 0, d)
                  \/ op \in RunTypes /\ q = New(op, s, "runs", 0, NoDoc)
  BY <1>1
<1>3. q \in Request /\ Sensible(q)
  <2>1. CASE op = "text"
    BY <1>2, <2>1, Parameters DEF New, Request, Handlers, RunTypes, Sensible
  <2>2. CASE op = "upload"
    BY <1>2, <2>2, Parameters DEF New, Request, Handlers, RunTypes, Sensible
  <2>3. CASE op \in {"reindex", "requeue"}
    BY <1>2, <2>3, Parameters DEF New, Request, Handlers, RunTypes, Sensible, Of
  <2>4. CASE op \in RunTypes
    BY <1>2, <2>4, Parameters DEF New, Request, Handlers, RunTypes, Sensible
  <2> QED BY <2>1, <2>2, <2>3, <2>4 DEF Handlers
<1>4. \A o, m : ~Claiming(q, o, m) /\ ~Queueing(q, o)
  BY <1>2 DEF New, Claiming, Queueing, RunTypes
<1>6. ~At(p, "enqueue") BY <1>1 DEF At
<1> QED BY <1>1, <1>2, <1>3, <1>4, <1>6, RequestStep

LEMMA Serving ==
  ASSUME QuotaInv, NEW p \in Slots, NEW pc, At(p, pc)
  PROVE  /\ req[p] # Idle /\ req[p] \in Request /\ req[p].pc = pc /\ req[p].by \in Owners
         /\ Sensible(req[p])
<1>1. req[p] # Idle /\ req[p].pc = pc BY DEF At
<1>2. Sensible(req[p]) BY DEF QuotaInv
<1>3. req[p] \in Request /\ req[p].by \in Owners BY <1>1, <1>2 DEF Sensible, Request
<1> QED BY <1>1, <1>2, <1>3

(* A request that goes on, with nothing stored yet.                        *)
LEMMA GoToStep ==
  ASSUME QuotaInv, NEW p \in Slots, NEW pc, At(p, pc), pc # "enqueue",
         NEW to \in {"capacity", "quota", "commit", "log"}, GoTo(p, to),
         UNCHANGED <<doc, today, faults>>,
         LET q == [req[p] EXCEPT !.pc = to] IN
           /\ Sensible(q)
           /\ \A m \in Meters : Claiming(q, req[p].by, m) =>
                Claiming(req[p], req[p].by, m) \/ HasQuota(req[p].by, m)
           /\ Queueing(q, req[p].by) => Queueing(req[p], req[p].by) \/ HasCapacity(req[p].by)
  PROVE  QuotaInv'
<1> DEFINE q == [req[p] EXCEPT !.pc = to]
<1>1. /\ req[p] # Idle /\ req[p] \in Request /\ req[p].pc = pc /\ req[p].by \in Owners
  BY Serving
<1>2. q \in Request /\ SetReq(p, q) /\ q.by = req[p].by
  BY <1>1 DEF Request, GoTo
<1>3. \A s \in Owners, m \in Meters :
        Claiming(q, s, m) => Claiming(req[p], s, m) \/ HasQuota(s, m)
  <2>1. \A s \in Owners, m \in Meters : Claiming(q, s, m) => s = req[p].by
    BY <1>2 DEF Claiming
  <2> QED BY <2>1
<1>4. \A s \in Owners : Queueing(q, s) => Queueing(req[p], s) \/ HasCapacity(s)
  <2>1. \A s \in Owners : Queueing(q, s) => s = req[p].by
    BY <1>2 DEF Queueing
  <2> QED BY <2>1
<1>5. Sensible(q) /\ ~At(p, "enqueue")
  BY <1>1 DEF At
<1> HIDE DEF q
<1> QED BY <1>2, <1>3, <1>4, <1>5, RequestStep

(* What becomes of a request whose pc moves on.                            *)
LEMMA Moved ==
  ASSUME NEW q \in Request, NEW to
  PROVE  LET a == [q EXCEPT !.pc = to] IN
           /\ a.op = q.op /\ a.by = q.by /\ a.pc = to /\ a.left = q.left /\ a.target = q.target
           /\ a # Idle
<1> DEFINE a == [q EXCEPT !.pc = to]
<1>1. a.op = q.op /\ a.by = q.by /\ a.pc = to /\ a.left = q.left /\ a.target = q.target
  BY DEF Request
<1>2. a.op # "none" BY <1>1 DEF Request, Handlers, RunTypes
<1>3. Idle.op = "none" BY DEF Idle
<1>4. a # Idle BY <1>2, <1>3
<1> QED BY <1>1, <1>4

LEMMA MovedType ==
  ASSUME NEW q \in Request, NEW to \in {"capacity", "quota", "commit", "log"}
  PROVE  [q EXCEPT !.pc = to] \in Request
BY DEF Request

LEMMA EntryStep == ASSUME QuotaInv, NEW p \in Slots, Entry(p) PROVE QuotaInv'
<1> DEFINE q == [req[p] EXCEPT !.pc = "capacity"]
<1>1. At(p, "entry") /\ UNCHANGED <<doc, today, faults>> BY DEF Entry
<1>2. /\ req[p] # Idle /\ req[p] \in Request /\ req[p].pc = "entry" /\ Sensible(req[p])
  BY <1>1, Serving
<1>3. req[p].op = "upload" BY <1>2 DEF Sensible, Request, Handlers
<1>4. CASE GoTo(p, "capacity")
  <2>1. /\ q.op = "upload" /\ q.by = req[p].by /\ q.pc = "capacity" /\ q.left = req[p].left
        /\ q.target = req[p].target /\ q \in Request
    BY <1>2, <1>3, Moved, MovedType
  <2>2. Sensible(q)
    BY <1>2, <1>3, <2>1 DEF Sensible, RunTypes
  <2>3. (\A s, m : ~Claiming(q, s, m)) /\ ~Queueing(q, req[p].by)
    BY <2>1 DEF Claiming, Queueing, RunTypes
  <2> QED BY <1>1, <1>4, <2>2, <2>3, GoToStep
<1>5. CASE Respond(p)
  <2>1. ~At(p, "enqueue") BY <1>2 DEF At
  <2> QED BY <1>1, <1>5, <2>1, RespondStep
<1> QED BY <1>4, <1>5 DEF Entry

LEMMA CapacityStep == ASSUME QuotaInv, NEW p \in Slots, Capacity(p) PROVE QuotaInv'
<1> DEFINE to == AfterCapacity(req[p].op)
           q == [req[p] EXCEPT !.pc = to]
<1>1. At(p, "capacity") /\ UNCHANGED <<doc, today, faults>> BY DEF Capacity
<1>2. /\ req[p] # Idle /\ req[p] \in Request /\ req[p].pc = "capacity" /\ Sensible(req[p])
  BY <1>1, Serving
<1>3. req[p].op \in {"text", "upload", "reindex", "requeue"}
  BY <1>2 DEF Sensible, Request, Handlers
<1>4. CASE HasCapacity(req[p].by) /\ GoTo(p, to)
  <2>1. to \in {"quota", "commit"} /\ (to = "quota" <=> req[p].op = "upload")
    BY DEF AfterCapacity
  <2> HIDE DEF to
  <2>2. /\ q.op = req[p].op /\ q.by = req[p].by /\ q.pc = to /\ q.left = req[p].left
        /\ q.target = req[p].target /\ q \in Request /\ q # Idle
    BY <1>2, <2>1, Moved, MovedType
  <2>3. Sensible(q)
    BY <1>2, <1>3, <2>1, <2>2 DEF Sensible, RunTypes
  <2>4. \A s, m : Claiming(q, s, m) => Claiming(req[p], s, m)
    BY <1>2, <1>3, <2>1, <2>2 DEF Claiming, RunTypes
  <2> HIDE DEF q
  <2> QED BY <1>1, <1>4, <2>1, <2>3, <2>4, GoToStep DEF q
<1>5. CASE Respond(p)
  <2>1. ~At(p, "enqueue") BY <1>2 DEF At
  <2> QED BY <1>1, <1>5, <2>1, RespondStep
<1> QED BY <1>4, <1>5 DEF Capacity

LEMMA QuotaCheckStep == ASSUME QuotaInv, NEW p \in Slots, Quota(p) PROVE QuotaInv'
<1> DEFINE to == IF req[p].op = "text" THEN "capacity" ELSE "commit"
           q == [req[p] EXCEPT !.pc = to]
<1>1. At(p, "quota") /\ UNCHANGED <<doc, today, faults>> BY DEF Quota
<1>2. /\ req[p] # Idle /\ req[p] \in Request /\ req[p].pc = "quota" /\ Sensible(req[p])
  BY <1>1, Serving
<1>3. req[p].op \in {"text", "upload"}
  BY <1>2 DEF Sensible, Request, Handlers
<1>4. CASE (\A m \in {"uploads", "bytes"} : HasQuota(req[p].by, m)) /\ GoTo(p, to)
  <2>1. to \in {"capacity", "commit"} /\ (to = "capacity" <=> req[p].op = "text")
    OBVIOUS
  <2> HIDE DEF to
  <2>2. /\ q.op = req[p].op /\ q.by = req[p].by /\ q.pc = to /\ q.left = req[p].left
        /\ q.target = req[p].target /\ q \in Request /\ q # Idle
    BY <1>2, <2>1, Moved, MovedType
  <2>3. Sensible(q)
    BY <1>2, <1>3, <2>1, <2>2 DEF Sensible, RunTypes
  <2>4. \A m : Claiming(q, req[p].by, m) => m \in {"uploads", "bytes"}
    BY <1>3, <2>1, <2>2 DEF Claiming, RunTypes
  <2>5. Queueing(q, req[p].by) => Queueing(req[p], req[p].by)
    <3>1. CASE req[p].op = "text"
      <4>1. q.op = "text" /\ q.pc = "capacity" BY <2>1, <2>2, <3>1
      <4> HIDE DEF q
      <4> QED BY <4>1 DEF Queueing
    <3>2. CASE req[p].op = "upload"
      <4> HIDE DEF q
      <4> QED BY <1>2, <3>2 DEF Queueing
    <3> QED BY <1>3, <3>1, <3>2
  <2> HIDE DEF q
  <2> QED BY <1>1, <1>4, <2>1, <2>3, <2>4, <2>5, GoToStep DEF q
<1>5. CASE Respond(p)
  <2>1. ~At(p, "enqueue") BY <1>2 DEF At
  <2> QED BY <1>1, <1>5, <2>1, RespondStep
<1> QED BY <1>4, <1>5 DEF Quota

LEMMA RunCheckStep == ASSUME QuotaInv, NEW p \in Slots, RunCheck(p) PROVE QuotaInv'
<1> DEFINE q == [req[p] EXCEPT !.pc = "log"]
<1>1. At(p, "runs") /\ UNCHANGED <<doc, today, faults>> BY DEF RunCheck
<1>2. /\ req[p] # Idle /\ req[p] \in Request /\ req[p].pc = "runs" /\ Sensible(req[p])
  BY <1>1, Serving
<1>3. req[p].op \in RunTypes
  BY <1>2 DEF Sensible, Request, Handlers
<1>4. CASE HasQuota(req[p].by, req[p].op) /\ GoTo(p, "log")
  <2>1. /\ q.op = req[p].op /\ q.by = req[p].by /\ q.pc = "log" /\ q \in Request
        /\ q.left = req[p].left
    BY <1>2, Moved, MovedType
  <2>2. Sensible(q) BY <1>2, <1>3, <2>1 DEF Sensible, RunTypes
  <2>3. /\ \A m : Claiming(q, req[p].by, m) => m = req[p].op
        /\ ~Queueing(q, req[p].by)
    BY <1>3, <2>1 DEF Claiming, Queueing, RunTypes
  <2> HIDE DEF q
  <2> QED BY <1>1, <1>4, <2>2, <2>3, GoToStep DEF q
<1>5. CASE Respond(p)
  <2>1. ~At(p, "enqueue") BY <1>2 DEF At
  <2> QED BY <1>1, <1>5, <2>1, RespondStep
<1> QED BY <1>4, <1>5 DEF RunCheck

-----------------------------------------------------------------------------
(* One row changes and the meters stay: its job or its status moves on.    *)

LEMMA RowsDiffer == ASSUME NEW r \in Row PROVE r # NoRow
<1>1. DOMAIN r = {"owner", "status", "job"} BY DEF Row
<1>2. DOMAIN NoRow = {"owner"} BY DEF NoRow
<1> QED BY <1>1, <1>2

(* What a request was told of a document stays true of its row.            *)
LEMMA StillSensible ==
  ASSUME NEW o \in Slots, Sensible(req'[o]),
         \A d \in Docs : doc[d] # NoRow => doc'[d] # NoRow /\ doc'[d].owner = doc[d].owner
  PROVE  Sensible(req[o])'
BY DEF Sensible, Of

LEMMA RowStep ==
  ASSUME QuotaInv, UNCHANGED today, UNCHANGED faults \/ Fault,
         NEW d \in Docs, doc[d] # NoRow,
         doc' \in [Docs -> Row \cup {NoRow}], \A e \in Docs \ {d} : doc'[e] = doc[e],
         doc'[d] \in Row, doc'[d].owner = doc[d].owner,
         doc'[d].status = doc[d].status \/ doc'[d].status \notin {"pending", "again"},
         doc'[d].status = "pending" /\ doc'[d].job = "none" => Fault,
         req' \in [Slots -> Request \cup {Idle}],
         \A o \in Slots : Sensible(req'[o]),
         \A o \in Slots, s \in Owners :
           /\ \A m \in Meters : Claiming(req'[o], s, m) => Claiming(req[o], s, m)
           /\ Queueing(req'[o], s) => Queueing(req[o], s),
         \A o \in Slots : req'[o] = req[o] \/ Holds(o, d)
  PROVE  QuotaInv'
<1>1. Types' BY FaultType DEF QuotaInv, Types
<1>3. doc'[d] # NoRow BY RowsDiffer
<1>4. ASSUME NEW o \in Slots PROVE Sensible(req[o])'
  BY <1>3, StillSensible
<1>5. InMeters'
  <2>1. ASSUME NEW s \in Owners, NEW m \in Meters
        PROVE  today'[s][m] + Cardinality(Claims(s, m)') < PerDay[m] + Cardinality(Slots)
    <3>1. today'[s][m] \in Nat /\ today'[s][m] <= today[s][m] BY DEF QuotaInv, Types
    <3>2. Claims(s, m)' \subseteq Claims(s, m) BY DEF Claims, Claiming
    <3> QED BY <3>1, <3>2, MeterStep DEF QuotaInv
  <2> QED BY <2>1 DEF InMeters
<1>6. InQueue'
  <2> SUFFICES ASSUME MaxActive > 0, NEW s \in Owners
               PROVE  Cardinality(Waiting(s)') + Cardinality(QueueClaims(s)')
                        < MaxActive + Cardinality(Slots)
    BY DEF InQueue
  <2>1. Waiting(s)' \subseteq Waiting(s) BY DEF Waiting, Of
  <2>2. QueueClaims(s)' \subseteq QueueClaims(s) BY DEF QueueClaims, Queueing
  <2> QED BY <2>1, <2>2, QueueStep DEF QuotaInv
<1>7. StrandedBounded'
  <2>1. ASSUME NEW e \in Stranded', e # d PROVE e \in Stranded
    <3>1. \A o \in Slots : At(o, "enqueue") /\ Holds(o, e) => At(o, "enqueue")' /\ Holds(o, e)'
      BY <2>1 DEF At, Holds
    <3> QED BY <2>1, <3>1 DEF Stranded
  <2>2. CASE Fault
    <3>1. Stranded' \subseteq Stranded \cup {d} BY <2>1
    <3> QED BY <2>2, <3>1, OneStranded DEF QuotaInv
  <2>3. CASE ~Fault
    <3>1. d \notin Stranded' BY <2>3 DEF Stranded
    <3>2. Stranded' \subseteq Stranded BY <2>1, <3>1
    <3> QED BY <2>3, <3>2, StrandedStep DEF QuotaInv
  <2> QED BY <2>2, <2>3
<1> QED BY <1>1, <1>4, <1>5, <1>6, <1>7 DEF QuotaInv

LEMMA WorkStep == ASSUME QuotaInv, Work PROVE QuotaInv'
<1>1. PICK d \in Docs :
        /\ doc[d] # NoRow
        /\ \/ (Start(d) \/ Mark(d) \/ Settle(d) \/ Reap(d)) /\ UNCHANGED faults
           \/ Leave(d)
  BY DEF Work
<1>2. doc \in [Docs -> Row \cup {NoRow}] /\ doc[d] \in Row BY <1>1 DEF QuotaInv, Types
<1>3. /\ doc' \in [Docs -> Row \cup {NoRow}] /\ \A e \in Docs \ {d} : doc'[e] = doc[e]
      /\ doc'[d] \in Row /\ doc'[d].owner = doc[d].owner
      /\ doc'[d].status = doc[d].status \/ doc'[d].status \notin {"pending", "again"}
      /\ UNCHANGED faults \/ Fault
      /\ doc'[d].status = "pending" /\ doc'[d].job = "none" => Fault
  <2>1. CASE Start(d) /\ UNCHANGED faults BY <1>2, <2>1 DEF Start, Row
  <2>2. CASE Mark(d) /\ UNCHANGED faults BY <1>2, <2>2 DEF Mark, Row
  <2>3. CASE Settle(d) /\ UNCHANGED faults BY <1>2, <2>3 DEF Settle, Row
  <2>4. CASE Reap(d) /\ UNCHANGED faults BY <1>2, <2>4 DEF Reap, Row
  <2>5. CASE Leave(d)
    <3>1. PICK job \in {"none", "queued"} : doc' = [doc EXCEPT ![d].job = job]
      BY <2>5 DEF Leave
    <3>2. doc'[d].status = doc[d].status BY <1>2, <3>1 DEF Row
    <3>3. IF doc[d].status = "pending" THEN Fault ELSE UNCHANGED faults BY <2>5 DEF Leave
    <3>4. /\ doc' \in [Docs -> Row \cup {NoRow}] /\ \A e \in Docs \ {d} : doc'[e] = doc[e]
          /\ doc'[d] \in Row /\ doc'[d].owner = doc[d].owner
      BY <1>2, <3>1 DEF Row
    <3> QED BY <3>2, <3>3, <3>4
  <2> QED BY <1>1, <2>1, <2>2, <2>3, <2>4, <2>5
<1>5. UNCHANGED <<today, req>> BY DEF Work
<1>6. req' \in [Slots -> Request \cup {Idle}] /\ \A o \in Slots : Sensible(req'[o])
  BY <1>5 DEF QuotaInv, Types
<1> QED BY <1>1, <1>3, <1>5, <1>6, RowStep

LEMMA EnqueueStep == ASSUME QuotaInv, NEW p \in Slots, Enqueue(p) PROVE QuotaInv'
<1> DEFINE d == req[p].target
<1>1. At(p, "enqueue") /\ UNCHANGED today BY DEF Enqueue
<1>2. /\ req[p] # Idle /\ req[p] \in Request /\ req[p].pc = "enqueue" /\ Sensible(req[p])
  BY <1>1, Serving
<1>3. /\ d \in Docs /\ doc[d] # NoRow /\ doc[d] \in Row
      /\ doc \in [Docs -> Row \cup {NoRow}]
  BY <1>2 DEF Sensible, Of, QuotaInv, Types
<1>5. ASSUME NEW q \in Request \cup {Idle}, SetReq(p, q), Sensible(q),
             UNCHANGED faults \/ Fault,
             \A s, m : ~Claiming(q, s, m) /\ ~Queueing(q, s),
             doc' \in [Docs -> Row \cup {NoRow}], \A e \in Docs \ {d} : doc'[e] = doc[e],
             doc'[d] \in Row, doc'[d].owner = doc[d].owner,
             doc'[d].status = doc[d].status \/ doc'[d].status = "settled",
             doc'[d].status = "pending" /\ doc'[d].job = "none" => Fault
      PROVE  QuotaInv'
  <2>1. /\ req' \in [Slots -> Request \cup {Idle}] /\ req'[p] = q
        /\ \A o \in Slots \ {p} : req'[o] = req[o]
    BY <1>5, SetReqShape DEF QuotaInv
  <2>2. \A o \in Slots : Sensible(req'[o]) BY <1>5, <2>1 DEF QuotaInv
  <2>3. \A o \in Slots, s \in Owners :
          /\ \A m \in Meters : Claiming(req'[o], s, m) => Claiming(req[o], s, m)
          /\ Queueing(req'[o], s) => Queueing(req[o], s)
    BY <1>5, <2>1
  <2>4. Holds(p, d) BY <1>2 DEF Holds
  <2> HIDE DEF d
  <2> QED BY <1>1, <1>3, <1>5, <2>1, <2>2, <2>3, <2>4, RowStep
<1>6. CASE doc' = [doc EXCEPT ![d].job = Queued(@)] /\ SetReq(p, NextFile(req[p]))
           /\ UNCHANGED faults
  <2> DEFINE q == NextFile(req[p])
  <2>1. q \in Request \cup {Idle} /\ Sensible(q) /\ \A s, m : ~Claiming(q, s, m) /\ ~Queueing(q, s)
    <3>1. CASE req[p].left > 1
      <4> DEFINE l == req[p].left - 1
      <4>1. q = [req[p] EXCEPT !.pc = "capacity", !.left = l, !.target = NoDoc]
        BY <3>1 DEF NextFile
      <4>2. req[p].op = "upload" /\ req[p].left \in 0..MaxFiles
        BY <1>2, <3>1 DEF Sensible, Request
      <4>5. l \in 0..MaxFiles /\ l > 0 BY <3>1, <4>2, Parameters
      <4> HIDE DEF q, l
      <4>3. /\ q.op = "upload" /\ q.pc = "capacity" /\ q.left = l
            /\ q.target = NoDoc /\ q \in Request
        BY <1>2, <4>1, <4>2, <4>5 DEF Request
      <4>4. Sensible(q)
        BY <4>3, <4>5, Parameters DEF Sensible, RunTypes
      <4> QED BY <4>3, <4>4 DEF Claiming, Queueing, RunTypes
    <3>2. CASE ~(req[p].left > 1)
      <4>1. q = Idle BY <3>2 DEF NextFile
      <4> QED BY <4>1, IdleClaimsNothing
    <3> QED BY <3>1, <3>2
  <2>2. Queued(doc[d].job) \in {"queued", "started"}
    BY <1>3 DEF Queued, Row
  <2>3. /\ doc' \in [Docs -> Row \cup {NoRow}] /\ \A e \in Docs \ {d} : doc'[e] = doc[e]
        /\ doc'[d] \in Row /\ doc'[d].owner = doc[d].owner
        /\ doc'[d].status = doc[d].status /\ doc'[d].job = Queued(doc[d].job)
    BY <1>3, <1>6, <2>2 DEF Row
  <2> HIDE DEF q, d
  <2> QED BY <1>5, <1>6, <2>1, <2>2, <2>3 DEF q, d
<1>7. CASE MarkFailed(d) /\ Respond(p) /\ UNCHANGED faults
  <2>1. SetReq(p, Idle) /\ Idle \in Request \cup {Idle} BY <1>7 DEF Respond
  <2>2. PICK job \in {doc[d].job, Queued(doc[d].job)} :
          doc' = [doc EXCEPT ![d].status = "settled", ![d].job = job]
    BY <1>7 DEF MarkFailed
  <2>3. job \in {"none", "queued", "started"} BY <1>3, <2>2 DEF Queued, Row
  <2>4. /\ doc' \in [Docs -> Row \cup {NoRow}] /\ \A e \in Docs \ {d} : doc'[e] = doc[e]
        /\ doc'[d] \in Row /\ doc'[d].owner = doc[d].owner /\ doc'[d].status = "settled"
    BY <1>3, <2>2, <2>3 DEF Row
  <2> HIDE DEF d, Idle
  <2> QED BY <1>5, <1>7, <2>1, <2>4, IdleClaimsNothing
<1>8. ASSUME NEW job \in {doc[d].job, Queued(doc[d].job)}, Respond(p), Fault,
             doc' = [doc EXCEPT ![d].job = job]
      PROVE  QuotaInv'
  <2>1. SetReq(p, Idle) /\ Idle \in Request \cup {Idle} BY <1>8 DEF Respond
  <2>2. job \in {"none", "queued", "started"} BY <1>3 DEF Queued, Row
  <2>3. /\ doc' \in [Docs -> Row \cup {NoRow}] /\ \A e \in Docs \ {d} : doc'[e] = doc[e]
        /\ doc'[d] \in Row /\ doc'[d].owner = doc[d].owner /\ doc'[d].status = doc[d].status
    BY <1>3, <1>8, <2>2 DEF Row
  <2> HIDE DEF d, Idle
  <2> QED BY <1>5, <1>8, <2>1, <2>3, IdleClaimsNothing
<1> QED BY <1>6, <1>7, <1>8 DEF Enqueue

-----------------------------------------------------------------------------
(* A request uses its claims.                                              *)

LEMMA CountShape ==
  ASSUME Types, NEW s \in Owners, NEW meters, Count(s, meters)
  PROVE  /\ today' \in [Owners -> [Meters -> Nat]]
         /\ \A o \in Owners, m \in Meters :
              /\ today'[o][m] <= today[o][m] + 1
              /\ o # s \/ m \notin meters => today'[o][m] = today[o][m]
<1> DEFINE now == [m \in Meters |-> today[s][m] + IF m \in meters THEN 1 ELSE 0]
<1>1. today \in [Owners -> [Meters -> Nat]] BY DEF Types
<1>2. today' = [today EXCEPT ![s] = now] BY DEF Count
<1>3. now \in [Meters -> Nat] BY <1>1
<1>4. \A m \in Meters : /\ now[m] <= today[s][m] + 1
                        /\ m \notin meters => now[m] = today[s][m]
  BY <1>1
<1> HIDE DEF now
<1>5. today' \in [Owners -> [Meters -> Nat]] BY <1>1, <1>2, <1>3
<1>6. ASSUME NEW o \in Owners, NEW m \in Meters
      PROVE  /\ today'[o][m] <= today[o][m] + 1
             /\ o # s \/ m \notin meters => today'[o][m] = today[o][m]
  <2>1. CASE o = s BY <1>1, <1>2, <1>4, <2>1
  <2>2. CASE o # s
    <3>1. today'[o] = today[o] BY <1>1, <1>2, <2>2
    <3>2. today[o][m] \in Nat BY <1>1
    <3> QED BY <2>2, <3>1, <3>2
  <2> QED BY <2>1, <2>2
<1> QED BY <1>5, <1>6

LEMMA MetersUsed ==
  ASSUME Types, InMeters, NEW p \in Slots, NEW q \in Request \cup {Idle}, SetReq(p, q),
         \A s, m : ~Claiming(q, s, m), req[p].by \in Owners,
         NEW meters, Count(req[p].by, meters),
         \A m \in meters : Claiming(req[p], req[p].by, m)
  PROVE  InMeters' /\ today' \in [Owners -> [Meters -> Nat]]
<1> DEFINE by == req[p].by
<1>1. req'[p] = q /\ \A o \in Slots \ {p} : req'[o] = req[o] BY SetReqShape
<1>2. /\ today' \in [Owners -> [Meters -> Nat]]
      /\ \A o \in Owners, m \in Meters :
           /\ today'[o][m] <= today[o][m] + 1
           /\ o # by \/ m \notin meters => today'[o][m] = today[o][m]
  BY CountShape
<1>3. ASSUME NEW s \in Owners, NEW m \in Meters
      PROVE  today'[s][m] + Cardinality(Claims(s, m)') < PerDay[m] + Cardinality(Slots)
  <2>1. today'[s][m] \in Nat /\ today[s][m] \in Nat BY <1>2 DEF Types
  <2>2. Claims(s, m)' \subseteq Claims(s, m) \ {p} BY <1>1 DEF Claims, Claiming
  <2>3. CASE s = by /\ m \in meters
    <3>1. p \in Claims(s, m) BY <2>3 DEF Claims
    <3>2. today'[s][m] <= today[s][m] + 1 BY <1>2
    <3> QED BY <2>1, <2>2, <3>1, <3>2, MeterStep
  <2>4. CASE ~(s = by /\ m \in meters)
    <3>1. today'[s][m] = today[s][m] BY <1>2, <2>4
    <3>2. today'[s][m] <= today[s][m] /\ Claims(s, m)' \subseteq Claims(s, m)
      BY <2>1, <2>2, <3>1
    <3> QED BY <2>1, <3>2, MeterStep
  <2> QED BY <2>3, <2>4
<1> QED BY <1>2, <1>3 DEF InMeters

LEMMA LogRunStep == ASSUME QuotaInv, NEW p \in Slots, LogRun(p) PROVE QuotaInv'
<1> DEFINE by == req[p].by
<1>1. At(p, "log") /\ Respond(p) /\ UNCHANGED <<doc, faults>> BY DEF LogRun
<1>2. /\ req[p] # Idle /\ req[p] \in Request /\ req[p].pc = "log" /\ Sensible(req[p])
      /\ by \in Owners
  BY <1>1, Serving
<1>3. req[p].op \in RunTypes
  BY <1>2 DEF Sensible, Request, Handlers
<1>4. SetReq(p, Idle) /\ Idle \in Request \cup {Idle} BY <1>1 DEF Respond
<1>5. CASE UNCHANGED today
  <2>1. ~At(p, "enqueue") BY <1>2 DEF At
  <2> QED BY <1>1, <1>5, <2>1, RespondStep
<1>6. CASE Count(by, Adds(req[p].op))
  <2>1. Adds(req[p].op) = {req[p].op} BY <1>3 DEF Adds, RunTypes
  <2>2. \A m \in Adds(req[p].op) : Claiming(req[p], by, m)
    BY <1>2, <1>3, <2>1 DEF Claiming
  <2> HIDE DEF Idle
  <2>3. InMeters' /\ today' \in [Owners -> [Meters -> Nat]]
    BY <1>2, <1>4, <1>6, <2>2, IdleClaimsNothing, MetersUsed DEF QuotaInv
  <2>4. /\ req' \in [Slots -> Request \cup {Idle}] /\ req'[p] = Idle
        /\ \A o \in Slots \ {p} : req'[o] = req[o]
    BY <1>4, SetReqShape DEF QuotaInv
  <2>5. Types' BY <1>1, <2>3, <2>4 DEF QuotaInv, Types
  <2>7. ASSUME NEW o \in Slots PROVE Sensible(req[o])'
    <3>1. Sensible(req'[o]) BY <2>4, IdleClaimsNothing DEF QuotaInv
    <3> QED BY <1>1, <3>1, StillSensible
  <2>8. InQueue'
    <3> SUFFICES ASSUME MaxActive > 0, NEW s \in Owners
                 PROVE  Cardinality(Waiting(s)') + Cardinality(QueueClaims(s)')
                          < MaxActive + Cardinality(Slots)
      BY DEF InQueue
    <3>1. Waiting(s)' \subseteq Waiting(s) BY <1>1 DEF Waiting, Of
    <3>2. QueueClaims(s)' \subseteq QueueClaims(s)
      BY <2>4, IdleClaimsNothing DEF QueueClaims, Queueing
    <3> QED BY <3>1, <3>2, QueueStep DEF QuotaInv
  <2>9. StrandedBounded'
    <3>1. \A o \in Slots : \A d : At(o, "enqueue") /\ Holds(o, d)
                                => At(o, "enqueue")' /\ Holds(o, d)'
      BY <1>2, <2>4 DEF At, Holds
    <3>2. Stranded' \subseteq Stranded BY <1>1, <3>1 DEF Stranded
    <3> QED BY <1>1, <3>2, StrandedStep DEF QuotaInv
  <2> QED BY <2>3, <2>5, <2>7, <2>8, <2>9 DEF QuotaInv
<1> QED BY <1>5, <1>6 DEF LogRun

(* The row that is written belongs to the session, and is new or was there *)
(* before with the same owner.                                             *)
LEMMA WrittenShape ==
  ASSUME QuotaInv, NEW p \in Slots, At(p, "commit"), NEW d \in Docs,
         IF req[p].op \in {"reindex", "requeue"} THEN d = req[p].target ELSE doc[d] = NoRow,
         doc' = [doc EXCEPT ![d] = Written(req[p], d)]
  PROVE  /\ doc' \in [Docs -> Row \cup {NoRow}] /\ \A e \in Docs \ {d} : doc'[e] = doc[e]
         /\ doc'[d] \in Row /\ doc'[d].owner = req[p].by
         /\ doc[d] # NoRow => doc[d].owner = req[p].by
<1> DEFINE q == req[p]
           r == Written(q, d)
<1>1. /\ q # Idle /\ q \in Request /\ q.pc = "commit" /\ Sensible(q) /\ q.by \in Owners
  BY Serving
<1>2. doc \in [Docs -> Row \cup {NoRow}] BY DEF QuotaInv, Types
<1>3. /\ r \in Row /\ r.owner = q.by
      /\ doc[d] # NoRow => doc[d].owner = q.by
  <2>1. CASE q.op \in {"reindex", "requeue"}
    <3>1. doc[d] # NoRow /\ doc[d].owner = q.by /\ doc[d] \in Row
      BY <1>1, <1>2, <2>1 DEF Sensible, Of
    <3>2. CASE q.op = "reindex"
      <4>1. r = [doc[d] EXCEPT !.status = "again"] BY <3>2 DEF Written
      <4> HIDE DEF r
      <4> QED BY <3>1, <4>1 DEF Row
    <3>3. CASE q.op = "requeue"
      <4>1. r = doc[d] BY <3>3 DEF Written
      <4> HIDE DEF r, q
      <4> QED BY <3>1, <4>1
    <3> QED BY <2>1, <3>2, <3>3
  <2>2. CASE q.op \notin {"reindex", "requeue"}
    <3>1. r = [owner |-> q.by, status |-> "pending", job |-> "none"] BY <2>2 DEF Written
    <3> HIDE DEF r
    <3> QED BY <1>1, <2>2, <3>1 DEF Row
  <2> QED BY <2>1, <2>2
<1>4. doc' = [doc EXCEPT ![d] = r] OBVIOUS
<1> HIDE DEF r
<1>5. /\ doc' \in [Docs -> Row \cup {NoRow}] /\ \A e \in Docs \ {d} : doc'[e] = doc[e]
      /\ doc'[d] = r
  BY <1>2, <1>3, <1>4
<1> QED BY <1>3, <1>5

(* Nothing but the new row joins those that wait.                          *)
LEMMA WrittenWaits ==
  ASSUME NEW d \in Docs, NEW by, \A e \in Docs \ {d} : doc'[e] = doc[e],
         doc'[d].owner = by, NEW s
  PROVE  /\ Waiting(s)' \subseteq Waiting(s) \cup {d}
         /\ s # by => Waiting(s)' \subseteq Waiting(s)
BY DEF Waiting, Of

LEMMA CommitStep == ASSUME QuotaInv, NEW p \in Slots, Commit(p) PROVE QuotaInv'
<1> DEFINE by == req[p].by
<1>1. At(p, "commit") BY DEF Commit
<1>2. /\ req[p] # Idle /\ req[p] \in Request /\ req[p].pc = "commit" /\ Sensible(req[p])
      /\ by \in Owners
  BY <1>1, Serving
<1>3. CASE Respond(p) /\ UNCHANGED <<doc, today, faults>>
  <2>1. ~At(p, "enqueue") BY <1>2 DEF At
  <2> QED BY <1>3, <2>1, RespondStep
<1>4. ASSUME NEW d \in Docs,
             IF req[p].op \in {"reindex", "requeue"} THEN d = req[p].target ELSE doc[d] = NoRow,
             doc' = [doc EXCEPT ![d] = Written(req[p], d)],
             Count(by, Adds(req[p].op)),
             \/ /\ SetReq(p, [req[p] EXCEPT !.pc = "enqueue", !.target = d])
                /\ UNCHANGED faults
             \/ Respond(p) /\ Fault
      PROVE  QuotaInv'
  <2>1. /\ doc' \in [Docs -> Row \cup {NoRow}] /\ \A e \in Docs \ {d} : doc'[e] = doc[e]
        /\ doc'[d] \in Row /\ doc'[d].owner = by
        /\ doc[d] # NoRow => doc[d].owner = by
    BY <1>1, <1>4, WrittenShape
  <2>2. doc'[d] # NoRow BY <2>1, RowsDiffer
  <2>3. \A e \in Docs : doc[e] # NoRow => doc'[e] # NoRow /\ doc'[e].owner = doc[e].owner
    BY <2>1, <2>2
  <2>4. PICK q \in Request \cup {Idle} :
          /\ SetReq(p, q) /\ \A s, m : ~Claiming(q, s, m) /\ ~Queueing(q, s)
          /\ \/ /\ q # Idle /\ q.pc = "enqueue" /\ q.target = d /\ q.by = by
                /\ q.op = req[p].op /\ q.left = req[p].left /\ UNCHANGED faults
             \/ q = Idle /\ Fault
    <3>1. CASE SetReq(p, [req[p] EXCEPT !.pc = "enqueue", !.target = d]) /\ UNCHANGED faults
      <4> DEFINE q == [req[p] EXCEPT !.pc = "enqueue", !.target = d]
      <4>1. /\ q \in Request /\ q.pc = "enqueue" /\ q.target = d /\ q.by = by
            /\ q.op = req[p].op /\ q.left = req[p].left
        BY <1>2 DEF Request
      <4>2. SetReq(p, q) BY <3>1
      <4> HIDE DEF q
      <4>3. q # Idle
        <5>1. q.op # "none" BY <4>1 DEF Request, Handlers, RunTypes
        <5>2. Idle.op = "none" BY DEF Idle
        <5> QED BY <5>1, <5>2
      <4>4. \A s, m : ~Claiming(q, s, m) /\ ~Queueing(q, s) BY <4>1 DEF Claiming, Queueing
      <4> QED BY <3>1, <4>1, <4>2, <4>3, <4>4
    <3>2. CASE Respond(p) /\ Fault
      <4>1. SetReq(p, Idle) BY <3>2 DEF Respond
      <4> HIDE DEF Idle
      <4> QED BY <3>2, <4>1, IdleClaimsNothing
    <3> QED BY <1>4, <3>1, <3>2
  <2>5. /\ req' \in [Slots -> Request \cup {Idle}] /\ req'[p] = q
        /\ \A o \in Slots \ {p} : req'[o] = req[o]
    BY <2>4, SetReqShape DEF QuotaInv
  <2>6. faults' \in 0..MaxFaults
    BY <2>4, FaultType DEF QuotaInv, Types
  <2>7. InMeters' /\ today' \in [Owners -> [Meters -> Nat]]
    <3>1. \A m \in Adds(req[p].op) : Claiming(req[p], by, m)
      BY <1>2 DEF Adds, Claiming, Sensible, RunTypes
    <3> QED BY <1>2, <1>4, <2>4, <3>1, MetersUsed DEF QuotaInv
  <2>8. Types' BY <2>1, <2>5, <2>6, <2>7 DEF Types
  <2>10. ASSUME NEW o \in Slots PROVE Sensible(req[o])'
    <3>1. CASE o # p
      <4>1. Sensible(req'[o]) BY <2>5, <3>1 DEF QuotaInv
      <4> QED BY <2>3, <4>1, StillSensible
    <3>2. CASE o = p /\ q = Idle
      <4>1. Sensible(req'[o]) BY <2>5, <3>2, IdleClaimsNothing
      <4> QED BY <2>3, <4>1, StillSensible
    <3>3. CASE o = p /\ q # Idle
      BY <1>2, <2>1, <2>2, <2>4, <2>5, <3>3 DEF Sensible, Of
    <3> QED BY <3>1, <3>2, <3>3
  <2>11. InQueue'
    <3> SUFFICES ASSUME MaxActive > 0, NEW s \in Owners
                 PROVE  Cardinality(Waiting(s)') + Cardinality(QueueClaims(s)')
                          < MaxActive + Cardinality(Slots)
      BY DEF InQueue
    <3>1. QueueClaims(s)' \subseteq QueueClaims(s) \ {p}
      BY <2>4, <2>5 DEF QueueClaims, Queueing
    <3>2. CASE s = by
      <4>1. p \in QueueClaims(s) BY <1>2, <3>2 DEF QueueClaims, Queueing, Sensible
      <4>2. Waiting(s)' \subseteq Waiting(s) \cup {d} BY <2>1, WrittenWaits
      <4> QED BY <3>1, <4>1, <4>2, QueueStep DEF QuotaInv
    <3>3. CASE s # by
      <4>1. Waiting(s)' \subseteq Waiting(s) BY <2>1, <3>3, WrittenWaits
      <4> QED BY <3>1, <4>1, QueueStep DEF QuotaInv
    <3> QED BY <3>2, <3>3
  <2>12. StrandedBounded'
    <3>1. ASSUME NEW e \in Stranded', e # d PROVE e \in Stranded
      <4>1. \A o \in Slots : At(o, "enqueue") /\ Holds(o, e)
                               => At(o, "enqueue")' /\ Holds(o, e)'
        BY <1>2, <2>5 DEF At, Holds
      <4> QED BY <2>1, <3>1, <4>1 DEF Stranded
    <3>2. CASE q = Idle /\ Fault
      <4>1. Stranded' \subseteq Stranded \cup {d} BY <3>1
      <4> QED BY <3>2, <4>1, OneStranded DEF QuotaInv
    <3>3. CASE q # Idle /\ UNCHANGED faults /\ q.pc = "enqueue" /\ q.target = d
      <4>1. At(p, "enqueue")' /\ Holds(p, d)' BY <2>5, <3>3 DEF At, Holds
      <4>2. d \notin Stranded' BY <4>1 DEF Stranded
      <4>3. Stranded' \subseteq Stranded BY <3>1, <4>2
      <4> QED BY <3>3, <4>3, StrandedStep DEF QuotaInv
    <3> QED BY <2>4, <3>2, <3>3
  <2> QED BY <2>7, <2>8, <2>10, <2>11, <2>12 DEF QuotaInv
<1>5. CASE \E d \in Docs :
             /\ IF req[p].op \in {"reindex", "requeue"} THEN d = req[p].target
                ELSE doc[d] = NoRow
             /\ doc' = [doc EXCEPT ![d] = Written(req[p], d)]
             /\ Count(by, Adds(req[p].op))
             /\ \/ /\ SetReq(p, [req[p] EXCEPT !.pc = "enqueue", !.target = d])
                   /\ UNCHANGED faults
                \/ Respond(p) /\ Fault
  BY <1>4, <1>5
<1> QED BY <1>3, <1>5 DEF Commit

(* A crash gives all claims up.                                            *)
LEMMA CrashStep == ASSUME QuotaInv, Crash PROVE QuotaInv'
<1>1. UNCHANGED <<doc, today>> /\ Fault /\ faults' \in 0..MaxFaults
  BY FaultType DEF Crash, QuotaInv
<1>2. req' \in [Slots -> Request \cup {Idle}] /\ \A o \in Slots : req'[o] = Idle
  BY DEF Crash
<1>3. Types' BY <1>1, <1>2 DEF QuotaInv, Types
<1>5. ASSUME NEW o \in Slots PROVE Sensible(req[o])'
  BY <1>1, <1>2, IdleClaimsNothing, StillSensible
<1>6. \A s, m : Claims(s, m)' \subseteq Claims(s, m) /\ QueueClaims(s)' \subseteq QueueClaims(s)
  BY <1>2 DEF Claims, QueueClaims, Claiming, Queueing
<1>7. InMeters'
  <2>1. ASSUME NEW s \in Owners, NEW m \in Meters
        PROVE  today'[s][m] + Cardinality(Claims(s, m)') < PerDay[m] + Cardinality(Slots)
    <3>1. today'[s][m] \in Nat /\ today'[s][m] <= today[s][m]
      BY <1>1 DEF QuotaInv, Types
    <3> QED BY <1>6, <3>1, MeterStep DEF QuotaInv
  <2> QED BY <2>1 DEF InMeters
<1>8. InQueue'
  <2> SUFFICES ASSUME MaxActive > 0, NEW s \in Owners
               PROVE  Cardinality(Waiting(s)') + Cardinality(QueueClaims(s)')
                        < MaxActive + Cardinality(Slots)
    BY DEF InQueue
  <2>1. Waiting(s)' \subseteq Waiting(s) BY <1>1 DEF Waiting, Of
  <2> QED BY <1>6, <2>1, QueueStep DEF QuotaInv
<1>9. StrandedBounded'
  <2> DEFINE held == {req[p].target : p \in Slots}
  <2>1. IsFiniteSet(held) /\ Cardinality(held) <= Cardinality(Slots)
    <3> DEFINE target == [p \in Slots |-> req[p].target]
    <3>1. target \in Surjection(Slots, held) BY DEF Surjection
    <3> HIDE DEF target, held
    <3> QED BY <3>1, SlotAssumption, FS_Surjection
  <2>2. \A o \in Slots : \A d : Holds(o, d) => d \in held BY DEF Holds
  <2> HIDE DEF held
  <2>3. Stranded' \subseteq Stranded \cup held BY <1>1, <2>2 DEF Stranded
  <2> QED BY <1>1, <2>1, <2>3, StrandedStep DEF QuotaInv
<1> QED BY <1>3, <1>5, <1>7, <1>8, <1>9 DEF QuotaInv

(* At midnight the meters start from zero, and the claims stay.            *)
LEMMA NewDayStep == ASSUME QuotaInv, NewDay PROVE QuotaInv'
<1>1. UNCHANGED <<doc, req, faults>> /\ today' = [s \in Owners |-> [m \in Meters |-> 0]]
  BY DEF NewDay
<1>2. Types' BY <1>1 DEF QuotaInv, Types
<1>4. ASSUME NEW o \in Slots PROVE Sensible(req[o])'
  BY <1>1 DEF QuotaInv, Sensible, Of
<1>5. InMeters'
  <2>1. ASSUME NEW s \in Owners, NEW m \in Meters
        PROVE  today'[s][m] + Cardinality(Claims(s, m)') < PerDay[m] + Cardinality(Slots)
    <3>1. today'[s][m] \in Nat /\ today'[s][m] <= today[s][m]
      BY <1>1 DEF QuotaInv, Types
    <3>2. Claims(s, m)' \subseteq Claims(s, m) BY <1>1 DEF Claims, Claiming
    <3> QED BY <3>1, <3>2, MeterStep DEF QuotaInv
  <2> QED BY <2>1 DEF InMeters
<1>6. InQueue' BY <1>1 DEF QuotaInv, InQueue, Waiting, Of, QueueClaims, Queueing
<1>7. StrandedBounded' BY <1>1 DEF QuotaInv, StrandedBounded, Stranded, At, Holds
<1> QED BY <1>2, <1>4, <1>5, <1>6, <1>7 DEF QuotaInv

-----------------------------------------------------------------------------
(* The invariant *)

LEMMA QuotaInvInit == ASSUME QuotaInit PROVE QuotaInv
<1>1. Types BY Parameters DEF QuotaInit, Types
<1>2. \A d \in Docs : doc[d] = NoRow BY DEF QuotaInit
<1>3. \A p \in Slots : req[p] = Idle BY DEF QuotaInit
<1>4. StrandedBounded
  <2>1. Stranded = {} /\ faults = MaxFaults BY <1>2 DEF Stranded, QuotaInit
  <2>2. Cardinality(Stranded) = 0 BY <2>1, FS_EmptySet
  <2>3. (MaxFaults - faults) * Cardinality(Slots) = 0 BY <2>1, Parameters
  <2> QED BY <2>2, <2>3 DEF StrandedBounded
<1>5. \A p \in Slots : Sensible(req[p]) BY <1>3 DEF Sensible
<1>6. ASSUME NEW s, NEW m
      PROVE  /\ Claims(s, m) = {} /\ QueueClaims(s) = {} /\ Waiting(s) = {}
  BY <1>2, <1>3 DEF Claims, QueueClaims, Waiting, Of, Claiming, Queueing
<1>7. InMeters
  <2>1. ASSUME NEW s \in Owners, NEW m \in Meters
        PROVE  today[s][m] + Cardinality(Claims(s, m)) < PerDay[m] + Cardinality(Slots)
    <3>1. today[s][m] = 0 BY DEF QuotaInit
    <3>2. Cardinality(Claims(s, m)) = 0 BY <1>6, FS_EmptySet
    <3> QED BY <3>1, <3>2, Parameters
  <2> QED BY <2>1 DEF InMeters
<1>8. InQueue
  <2>1. \A s : Cardinality(Waiting(s)) = 0 /\ Cardinality(QueueClaims(s)) = 0
    BY <1>6, FS_EmptySet
  <2> QED BY <2>1, Parameters DEF InQueue
<1> QED BY <1>1, <1>4, <1>5, <1>7, <1>8 DEF QuotaInv

LEMMA QuotaInvNext == ASSUME QuotaInv, QuotaNext PROVE QuotaInv'
<1>1. ASSUME NEW p \in Slots, Serve(p) PROVE QuotaInv'
  <2>1. CASE \E s \in Owners, op \in Handlers : Arrive(p, s, op) BY <2>1, ArriveStep
  <2>2. CASE Entry(p) BY <2>2, EntryStep
  <2>3. CASE Capacity(p) BY <2>3, CapacityStep
  <2>4. CASE Quota(p) BY <2>4, QuotaCheckStep
  <2>5. CASE Commit(p) BY <2>5, CommitStep
  <2>6. CASE Enqueue(p) BY <2>6, EnqueueStep
  <2>7. CASE RunCheck(p) BY <2>7, RunCheckStep
  <2>8. CASE LogRun(p) BY <2>8, LogRunStep
  <2> QED BY <1>1, <2>1, <2>2, <2>3, <2>4, <2>5, <2>6, <2>7, <2>8 DEF Serve
<1> QED BY <1>1, CrashStep, WorkStep, NewDayStep DEF QuotaNext

LEMMA QuotaInvStutter == ASSUME QuotaInv, UNCHANGED quotaVars PROVE QuotaInv'
<1> USE DEF quotaVars
<1>1. Types' BY DEF QuotaInv, Types
<1>2. InMeters' BY DEF QuotaInv, InMeters, Claims, Claiming
<1>3. InQueue' BY DEF QuotaInv, InQueue, Waiting, Of, QueueClaims, Queueing
<1>4. StrandedBounded' BY DEF QuotaInv, StrandedBounded, Stranded, At, Holds
<1>5. (\A p \in Slots : Sensible(req[p]))' BY DEF QuotaInv, Sensible, Of
<1> QED BY <1>1, <1>2, <1>3, <1>4, <1>5 DEF QuotaInv

LEMMA AlwaysQuotaInv == QuotaSpec => []QuotaInv
<1>1. QuotaInit => QuotaInv BY QuotaInvInit
<1>2. QuotaInv /\ [QuotaNext]_quotaVars => QuotaInv' BY QuotaInvNext, QuotaInvStutter
<1> QED BY <1>1, <1>2, PTL DEF QuotaSpec

(* Every request and row is of its type, whatever the limits: in           *)
(* particular a batch never goes past its last file, and what a request is *)
(* about to queue is a stored document of its own session (main.py).       *)
THEOREM QuotaTypes == QuotaSpec => []QuotaTypeOK
<1>1. ASSUME QuotaInv PROVE QuotaTypeOK
  <2>1. ASSUME NEW p \in Slots
        PROVE  /\ req[p].op = "upload" => req[p].left > 0
               /\ At(p, "enqueue") => req[p].target \in Of(req[p].by)
    BY <1>1 DEF QuotaInv, Sensible, At, Idle
  <2> QED BY <1>1, <2>1 DEF QuotaInv, Types, QuotaTypeOK
<1> QED BY <1>1, AlwaysQuotaInv, PTL

(* For any number of sessions, requests and limits, no meter of a day      *)
(* passes its quota by as much as the number of requests served at a time  *)
(* (rate_limit.py counts, the handlers act afterwards).                    *)
THEOREM DailyQuotasHold == QuotaSpec => []DailyQuotas
<1>1. ASSUME QuotaInv PROVE DailyQuotas
  <2>1. ASSUME NEW s \in Owners, NEW m \in Meters
        PROVE  today[s][m] < PerDay[m] + Cardinality(Slots)
    <3>1. /\ today[s][m] \in Nat /\ Cardinality(Claims(s, m)) \in Nat /\ PerDay[m] \in Nat
          /\ Cardinality(Slots) \in Nat
          /\ today[s][m] + Cardinality(Claims(s, m)) < PerDay[m] + Cardinality(Slots)
      BY <1>1, Parameters, ClaimsFinite DEF QuotaInv, Types, InMeters
    <3> QED BY <3>1
  <2> QED BY <2>1 DEF DailyQuotas
<1> QED BY <1>1, AlwaysQuotaInv, PTL

(* The documents of a session that wait to be indexed stay within its      *)
(* capacity but for the other requests being served, whatever the workers, *)
(* the reaper and the reindexes do (enforce_index_queue_capacity).         *)
THEOREM QueueNeverOverrun == QuotaSpec => []QueueCapacity
<1>1. ASSUME QuotaInv PROVE QueueCapacity
  <2>1. ASSUME MaxActive > 0, NEW s \in Owners
        PROVE  Cardinality(Waiting(s)) < MaxActive + Cardinality(Slots)
    <3>1. /\ Cardinality(Waiting(s)) \in Nat /\ Cardinality(QueueClaims(s)) \in Nat
          /\ MaxActive \in Nat /\ Cardinality(Slots) \in Nat
          /\ Cardinality(Waiting(s)) + Cardinality(QueueClaims(s))
               < MaxActive + Cardinality(Slots)
      BY <1>1, <2>1, Parameters, ClaimsFinite DEF QuotaInv, InQueue
    <3> QED BY <3>1
  <2> QED BY <2>1 DEF QueueCapacity
<1> QED BY <1>1, AlwaysQuotaInv, PTL

(* For any requests, documents and limits: only a crash of the API or of a *)
(* worker, or a commit that fails, leaves a new document without a job     *)
(* that no request is about to queue, and each at most one per request     *)
(* being served (main.py, indexing.py).                                    *)
THEOREM FewAreStranded == QuotaSpec => []StrandedBounded
<1>1. QuotaInv => StrandedBounded BY DEF QuotaInv
<1> QED BY <1>1, AlwaysQuotaInv, PTL
=============================================================================
