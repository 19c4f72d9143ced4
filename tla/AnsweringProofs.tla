---------------------------- MODULE AnsweringProofs ----------------------------
(***************************************************************************)
(* Theorems about Answering, for any documents, requests, models' answers  *)
(* and numbers of faults.                                                  *)
(***************************************************************************)
EXTENDS Answering, FiniteSetTheorems, TLAPS

-----------------------------------------------------------------------------
(* What the proofs know about a request beyond its type.                   *)

Unanswered == {"new", "retrieve", "busy", "has", "answer", "load", "first"}

(* Until it is answered a request holds no references; before the second   *)
(* answer the model was asked once, and the result was invalid.            *)
Progress(q) ==
  /\ q.pc \in Unanswered =>
       q.said = "none" /\ q.calls = 0 /\ q.invalid = 0 /\ ~q.retry /\ ~q.note
  /\ q.pc = "second" => q.said = "none" /\ q.calls = 1 /\ q.invalid > 0 /\ q.retry
  /\ q.pc \in Unanswered \cup {"second"} => q.items = {} /\ q.issues = {} /\ ~q.runId
  /\ q.pc = "retrieve" => q.op = "chat"
  /\ q.pc \in {"busy", "has"} => q.op \in {"chat", "verify"}
  /\ q.pc \in {"load", "first", "second"} => q.op = "verify"
  /\ q.items \cup q.issues \subseteq q.seen

(* Content that was searchable stays so while the meeting exists, and a    *)
(* request that began with some does not go on towards a denial.           *)
Honest(q) ==
  /\ q.ready /\ meeting => Searchable # {}
  /\ q.ready /\ meeting => ~Denies(q) /\ ~(q.op = "chat" /\ q.pc \in {"busy", "has"})
  /\ q.pc = "answer" => q.seen # {}

(* What is stored about a request, against what it says of itself.         *)
Kept(r) ==
  /\ r \in logged => req[r].pc = "done" /\ meeting
  /\ req[r].runId => req[r].pc = "done" /\ (meeting => r \in logged)
  /\ req[r].pc = "done" /\ meeting /\ faults = MaxFaults => r \in logged
  /\ req[r].aborted => faults < MaxFaults
  /\ feedback[r] # "none" => req[r].op = "chat" /\ req[r].pc = "done"
  /\ feedback[r] = "stored" => r \in logged

(* The chunk set published last is visible; without one nothing is.        *)
LatestVisible ==
  \A d \in Docs : latest[d] # NoGen \/ visible[d] # {} => latest[d] \in visible[d]

(* What a step from q to a may tell: RetryAccounted and DeniedWhenEmpty.   *)
Told(q, a) ==
  /\ q.said # "verified" /\ a.said = "verified" =>
       /\ a.retry <=> a.calls = 2
       /\ a.retry <=> a.invalid > 0
       /\ a.note <=> a.invalid > q.invalid
  /\ q.said = "none" /\ a.said \in {"indexing", "not indexed"} => Searchable = {}
AllTold == \A r \in Reqs : Told(req[r], req'[r])

Inv ==
  /\ TypeOK
  /\ LatestVisible
  /\ \A r \in Reqs : Progress(req[r]) /\ Honest(req[r]) /\ Kept(r)

-----------------------------------------------------------------------------
(* What is invalid can be counted.                                         *)
LEMMA InvalidCounts ==
  ASSUME NEW refs \in SUBSET Refs, NEW allowed \in SUBSET Refs
  PROVE  /\ Invalid(refs, allowed) \in Nat
         /\ Invalid(refs, allowed) = 0 <=> refs \subseteq allowed
<1>1. IsFiniteSet(Chunks)
  BY FS_Product, FiniteAssumption DEF Chunks
<1>2. IsFiniteSet(Refs)
  BY <1>1, FS_AddElement DEF Refs
<1>3. IsFiniteSet(refs \ allowed)
  BY <1>2, FS_Subset
<1> QED BY <1>3, FS_CardinalityType, FS_EmptySet DEF Invalid

LEMMA BestIsSeen == ASSUME NEW k, NEW s \in Best(k) PROVE s \in SUBSET Chunks
BY DEF Best, Searchable

(* The k best of something are something.                                  *)
LEMMA BestIsNotEmpty ==
  ASSUME NEW k \in Nat \ {0}, NEW s \in Best(k), s = {} PROVE Searchable = {}
BY FS_EmptySet DEF Best

LEMMA SetReqType ==
  ASSUME req \in [Reqs -> Request], NEW r \in Reqs, NEW q \in Request, SetReq(r, q)
  PROVE  req' \in [Reqs -> Request] /\ req'[r] = q /\ \A o \in Reqs \ {r} : req'[o] = req[o]
BY DEF SetReq

(* A step of a handler before its end changes one request, into a request  *)
(* that has made progress and is still honest.                             *)
LEMMA HandlerStep ==
  ASSUME Inv, NEW r \in Reqs, NEW q \in Request, SetReq(r, q),
         Progress(q), Honest(q), Told(req[r], q),
         req[r].pc # "done", q.pc # "done", ~q.runId,
         UNCHANGED index, UNCHANGED <<meeting, feedback, logged>>,
         faults' \in 0..faults, q.aborted => faults' < MaxFaults
  PROVE  Inv' /\ AllTold
<1>1. /\ req' \in [Reqs -> Request] /\ req'[r] = q
      /\ \A o \in Reqs \ {r} : req'[o] = req[o]
  BY SetReqType DEF Inv, TypeOK
<1>2. faults \in Nat /\ MaxFaults \in Nat /\ faults <= MaxFaults
  BY SizeAssumption DEF Inv, TypeOK
<1>3. TypeOK'
  BY <1>1, <1>2 DEF Inv, TypeOK, index
<1>4. LatestVisible'
  BY DEF Inv, LatestVisible, index
<1>5. Searchable' = Searchable
  BY DEF Searchable, index
<1>6. ASSUME NEW o \in Reqs PROVE Progress(req'[o]) /\ Honest(req[o])' /\ Kept(o)'
  <2>1. CASE o = r
    <3>1. Progress(req'[o]) BY <1>1, <2>1
    <3>2. Honest(req[o])' BY <1>1, <1>5, <2>1 DEF Honest, Denies
    <3>3. Kept(o)' BY <1>1, <2>1 DEF Inv, Kept
    <3> QED BY <3>1, <3>2, <3>3
  <2>2. CASE o # r
    <3>1. Progress(req[o]) /\ Honest(req[o]) /\ Kept(o) BY DEF Inv
    <3>2. req'[o] = req[o] BY <1>1, <2>2
    <3>3. Honest(req[o])' BY <1>5, <3>1, <3>2 DEF Honest, Denies
    <3>4. Kept(o)'
      BY <1>2, <3>1, <3>2 DEF Kept
    <3> QED BY <3>1, <3>2, <3>3, <3>4
  <2> QED BY <2>1, <2>2
<1>7. \A o \in Reqs : Progress(req[o])' /\ Honest(req[o])' /\ Kept(o)'
  BY <1>6
<1>8. AllTold
  BY <1>1 DEF AllTold, Told
<1> QED BY <1>3, <1>4, <1>7, <1>8 DEF Inv

LEMMA BlankIsRequest == Blank \in Request /\ Progress(Blank) /\ ~Blank.aborted
BY DEF Blank, Request, Progress, Pc, Said, Unanswered

LEMMA FaultType == ASSUME TypeOK, Fault PROVE faults' \in 0..faults /\ faults' < MaxFaults
BY SizeAssumption DEF Fault, TypeOK

-----------------------------------------------------------------------------
(* One lemma per step.                                                     *)

(* What the step of a handler waiting at pc may rely on.                   *)
LEMMA Resumes ==
  ASSUME Inv, NEW r \in Reqs, NEW pc, Here(r, pc)
  PROVE  /\ req[r] \in Request /\ req[r].pc = pc
         /\ Progress(req[r]) /\ Honest(req[r]) /\ Kept(r)
         /\ UNCHANGED index /\ UNCHANGED <<meeting, feedback>>
         /\ faults \in 0..faults
BY SizeAssumption DEF Inv, TypeOK, Here

LEMMA ResumedStep ==
  ASSUME Inv, NEW r \in Reqs, NEW pc, Here(r, pc), pc # "done", UNCHANGED <<logged, faults>>,
         NEW q \in Request, SetReq(r, q), Progress(q), Honest(q), Told(req[r], q),
         q.pc # "done", ~q.runId, q.aborted => req[r].aborted
  PROVE  Inv' /\ AllTold
<1>1. /\ req[r].pc # "done" /\ Kept(r) /\ UNCHANGED index
      /\ UNCHANGED <<meeting, feedback>> /\ faults \in 0..faults
  BY Resumes
<1>2. faults' \in 0..faults /\ UNCHANGED <<meeting, feedback, logged>>
  BY <1>1
<1>3. q.aborted => faults' < MaxFaults
  BY <1>1 DEF Kept
<1> QED BY <1>1, <1>2, <1>3, HandlerStep

LEMMA BeginStep ==
  ASSUME Inv, NEW r \in Reqs, NEW op \in {"chat", "verify"}, Begin(r, op) PROVE Inv' /\ AllTold
<1> DEFINE q == [Blank EXCEPT !.op = op, !.ready = Searchable # {},
                              !.pc = IF op = "chat" THEN "retrieve" ELSE "busy"]
<1>1. Here(r, "new") /\ SetReq(r, q) /\ meeting /\ UNCHANGED <<logged, faults>>
  BY DEF Begin
<1>2. q \in Request /\ Progress(q)
  <2> DEFINE ready == Searchable # {}
             pc == IF op = "chat" THEN "retrieve" ELSE "busy"
  <2>1. ready \in BOOLEAN /\ pc \in {"retrieve", "busy"} OBVIOUS
  <2> HIDE DEF ready
  <2>2. q \in Request BY BlankIsRequest, <2>1 DEF Request, Pc
  <2>3. Progress(q) BY <2>1 DEF Blank, Progress, Unanswered
  <2> QED BY <2>2, <2>3
<1>3. Honest(q) /\ Told(req[r], q) /\ q.pc # "done" /\ ~q.runId /\ ~q.aborted
  BY DEF Blank, Honest, Denies, Told
<1> HIDE DEF q
<1> QED BY <1>1, <1>2, <1>3, ResumedStep

LEMMA RetrieveStep == ASSUME Inv, NEW r \in Reqs, Retrieve(r) PROVE Inv' /\ AllTold
<1>1. PICK s \in Best(TopK) :
        SetReq(r, [req[r] EXCEPT !.seen = s, !.pc = IF s = {} THEN "busy" ELSE "answer"])
  BY DEF Retrieve
<1> DEFINE q == [req[r] EXCEPT !.seen = s, !.pc = IF s = {} THEN "busy" ELSE "answer"]
<1>2. Here(r, "retrieve") /\ UNCHANGED <<logged, faults>> BY DEF Retrieve
<1>3. req[r] \in Request /\ req[r].pc = "retrieve" /\ Progress(req[r]) /\ Honest(req[r])
  BY <1>2, Resumes
<1>4. s \in SUBSET Chunks BY BestIsSeen
<1>5. s = {} => Searchable = {} BY BestIsNotEmpty, TopAssumption
<1>6. q \in Request /\ Progress(q)
  BY <1>3, <1>4 DEF Request, Progress, Pc, Unanswered
<1>7. Honest(q) /\ Told(req[r], q) /\ q.pc # "done" /\ ~q.runId /\ q.aborted = req[r].aborted
  BY <1>3, <1>5 DEF Request, Honest, Told, Denies, Progress, Unanswered
<1> QED BY <1>1, <1>2, <1>6, <1>7, ResumedStep

LEMMA ReadBusyStep == ASSUME Inv, NEW r \in Reqs, ReadBusy(r) PROVE Inv' /\ AllTold
<1> DEFINE q == [req[r] EXCEPT !.busy = Busy, !.pc = "has"]
<1>1. Here(r, "busy") /\ SetReq(r, q) /\ UNCHANGED <<logged, faults>> BY DEF ReadBusy
<1>2. req[r] \in Request /\ req[r].pc = "busy" /\ Progress(req[r]) /\ Honest(req[r])
  BY <1>1, Resumes
<1>3. Busy \in BOOLEAN BY DEF Busy
<1>4. q \in Request /\ Progress(q)
  BY <1>2, <1>3 DEF Request, Progress, Pc, Unanswered
<1>5. Honest(q) /\ Told(req[r], q) /\ q.pc # "done" /\ ~q.runId /\ q.aborted = req[r].aborted
  BY <1>2 DEF Request, Honest, Told, Denies, Progress, Unanswered
<1> QED BY <1>1, <1>4, <1>5, ResumedStep

(* What the branches on readiness answer, and when.                        *)
LEMMA ReplyDenies ==
  ASSUME NEW q \in Request, NEW has \in BOOLEAN, q.op \in {"chat", "verify"}
  PROVE  /\ Reply(q, has) \in Said
         /\ Reply(q, has) \in {"indexing", "not indexed"} => ~has
         /\ Reply(q, has) = "unknown" => q.op = "chat"
         /\ Reply(q, has) = "none" => q.op = "verify"
         /\ Reply(q, has) \in {"none", "indexing", "not indexed", "unknown"}
BY DEF Reply, Said

LEMMA ReadHasStep == ASSUME Inv, NEW r \in Reqs, ReadHas(r) PROVE Inv' /\ AllTold
<1> DEFINE said == Reply(req[r], Searchable # {})
           q == Answered(req[r], said)
<1>1. Here(r, "has") /\ SetReq(r, q) /\ UNCHANGED <<logged, faults>> BY DEF ReadHas
<1>2. req[r] \in Request /\ req[r].pc = "has" /\ Progress(req[r]) /\ Honest(req[r])
  BY <1>1, Resumes
<1>3. req[r].op \in {"chat", "verify"}
  BY <1>2 DEF Progress
<1>4. /\ said \in {"none", "indexing", "not indexed", "unknown"}
      /\ said \in {"indexing", "not indexed"} => Searchable = {}
      /\ said = "unknown" => req[r].op = "chat"
      /\ said = "none" => req[r].op = "verify"
  BY <1>2, <1>3, ReplyDenies
<1> HIDE DEF said
<1>5. q \in Request /\ Progress(q)
  BY <1>2, <1>4 DEF Answered, Request, Progress, Pc, Said, Unanswered
<1>6. Honest(q) /\ Told(req[r], q) /\ q.pc # "done" /\ ~q.runId /\ q.aborted = req[r].aborted
  BY <1>2, <1>4 DEF Answered, Request, Honest, Told, Denies, Progress, Unanswered
<1> HIDE DEF q
<1> QED BY <1>1, <1>5, <1>6, ResumedStep

LEMMA ChatModelStep == ASSUME Inv, NEW r \in Reqs, ChatModel(r) PROVE Inv' /\ AllTold
<1>1. Here(r, "answer") /\ UNCHANGED <<logged, faults>> BY DEF ChatModel
<1>2. req[r] \in Request /\ req[r].pc = "answer" /\ Progress(req[r]) /\ Honest(req[r])
  BY <1>1, Resumes
<1>3. req[r].seen # {} BY <1>2 DEF Honest
<1>4. CASE SetReq(r, [req[r] EXCEPT !.pc = "log", !.said = "unknown"])
  <2> DEFINE q == [req[r] EXCEPT !.pc = "log", !.said = "unknown"]
  <2>1. q \in Request /\ Progress(q)
    BY <1>2 DEF Request, Progress, Pc, Said, Unanswered
  <2>2. Honest(q) /\ Told(req[r], q) /\ q.pc # "done" /\ ~q.runId /\ q.aborted = req[r].aborted
    BY <1>2, <1>3 DEF Request, Honest, Told, Denies, Progress, Unanswered
  <2> QED BY <1>1, <1>4, <2>1, <2>2, ResumedStep
<1>5. CASE \E cited \in SUBSET req[r].seen :
             SetReq(r, [req[r] EXCEPT !.pc = "log", !.said = "answer", !.items = cited])
  <2>1. PICK cited \in SUBSET req[r].seen :
          SetReq(r, [req[r] EXCEPT !.pc = "log", !.said = "answer", !.items = cited])
    BY <1>5
  <2> DEFINE q == [req[r] EXCEPT !.pc = "log", !.said = "answer", !.items = cited]
  <2>2. cited \in SUBSET Refs BY <1>2 DEF Request, Refs
  <2>3. q \in Request /\ Progress(q)
    BY <1>2, <2>2 DEF Request, Progress, Pc, Said, Unanswered
  <2>4. Honest(q) /\ Told(req[r], q) /\ q.pc # "done" /\ ~q.runId /\ q.aborted = req[r].aborted
    BY <1>2 DEF Request, Honest, Told, Denies, Progress, Unanswered
  <2> QED BY <1>1, <2>1, <2>3, <2>4, ResumedStep
<1> QED BY <1>4, <1>5 DEF ChatModel

LEMMA LoadStep == ASSUME Inv, NEW r \in Reqs, Load(r) PROVE Inv' /\ AllTold
<1>1. PICK s \in Best(MaxVerifyChunks) :
        SetReq(r, IF s = {} THEN [req[r] EXCEPT !.pc = "log", !.said = "no content"]
                  ELSE [req[r] EXCEPT !.pc = "first", !.seen = s])
  BY DEF Load
<1> DEFINE q == IF s = {} THEN [req[r] EXCEPT !.pc = "log", !.said = "no content"]
                ELSE [req[r] EXCEPT !.pc = "first", !.seen = s]
<1>2. Here(r, "load") /\ UNCHANGED <<logged, faults>> BY DEF Load
<1>3. req[r] \in Request /\ req[r].pc = "load" /\ Progress(req[r]) /\ Honest(req[r])
  BY <1>2, Resumes
<1>4. s \in SUBSET Chunks BY BestIsSeen
<1>5. s = {} => Searchable = {} BY BestIsNotEmpty, TopAssumption
<1>6. q \in Request /\ Progress(q)
  BY <1>3, <1>4 DEF Request, Progress, Pc, Said, Unanswered
<1>7. Honest(q) /\ Told(req[r], q) /\ q.pc # "done" /\ ~q.runId /\ q.aborted = req[r].aborted
  BY <1>3, <1>5 DEF Request, Honest, Told, Denies, Progress, Unanswered
<1> QED BY <1>1, <1>2, <1>6, <1>7, ResumedStep

(* The references of a result are among those of the answer it is made of. *)
LEMMA RulesAddNothing ==
  ASSUME NEW items, NEW issues, NEW all \in WithRules(items, issues)
  PROVE  all \subseteq items \cup issues
BY DEF WithRules

(* A result whose references are chunks the model was shown is progress.   *)
LEMMA VerifiedType ==
  ASSUME NEW q \in Request, Progress(q), Honest(q), q.pc \in {"first", "second"},
         NEW items \in SUBSET q.seen, NEW issues \in SUBSET q.seen,
         NEW n \in Nat, NEW note \in BOOLEAN
  PROVE  LET a == Verified(q, items, issues, n, note) IN
           /\ a \in Request /\ Progress(a) /\ Honest(a)
           /\ a.pc # "done" /\ ~a.runId /\ a.aborted = q.aborted
           /\ a.said = "verified" /\ a.invalid = n /\ a.note = note
           /\ a.calls = q.calls + 1 /\ a.retry = (q.pc = "second")
<1> DEFINE a == Verified(q, items, issues, n, note)
<1>1. items \in SUBSET Refs /\ issues \in SUBSET Refs BY DEF Request, Refs
<1>2. q.calls \in {0, 1} /\ q.calls + 1 \in 0..2 /\ q.retry = (q.pc = "second")
  BY DEF Request, Progress, Unanswered
<1>3. a \in Request
  <2> DEFINE calls == q.calls + 1
             retry == q.retry \/ q.pc = "second"
  <2>1. calls \in 0..2 /\ retry \in BOOLEAN BY <1>2
  <2>2. a = [q EXCEPT !.pc = "log", !.said = "verified", !.items = items,
                      !.issues = issues, !.calls = calls, !.retry = retry,
                      !.invalid = n, !.note = note]
    BY DEF Verified, Request
  <2> HIDE DEF a, calls, retry
  <2>3. "log" \in Pc /\ "verified" \in Said BY DEF Pc, Said
  <2> QED BY <1>1, <2>1, <2>2, <2>3 DEF Request
<1>4. /\ a.pc = "log" /\ a.said = "verified" /\ a.items = items /\ a.issues = issues
      /\ a.seen = q.seen /\ a.op = q.op /\ a.ready = q.ready /\ a.aborted = q.aborted
      /\ a.runId = q.runId /\ a.invalid = n /\ a.note = note /\ a.calls = q.calls + 1
      /\ a.retry = (q.pc = "second")
  BY <1>2 DEF Verified, Request
<1> HIDE DEF a
<1>5. Progress(a) BY <1>4 DEF Progress, Unanswered
<1>6. Honest(a) BY <1>4 DEF Honest, Denies
<1>7. ~a.runId BY <1>4 DEF Progress, Unanswered
<1> USE DEF a
<1> QED BY <1>3, <1>4, <1>5, <1>6, <1>7

LEMMA VerifyFirstStep == ASSUME Inv, NEW r \in Reqs, VerifyFirst(r) PROVE Inv' /\ AllTold
<1>1. Here(r, "first") /\ UNCHANGED <<logged, faults>> BY DEF VerifyFirst
<1>2. req[r] \in Request /\ req[r].pc = "first" /\ Progress(req[r]) /\ Honest(req[r])
  BY <1>1, Resumes
<1> DEFINE evidence == SUBSET (req[r].seen \cup {Alien})
<1>3. PICK items \in evidence, issues \in evidence :
        \/ /\ Invalid(items, req[r].seen) + Invalid(issues, req[r].seen) = 0
           /\ \E all \in WithRules(items, issues) :
                SetReq(r, Verified(req[r], items, all, 0, FALSE))
        \/ /\ Invalid(items, req[r].seen) + Invalid(issues, req[r].seen) > 0
           /\ SetReq(r, [req[r] EXCEPT !.pc = "second", !.calls = 1, !.retry = TRUE,
                         !.invalid = Invalid(items, req[r].seen) + Invalid(issues, req[r].seen)])
  BY DEF VerifyFirst
<1> DEFINE n == Invalid(items, req[r].seen) + Invalid(issues, req[r].seen)
<1>4. items \in SUBSET Refs /\ issues \in SUBSET Refs /\ req[r].seen \in SUBSET Refs
  BY <1>2 DEF Request, Refs
<1>5. /\ n \in Nat
      /\ n = 0 => items \subseteq req[r].seen /\ issues \subseteq req[r].seen
  BY <1>4, InvalidCounts
<1>8. \/ /\ n = 0
         /\ \E all \in WithRules(items, issues) :
              SetReq(r, Verified(req[r], items, all, 0, FALSE))
      \/ /\ n > 0
         /\ SetReq(r, [req[r] EXCEPT !.pc = "second", !.calls = 1, !.retry = TRUE,
                                    !.invalid = n])
  BY <1>3
<1> HIDE DEF n
<1>9. n = 0 => ~(n > 0)
  BY <1>5
<1>6. CASE n = 0
  <2>1. PICK all \in WithRules(items, issues) :
          SetReq(r, Verified(req[r], items, all, 0, FALSE))
    BY <1>6, <1>8, <1>9, Zenon
  <2>2. items \in SUBSET req[r].seen /\ all \in SUBSET req[r].seen
    BY <1>5, <1>6, <2>1, RulesAddNothing
  <2> DEFINE zero == 0
             no == FALSE
             a == Verified(req[r], items, all, zero, no)
  <2> zero \in Nat /\ no \in BOOLEAN OBVIOUS
  <2> HIDE DEF zero, no
  <2>3. /\ a \in Request /\ Progress(a) /\ Honest(a)
        /\ a.pc # "done" /\ ~a.runId /\ a.aborted = req[r].aborted
        /\ a.said = "verified" /\ a.invalid = zero /\ a.note = no
        /\ a.calls = req[r].calls + 1 /\ a.retry = (req[r].pc = "second")
    BY <1>2, <2>2, VerifiedType
  <2>5. SetReq(r, a) BY <2>1 DEF zero, no
  <2> HIDE DEF a
  <2>6. ~a.note /\ ~a.retry
    BY <1>2, <2>3, Zenon DEF no
  <2>7. a.invalid = 0 /\ a.calls = 1 /\ req[r].invalid = 0
    BY <1>2, <2>3 DEF zero, Progress, Unanswered
  <2>4. Told(req[r], a)
    BY <2>3, <2>6, <2>7 DEF Told
  <2> QED BY <1>1, <2>3, <2>4, <2>5, ResumedStep
<1>7. CASE n > 0
  <2> DEFINE a == [req[r] EXCEPT !.pc = "second", !.calls = 1, !.retry = TRUE,
                                 !.invalid = n]
  <2>1. a \in Request
    <3> DEFINE retry == TRUE
               calls == 1
    <3>1. retry \in BOOLEAN /\ calls \in 0..2 /\ n \in Nat BY <1>5
    <3> HIDE DEF retry, calls, a
    <3>2. [req[r] EXCEPT !.pc = "second", !.calls = calls, !.retry = retry, !.invalid = n]
            \in Request
      BY <1>2, <3>1 DEF Request, Pc
    <3> QED BY <3>2, Zenon DEF retry, calls, a
  <2>4. Progress(a)
    BY <1>2, <1>5, <1>7 DEF Request, Progress, Unanswered
  <2>2. Honest(a) /\ Told(req[r], a) /\ a.pc # "done" /\ ~a.runId
        /\ a.aborted = req[r].aborted
    BY <1>2 DEF Request, Honest, Told, Denies, Progress, Unanswered
  <2>3. SetReq(r, a) BY <1>7, <1>8, <1>9, Zenon
  <2> HIDE DEF a
  <2> QED BY <1>1, <2>1, <2>2, <2>3, <2>4, ResumedStep
<1> QED BY <1>6, <1>7, <1>8

LEMMA VerifySecondStep == ASSUME Inv, NEW r \in Reqs, VerifySecond(r) PROVE Inv' /\ AllTold
<1>1. Here(r, "second") /\ UNCHANGED <<logged, faults>> BY DEF VerifySecond
<1>2. req[r] \in Request /\ req[r].pc = "second" /\ Progress(req[r]) /\ Honest(req[r])
  BY <1>1, Resumes
<1> DEFINE seen == req[r].seen
           evidence == SUBSET (seen \cup {Alien})
           n(items, issues) == Invalid(items, seen) + Invalid(issues, seen)
           note(items, issues) ==
             Removed(<<items, issues>>, <<Strip(items, seen), Strip(issues, seen)>>)
<1>3. PICK items \in evidence, issues \in evidence :
        \E all \in WithRules(Strip(items, seen), Strip(issues, seen)) :
          SetReq(r, Verified(req[r], Strip(items, seen), all,
                             req[r].invalid + n(items, issues), note(items, issues)))
  BY DEF VerifySecond
<1>4. PICK all \in WithRules(Strip(items, seen), Strip(issues, seen)) :
        SetReq(r, Verified(req[r], Strip(items, seen), all,
                           req[r].invalid + n(items, issues), note(items, issues)))
  BY <1>3
<1>5. items \in SUBSET Refs /\ issues \in SUBSET Refs /\ seen \in SUBSET Refs
  BY <1>2 DEF Request, Refs
<1>6. /\ n(items, issues) \in Nat
      /\ n(items, issues) > 0 <=> ~(items \subseteq seen /\ issues \subseteq seen)
  BY <1>5, InvalidCounts
<1>7. note(items, issues) \in BOOLEAN /\ (note(items, issues) <=> n(items, issues) > 0)
  BY <1>6 DEF Removed, Strip
<1>8. Strip(items, seen) \in SUBSET seen /\ all \in SUBSET seen
  BY <1>4, RulesAddNothing DEF Strip
<1>9. req[r].invalid \in Nat /\ req[r].invalid > 0 /\ req[r].calls = 1
  BY <1>2 DEF Request, Progress
<1> HIDE DEF n, note
<1> DEFINE sum == req[r].invalid + n(items, issues)
           a == Verified(req[r], Strip(items, seen), all, sum, note(items, issues))
<1>10. sum \in Nat /\ sum > 0 /\ (sum > req[r].invalid <=> note(items, issues))
  BY <1>6, <1>7, <1>9
<1>11. SetReq(r, a) BY <1>4
<1> HIDE DEF sum
<1>12. /\ a \in Request /\ Progress(a) /\ Honest(a)
       /\ a.pc # "done" /\ ~a.runId /\ a.aborted = req[r].aborted
       /\ a.said = "verified" /\ a.invalid = sum /\ a.note = note(items, issues)
       /\ a.calls = req[r].calls + 1 /\ a.retry = (req[r].pc = "second")
  BY <1>2, <1>7, <1>8, <1>10, VerifiedType
<1> HIDE DEF a
<1>14. a.retry /\ (a.note <=> note(items, issues))
  BY <1>2, <1>12, Zenon
<1>15. a.calls = 2 /\ a.invalid > 0 /\ (a.invalid > req[r].invalid <=> note(items, issues))
  BY <1>9, <1>10, <1>12
<1>13. Told(req[r], a)
  BY <1>12, <1>14, <1>15 DEF Told
<1> QED BY <1>1, <1>11, <1>12, <1>13, ResumedStep

LEMMA RaiseStep == ASSUME Inv, NEW r \in Reqs, Raise(r) PROVE Inv' /\ AllTold
<1>1. /\ UNCHANGED index /\ UNCHANGED <<meeting, feedback, logged>>
      /\ faults' \in 0..faults /\ faults' < MaxFaults
  BY FaultType DEF Raise, Inv
<1>2. req[r] \in Request /\ Progress(req[r]) /\ Honest(req[r])
  BY DEF Inv, TypeOK
<1>3. CASE /\ req[r].pc \in {"retrieve", "busy", "has", "answer"}
           /\ SetReq(r, [req[r] EXCEPT !.pc = "error"])
  <2> DEFINE q == [req[r] EXCEPT !.pc = "error"]
  <2>1. q \in Request /\ Progress(q)
    BY <1>2, <1>3 DEF Request, Progress, Pc, Unanswered
  <2>2. Honest(q) /\ Told(req[r], q) /\ q.pc # "done" /\ ~q.runId
    BY <1>2, <1>3 DEF Request, Honest, Told, Denies, Progress, Unanswered
  <2> QED BY <1>1, <1>3, <2>1, <2>2, HandlerStep
<1>4. CASE /\ req[r].pc \in {"load", "first", "second"}
           /\ SetReq(r, [Blank EXCEPT !.op = req[r].op, !.ready = req[r].ready,
                                      !.pc = "log", !.said = "failsafe",
                                      !.calls = req[r].calls,
                                      !.aborted = (req[r].pc = "load")])
  <2> DEFINE q == [Blank EXCEPT !.op = req[r].op, !.ready = req[r].ready,
                                !.pc = "log", !.said = "failsafe",
                                !.calls = req[r].calls, !.aborted = (req[r].pc = "load")]
  <2>1. q \in Request
    <3> DEFINE aborted == req[r].pc = "load"
    <3>1. aborted \in BOOLEAN OBVIOUS
    <3> HIDE DEF aborted
    <3>2. /\ req[r].op \in {"none", "chat", "verify"} /\ req[r].ready \in BOOLEAN
          /\ req[r].calls \in 0..2
      BY <1>2 DEF Request
    <3>3. [Blank EXCEPT !.op = req[r].op, !.ready = req[r].ready,
                        !.pc = "log", !.said = "failsafe",
                        !.calls = req[r].calls, !.aborted = aborted] \in Request
      BY <3>1, <3>2 DEF Blank, Request, Pc, Said
    <3> QED BY <3>3 DEF aborted
  <2>2. Progress(q)
    BY <1>2 DEF Blank, Progress, Unanswered
  <2>3. Honest(q) /\ Told(req[r], q) /\ q.pc # "done" /\ ~q.runId
    BY <1>2 DEF Blank, Request, Honest, Told, Denies
  <2> QED BY <1>1, <1>4, <2>1, <2>2, <2>3, HandlerStep
<1> QED BY <1>3, <1>4 DEF Raise

(* A response ends its request; what is written of it is kept in mind.     *)
LEMMA DoneStep ==
  ASSUME Inv, NEW r \in Reqs, NEW withId \in BOOLEAN, Here(r, "log"),
         SetReq(r, Done(req[r], withId)), logged' \in {logged, logged \cup {r}},
         r \in logged' => meeting, withId => r \in logged',
         faults' \in 0..faults, r \in logged' \/ ~meeting \/ faults' < MaxFaults
  PROVE  Inv' /\ AllTold
<1> DEFINE runId == withId /\ req[r].op = "chat"
           q == [req[r] EXCEPT !.pc = "done", !.runId = runId]
<1>1. /\ req[r] \in Request /\ req[r].pc = "log" /\ Progress(req[r]) /\ Honest(req[r])
      /\ Kept(r) /\ UNCHANGED index /\ UNCHANGED <<meeting, feedback>>
  BY Resumes
<1>2. SetReq(r, q) BY DEF Done
<1>3. q \in Request
  <2>1. runId \in BOOLEAN OBVIOUS
  <2> HIDE DEF runId
  <2> QED BY <1>1, <2>1 DEF Request, Pc
<1>4. /\ q.pc = "done" /\ q.op = req[r].op /\ q.said = req[r].said /\ q.seen = req[r].seen
      /\ q.items = req[r].items /\ q.issues = req[r].issues /\ q.ready = req[r].ready
      /\ q.aborted = req[r].aborted /\ (q.runId => r \in logged')
  BY <1>1 DEF Request
<1> HIDE DEF q
<1>5. Progress(q) BY <1>1, <1>4 DEF Progress, Unanswered
<1>6. /\ req' \in [Reqs -> Request] /\ req'[r] = q
      /\ \A o \in Reqs \ {r} : req'[o] = req[o]
  BY <1>2, <1>3, SetReqType DEF Inv, TypeOK
<1>7. faults \in Nat /\ MaxFaults \in Nat /\ faults <= MaxFaults
  BY SizeAssumption DEF Inv, TypeOK
<1>8. TypeOK'
  BY <1>1, <1>6, <1>7 DEF Inv, TypeOK, index
<1>9. LatestVisible' /\ Searchable' = Searchable
  BY <1>1 DEF Inv, LatestVisible, Searchable, index
<1>10. ASSUME NEW o \in Reqs PROVE Progress(req[o])' /\ Honest(req[o])' /\ Kept(o)'
  <2>1. CASE o = r
    <3>1. Honest(req[o])' BY <1>1, <1>4, <1>6, <1>9, <2>1 DEF Honest, Denies
    <3>2. Kept(o)' BY <1>1, <1>4, <1>6, <1>7, <2>1 DEF Kept
    <3> QED BY <1>5, <1>6, <2>1, <3>1, <3>2
  <2>2. CASE o # r
    <3>1. Progress(req[o]) /\ Honest(req[o]) /\ Kept(o) BY DEF Inv
    <3>2. req'[o] = req[o] BY <1>6, <2>2
    <3>3. Honest(req[o])' BY <1>1, <1>9, <3>1, <3>2 DEF Honest, Denies
    <3>4. Kept(o)' BY <1>1, <1>7, <2>2, <3>1, <3>2 DEF Kept
    <3> QED BY <3>1, <3>2, <3>3, <3>4
  <2> QED BY <2>1, <2>2
<1>11. AllTold BY <1>4, <1>6 DEF AllTold, Told
<1> QED BY <1>8, <1>9, <1>10, <1>11 DEF Inv

LEMMA LogStep == ASSUME Inv, NEW r \in Reqs, Log(r) PROVE Inv' /\ AllTold
<1>1. Here(r, "log") BY DEF Log
<1>2. Kept(r) /\ faults \in 0..faults /\ req[r].pc = "log" BY <1>1, Resumes
<1>3. r \notin logged BY <1>2 DEF Kept
<1>4. CASE /\ meeting /\ logged' = logged \cup {r} /\ SetReq(r, Done(req[r], TRUE))
           /\ UNCHANGED faults
  BY <1>1, <1>2, <1>4, DoneStep
<1>5. CASE /\ ~meeting \/ req[r].aborted
           /\ SetReq(r, Done(req[r], FALSE)) /\ UNCHANGED <<logged, faults>>
  <2>1. ~meeting \/ faults' < MaxFaults BY <1>2, <1>5 DEF Kept
  <2> QED BY <1>1, <1>2, <1>3, <1>5, <2>1, DoneStep
<1>6. CASE /\ meeting /\ Fault /\ logged' \in {logged, logged \cup {r}}
           /\ SetReq(r, Done(req[r], FALSE))
  <2>1. faults' \in 0..faults /\ faults' < MaxFaults BY <1>6, FaultType DEF Inv
  <2> QED BY <1>1, <1>6, <2>1, DoneStep
<1> QED BY <1>4, <1>5, <1>6 DEF Log

-----------------------------------------------------------------------------
(* Feedback, the index and the deletion leave the requests as they are.    *)

LEMMA FeedbackStep ==
  ASSUME Inv, NEW r \in Reqs, FeedbackFind(r) \/ FeedbackStore(r) PROVE Inv' /\ AllTold
<1>1. UNCHANGED <<index, meeting, req, logged, faults>>
  BY DEF FeedbackFind, FeedbackStore
<1>2. Kept(r) /\ Progress(req[r]) BY DEF Inv
<1>3. PICK f \in {"none", "found", "stored"} :
        /\ feedback' = [feedback EXCEPT ![r] = f]
        /\ f # "none" => req[r].op = "chat" /\ req[r].pc = "done"
        /\ f = "stored" => r \in logged
  BY <1>2 DEF FeedbackFind, FeedbackStore, History, Kept
<1>4. TypeOK' BY <1>1, <1>3 DEF Inv, TypeOK, index
<1>5. LatestVisible' /\ Searchable' = Searchable
  BY <1>1 DEF Inv, LatestVisible, Searchable, index
<1>6. ASSUME NEW o \in Reqs PROVE Progress(req[o])' /\ Honest(req[o])' /\ Kept(o)'
  <2>1. Progress(req[o]) /\ Honest(req[o]) /\ Kept(o) /\ req' = req BY <1>1 DEF Inv
  <2>2. Honest(req[o])' BY <1>1, <1>5, <2>1 DEF Honest, Denies
  <2>3. feedback'[o] = IF o = r THEN f ELSE feedback[o] BY <1>3 DEF Inv, TypeOK
  <2>4. Kept(o)' BY <1>1, <1>3, <2>1, <2>3 DEF Kept
  <2> QED BY <2>1, <2>2, <2>4
<1>7. AllTold BY <1>1 DEF AllTold, Told
<1> QED BY <1>4, <1>5, <1>6, <1>7 DEF Inv

LEMMA DeleteStep == ASSUME Inv, DeleteMeeting PROVE Inv' /\ AllTold
<1>1. ~meeting' /\ logged' = {} /\ UNCHANGED <<req, faults>> BY DEF DeleteMeeting
<1>2. TypeOK'
  BY <1>1 DEF Inv, TypeOK, DeleteMeeting, Index!Absent
<1>3. LatestVisible' BY DEF DeleteMeeting, LatestVisible
<1>4. ASSUME NEW o \in Reqs PROVE Progress(req[o])' /\ Honest(req[o])' /\ Kept(o)'
  <2>1. Progress(req[o]) /\ Honest(req[o]) /\ Kept(o) /\ req' = req BY <1>1 DEF Inv
  <2>2. Honest(req[o])' BY <1>1, <2>1 DEF Honest
  <2>3. feedback'[o] # "stored" /\ (feedback'[o] # "none" => feedback[o] # "none")
    BY DEF DeleteMeeting, Inv, TypeOK
  <2>4. Kept(o)' BY <1>1, <2>1, <2>3 DEF Kept
  <2> QED BY <2>1, <2>2, <2>4
<1>5. AllTold BY <1>1 DEF AllTold, Told
<1> QED BY <1>2, <1>3, <1>4, <1>5 DEF Inv

IndexType == /\ status \in [Docs -> Index!Absent \cup Index!Reported \cup {"indexed"}]
             /\ visible \in [Docs -> SUBSET Gens]
             /\ latest \in [Docs -> Gens \cup {NoGen}]

(* No change of the index hides the last searchable chunk set.             *)
LEMMA IndexStep ==
  ASSUME IndexType, LatestVisible,
         \/ \E d \in Docs : Index!Create(d) \/ Index!Retire(d)
         \/ \E d \in Docs, g \in Gens : Index!Publish(d, g)
         \/ Index!Report
  PROVE  IndexType' /\ LatestVisible' /\ (Searchable # {} => Searchable' # {})
<1>1. ASSUME NEW d \in Docs, Index!Create(d)
      PROVE  IndexType' /\ LatestVisible' /\ Searchable' = Searchable
  BY <1>1 DEF Index!Create, IndexType, LatestVisible, Searchable, Index!Absent, Index!Reported
<1>2. ASSUME NEW d \in Docs, Index!Retire(d)
      PROVE  IndexType' /\ LatestVisible' /\ (Searchable # {} => Searchable' # {})
  <2>1. PICK old \in SUBSET visible[d] :
          latest[d] \notin old /\ visible' = [visible EXCEPT ![d] = @ \ old]
    BY <1>2 DEF Index!Retire
  <2>2. UNCHANGED <<status, latest>> BY <1>2 DEF Index!Retire
  <2>3. IndexType' BY <2>1, <2>2 DEF IndexType
  <2>4. LatestVisible' BY <2>1, <2>2 DEF IndexType, LatestVisible
  <2>5. ASSUME NEW c \in Searchable PROVE Searchable' # {}
    <3>1. c[1] \in Docs /\ visible[c[1]] # {} BY DEF Searchable, Chunks
    <3>2. latest[c[1]] \in visible[c[1]] BY <3>1 DEF LatestVisible
    <3>3. latest[c[1]] \in Gens /\ latest[c[1]] \in visible'[c[1]]
      BY <2>1, <3>1, <3>2 DEF IndexType
    <3>4. <<c[1], latest[c[1]]>> \in Searchable' BY <3>1, <3>3 DEF Searchable, Chunks
    <3> QED BY <3>4
  <2> QED BY <2>3, <2>4, <2>5
<1>3. ASSUME NEW d \in Docs, NEW g \in Gens, Index!Publish(d, g)
      PROVE  IndexType' /\ LatestVisible' /\ Searchable \subseteq Searchable'
  <2>1. /\ status' = [status EXCEPT ![d] = "indexed"]
        /\ visible' = [visible EXCEPT ![d] = @ \cup {g}]
        /\ latest' = [latest EXCEPT ![d] = g]
    BY <1>3 DEF Index!Publish
  <2>2. IndexType' BY <2>1 DEF IndexType
  <2>3. LatestVisible' BY <2>1 DEF IndexType, LatestVisible
  <2>4. Searchable \subseteq Searchable' BY <2>1 DEF IndexType, Searchable, Chunks
  <2> QED BY <2>2, <2>3, <2>4
<1>4. ASSUME Index!Report
      PROVE  IndexType' /\ LatestVisible' /\ Searchable' = Searchable
  BY <1>4 DEF Index!Report, IndexType, LatestVisible, Searchable
<1> QED BY <1>1, <1>2, <1>3, <1>4

LEMMA IndexChangesStep == ASSUME Inv, IndexChanges PROVE Inv' /\ AllTold
<1>1. UNCHANGED <<meeting, req, logged, feedback, faults>> BY DEF IndexChanges
<1>2. IndexType /\ LatestVisible BY DEF Inv, TypeOK, IndexType
<1>3. IndexType' /\ LatestVisible' /\ (Searchable # {} => Searchable' # {})
  BY <1>2, IndexStep DEF IndexChanges
<1>4. TypeOK' BY <1>1, <1>3 DEF Inv, TypeOK, IndexType
<1>5. ASSUME NEW o \in Reqs PROVE Progress(req[o])' /\ Honest(req[o])' /\ Kept(o)'
  <2>1. Progress(req[o]) /\ Honest(req[o]) /\ Kept(o) BY DEF Inv
  <2>2. Honest(req[o])' BY <1>1, <1>3, <2>1 DEF Honest, Denies
  <2>3. Kept(o)' BY <1>1, <2>1 DEF Kept
  <2> QED BY <1>1, <2>1, <2>2, <2>3
<1>6. AllTold BY <1>1 DEF AllTold, Told
<1> QED BY <1>3, <1>4, <1>5, <1>6 DEF Inv

-----------------------------------------------------------------------------
(* The invariant, and what it gives.                                       *)

LEMMA InvInit == Init => Inv
<1> SUFFICES ASSUME Init PROVE Inv OBVIOUS
<1>1. TypeOK
  BY BlankIsRequest, SizeAssumption DEF Init, Index!Init, TypeOK, Index!Absent
<1>2. LatestVisible BY DEF Init, Index!Init, LatestVisible
<1>3. ASSUME NEW r \in Reqs PROVE Progress(req[r]) /\ Honest(req[r]) /\ Kept(r)
  <2>1. req[r] = Blank /\ logged = {} /\ feedback[r] = "none" BY DEF Init
  <2>2. Honest(Blank) BY DEF Honest, Denies, Blank
  <2>3. Kept(r) BY <2>1 DEF Kept, Blank
  <2> QED BY <2>1, <2>2, <2>3, BlankIsRequest
<1> QED BY <1>1, <1>2, <1>3 DEF Inv

LEMMA InvNext == Inv /\ [Next]_vars => Inv' /\ AllTold
<1> SUFFICES ASSUME Inv, [Next]_vars PROVE Inv' /\ AllTold OBVIOUS
<1>1. ASSUME NEW r \in Reqs, Handle(r) PROVE Inv' /\ AllTold
  BY <1>1, BeginStep, RetrieveStep, ReadBusyStep, ReadHasStep, ChatModelStep, LoadStep,
     VerifyFirstStep, VerifySecondStep, RaiseStep, LogStep, FeedbackStep DEF Handle
<1>2. ASSUME UNCHANGED vars PROVE Inv' /\ AllTold
  <2>1. TypeOK' BY <1>2 DEF vars, Inv, TypeOK
  <2>2. LatestVisible' BY <1>2 DEF vars, Inv, LatestVisible
  <2>3. ASSUME NEW o \in Reqs PROVE Progress(req[o])' /\ Honest(req[o])' /\ Kept(o)'
    BY <1>2 DEF vars, Inv, Honest, Denies, Searchable, Kept
  <2>4. AllTold BY <1>2 DEF vars, AllTold, Told
  <2> QED BY <2>1, <2>2, <2>3, <2>4 DEF Inv
<1> QED BY <1>1, <1>2, IndexChangesStep, DeleteStep DEF Next

LEMMA AlwaysInv == Spec => []Inv
BY InvInit, InvNext, PTL DEF Spec

(* Types; a verification asks the model at most twice (verify_meeting).    *)
THEOREM TypeCorrect == Spec => []TypeOK
<1>1. Inv => TypeOK BY DEF Inv
<1> QED BY <1>1, AlwaysInv, PTL

(* Whatever a model answers, what a response refers to is a chunk the      *)
(* model was shown (_strip_invalid_evidence_ids, answer_with_citations).   *)
THEOREM GroundedAlways == Spec => []Grounded
<1>1. Inv => Grounded BY DEF Inv, Progress, Grounded
<1> QED BY <1>1, AlwaysInv, PTL

(* A chat or verification that began with searchable content never says    *)
(* there is none while the meeting exists (chat_with_meeting,              *)
(* verify_endpoint).                                                       *)
THEOREM ReadyNeverDenied == Spec => []ReadyNotDenied
<1>1. Inv => ReadyNotDenied BY DEF Inv, Honest, ReadyNotDenied
<1> QED BY <1>1, AlwaysInv, PTL

(* An id in a response names a run, and without a fault every response is  *)
(* in the log (log_chat_run, log_verify_run).                              *)
THEOREM ResponsesAlwaysLogged == Spec => []ResponsesLogged
<1>1. Inv => ResponsesLogged BY DEF Inv, Kept, ResponsesLogged
<1> QED BY <1>1, AlwaysInv, PTL

(* Feedback is stored only on chat runs that exist                         *)
(* (submit_chat_feedback).                                                 *)
THEOREM FeedbackAlwaysOnChats == Spec => []FeedbackOnChats
<1>1. Inv => FeedbackOnChats BY DEF Inv, Kept, FeedbackOnChats
<1> QED BY <1>1, AlwaysInv, PTL

(* What a verification says of its retry and of removed references is      *)
(* what happened (verify_meeting's meta and its extra issue).              *)
THEOREM RetryAlwaysAccounted == Spec => RetryAccounted
<1>1. AllTold => \A r \in Reqs : LET q == req[r]  a == req'[r] IN
        q.said # "verified" /\ a.said = "verified" =>
          /\ a.retry <=> a.calls = 2
          /\ a.retry <=> a.invalid > 0
          /\ a.note <=> a.invalid > q.invalid
  BY DEF AllTold, Told
<1> QED BY <1>1, InvNext, AlwaysInv, PTL DEF Spec, RetryAccounted

(* A denial for want of indexed content is true when it is decided         *)
(* (_meeting_indexing_in_progress, then _meeting_has_indexed_chunks).      *)
THEOREM DeniedOnlyWhenEmpty == Spec => DeniedWhenEmpty
<1>1. AllTold => \A r \in Reqs :
        req[r].said = "none" /\ req'[r].said \in {"indexing", "not indexed"}
          => Searchable = {}
  BY DEF AllTold, Told
<1> QED BY <1>1, InvNext, AlwaysInv, PTL DEF Spec, DeniedWhenEmpty
=============================================================================
