---------------------------- MODULE IndexingProofs ----------------------------
(* Theorems about Indexing, for every value of its constants. *)
EXTENDS Indexing, TLAPS

(* Two rows of the right type flushed over a third give a row again.       *)
LEMMA FlushType ==
  ASSUME NEW cur \in Row, NEW seen \in Row, NEW new \in Row
  PROVE  Flush(cur, seen, new) \in Row
BY DEF Flush, Put, PutStamp, Row

(* The edits the code makes to a loaded row keep its type.                 *)
LEMMA EditType ==
  ASSUME NEW r \in Row
  PROVE  /\ Processing(r) \in Row /\ Indexed(r) \in Row /\ Pending(r) \in Row
         /\ Failed(r, "job") \in Row /\ Failed(r, "timeout") \in Row
<1> USE DEF Edit, Row, RowStatus, Errors, Stamps, Now, Never
<1>1. Processing(r) \in Row
  BY DEF Processing
<1>2. Indexed(r) \in Row
  BY DEF Indexed
<1>3. Pending(r) \in Row
  BY DEF Pending
<1>4. Failed(r, "job") \in Row /\ Failed(r, "timeout") \in Row
  BY DEF Failed
<1> QED
  BY <1>1, <1>2, <1>3, <1>4

(* ... and so does what a failed enqueue writes over the current one.      *)
LEMMA QueueFailedType ==
  ASSUME NEW cur \in Row, NEW seen
  PROVE  /\ QueueFailed(cur, seen) \in Row
         /\ QueueFailed(cur, seen).status \in {cur.status, "failed"}
         /\ QueueFailed(cur, seen).started = cur.started
         /\ QueueFailed(cur, seen).indexed = cur.indexed
         /\ QueueFailed(cur, seen).text = cur.text
BY DEF QueueFailed, Put, Row, RowStatus, Errors

LEMMA ConstantRows ==
  /\ NoRow \in Row /\ [NoRow EXCEPT !.status = "gone"] \in Row
  /\ \A t \in BOOLEAN : NewRow(t) \in Row
<1> USE DEF Row, RowStatus, Errors, Stamps, Now, Never
<1>1. NoRow \in Row
  BY DEF NoRow
<1>2. [NoRow EXCEPT !.status = "gone"] \in Row
  BY <1>1
<1>3. \A t \in BOOLEAN : NewRow(t) \in Row
  BY DEF NewRow
<1> QED
  BY <1>1, <1>2, <1>3

LEMMA ConstantRecords ==
  /\ IdleRun \in Run
  /\ IdleReq \in Req
BY ConstantRows DEF IdleRun, IdleReq, At, Call, Run, Req, RunPc, ReqPc

LEMMA RetryType == ASSUME NEW j \in Job PROVE RetryOrFail(j) \in Job
BY BoundAssumption DEF RetryOrFail, Job, JobStatus

(* The records of a request and of a run: built from parts of the right    *)
(* type, and taken apart again.                                            *)
LEMMA CallType ==
  ASSUME NEW pc \in ReqPc, NEW d \in Docs, NEW u \in BOOLEAN, NEW s \in Row
  PROVE  /\ Call(pc, d, u, s) \in Req /\ Call(pc, d, u, s).doc = d
         /\ Call(pc, d, u, s).pc = pc
BY DEF Call, Req

LEMMA AtType ==
  ASSUME NEW pc \in RunPc, NEW d \in Docs, NEW s \in Row, NEW prev \in SUBSET Gens
  PROVE  /\ At(pc, d, s, prev) \in Run /\ At(pc, d, s, prev).doc = d
         /\ At(pc, d, s, prev).pc = pc
BY DEF At, Run

LEMMA Fields ==
  /\ \A q \in Req : q.seen \in Row /\ q.upload \in BOOLEAN
  /\ \A x \in Run : x.seen \in Row /\ x.prev \in SUBSET Gens
BY DEF Req, Run

(* What a step leaves well typed when it replaces one request, one run or  *)
(* one row.                                                                *)
LEMMA SetReqType ==
  ASSUME ReqOK, NEW r \in Reqs, NEW q \in Req, q.pc # "idle" => q.doc \in Docs,
         SetReq(r, q)
  PROVE  ReqOK'
BY DEF ReqOK, SetReq

LEMMA SetRunType ==
  ASSUME RunOK, NEW w \in Workers, NEW x \in Run, x.pc # "idle" => x.doc \in Docs,
         SetRun(w, x)
  PROVE  RunOK'
BY DEF RunOK, SetRun

LEMMA SetCallType ==
  ASSUME ReqOK, NEW r \in Reqs, NEW pc \in ReqPc, NEW d \in Docs,
         NEW u \in BOOLEAN, NEW s \in Row, SetReq(r, Call(pc, d, u, s))
  PROVE  ReqOK'
BY CallType, SetReqType

LEMMA SetIdleType ==
  /\ \A r \in Reqs : ReqOK /\ SetReq(r, IdleReq) => ReqOK'
  /\ \A w \in Workers : RunOK /\ SetRun(w, IdleRun) => RunOK'
<1>1. IdleReq.pc = "idle" /\ IdleRun.pc = "idle"
  BY DEF IdleReq, IdleRun, Call, At
<1> QED
  BY <1>1, ConstantRecords, SetReqType, SetRunType

LEMMA GoToType ==
  ASSUME RunOK, NEW w \in Workers, run[w].pc # "idle", NEW pc \in RunPc,
         NEW s \in Row, GoTo(w, pc, s) \/ Quit(w, pc)
  PROVE  RunOK'
<1>1. run[w].doc \in Docs /\ run[w].prev \in SUBSET Gens /\ {} \in SUBSET Gens
  BY Fields DEF RunOK
<1>2. /\ At(pc, run[w].doc, s, run[w].prev) \in Run
      /\ At(pc, run[w].doc, s, run[w].prev).doc = run[w].doc
      /\ At(pc, run[w].doc, NoRow, {}) \in Run
      /\ At(pc, run[w].doc, NoRow, {}).doc = run[w].doc
  BY <1>1, AtType, ConstantRows
<1> QED
  BY <1>1, <1>2, SetRunType DEF GoTo, Quit

LEMMA FlushRowType ==
  ASSUME row \in [Docs -> Row], NEW d \in Docs, NEW seen \in Row, NEW new \in Row,
         row' = [row EXCEPT ![d] = Flush(@, seen, new)]
  PROVE  row' \in [Docs -> Row]
<1>1. Flush(row[d], seen, new) \in Row
  BY FlushType
<1> QED
  BY <1>1

LEMMA FaultType == faults \in 0..MaxFaults /\ Fault => faults' \in 0..MaxFaults
BY BoundAssumption DEF Fault

LEMMA TypeInit == Init => TypeOK
<1> SUFFICES ASSUME Init PROVE TypeOK
    OBVIOUS
<1>1. /\ [status |-> "none", left |-> 0] \in Job
      /\ faults \in 0..MaxFaults
  BY BoundAssumption DEF Init, Job, JobStatus
<1>2. ReqOK /\ RunOK
  BY ConstantRecords DEF Init, ReqOK, RunOK, IdleRun, IdleReq, At, Call
<1> QED
  BY <1>1, <1>2, ConstantRows DEF Init, TypeOK, ReapOK

-----------------------------------------------------------------------------
(* TypeOK is inductive: the steps of a request ...                         *)

LEMMA TypeApi ==
  ASSUME TypeOK, NEW r \in Reqs, ApiStep(r)
  PROVE  TypeOK'
<1> USE ConstantRows DEF TypeOK
<1>0. /\ req[r].pc # "idle" => req[r].doc \in Docs
      /\ req[r].seen \in Row /\ req[r].upload \in BOOLEAN
  BY Fields DEF ReqOK
<1>1. ASSUME NEW d \in Docs, CreateDocument(r, d) PROVE TypeOK'
  <2>1. ReqOK'
    BY <1>1, SetCallType DEF CreateDocument, ReqPc
  <2> QED
    BY <1>1, <2>1 DEF CreateDocument, RunOK, ReapOK
<1>2. ASSUME NEW d \in Docs, SaveUpload(r, d) PROVE TypeOK'
  <2>1. ReqOK'
    BY <1>2, SetCallType DEF SaveUpload, ReqPc
  <2> QED
    BY <1>2, <2>1 DEF SaveUpload, RunOK, ReapOK
<1>3. CASE CommitUpload(r)
  <2>1. ReqOK'
    BY <1>0, <1>3, SetCallType DEF CommitUpload, ReqPc
  <2>2. row' \in [Docs -> Row]
    BY <1>0, <1>3 DEF CommitUpload
  <2> QED
    BY <1>3, <2>1, <2>2 DEF CommitUpload, RunOK, ReapOK
<1>4. ASSUME NEW d \in Docs, ReindexCheck(r, d) PROVE TypeOK'
  <2>1. ReqOK'
    BY <1>4, SetCallType DEF ReindexCheck, ReqPc
  <2> QED
    BY <1>4, <2>1 DEF ReindexCheck, RunOK, ReapOK
<1>5. CASE ReindexCommit(r)
  <2>1. ReqOK'
    BY <1>0, <1>5, SetCallType, SetIdleType DEF ReindexCommit, ReqPc
  <2>2. row' \in [Docs -> Row]
    BY <1>0, <1>5, FlushRowType, EditType DEF ReindexCommit
  <2> QED
    BY <1>5, <2>1, <2>2 DEF ReindexCommit, RunOK, ReapOK
<1>6. CASE EnqueueFetch(r)
  <2>1. ReqOK'
    BY <1>0, <1>6, SetCallType, SetIdleType DEF EnqueueFetch, ReqPc
  <2>2. file' \in [Docs -> BOOLEAN]
    BY <1>6 DEF EnqueueFetch, DropUpload
  <2> QED
    BY <1>6, <2>1, <2>2 DEF EnqueueFetch, RunOK, ReapOK
<1>7. CASE EnqueueJob(r)
  <2>1. ReqOK'
    BY <1>7, SetIdleType DEF EnqueueJob
  <2>2. queue' \subseteq Docs /\ job' \in [Docs -> Job]
    BY <1>0, <1>7, BoundAssumption DEF EnqueueJob, NewJob, Job, JobStatus
  <2> QED
    BY <1>7, <2>1, <2>2 DEF EnqueueJob, RunOK, ReapOK
<1>8. CASE EnqueueError(r)
  <2>1. ReqOK'
    BY <1>0, <1>8, SetCallType DEF EnqueueError, ReqPc
  <2>2. queue' \subseteq Docs /\ job' \in [Docs -> Job]
    BY <1>0, <1>8, BoundAssumption DEF EnqueueError, NewJob, Job, JobStatus
  <2> QED
    BY <1>8, <2>1, <2>2, BoundAssumption DEF EnqueueError, RunOK, ReapOK, Fault
<1>9. CASE MarkEnqueueFailed(r)
  <2>1. ReqOK'
    BY <1>9, SetIdleType DEF MarkEnqueueFailed
  <2>2. row' \in [Docs -> Row]
    BY <1>0, <1>9, QueueFailedType DEF MarkEnqueueFailed
  <2> QED
    BY <1>9, <2>1, <2>2 DEF MarkEnqueueFailed, DropUpload, RunOK, ReapOK
<1>10. CASE RequestFails(r)
  <2>1. ReqOK'
    BY <1>10, SetIdleType DEF RequestFails
  <2>2. faults' \in 0..MaxFaults
    BY <1>10, FaultType DEF RequestFails
  <2> QED
    BY <1>10, <2>1, <2>2 DEF RequestFails, DropUpload, RunOK, ReapOK
<1> QED
  BY <1>1, <1>2, <1>3, <1>4, <1>5, <1>6, <1>7, <1>8, <1>9, <1>10 DEF ApiStep

(* ... and of a run.                                                       *)
LEMMA TypeRun ==
  ASSUME TypeOK, NEW w \in Workers, RunStep(w)
  PROVE  TypeOK'
<1> USE ConstantRows DEF TypeOK
<1>0. /\ run[w].pc # "idle" => run[w].doc \in Docs
      /\ run[w].seen \in Row /\ run[w].prev \in SUBSET Gens
  BY Fields DEF RunOK
<1>1. CASE LoadDocument(w)
  <2>1. RunOK'
    BY <1>0, <1>1, GoToType DEF LoadDocument, RunPc
  <2> QED
    BY <1>1, <2>1 DEF LoadDocument, ReqOK, ReapOK
<1>2. CASE MarkProcessing(w)
  <2>1. RunOK'
    BY <1>0, <1>2, GoToType, EditType DEF MarkProcessing, RunPc
  <2>2. row' \in [Docs -> Row]
    BY <1>0, <1>2, FlushRowType, EditType DEF MarkProcessing
  <2> QED
    BY <1>2, <2>1, <2>2 DEF MarkProcessing, ReqOK, ReapOK
<1>3. CASE CapturePrevious(w)
  <2>1. RunOK'
    BY <1>0, <1>3, AtType, SetRunType DEF CapturePrevious, RunPc
  <2> QED
    BY <1>3, <2>1 DEF CapturePrevious, ReqOK, ReapOK
<1>4. CASE ExtractAndEmbed(w)
  <2>1. RunOK'
    BY <1>0, <1>4, GoToType DEF ExtractAndEmbed, RunPc
  <2> QED
    BY <1>4, <2>1 DEF ExtractAndEmbed, ReqOK, ReapOK
<1>5. CASE CommitIndexed(w)
  <2>1. RunOK'
    BY <1>0, <1>5, GoToType DEF CommitIndexed, RunPc
  <2>2. CASE Publish(w)
    <3>1. row' \in [Docs -> Row]
      BY <1>0, <1>5, <2>2, FlushRowType, EditType DEF CommitIndexed, Publish
    <3> QED
      BY <1>5, <2>1, <2>2, <3>1 DEF CommitIndexed, Publish, FreshGens, ReqOK, ReapOK
  <2>3. CASE UNCHANGED <<row, chunks, newest>>
    BY <1>5, <2>1, <2>3 DEF CommitIndexed, ReqOK, ReapOK
  <2> QED
    BY <1>5, <2>2, <2>3 DEF CommitIndexed
<1>6. CASE CleanupPrevious(w)
  <2>1. RunOK'
    BY <1>0, <1>6, GoToType DEF CleanupPrevious, RunPc
  <2> QED
    BY <1>6, <2>1 DEF CleanupPrevious, ReqOK, ReapOK
<1>7. CASE ReloadForFailure(w)
  <2>1. RunOK'
    BY <1>0, <1>7, GoToType DEF ReloadForFailure, RunPc
  <2> QED
    BY <1>7, <2>1 DEF ReloadForFailure, ReqOK, ReapOK
<1>8. CASE MarkFailed(w)
  <2>1. RunOK'
    BY <1>0, <1>8, GoToType DEF MarkFailed, RunPc
  <2>2. row' \in [Docs -> Row]
    BY <1>0, <1>8, FlushRowType, EditType DEF MarkFailed
  <2> QED
    BY <1>8, <2>1, <2>2 DEF MarkFailed, ReqOK, ReapOK
<1>9. CASE JobSucceeded(w)
  <2>1. job' \in [Docs -> Job]
    BY <1>0, <1>9 DEF JobSucceeded, Job, JobStatus
  <2> QED
    BY <1>9, <2>1, SetIdleType DEF JobSucceeded, ReqOK, ReapOK
<1>10. CASE JobRaised(w)
  <2>1. job' \in [Docs -> Job]
    BY <1>0, <1>10, RetryType DEF JobRaised
  <2> QED
    BY <1>10, <2>1, SetIdleType DEF JobRaised, ReqOK, ReapOK
<1> QED
  BY <1>1, <1>2, <1>3, <1>4, <1>5, <1>6, <1>7, <1>8, <1>9, <1>10 DEF RunStep

LEMMA TypeStep == TypeOK /\ [Next]_vars => TypeOK'
<1> SUFFICES ASSUME TypeOK, [Next]_vars PROVE TypeOK'
    OBVIOUS
<1> USE ConstantRows DEF TypeOK
<1>1. ASSUME NEW r \in Reqs, ApiStep(r) PROVE TypeOK'
  BY <1>1, TypeApi
<1>2. ASSUME NEW w \in Workers, RunStep(w) PROVE TypeOK'
  BY <1>2, TypeRun
<1>3. ASSUME NEW l, ApiCrash(l) PROVE TypeOK'
  <2>1. ReqOK'
    BY <1>3, ConstantRecords DEF ApiCrash, ReqOK, IdleReq, Call
  <2> QED
    BY <1>3, <2>1, BoundAssumption DEF ApiCrash, Fault, RunOK, ReapOK
<1>4. ASSUME NEW d \in Docs, SessionDelete(d) PROVE TypeOK'
  BY <1>4 DEF SessionDelete, ReqOK, RunOK, ReapOK
<1>5. ASSUME NEW w \in Workers, NEW d \in Docs, Dequeue(w, d) PROVE TypeOK'
  <2>1. RunOK'
    BY <1>5, AtType, SetRunType DEF Dequeue, RunPc
  <2>2. job' \in [Docs -> Job]
    BY <1>5 DEF Dequeue, Job, JobStatus
  <2> QED
    BY <1>5, <2>1, <2>2 DEF Dequeue, ReqOK, ReapOK
<1>6. ASSUME NEW w \in Workers, ReclaimJob(w) PROVE TypeOK'
  <2>1. job' \in [Docs -> Job]
    BY <1>6, RetryType DEF ReclaimJob, RunOK
  <2> QED
    BY <1>6, <2>1, SetIdleType DEF ReclaimJob, ReqOK, ReapOK
<1>7. ASSUME NEW w \in Workers, TransientError(w) PROVE TypeOK'
  <2>1. RunOK'
    BY <1>7, GoToType DEF TransientError, RunPc
  <2> QED
    BY <1>7, <2>1, BoundAssumption DEF TransientError, Fault, ReqOK, ReapOK
<1>8. ASSUME NEW w \in Workers, LostCommitReply(w) PROVE TypeOK'
  <2>1. RunOK' /\ run[w].doc \in Docs /\ run[w].seen \in Row
    BY <1>8, GoToType, Fields DEF LostCommitReply, RunPc, RunOK
  <2>2. row' \in [Docs -> Row]
    BY <1>8, <2>1, FlushRowType, EditType DEF LostCommitReply, Publish
  <2>3. faults' \in 0..MaxFaults
    BY <1>8, BoundAssumption DEF LostCommitReply, Fault
  <2> QED
    BY <1>8, <2>1, <2>2, <2>3 DEF LostCommitReply, Publish, FreshGens, ReqOK, ReapOK
<1>9. ASSUME NEW w \in Workers, WorkerCrash(w) PROVE TypeOK'
  <2>1. RunOK'
    BY <1>9, GoToType DEF WorkerCrash, Live, RunPc
  <2> QED
    BY <1>9, <2>1, BoundAssumption DEF WorkerCrash, Fault, ReqOK, ReapOK
<1>10. ASSUME NEW d \in Docs, SchedulerEnqueue(d) PROVE TypeOK'
  <2>1. job' \in [Docs -> Job]
    BY <1>10 DEF SchedulerEnqueue, Job, JobStatus
  <2> QED
    BY <1>10, <2>1 DEF SchedulerEnqueue, ReqOK, RunOK, ReapOK
<1>11. ASSUME NEW age \in ReapAges, ReapSelect(age) PROVE TypeOK'
  BY <1>11 DEF ReapSelect, ReqOK, RunOK, ReapOK
<1>12. CASE ReapCommit
  <2>1. \A d \in DOMAIN reap :
           Flush(row[d], reap[d], Failed(reap[d], "timeout")) \in Row
    BY FlushType, EditType DEF ReapOK
  <2>2. row' \in [Docs -> Row]
    BY <1>12, <2>1 DEF ReapCommit
  <2> QED
    BY <1>12, <2>2 DEF ReapCommit, ReqOK, RunOK, ReapOK
<1>13. CASE ReaperCrash
  BY <1>13, BoundAssumption DEF ReaperCrash, Fault, ReqOK, RunOK, ReapOK
<1>14. CASE Tick
  <2>1. \A x \in Row : Aged(x) \in Row
    BY AgeAssumption DEF Aged, Older, Row, Stamps
  <2> QED
    BY <1>14, <2>1 DEF Tick, ReqOK, RunOK, ReapOK
<1>15. CASE UNCHANGED vars
  BY <1>15 DEF vars, ReqOK, RunOK, ReapOK
<1> QED
  BY <1>1, <1>2, <1>3, <1>4, <1>5, <1>6, <1>7, <1>8, <1>9, <1>10, <1>11, <1>12,
     <1>13, <1>14, <1>15 DEF Next

(* Every variable of the pipeline keeps its type.                          *)
THEOREM TypeCorrect == Spec => []TypeOK
BY TypeInit, TypeStep, PTL DEF Spec

-----------------------------------------------------------------------------
(* The five things a step can be to retrieval and to a polling client.     *)

Waiting == {"pending", "processing", "failed"}

(* Statuses are reported, no chunk set and no cleanup in progress changes. *)
Reports ==
  /\ \A d \in Docs : \/ row'[d].status = row[d].status
                     \/ Exists(d) /\ row'[d].status \in Waiting
  /\ UNCHANGED <<chunks, newest>>
  /\ \A w \in Workers : run'[w].pc = "cleanup" => run'[w] = run[w]

Creates(d) ==
  /\ row[d].status = "unborn"
  /\ \E t \in BOOLEAN : row' = [row EXCEPT ![d] = NewRow(t)]
  /\ UNCHANGED <<chunks, newest, run>>

Publishes(w) ==
  /\ run[w].pc = "commit" /\ run[w].doc \in Docs /\ Publish(w)
  /\ \A v \in Workers \ {w} : run'[v] = run[v]
  /\ run'[w].pc = "cleanup" => /\ run'[w].doc = run[w].doc
                               /\ run'[w].prev = run[w].prev

Shape ==
  \/ Reports
  \/ \E d \in Docs : Creates(d) \/ SessionDelete(d)
  \/ \E w \in Workers : Publishes(w) \/ (run[w].doc \in Docs /\ CleanupPrevious(w))

(* A flush of an edit that does not say "indexed" reports a status.        *)
LEMMA FlushReports ==
  ASSUME row \in [Docs -> Row], NEW d \in Docs, Exists(d), NEW seen,
         NEW new, new.status \in Waiting,
         row' = [row EXCEPT ![d] = Flush(@, seen, new)]
  PROVE  \A e \in Docs : \/ row'[e].status = row[e].status
                         \/ Exists(e) /\ row'[e].status \in Waiting
BY DEF Flush, Put

LEMMA EditReports ==
  ASSUME NEW r
  PROVE  /\ Processing(r).status \in Waiting /\ Pending(r).status \in Waiting
         /\ \A e : Failed(r, e).status \in Waiting
BY DEF Processing, Pending, Failed, Edit, Waiting

(* A worker that moves to any place but the cleanup leaves the cleanups    *)
(* of all workers as they are.                                             *)
LEMMA MoveReports ==
  ASSUME RunOK, NEW w \in Workers, NEW pc \in RunPc \ {"cleanup"}, NEW s,
         GoTo(w, pc, s) \/ Quit(w, pc) \/ SetRun(w, IdleRun)
  PROVE  \A v \in Workers : run'[v].pc = "cleanup" => run'[v] = run[v]
BY DEF RunOK, GoTo, Quit, SetRun, At, IdleRun

LEMMA ShapeApi ==
  ASSUME TypeOK, NEW r \in Reqs, ApiStep(r)
  PROVE  Shape
<1> USE DEF TypeOK, ReqOK
<1>1. ASSUME NEW d \in Docs, CreateDocument(r, d) PROVE Shape
  BY <1>1 DEF CreateDocument, Shape, Creates
<1>2. ASSUME NEW d \in Docs, SaveUpload(r, d) \/ ReindexCheck(r, d) PROVE Shape
  BY <1>2 DEF SaveUpload, ReindexCheck, Shape, Reports
<1>3. CASE CommitUpload(r)
  <2>1. req[r].doc \in Docs /\ UNCHANGED <<chunks, newest, run>>
    BY <1>3 DEF CommitUpload
  <2>2. /\ row' = [row EXCEPT ![req[r].doc] = NewRow(FALSE)]
        /\ row[req[r].doc].status = "unborn"
    BY <1>3 DEF CommitUpload
  <2> QED
    BY <2>1, <2>2 DEF Shape, Creates
<1>4. CASE ReindexCommit(r)
  <2>1. \A e \in Docs : \/ row'[e].status = row[e].status
                        \/ Exists(e) /\ row'[e].status \in Waiting
    BY <1>4, FlushReports, EditReports DEF ReindexCommit
  <2> QED
    BY <1>4, <2>1 DEF ReindexCommit, Shape, Reports
<1>5. CASE EnqueueFetch(r) \/ EnqueueJob(r) \/ EnqueueError(r) \/ RequestFails(r)
  BY <1>5 DEF EnqueueFetch, EnqueueJob, EnqueueError, RequestFails, Shape, Reports
<1>6. CASE MarkEnqueueFailed(r)
  <2>1. \A e \in Docs : \/ row'[e].status = row[e].status
                        \/ Exists(e) /\ row'[e].status \in Waiting
    BY <1>6, QueueFailedType DEF MarkEnqueueFailed, Waiting
  <2> QED
    BY <1>6, <2>1 DEF MarkEnqueueFailed, Shape, Reports
<1> QED
  BY <1>1, <1>2, <1>3, <1>4, <1>5, <1>6 DEF ApiStep

LEMMA ShapeRun ==
  ASSUME TypeOK, NEW w \in Workers, RunStep(w)
  PROVE  Shape
<1> USE DEF TypeOK
<1>0. /\ run[w].pc # "idle" => run[w].doc \in Docs
      /\ run[w].prev \in SUBSET Gens
  BY Fields DEF RunOK
<1>1. CASE LoadDocument(w)
  <2>1. \A v \in Workers : run'[v].pc = "cleanup" => run'[v] = run[v]
    BY <1>1, MoveReports DEF LoadDocument, RunPc
  <2> QED
    BY <1>1, <2>1 DEF LoadDocument, Shape, Reports
<1>2. CASE MarkProcessing(w)
  <2>1. \A v \in Workers : run'[v].pc = "cleanup" => run'[v] = run[v]
    BY <1>2, MoveReports DEF MarkProcessing, RunPc
  <2>2. \A e \in Docs : \/ row'[e].status = row[e].status
                        \/ Exists(e) /\ row'[e].status \in Waiting
    BY <1>0, <1>2, FlushReports, EditReports DEF MarkProcessing
  <2> QED
    BY <1>2, <2>1, <2>2 DEF MarkProcessing, Shape, Reports
<1>3. CASE CapturePrevious(w)
  <2>1. \A v \in Workers : run'[v].pc = "cleanup" => run'[v] = run[v]
    BY <1>3 DEF CapturePrevious, SetRun, At, RunOK
  <2> QED
    BY <1>3, <2>1 DEF CapturePrevious, Shape, Reports
<1>4. CASE ExtractAndEmbed(w)
  <2>1. \A v \in Workers : run'[v].pc = "cleanup" => run'[v] = run[v]
    BY <1>4, MoveReports DEF ExtractAndEmbed, RunPc
  <2> QED
    BY <1>4, <2>1 DEF ExtractAndEmbed, Shape, Reports
<1>5. CASE CommitIndexed(w)
  <2>1. CASE /\ Publish(w)
             /\ GoTo(w, IF run[w].prev = {} THEN "ok" ELSE "cleanup", NoRow)
    <3>1. \A v \in Workers \ {w} : run'[v] = run[v]
      BY <2>1 DEF GoTo, SetRun, RunOK
    <3>2. run'[w].doc = run[w].doc /\ run'[w].prev = run[w].prev
      BY <2>1 DEF GoTo, SetRun, At, RunOK
    <3> QED
      BY <1>0, <1>5, <2>1, <3>1, <3>2 DEF CommitIndexed, Shape, Publishes
  <2>2. CASE Quit(w, "fail") /\ UNCHANGED <<row, chunks, newest>>
    <3>1. \A v \in Workers : run'[v].pc = "cleanup" => run'[v] = run[v]
      BY <2>2, MoveReports DEF RunPc
    <3> QED
      BY <2>2, <3>1 DEF Shape, Reports
  <2> QED
    BY <1>5, <2>1, <2>2 DEF CommitIndexed
<1>6. CASE CleanupPrevious(w)
  BY <1>0, <1>6 DEF CleanupPrevious, Shape
<1>7. CASE ReloadForFailure(w)
  <2>1. \A v \in Workers : run'[v].pc = "cleanup" => run'[v] = run[v]
    BY <1>7, MoveReports DEF ReloadForFailure, RunPc
  <2> QED
    BY <1>7, <2>1 DEF ReloadForFailure, Shape, Reports
<1>8. CASE MarkFailed(w)
  <2>1. \A v \in Workers : run'[v].pc = "cleanup" => run'[v] = run[v]
    BY <1>8, MoveReports DEF MarkFailed, RunPc
  <2>2. \A e \in Docs : \/ row'[e].status = row[e].status
                        \/ Exists(e) /\ row'[e].status \in Waiting
    BY <1>0, <1>8, FlushReports, EditReports DEF MarkFailed
  <2> QED
    BY <1>8, <2>1, <2>2 DEF MarkFailed, Shape, Reports
<1>9. CASE JobSucceeded(w) \/ JobRaised(w)
  <2>1. \A v \in Workers : run'[v].pc = "cleanup" => run'[v] = run[v]
    BY <1>9, MoveReports DEF JobSucceeded, JobRaised, RunPc
  <2> QED
    BY <1>9, <2>1 DEF JobSucceeded, JobRaised, Shape, Reports
<1> QED
  BY <1>1, <1>2, <1>3, <1>4, <1>5, <1>6, <1>7, <1>8, <1>9 DEF RunStep

(* Every step of the pipeline has one of the five shapes.                  *)
LEMMA StepShape == TypeOK /\ [Next]_vars => Shape
<1> SUFFICES ASSUME TypeOK, [Next]_vars PROVE Shape
    OBVIOUS
<1> USE DEF TypeOK
<1>1. ASSUME NEW r \in Reqs, ApiStep(r) \/ ApiCrash(LoopOf[r]) PROVE Shape
  BY <1>1, ShapeApi DEF ApiCrash, Shape, Reports
<1>2. ASSUME NEW d \in Docs, SessionDelete(d) \/ SchedulerEnqueue(d) PROVE Shape
  BY <1>2 DEF SchedulerEnqueue, Shape, Reports
<1>3. ASSUME NEW w \in Workers, NEW d \in Docs, Dequeue(w, d) PROVE Shape
  <2>1. \A v \in Workers : run'[v].pc = "cleanup" => run'[v] = run[v]
    BY <1>3 DEF Dequeue, SetRun, At, RunOK
  <2> QED
    BY <1>3, <2>1 DEF Dequeue, Shape, Reports
<1>4. ASSUME NEW w \in Workers, RunStep(w) PROVE Shape
  BY <1>4, ShapeRun
<1>5. ASSUME NEW w \in Workers, ReclaimJob(w) \/ TransientError(w) \/ WorkerCrash(w)
      PROVE Shape
  <2>1. \A v \in Workers : run'[v].pc = "cleanup" => run'[v] = run[v]
    BY <1>5, MoveReports DEF ReclaimJob, TransientError, WorkerCrash, RunPc
  <2> QED
    BY <1>5, <2>1 DEF ReclaimJob, TransientError, WorkerCrash, Shape, Reports
<1>6. ASSUME NEW w \in Workers, LostCommitReply(w) PROVE Shape
  <2>1. /\ run[w].pc = "commit" /\ run[w].doc \in Docs
        /\ Publish(w) /\ Quit(w, "fail")
    BY <1>6 DEF LostCommitReply, RunOK
  <2>2. (\A v \in Workers \ {w} : run'[v] = run[v]) /\ run'[w].pc = "fail"
    BY <2>1 DEF Quit, SetRun, At, RunOK
  <2> QED
    BY <2>1, <2>2 DEF Shape, Publishes
<1>7. CASE (\E age \in ReapAges : ReapSelect(age)) \/ ReaperCrash
  BY <1>7 DEF ReapSelect, ReaperCrash, Shape, Reports
<1>8. CASE ReapCommit
  <2>1. \A d \in Docs : \/ row'[d].status = row[d].status
                        \/ Exists(d) /\ row'[d].status \in Waiting
    BY <1>8, EditReports DEF ReapCommit, Flush, Put, ReapOK
  <2> QED
    BY <1>8, <2>1 DEF ReapCommit, Shape, Reports
<1>9. CASE Tick
  BY <1>9 DEF Tick, Aged, Shape, Reports
<1>10. CASE UNCHANGED vars
  BY <1>10 DEF vars, Shape, Reports
<1> QED
  BY <1>1, <1>2, <1>3, <1>4, <1>5, <1>6, <1>7, <1>8, <1>9, <1>10 DEF Next

-----------------------------------------------------------------------------
(* LatestChunksKept alone is not inductive: a cleanup in progress holds a   *)
(* list of chunk sets captured earlier, and the latest set must not be in  *)
(* it; nor may a document have chunk sets and no latest one.               *)
ChunkInv ==
  /\ LatestChunksKept
  /\ \A d \in Docs : chunks[d] # {} => newest[d] # NoGen
  /\ \A w \in Workers :
       run[w].pc = "cleanup" => newest[run[w].doc] \notin run[w].prev

LEMMA ChunkInit == Init => ChunkInv
BY ConstantRows DEF Init, ChunkInv, LatestChunksKept, IdleRun, At, NoRow

LEMMA ChunkStep == TypeOK /\ ChunkInv /\ Shape => ChunkInv'
<1> SUFFICES ASSUME TypeOK, ChunkInv, Shape PROVE ChunkInv'
    OBVIOUS
<1> USE DEF TypeOK, RunOK, ChunkInv, LatestChunksKept
<1>1. CASE Reports
  BY <1>1 DEF Reports, Waiting
<1>2. ASSUME NEW d \in Docs, Creates(d) PROVE ChunkInv'
  BY <1>2, ConstantRows DEF Creates, NewRow
<1>3. ASSUME NEW d \in Docs, SessionDelete(d) PROVE ChunkInv'
  <2>1. row'[d].status = "gone"
    BY <1>3, ConstantRows DEF SessionDelete, NoRow
  <2>2. \A w \in Workers : run'[w].pc = "cleanup" => NoGen \notin run'[w].prev
    BY <1>3, Fields, NoneAssumption DEF SessionDelete
  <2> QED
    BY <1>3, <2>1, <2>2 DEF SessionDelete
<1>4. ASSUME NEW w \in Workers, Publishes(w) PROVE ChunkInv'
  <2>1. PICK g \in FreshGens(run[w].doc) :
          /\ chunks' = [chunks EXCEPT ![run[w].doc] = @ \cup {g}]
          /\ newest' = [newest EXCEPT ![run[w].doc] = g]
    BY <1>4 DEF Publishes, Publish
  <2>2. g \in Gens /\ g # NoGen
    BY <2>1, NoneAssumption DEF FreshGens
  <2>3. \A v \in Workers : run[v].doc = run[w].doc => g \notin run[v].prev
    BY <2>1 DEF FreshGens, Captured
  <2>4. LatestChunksKept'
    <3>1. \A d \in Docs : d # run[w].doc => row'[d] = row[d]
      BY <1>4 DEF Publishes, Publish
    <3> QED
      BY <1>4, <2>1, <2>2, <3>1 DEF Publishes
  <2>5. \A d \in Docs : chunks'[d] # {} => newest'[d] # NoGen
    BY <1>4, <2>1, <2>2 DEF Publishes
  <2>6. \A v \in Workers :
          run'[v].pc = "cleanup" => newest'[run'[v].doc] \notin run'[v].prev
    BY <1>4, <2>1, <2>3 DEF Publishes
  <2> QED
    BY <2>4, <2>5, <2>6
<1>5. ASSUME NEW w \in Workers, run[w].doc \in Docs, CleanupPrevious(w)
      PROVE ChunkInv'
  <2>1. \A v \in Workers : run'[v].pc = "cleanup" => run'[v] = run[v]
    BY <1>5 DEF CleanupPrevious, Quit, SetRun, At
  <2>2. newest[run[w].doc] \notin run[w].prev
    BY <1>5 DEF CleanupPrevious
  <2> QED
    BY <1>5, <2>1, <2>2 DEF CleanupPrevious
<1> QED
  BY <1>1, <1>2, <1>3, <1>4, <1>5 DEF Shape

LEMMA ChunkCorrect == Spec => [](TypeOK /\ ChunkInv)
<1>1. TypeOK /\ ChunkInv /\ [Next]_vars => (TypeOK /\ ChunkInv)'
  BY TypeStep, ChunkStep, StepShape
<1> QED
  BY <1>1, TypeInit, ChunkInit, PTL DEF Spec

(* Whatever overlaps, fails or crashes, the cleanup never deletes the      *)
(* chunk set committed last, and an indexed document has one.              *)
THEOREM LatestChunksAreKept == Spec => []LatestChunksKept
<1>1. ChunkInv => LatestChunksKept
  BY DEF ChunkInv
<1> QED
  BY <1>1, ChunkCorrect, PTL

(* A searchable document stays searchable until it is deleted.             *)
THEOREM NeverUnsearchable == Spec => SearchableNeverLost
<1> DEFINE Keeps == \A d \in Docs : chunks[d] # {} /\ Exists(d)' => chunks'[d] # {}
<1>1. TypeOK /\ ChunkInv /\ [Next]_vars => [Keeps]_vars
  <2> SUFFICES ASSUME TypeOK, ChunkInv, Shape PROVE Keeps
    BY StepShape
  <2> USE DEF TypeOK
  <2>1. CASE Reports
    BY <2>1 DEF Reports
  <2>2. ASSUME NEW d \in Docs, Creates(d) PROVE Keeps
    BY <2>2 DEF Creates
  <2>3. ASSUME NEW d \in Docs, SessionDelete(d) PROVE Keeps
    <3>1. row'[d].status = "gone"
      BY <2>3, ConstantRows DEF SessionDelete, NoRow
    <3> QED
      BY <2>3, <3>1 DEF SessionDelete, Exists
  <2>4. ASSUME NEW w \in Workers, Publishes(w) PROVE Keeps
    BY <2>4 DEF Publishes, Publish
  <2>5. ASSUME NEW w \in Workers, run[w].doc \in Docs, CleanupPrevious(w) PROVE Keeps
    BY <2>5 DEF CleanupPrevious, ChunkInv, LatestChunksKept
  <2> QED
    BY <2>1, <2>2, <2>3, <2>4, <2>5 DEF Shape
<1> QED
  BY <1>1, ChunkCorrect, PTL DEF Spec, SearchableNeverLost

-----------------------------------------------------------------------------
(* Requests.  Where documents are only created, never reindexed, each one  *)
(* is in the hands of at most one request, and has no job before that      *)
(* request has queued it.                                                  *)
Born(d) == row[d].status # "unborn"

Open(r) == req[r].pc # "idle"

Serves(q) ==
  /\ q.pc # "recommit"
  /\ q.pc = "insert" => file[q.doc] \/ Born(q.doc)
  /\ q.pc \in {"enqueue", "replace", "queuefailed"} => Born(q.doc)
  /\ q.pc \in {"insert", "enqueue", "replace"} => job[q.doc].status = "none"

ReqInv ==
  /\ \A r, s \in Reqs : Open(r) /\ Open(s) /\ req[r].doc = req[s].doc => r = s
  /\ \A r \in Reqs : Serves(req[r])
  /\ \A d \in Docs : job[d].status # "none" => Born(d)

(* A step in which requests end at most, and which takes nothing from the  *)
(* documents the others serve.                                             *)
LEMMA ReqKeep ==
  ASSUME TypeOK, ReqInv,
         \A r \in Reqs : req'[r] = req[r] \/ req'[r].pc = "idle",
         \A d \in Docs : /\ Born(d) => Born(d)'
                         /\ file[d] => file'[d] \/ Born(d)'
                         /\ job'[d].status # "none" => job[d].status # "none"
  PROVE  ReqInv'
<1>1. \A r \in Reqs : Open(r)' => req'[r] = req[r] /\ Open(r) /\ req[r].doc \in Docs
  BY DEF Open, TypeOK, ReqOK
<1>2. ASSUME NEW r \in Reqs PROVE Serves(req[r])'
  BY <1>1 DEF ReqInv, Serves, Open
<1> QED BY <1>1, <1>2 DEF ReqInv

(* A step of one request, on a document no other request serves.           *)
LEMMA ReqMove ==
  ASSUME TypeOK, ReqInv, NEW r \in Reqs, NEW q, SetReq(r, q), Serves(q)',
         \A s \in Reqs \ {r} : Open(s) =>
           /\ q.pc # "idle" => q.doc # req[s].doc
           /\ file[req[s].doc] => file'[req[s].doc]
           /\ job'[req[s].doc] = job[req[s].doc],
         \A d \in Docs : /\ Born(d) => Born(d)'
                         /\ job'[d].status # "none" => Born(d)'
  PROVE  ReqInv'
<1>1. req'[r] = q /\ \A s \in Reqs \ {r} : req'[s] = req[s]
  BY DEF SetReq, TypeOK, ReqOK
<1>2. \A s \in Reqs : Open(s) => req[s].doc \in Docs
  BY DEF Open, TypeOK, ReqOK
<1>3. ASSUME NEW s \in Reqs \ {r} PROVE Serves(req[s])'
  BY <1>1, <1>2 DEF ReqInv, Serves, Open
<1>4. Serves(req[r])'
  BY <1>1
<1>5. \A s, t \in Reqs : Open(s)' /\ Open(t)' /\ req'[s].doc = req'[t].doc => s = t
  BY <1>1 DEF ReqInv, Open
<1> QED BY <1>3, <1>4, <1>5 DEF ReqInv

LEMMA ReqApi ==
  ASSUME "reindex" \notin Ops, TypeOK, ReqInv, NEW r \in Reqs, ApiStep(r)
  PROVE  ReqInv'
<1> USE DEF TypeOK
<1>1. \A s \in Reqs : Open(s) => /\ req[s].doc \in Docs /\ Serves(req[s])
                                 /\ s # r /\ Open(r) => req[s].doc # req[r].doc
  BY DEF Open, ReqOK, ReqInv
<1>2. Serves(IdleReq)' /\ IdleReq.pc = "idle"
  BY DEF Serves, IdleReq, Call
<1>3. \A d \in Docs : job[d].status # "none" => Born(d)
  BY DEF ReqInv
<1>4. ASSUME NEW d \in Docs, row[d].status = "unborn", ~file[d], NEW s \in Reqs, Open(s)
      PROVE  req[s].doc # d
  BY <1>1, <1>4 DEF Serves, Born, Open, ReqPc, Req, ReqOK
<1>5. ASSUME NEW d \in Docs, CreateDocument(r, d) PROVE ReqInv'
  <2> DEFINE q == Call("enqueue", d, FALSE, NoRow)
  <2>1. q.pc = "enqueue" /\ q.doc = d BY DEF Call
  <2>2. /\ row' = [row EXCEPT ![d] = NewRow(TRUE)] /\ UNCHANGED <<file, job>>
        /\ SetReq(r, q) /\ row[d].status = "unborn" /\ ~file[d]
    BY <1>5 DEF CreateDocument
  <2>3. NewRow(TRUE).status = "pending" BY DEF NewRow
  <2>4. Born(d)' /\ \A e \in Docs : Born(e) => Born(e)'
    BY <2>2, <2>3 DEF Born
  <2>5. job[d].status = "none" BY <1>3, <2>2 DEF Born
  <2> HIDE DEF q
  <2>6. Serves(q)' BY <2>1, <2>2, <2>4, <2>5 DEF Serves, Born
  <2>7. \A s \in Reqs \ {r} : Open(s) => d # req[s].doc BY <1>4, <2>2
  <2> QED BY <1>3, <2>1, <2>2, <2>4, <2>6, <2>7, ReqMove
<1>6. ASSUME NEW d \in Docs, SaveUpload(r, d) PROVE ReqInv'
  <2> DEFINE q == Call("insert", d, TRUE, NoRow)
  <2>1. q.pc = "insert" /\ q.doc = d BY DEF Call
  <2>2. /\ file' = [file EXCEPT ![d] = TRUE] /\ UNCHANGED <<row, job>>
        /\ SetReq(r, q) /\ row[d].status = "unborn" /\ ~file[d]
    BY <1>6 DEF SaveUpload
  <2>3. job[d].status = "none" BY <1>3, <2>2 DEF Born
  <2> HIDE DEF q
  <2>4. Serves(q)' BY <2>1, <2>2, <2>3 DEF Serves
  <2>5. \A s \in Reqs \ {r} : Open(s) => d # req[s].doc BY <1>4, <2>2
  <2>6. \A e \in Docs : (Born(e) <=> Born(e)') /\ (file[e] => file'[e]) BY <2>2 DEF Born
  <2> QED BY <1>1, <1>3, <2>1, <2>2, <2>4, <2>5, <2>6, ReqMove
<1>7. ASSUME NEW d \in Docs, d = req[r].doc, CommitUpload(r) PROVE ReqInv'
  <2> DEFINE q == Call("enqueue", d, TRUE, NoRow)
  <2>1. Open(r) /\ row[d].status = "unborn" /\ job[d].status = "none"
        /\ UNCHANGED job
    BY <1>1, <1>7 DEF CommitUpload, Open, Serves
  <2>2. row' = [row EXCEPT ![d] = NewRow(FALSE)] /\ SetReq(r, q) /\ UNCHANGED file
    BY <1>7 DEF CommitUpload
  <2>3. q.pc = "enqueue" /\ q.doc = d BY DEF Call
  <2>4. NewRow(FALSE).status = "pending" BY DEF NewRow
  <2>5. Born(d)' /\ \A e \in Docs : Born(e) => Born(e)'
    BY <2>1, <2>2, <2>4 DEF Born
  <2> HIDE DEF q
  <2>6. Serves(q)' BY <2>1, <2>3, <2>5 DEF Serves, Born
  <2> QED BY <1>1, <1>3, <1>7, <2>1, <2>2, <2>3, <2>5, <2>6, ReqMove
<1>8. ASSUME Open(r), UNCHANGED <<row, queue, job>>, DropUpload(r) \/ UNCHANGED file,
             SetReq(r, IdleReq)
      PROVE  ReqInv'
  <2>1. \A s \in Reqs \ {r} : Open(s) /\ file[req[s].doc] => file'[req[s].doc]
    BY <1>1, <1>8 DEF DropUpload
  <2>2. \A e \in Docs : Born(e) <=> Born(e)' BY <1>8 DEF Born
  <2> QED BY <1>2, <1>3, <1>8, <2>1, <2>2, ReqMove
<1>9. ASSUME NEW d \in Docs, d = req[r].doc, EnqueueFetch(r) PROVE ReqInv'
  <2>0. PICK q : q = Call("replace", d, req[r].upload, row[d])
    OBVIOUS
  <2>1. Open(r) /\ Born(d) /\ job[d].status = "none"
        /\ UNCHANGED <<row, queue, job>>
    BY <1>1, <1>9 DEF EnqueueFetch, Open, Serves
  <2>2. CASE SetReq(r, q) /\ UNCHANGED file
    <3>1. q.pc = "replace" /\ q.doc = d BY <2>0 DEF Call
    <3>2. \A e \in Docs : Born(e) <=> Born(e)' BY <2>1 DEF Born
    <3>3. Serves(q)' BY <2>1, <3>1, <3>2 DEF Serves
    <3> QED BY <1>1, <1>3, <1>9, <2>1, <2>2, <3>1, <3>2, <3>3, ReqMove
  <2> QED BY <1>8, <1>9, <2>0, <2>1, <2>2 DEF EnqueueFetch
<1>10. ASSUME req[r].pc \in {"enqueue", "replace"}, UNCHANGED <<row, file>>,
              UNCHANGED job \/ NewJob(req[r].doc), NEW q, SetReq(r, q), Serves(q)',
              q.pc # "idle" => q.doc = req[r].doc
       PROVE  ReqInv'
  <2>1. Open(r) /\ req[r].doc \in Docs /\ Born(req[r].doc)
    BY <1>1, <1>10 DEF Open, Serves
  <2>2. \A e \in Docs : /\ e # req[r].doc => job'[e] = job[e]
                        /\ Born(e) <=> Born(e)'
    BY <1>10 DEF NewJob, Born
  <2> QED BY <1>1, <1>3, <1>10, <2>1, <2>2, ReqMove
<1>11. CASE EnqueueJob(r)
  BY <1>2, <1>10, <1>11 DEF EnqueueJob
<1>12. ASSUME NEW d \in Docs, d = req[r].doc, EnqueueError(r) PROVE ReqInv'
  <2> DEFINE s == IF req[r].pc = "enqueue" THEN row[d] ELSE req[r].seen
  <2>0. PICK q : q = Call("queuefailed", d, req[r].upload, s)
    OBVIOUS
  <2>1. q.pc = "queuefailed" /\ q.doc = d BY <2>0 DEF Call
  <2>2. /\ SetReq(r, q) /\ UNCHANGED <<row, file>> /\ req[r].pc \in {"enqueue", "replace"}
        /\ UNCHANGED job \/ NewJob(d)
    BY <1>12, <2>0 DEF EnqueueError
  <2>3. Born(d)' BY <1>1, <1>12, <2>2 DEF Open, Serves, Born
  <2>4. Serves(q)' BY <2>1, <2>2, <2>3 DEF Serves, Born
  <2> QED BY <1>10, <1>12, <2>1, <2>2, <2>4
<1>13. ASSUME NEW d \in Docs, d = req[r].doc, MarkEnqueueFailed(r) PROVE ReqInv'
  <2>1. Open(r) /\ Born(d) /\ SetReq(r, IdleReq) /\ DropUpload(r)
        /\ UNCHANGED job
    BY <1>1, <1>13 DEF MarkEnqueueFailed, Open, Serves
  <2>2. \A e \in Docs \ {d} : row'[e] = row[e]
    BY <1>13 DEF MarkEnqueueFailed
  <2>3. Born(d)'
    <3>1. CASE row' = row BY <2>1, <3>1 DEF Born
    <3>2. CASE row' = [row EXCEPT ![d] = QueueFailed(@, req[r].seen)]
      BY <2>1, <3>2, QueueFailedType DEF Born, TypeOK
    <3> QED BY <1>13, <3>1, <3>2 DEF MarkEnqueueFailed
  <2>4. \A e \in Docs : Born(e) => Born(e)' BY <2>2, <2>3 DEF Born
  <2>5. \A s \in Reqs \ {r} : Open(s) /\ file[req[s].doc] => file'[req[s].doc]
    BY <1>1, <2>1 DEF DropUpload
  <2> QED BY <1>2, <1>3, <2>1, <2>4, <2>5, ReqMove
<1>14. \A d \in Docs : ~ReindexCheck(r, d)
  BY DEF ReindexCheck
<1>15. ~ReindexCommit(r)
  BY <1>1 DEF ReindexCommit, Open, Serves
<1>16. CASE RequestFails(r)
  BY <1>8, <1>16 DEF RequestFails, Open
<1> QED
  <2>1. Open(r) => req[r].doc \in Docs BY <1>1
  <2>2. CommitUpload(r) \/ EnqueueFetch(r) \/ EnqueueError(r) \/ MarkEnqueueFailed(r) => Open(r)
    BY DEF CommitUpload, EnqueueFetch, EnqueueError, MarkEnqueueFailed, Open
  <2> QED
    BY <1>5, <1>6, <1>7, <1>9, <1>11, <1>12, <1>13, <1>14, <1>15, <1>16, <2>1, <2>2
       DEF ApiStep

-----------------------------------------------------------------------------
(* One run per document, when one API process serves every request or none *)
(* reindexes.  The invariant ties the workers to the job hash and the job  *)
(* hash to the request that is about to replace it.                        *)
OneLoop == \A r, s \in Reqs : LoopOf[r] = LoopOf[s]
Busy(w) == run[w].pc # "idle"

JobInv ==
  /\ \A v, w \in Workers : Busy(v) /\ Busy(w) /\ run[v].doc = run[w].doc => v = w
  /\ \A w \in Workers : Busy(w) => /\ job[run[w].doc].status = "started"
                                   /\ run[w].doc \notin queue
  /\ \A d \in queue : job[d].status = "queued"
  /\ \A r \in Reqs : req[r].pc = "replace" => job[req[r].doc].status \notin ActiveJob
  /\ \A r, s \in Reqs : /\ req[r].pc = "replace" /\ req[s].pc = "replace"
                        /\ req[r].doc = req[s].doc
                        => r = s

(* Steps that neither touch the queue nor start or end a run, and bring no *)
(* request to the point of replacing a job.                                *)
JobsAlone ==
  /\ UNCHANGED <<queue, job>>
  /\ \A w \in Workers : run'[w] = run[w] \/ (Busy(w) /\ run'[w].doc = run[w].doc)
  /\ \A r \in Reqs : req'[r].pc = "replace" => req'[r] = req[r]

LEMMA JobsAloneKeeps == TypeOK /\ JobInv /\ JobsAlone => JobInv'
BY DEF JobsAlone, JobInv, Busy, TypeOK

LEMMA MoveAlone ==
  ASSUME RunOK, NEW w \in Workers, Busy(w), NEW pc, NEW s,
         GoTo(w, pc, s) \/ Quit(w, pc)
  PROVE  \A v \in Workers : run'[v] = run[v] \/ (Busy(v) /\ run'[v].doc = run[v].doc)
BY DEF RunOK, GoTo, Quit, SetRun, At

LEMMA CallAlone ==
  ASSUME ReqOK, NEW r \in Reqs, NEW pc, pc # "replace", NEW d, NEW u, NEW s,
         SetReq(r, Call(pc, d, u, s)) \/ SetReq(r, IdleReq)
  PROVE  \A q \in Reqs : req'[q].pc = "replace" => req'[q] = req[q]
BY DEF ReqOK, SetReq, Call, IdleReq

LEMMA JobApi ==
  ASSUME OneLoop \/ ReqInv, TypeOK, JobInv, NEW r \in Reqs, ApiStep(r)
  PROVE  JobInv'
<1> USE DEF TypeOK
<1>1. ASSUME NEW d \in Docs,
             CreateDocument(r, d) \/ SaveUpload(r, d) \/ ReindexCheck(r, d)
      PROVE  JobInv'
  <2>1. \A q \in Reqs : req'[q].pc = "replace" => req'[q] = req[q]
    BY <1>1, CallAlone DEF CreateDocument, SaveUpload, ReindexCheck
  <2> QED
    BY <1>1, <2>1, JobsAloneKeeps
       DEF CreateDocument, SaveUpload, ReindexCheck, JobsAlone
<1>2. CASE CommitUpload(r) \/ ReindexCommit(r) \/ MarkEnqueueFailed(r) \/ RequestFails(r)
  <2>1. \A q \in Reqs : req'[q].pc = "replace" => req'[q] = req[q]
    BY <1>2, CallAlone DEF CommitUpload, ReindexCommit, MarkEnqueueFailed, RequestFails
  <2>2. UNCHANGED <<queue, job, run>>
    BY <1>2 DEF CommitUpload, ReindexCommit, MarkEnqueueFailed, RequestFails
  <2> QED
    BY <2>1, <2>2, JobsAloneKeeps DEF JobsAlone
<1>3. CASE EnqueueFetch(r)
  <2>1. UNCHANGED <<queue, job, run>>
    BY <1>3 DEF EnqueueFetch
  <2>2. CASE SetReq(r, IdleReq)
    <3>1. \A q \in Reqs : req'[q].pc = "replace" => req'[q] = req[q]
      BY <2>2, CallAlone
    <3> QED
      BY <2>1, <3>1, JobsAloneKeeps DEF JobsAlone
  <2>3. CASE /\ job[req[r].doc].status \notin ActiveJob
             /\ SetReq(r, Call("replace", req[r].doc, req[r].upload, row[req[r].doc]))
    <3>1. \A q \in Reqs : /\ q = r => req'[q].doc = req[r].doc
                          /\ q # r => req'[q] = req[q]
      BY <2>3 DEF SetReq, Call, ReqOK
    <3>2. \A q \in Reqs \ {r} : req[q].pc = "replace" => req[q].doc # req[r].doc
      BY <1>3 DEF EnqueueFetch, LoopFree, OneLoop, ReqInv, Open
    <3> QED
      BY <2>1, <2>3, <3>1, <3>2 DEF JobInv, Busy
  <2> QED
    BY <1>3, <2>2, <2>3 DEF EnqueueFetch
<1>4. ASSUME req[r].pc = "replace", NewJob(req[r].doc), UNCHANGED run,
             req'[r].pc # "replace", \A q \in Reqs \ {r} : req'[q] = req[q]
      PROVE  JobInv'
  <2>1. \A q \in Reqs : req'[q].pc = "replace" =>
          /\ req'[q] = req[q] /\ req[q].doc \in Docs /\ req[q].doc # req[r].doc
    BY <1>4 DEF JobInv, ReqOK
  <2>2. req[r].doc \in Docs /\ job[req[r].doc].status \notin ActiveJob
    BY <1>4 DEF JobInv, ReqOK
  <2>3. \A w \in Workers : Busy(w) => run[w].doc # req[r].doc
    BY <2>2 DEF JobInv, ActiveJob
  <2> QED
    BY <1>4, <2>1, <2>2, <2>3 DEF JobInv, NewJob, Busy, RunOK
<1>5. CASE EnqueueJob(r)
  <2>1. req'[r].pc # "replace" /\ \A q \in Reqs \ {r} : req'[q] = req[q]
    BY <1>5 DEF EnqueueJob, SetReq, IdleReq, Call, ReqOK
  <2> QED
    BY <1>4, <1>5, <2>1 DEF EnqueueJob
<1>6. CASE EnqueueError(r)
  <2>1. req'[r].pc # "replace" /\ \A q \in Reqs \ {r} : req'[q] = req[q]
    BY <1>6 DEF EnqueueError, SetReq, Call, ReqOK
  <2>2. UNCHANGED <<queue, job>> => JobInv'
    BY <1>6, <2>1, JobsAloneKeeps DEF EnqueueError, JobsAlone
  <2> QED
    BY <1>4, <1>6, <2>1, <2>2 DEF EnqueueError
<1> QED
  BY <1>1, <1>2, <1>3, <1>5, <1>6 DEF ApiStep

(* The end of a run, whatever becomes of its job.                          *)
LEMMA RunEnds ==
  ASSUME TypeOK, JobInv, NEW w \in Workers, Busy(w), SetRun(w, IdleRun),
         UNCHANGED <<queue, req>>, job' \in [Docs -> Job],
         \A d \in Docs \ {run[w].doc} : job'[d] = job[d],
         job'[run[w].doc].status \in {"finished", "scheduled", "failed"},
         \A r \in Reqs : req[r].pc = "replace" => req[r].doc # run[w].doc
  PROVE  JobInv'
<1> USE DEF TypeOK, JobInv, Busy
<1>1. run[w].doc \in Docs /\ run[w].doc \notin queue
  BY DEF RunOK
<1>2. \A v \in Workers : run'[v].pc # "idle" => run'[v] = run[v] /\ v # w
  BY DEF SetRun, IdleRun, At, RunOK
<1>3. \A v \in Workers : run'[v].pc # "idle" => run[v].doc # run[w].doc
  BY <1>2
<1>4. \A v \in Workers : run'[v].pc # "idle" => run[v].doc \in Docs
  BY <1>2 DEF RunOK
<1>5. \A r \in Reqs : req[r].pc = "replace" => req[r].doc \in Docs
  BY DEF ReqOK
<1> QED
  BY <1>1, <1>2, <1>3, <1>4, <1>5

LEMMA JobStep ==
  ASSUME OneLoop \/ ReqInv, TypeOK, JobInv, [Next]_vars
  PROVE  JobInv'
<1> USE DEF TypeOK
<1>0. TypeOK'
  BY TypeStep
<1>1. ASSUME NEW r \in Reqs, ApiStep(r) PROVE JobInv'
  BY <1>1, JobApi
<1>2. ASSUME NEW l, ApiCrash(l) PROVE JobInv'
  <2>1. \A q \in Reqs : req'[q].pc = "replace" => req'[q] = req[q]
    BY <1>2 DEF ApiCrash, IdleReq, Call
  <2> QED
    BY <1>2, <2>1, JobsAloneKeeps DEF ApiCrash, JobsAlone
<1>3. ASSUME NEW w \in Workers,
             \/ LoadDocument(w) \/ MarkProcessing(w) \/ CapturePrevious(w)
             \/ ExtractAndEmbed(w) \/ CommitIndexed(w) \/ CleanupPrevious(w)
             \/ ReloadForFailure(w) \/ MarkFailed(w)
             \/ TransientError(w) \/ LostCommitReply(w) \/ WorkerCrash(w)
      PROVE  JobInv'
  <2>1. Busy(w) /\ UNCHANGED <<queue, job, req>>
    BY <1>3 DEF LoadDocument, MarkProcessing, CapturePrevious, ExtractAndEmbed,
                CommitIndexed, CleanupPrevious, ReloadForFailure, MarkFailed,
                TransientError, LostCommitReply, WorkerCrash, Live, Busy
  <2>2. CASE CapturePrevious(w)
    <3>1. \A v \in Workers : run'[v] = run[v] \/ (Busy(v) /\ run'[v].doc = run[v].doc)
      BY <2>1, <2>2 DEF CapturePrevious, SetRun, At, RunOK
    <3> QED
      BY <2>1, <3>1, JobsAloneKeeps DEF JobsAlone
  <2>3. CASE ~CapturePrevious(w)
    <3>1. \E pc, s : GoTo(w, pc, s) \/ Quit(w, pc)
      BY <1>3, <2>3 DEF LoadDocument, MarkProcessing, ExtractAndEmbed,
                CommitIndexed, CleanupPrevious, ReloadForFailure, MarkFailed,
                TransientError, LostCommitReply, WorkerCrash
    <3>2. \A v \in Workers : run'[v] = run[v] \/ (Busy(v) /\ run'[v].doc = run[v].doc)
      BY <2>1, <3>1, MoveAlone
    <3> QED
      BY <2>1, <3>2, JobsAloneKeeps DEF JobsAlone
  <2> QED
    BY <2>2, <2>3
<1>4. ASSUME NEW w \in Workers, JobSucceeded(w) \/ JobRaised(w) \/ ReclaimJob(w)
      PROVE  JobInv'
  <2>1. Busy(w) /\ SetRun(w, IdleRun) /\ UNCHANGED <<queue, req>>
    BY <1>4 DEF JobSucceeded, JobRaised, ReclaimJob, Busy
  <2>2. run[w].doc \in Docs
    BY <2>1 DEF Busy, RunOK
  <2>3. \A d \in Docs \ {run[w].doc} : job'[d] = job[d]
    BY <1>4, <2>2 DEF JobSucceeded, JobRaised, ReclaimJob
  <2>4. job'[run[w].doc].status \in {"finished", "scheduled", "failed"}
    BY <1>4, <2>2 DEF JobSucceeded, JobRaised, ReclaimJob, RetryOrFail, Job
  <2>5. \A r \in Reqs : req[r].pc = "replace" => req[r].doc # run[w].doc
    BY <2>1 DEF JobInv, ActiveJob
  <2> QED
    BY <1>0, <2>1, <2>3, <2>4, <2>5, RunEnds
<1>5. ASSUME NEW w \in Workers, NEW d \in Docs, Dequeue(w, d) PROVE JobInv'
  <2>1. \A v \in Workers : Busy(v) => run[v].doc # d
    BY <1>5 DEF Dequeue, JobInv
  <2>2. run' = [run EXCEPT ![w] = At("load", d, NoRow, {})] /\ ~Busy(w)
    BY <1>5 DEF Dequeue, SetRun, Busy
  <2>3. \A v \in Workers : /\ v = w => run'[v].doc = d
                           /\ v # w => run'[v] = run[v]
    BY <2>2 DEF At, RunOK
  <2>4. \A v \in Workers : Busy(v) => run[v].doc \in Docs
    BY DEF Busy, RunOK
  <2>5. /\ job'[d].status = "started" /\ queue' = queue \ {d}
        /\ \A e \in Docs \ {d} : job'[e] = job[e]
    BY <1>5 DEF Dequeue, Job
  <2>6. \A r \in Reqs : req[r].pc = "replace" => req[r].doc # d /\ req[r].doc \in Docs
    BY <1>5 DEF Dequeue, JobInv, ActiveJob, ReqOK
  <2>7. UNCHANGED req
    BY <1>5 DEF Dequeue
  <2> QED
    BY <2>1, <2>2, <2>3, <2>4, <2>5, <2>6, <2>7 DEF JobInv, Busy
<1>6. ASSUME NEW d \in Docs, SchedulerEnqueue(d) PROVE JobInv'
  <2>1. \A v \in Workers : Busy(v) => run[v].doc # d /\ run[v].doc \in Docs
    BY <1>6 DEF SchedulerEnqueue, JobInv, Busy, RunOK
  <2>2. /\ job'[d].status = "queued" /\ queue' = queue \cup {d}
        /\ \A e \in Docs \ {d} : job'[e] = job[e]
    BY <1>6 DEF SchedulerEnqueue, Job
  <2>3. \A r \in Reqs : req[r].pc = "replace" => req[r].doc # d /\ req[r].doc \in Docs
    BY <1>6 DEF SchedulerEnqueue, JobInv, ActiveJob, ReqOK
  <2>4. UNCHANGED <<run, req>>
    BY <1>6 DEF SchedulerEnqueue
  <2> QED
    BY <2>1, <2>2, <2>3, <2>4 DEF JobInv, Busy
<1>7. CASE \/ \E d \in Docs : SessionDelete(d)
           \/ \E age \in ReapAges : ReapSelect(age)
           \/ ReapCommit \/ ReaperCrash \/ Tick \/ UNCHANGED vars
  <2>1. UNCHANGED <<queue, job, run, req>>
    BY <1>7 DEF SessionDelete, ReapSelect, ReapCommit, ReaperCrash, Tick, vars
  <2> QED
    BY <2>1, JobsAloneKeeps DEF JobsAlone
<1> QED
  BY <1>1, <1>2, <1>3, <1>4, <1>5, <1>6, <1>7 DEF Next, RunStep

LEMMA BornLasts ==
  ASSUME TypeOK, [Next]_vars, NEW d \in Docs, Born(d)
  PROVE  Born(d)'
<1> USE DEF TypeOK, Born
<1>1. CASE Reports
  BY <1>1 DEF Reports, Waiting
<1>2. ASSUME NEW e \in Docs, Creates(e) PROVE Born(d)'
  BY <1>2 DEF Creates
<1>3. ASSUME NEW e \in Docs, SessionDelete(e) PROVE Born(d)'
  BY <1>3 DEF SessionDelete, NoRow
<1>4. ASSUME NEW w \in Workers, Publishes(w) PROVE Born(d)'
  <2> DEFINE e == run[w].doc  s == run[w].seen
  <2>1. Indexed(s).status = "indexed" BY DEF Indexed, Edit
  <2>2. Flush(row[e], s, Indexed(s)).status \in {row[e].status, "indexed"}
    BY <2>1 DEF Flush, Put
  <2>3. row' = [row EXCEPT ![e] = Flush(row[e], s, Indexed(s))]
    BY <1>4 DEF Publishes, Publish
  <2> QED BY <2>2, <2>3
<1>5. ASSUME NEW w \in Workers, CleanupPrevious(w) PROVE Born(d)'
  BY <1>5 DEF CleanupPrevious
<1> QED BY StepShape, <1>1, <1>2, <1>3, <1>4, <1>5 DEF Shape

LEMMA ReqStep ==
  ASSUME "reindex" \notin Ops
  PROVE  TypeOK /\ JobInv /\ ReqInv /\ [Next]_vars => ReqInv'
<1> SUFFICES ASSUME TypeOK, JobInv, ReqInv, [Next]_vars PROVE ReqInv'
    OBVIOUS
<1> USE DEF TypeOK
<1> DEFINE Jobs == \A d \in Docs : job'[d].status # "none" => job[d].status # "none"
           Files == \A d \in Docs : file[d] => file'[d] \/ Born(d)'
<1>0. ASSUME \A r \in Reqs : req'[r] = req[r] \/ req'[r].pc = "idle", Jobs, Files
      PROVE  ReqInv'
  BY <1>0, BornLasts, ReqKeep
<1>1. ASSUME NEW d \in Docs, job[d].status # "none", NEW j, job' = [job EXCEPT ![d] = j]
      PROVE  Jobs
  BY <1>1
<1>2. ASSUME NEW r \in Reqs, ApiStep(r) PROVE ReqInv'
  BY <1>2, ReqApi
<1>3. ASSUME NEW l, ApiCrash(l) PROVE ReqInv'
  <2>1. \A r \in Reqs : req'[r] = req[r] \/ req'[r].pc = "idle"
    BY <1>3 DEF ApiCrash, IdleReq, Call
  <2> QED BY <1>0, <1>3, <2>1 DEF ApiCrash
<1>4. ASSUME NEW d \in Docs, SessionDelete(d) PROVE ReqInv'
  <2>1. Files
    BY <1>4 DEF SessionDelete, NoRow, Born
  <2> QED BY <1>0, <1>4, <2>1 DEF SessionDelete
<1>5. ASSUME NEW w \in Workers, RunStep(w) \/ ReclaimJob(w) PROVE ReqInv'
  <2>1. UNCHANGED <<req, file>>
    BY <1>5 DEF RunStep, LoadDocument, MarkProcessing, CapturePrevious, ExtractAndEmbed,
       CommitIndexed, CleanupPrevious, ReloadForFailure, MarkFailed, JobSucceeded,
       JobRaised, ReclaimJob
  <2>2. UNCHANGED job \/ JobSucceeded(w) \/ JobRaised(w) \/ ReclaimJob(w)
    BY <1>5 DEF RunStep, LoadDocument, MarkProcessing, CapturePrevious, ExtractAndEmbed,
       CommitIndexed, CleanupPrevious, ReloadForFailure, MarkFailed
  <2>3. CASE JobSucceeded(w) \/ JobRaised(w) \/ ReclaimJob(w)
    <3>1. run[w].doc \in Docs /\ job[run[w].doc].status # "none"
      BY <2>3 DEF JobSucceeded, JobRaised, ReclaimJob, JobInv, Busy, RunOK
    <3>2. Jobs
      BY <1>1, <2>3, <3>1 DEF JobSucceeded, JobRaised, ReclaimJob
    <3> QED BY <1>0, <2>1, <3>2
  <2> QED BY <1>0, <2>1, <2>2, <2>3
<1>6. ASSUME NEW d \in Docs, SchedulerEnqueue(d) \/ \E w \in Workers : Dequeue(w, d)
      PROVE  ReqInv'
  <2>1. job[d].status # "none" BY <1>6 DEF SchedulerEnqueue, Dequeue, JobInv
  <2>2. Jobs BY <1>1, <1>6, <2>1 DEF SchedulerEnqueue, Dequeue
  <2> QED BY <1>0, <1>6, <2>2 DEF SchedulerEnqueue, Dequeue
<1>7. ASSUME NEW w \in Workers, TransientError(w) \/ LostCommitReply(w) \/ WorkerCrash(w)
      PROVE  ReqInv'
  BY <1>0, <1>7 DEF TransientError, LostCommitReply, WorkerCrash
<1>8. CASE (\E age \in ReapAges : ReapSelect(age)) \/ ReapCommit \/ ReaperCrash \/ Tick
           \/ UNCHANGED vars
  BY <1>0, <1>8 DEF ReapSelect, ReapCommit, ReaperCrash, Tick, vars
<1> QED
  BY <1>2, <1>3, <1>4, <1>5, <1>6, <1>7, <1>8 DEF Next

(* What keeps runs apart: one event loop, or documents that are never      *)
(* indexed by request a second time.                                       *)
RunsApart == OneLoop \/ "reindex" \notin Ops
ApartInv == TypeOK /\ JobInv /\ ("reindex" \notin Ops => ReqInv)

LEMMA ApartInit == Init => ApartInv
<1> SUFFICES ASSUME Init PROVE JobInv /\ ReqInv
    BY TypeInit DEF ApartInv
<1>1. JobInv
  BY DEF Init, JobInv, Busy, IdleRun, IdleReq, At, Call
<1>2. ReqInv
  BY DEF Init, ReqInv, Serves, Open, IdleReq, Call
<1> QED BY <1>1, <1>2

LEMMA ApartStep ==
  ASSUME RunsApart
  PROVE  ApartInv /\ [Next]_vars => ApartInv'
BY TypeStep, JobStep, ReqStep DEF ApartInv, RunsApart

(* The stable job id keeps the runs of a document apart, as long as one    *)
(* API process serves every request or none of them reindexes: no two      *)
(* workers ever execute index_document for the same document.              *)
THEOREM OneLoopOneRun ==
  ASSUME RunsApart
  PROVE  Spec => []OneRunPerDoc
<1>1. ApartInv => OneRunPerDoc
  BY DEF ApartInv, JobInv, OneRunPerDoc, Busy, Live
<1> QED
  BY <1>1, ApartInit, ApartStep, PTL DEF Spec

-----------------------------------------------------------------------------
(* The pipeline implements SearchIndex: each shape of a step is one of its *)
(* actions, and the invariant above is what makes a cleanup a Retire.      *)
statusOf == [d \in Docs |-> row[d].status]

LEMMA PromiseInit == Init => Promise!Init
BY ConstantRows DEF Init, Promise!Init, NoRow

(* The row a run holds in memory while it works says "processing", so that *)
(* the flush at the end always writes "indexed".                           *)
Holding == {"capture", "work", "commit"}
SeenInv == \A w \in Workers :
             run[w].pc \in Holding => run[w].seen.status = "processing"

LEMMA SeenMove ==
  ASSUME RunOK, SeenInv, NEW w \in Workers, NEW x, SetRun(w, x),
         x.pc \in Holding => x.seen.status = "processing"
  PROVE  SeenInv'
BY DEF RunOK, SeenInv, SetRun

LEMMA SeenStep == TypeOK /\ SeenInv /\ [Next]_vars => SeenInv'
<1> SUFFICES ASSUME TypeOK, SeenInv, [Next]_vars PROVE SeenInv'
    OBVIOUS
<1> USE DEF TypeOK
<1>1. CASE UNCHANGED run
  BY <1>1 DEF SeenInv
<1>2. ASSUME NEW w \in Workers,
             \E pc \in RunPc \ Holding : \E s : GoTo(w, pc, s) \/ Quit(w, pc)
      PROVE  SeenInv'
  BY <1>2, SeenMove DEF GoTo, Quit, At
<1>3. ASSUME NEW w \in Workers, NEW d \in Docs, Dequeue(w, d) PROVE SeenInv'
  BY <1>3, SeenMove DEF Dequeue, At, Holding
<1>4. ASSUME NEW w \in Workers, MarkProcessing(w) PROVE SeenInv'
  <2>1. CASE Exists(run[w].doc)
    BY <1>4, <2>1, SeenMove DEF MarkProcessing, GoTo, At, Processing, Edit
  <2>2. CASE ~Exists(run[w].doc)
    BY <1>4, <2>2, <1>2 DEF MarkProcessing, RunPc, Holding
  <2> QED
    BY <2>1, <2>2
<1>5. ASSUME NEW w \in Workers, CapturePrevious(w) PROVE SeenInv'
  BY <1>5, SeenMove DEF CapturePrevious, At, SeenInv, Holding
<1>6. ASSUME NEW w \in Workers, ExtractAndEmbed(w) PROVE SeenInv'
  <2>1. run[w].seen.status = "processing"
    BY <1>6 DEF ExtractAndEmbed, SeenInv, Holding
  <2> QED
    BY <1>6, <2>1, SeenMove DEF ExtractAndEmbed, GoTo, Quit, At, Holding
<1>7. ASSUME NEW w \in Workers,
             JobSucceeded(w) \/ JobRaised(w) \/ ReclaimJob(w)
      PROVE  SeenInv'
  BY <1>7, SeenMove DEF JobSucceeded, JobRaised, ReclaimJob, IdleRun, At, Holding
<1>8. ASSUME NEW w \in Workers,
             \/ LoadDocument(w) \/ CommitIndexed(w) \/ CleanupPrevious(w)
             \/ ReloadForFailure(w) \/ MarkFailed(w)
             \/ TransientError(w) \/ LostCommitReply(w) \/ WorkerCrash(w)
      PROVE  SeenInv'
  <2>1. \E pc \in RunPc \ Holding : \E s : GoTo(w, pc, s) \/ Quit(w, pc)
    BY <1>8 DEF LoadDocument, CommitIndexed, CleanupPrevious, ReloadForFailure,
                MarkFailed, TransientError, LostCommitReply, WorkerCrash, RunPc,
                Holding
  <2> QED
    BY <2>1, <1>2
<1>9. CASE \/ \E r \in Reqs : ApiStep(r) \/ ApiCrash(LoopOf[r])
           \/ \E d \in Docs : SessionDelete(d) \/ SchedulerEnqueue(d)
           \/ \E age \in ReapAges : ReapSelect(age)
           \/ ReapCommit \/ ReaperCrash \/ Tick \/ UNCHANGED vars
  <2>1. UNCHANGED run
    BY <1>9 DEF ApiStep, CreateDocument, SaveUpload, CommitUpload, ReindexCheck,
                ReindexCommit, EnqueueFetch, EnqueueJob, EnqueueError,
                MarkEnqueueFailed, RequestFails, ApiCrash, SessionDelete, SchedulerEnqueue,
                ReapSelect, ReapCommit, ReaperCrash, Tick, vars
  <2> QED
    BY <2>1, <1>1
<1> QED
  BY <1>3, <1>4, <1>5, <1>6, <1>7, <1>8, <1>9 DEF Next, RunStep

LEMMA PromiseStep ==
  TypeOK /\ ChunkInv /\ SeenInv /\ [Next]_vars => [Promise!Next]_(Promise!promised)
<1> SUFFICES ASSUME TypeOK, ChunkInv, SeenInv, Shape
             PROVE  Promise!Next \/ UNCHANGED Promise!promised
  BY StepShape
<1> USE DEF TypeOK, Promise!Next, Promise!promised
<1>1. CASE Reports
  <2>1. /\ DOMAIN statusOf' = Docs
        /\ \A d \in Docs : statusOf'[d] = row'[d].status
    BY DEF statusOf
  <2>2. \A d \in Docs : row[d].status \in RowStatus
    BY DEF Row
  <2>3. Promise!Report
    BY <1>1, <2>1, <2>2
       DEF Reports, Waiting, Exists, RowStatus, statusOf, Promise!Report,
           Promise!Absent, Promise!Reported
  <2> QED
    BY <2>3
<1>2. ASSUME NEW d \in Docs, Creates(d) PROVE Promise!Next
  <2>1. statusOf' = [statusOf EXCEPT ![d] = "pending"]
    <3>1. PICK t \in BOOLEAN : row' = [row EXCEPT ![d] = NewRow(t)]
      BY <1>2 DEF Creates
    <3>2. NewRow(t).status = "pending"
      BY DEF NewRow
    <3> QED
      BY <3>1, <3>2 DEF statusOf
  <2>2. Promise!Create(d)
    BY <1>2, <2>1 DEF Creates, statusOf, Promise!Create
  <2> QED
    BY <2>2
<1>3. ASSUME NEW d \in Docs, SessionDelete(d) PROVE Promise!Next
  <2>1. statusOf' = [statusOf EXCEPT ![d] = "gone"]
    BY <1>3, ConstantRows DEF SessionDelete, NoRow, statusOf
  <2>2. Promise!Remove(d)
    BY <1>3, <2>1 DEF SessionDelete, Exists, statusOf, Promise!Remove, Promise!Absent
  <2> QED
    BY <2>2
<1>4. ASSUME NEW w \in Workers, Publishes(w) PROVE Promise!Next
  <2> DEFINE d == run[w].doc
  <2>1. d \in Docs /\ row[d].status \notin {"unborn", "gone"}
    BY <1>4 DEF Publishes, Publish, Exists
  <2>2. PICK g \in FreshGens(d) :
          /\ chunks' = [chunks EXCEPT ![d] = @ \cup {g}]
          /\ newest' = [newest EXCEPT ![d] = g]
    BY <1>4 DEF Publishes, Publish
  <2>3. statusOf' = [statusOf EXCEPT ![d] = "indexed"]
    <3> DEFINE seen == run[w].seen
               new == Flush(row[d], seen, Indexed(seen))
    <3>1. seen.status = "processing"
      BY <1>4 DEF Publishes, SeenInv, Holding
    <3>2. new.status = "indexed"
      BY <3>1 DEF Flush, Put, Indexed, Edit
    <3>3. row' = [row EXCEPT ![d] = new]
      BY <1>4 DEF Publishes, Publish
    <3> HIDE DEF new
    <3> QED
      BY <2>1, <3>2, <3>3 DEF statusOf
  <2>4. g \in Gens /\ g \notin chunks[d]
    BY <2>2 DEF FreshGens
  <2>5. Promise!Publish(d, g)
    BY <2>1, <2>2, <2>3, <2>4 DEF statusOf, Promise!Publish, Promise!Absent
  <2> QED
    BY <2>1, <2>4, <2>5
<1>5. ASSUME NEW w \in Workers, run[w].doc \in Docs, CleanupPrevious(w)
      PROVE  Promise!Next
  <2> DEFINE d == run[w].doc
             old == run[w].prev \cap chunks[d]
  <2>1. old \in SUBSET chunks[d] /\ newest[d] \notin old
    BY <1>5 DEF CleanupPrevious, ChunkInv
  <2>2. chunks' = [chunks EXCEPT ![d] = @ \ old]
    BY <1>5 DEF CleanupPrevious
  <2>3. UNCHANGED <<statusOf, newest>>
    BY <1>5 DEF CleanupPrevious, statusOf
  <2>4. Promise!Retire(d)
    BY <2>1, <2>2, <2>3 DEF statusOf, Promise!Retire
  <2> QED
    BY <1>5, <2>4
<1> QED
  BY <1>1, <1>2, <1>3, <1>4, <1>5 DEF Shape

(* Every behaviour of workers, queue, requests and reaper is, seen by      *)
(* retrieval and by polling clients, one that SearchIndex promises.        *)
THEOREM KeepsItsPromise == Spec => KeepsPromise
<1>1. Init => SeenInv
  BY DEF Init, SeenInv, IdleRun, At, Holding
<1>2. Spec => []SeenInv
  BY <1>1, SeenStep, TypeCorrect, PTL DEF Spec
<1> QED
  BY <1>2, PromiseInit, PromiseStep, ChunkCorrect, PTL
     DEF Spec, KeepsPromise, Promise!Spec
=============================================================================
