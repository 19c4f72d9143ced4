------------------------------- MODULE Indexing -------------------------------
(***************************************************************************)
(* The indexing pipeline: how a document row, its chunk sets, its RQ job   *)
(* and its stored file change under the API requests that create and       *)
(* reindex documents, the workers that run index_document, RQ's retry      *)
(* machinery, the stale-processing reaper and the deletion of the owning   *)
(* session.                                                                *)
(*                                                                         *)
(* Each step is one database transaction, one Redis exchange or one        *)
(* storage call: everything between two awaits that another process can    *)
(* observe.  The ORM loads a row once and, at commit, writes only the      *)
(* attributes whose value differs from the loaded one (Flush below).       *)
(***************************************************************************)
EXTENDS Naturals, FiniteSets

CONSTANTS
  Docs,          \* document ids (uuid4, never reused)
  Workers,       \* RQ worker processes
  Reqs,          \* slots for API requests in progress
  LoopOf,        \* the API event loop (process) that serves each slot
  Gens,          \* identities of chunk sets: one per successful run
  Ops,           \* the endpoints in use, a subset of AllOps
  BadDocs,       \* documents whose content can never be indexed
  S3Backend,     \* STORAGE_BACKEND = "s3"
  WithScheduler, \* some worker runs with RQ's scheduler
  RetryMax,      \* INDEX_JOB_RETRY_MAX
  Cooldown,      \* REINDEX_COOLDOWN_SECONDS > 0
  ReapAges,      \* ages the reaper may be asked to use, as classes
  MaxAge,        \* bound: the oldest age class a timestamp reaches
  MaxFaults,     \* bound: crashes and transient errors in one behaviour
  NoDoc, NoGen   \* "no document", "no chunk set"

AllOps == {"text", "file", "reindex"}

ASSUME OpsAssumption == Ops \subseteq AllOps
ASSUME LoopAssumption == LoopOf \in [Reqs -> {LoopOf[r] : r \in Reqs}]
ASSUME BadAssumption == BadDocs \subseteq Docs
ASSUME FlagAssumption == {S3Backend, WithScheduler, Cooldown} \subseteq BOOLEAN
ASSUME BoundAssumption == RetryMax \in Nat /\ MaxFaults \in Nat
ASSUME AgeAssumption == ReapAges \subseteq 0..2 /\ MaxAge \in 0..2
ASSUME NoneAssumption == NoDoc \notin Docs /\ NoGen \notin Gens

VARIABLES
  row,     \* row[d]: the documents table
  file,    \* file[d]: the uploaded object is in storage
  chunks,  \* chunks[d]: the chunk sets of d in the chunks table
  newest,  \* newest[d]: the chunk set committed last (history variable)
  queue,   \* documents whose job id is in the RQ list
  job,     \* job[d]: the RQ job hash index-document-<d>
  run,     \* run[w]: the execution of index_document in worker w
  req,     \* req[r]: the API request in slot r
  reap,    \* the rows the reaper has selected and not yet written back
  faults   \* how many more crashes and transient errors may happen

vars == <<row, file, chunks, newest, queue, job, run, req, reap, faults>>

-----------------------------------------------------------------------------
(* Data *)

(* Timestamps are age classes: younger than REINDEX_COOLDOWN_SECONDS, older *)
(* than that, older than STALE_PROCESSING_MINUTES.  Never is NULL.          *)
Now == 0
Never == 3
Stamps == 0..3

RowStatus == {"unborn", "pending", "processing", "indexed", "failed", "gone"}
Errors == {"none", "queue", "job", "timeout"}

Row == [status : RowStatus, error : Errors, started : Stamps,
        indexed : Stamps, created : Stamps, text : BOOLEAN]

NoRow == [status |-> "unborn", error |-> "none", started |-> Never,
          indexed |-> Never, created |-> Never, text |-> FALSE]

Exists(d) == row[d].status \notin {"unborn", "gone"}

JobStatus == {"none", "queued", "started", "scheduled", "finished", "failed"}
(* Wrong on purpose (a mutant): a running job no longer blocks a new one.  *)
ActiveJobButStarted == {"queued", "scheduled"}
ActiveJob == {"queued", "started", "scheduled"}   \* _ACTIVE_JOB_STATUSES
Job == [status : JobStatus, left : 0..RetryMax]

(* Where an execution of index_document_async stands; "dead" is a worker   *)
(* that died in the middle of a job RQ still counts as started.            *)
RunPc == {"idle", "load", "mark", "capture", "work", "commit", "cleanup",
          "fail", "markfailed", "ok", "raise", "dead"}
Run == [pc : RunPc, doc : Docs \cup {NoDoc}, seen : Row, prev : SUBSET Gens]
At(pc, d, seen, prev) == [pc |-> pc, doc |-> d, seen |-> seen, prev |-> prev]
IdleRun == At("idle", NoDoc, NoRow, {})

ReqPc == {"idle", "insert", "recommit", "enqueue", "replace", "queuefailed"}
Req == [pc : ReqPc, doc : Docs \cup {NoDoc}, upload : BOOLEAN, seen : Row]
Call(pc, d, upload, seen) ==
  [pc |-> pc, doc |-> d, upload |-> upload, seen |-> seen]
IdleReq == Call("idle", NoDoc, FALSE, NoRow)

Live(w) == run[w].pc \notin {"idle", "dead"}
LiveOn(d) == {w \in Workers : Live(w) /\ run[w].doc = d}

(* A run that has stamped processing_started_at and may yet publish.       *)
Working(w) == run[w].pc \in {"capture", "work", "commit"}

(* The unit of work: new is the object in memory, seen what was loaded,    *)
(* cur the row as it is now.  Only changed attributes are written; a       *)
(* timestamp set to the current time always counts as changed.             *)
Put(cur, seen, new) == IF new = seen THEN cur ELSE new
PutStamp(cur, seen, new) == IF new = seen /\ new # Now THEN cur ELSE new
Flush(cur, seen, new) ==
  [status  |-> Put(cur.status, seen.status, new.status),
   error   |-> Put(cur.error, seen.error, new.error),
   started |-> PutStamp(cur.started, seen.started, new.started),
   indexed |-> PutStamp(cur.indexed, seen.indexed, new.indexed),
   created |-> cur.created,
   text    |-> Put(cur.text, seen.text, new.text)]

(* The assignments the code makes to a loaded row before a commit.         *)
Edit(r, status, error, started, indexed) ==
  [status |-> status, error |-> error, started |-> started,
   indexed |-> indexed, created |-> r.created, text |-> r.text]

(* Mutant: a run does not restamp processing_started_at.                   *)
ProcessingUnstamped(r) == Edit(r, "processing", "none", r.started, Never)
Processing(r)  == Edit(r, "processing", "none", Now, Never)
Indexed(r)     == Edit([r EXCEPT !.text = TRUE], "indexed", "none", Never, Now)
Failed(r, e)   == Edit(r, "failed", e, Never, Never)
Pending(r)     == Edit(r, "pending", "none", Never, Never)
(* A failed enqueue sets status and error, and leaves the stamps alone.    *)
QueueFailed(cur, seen) ==
  [cur EXCEPT !.status = Put(@, seen.status, "failed"),
              !.error = Put(@, seen.error, "queue")]

NewRow(hasText) == [status |-> "pending", error |-> "none", started |-> Never,
                    indexed |-> Never, created |-> Now, text |-> hasText]

(* A chunk set never seen before: no table or captured list names it.      *)
Captured(d) == UNION {run[w].prev : w \in {v \in Workers : run[v].doc = d}}
FreshGens(d) == Gens \ (chunks[d] \cup Captured(d))

Fault == faults > 0 /\ faults' = faults - 1

-----------------------------------------------------------------------------
Init ==
  /\ row = [d \in Docs |-> NoRow]
  /\ file = [d \in Docs |-> FALSE]
  /\ chunks = [d \in Docs |-> {}]
  /\ newest = [d \in Docs |-> NoGen]
  /\ queue = {}
  /\ job = [d \in Docs |-> [status |-> "none", left |-> 0]]
  /\ run = [w \in Workers |-> IdleRun]
  /\ req = [r \in Reqs |-> IdleReq]
  /\ reap = [d \in {} |-> NoRow]
  /\ faults = MaxFaults

-----------------------------------------------------------------------------
(* The API: create_document, upload_document, reindex_document *)

SetReq(r, q) == req' = [req EXCEPT ![r] = q]

(* The queue calls are synchronous: while one slot of an event loop is     *)
(* between its fetch_job and its enqueue, no other slot of that loop runs. *)
LoopFree(r) == \A s \in Reqs \ {r} : LoopOf[s] = LoopOf[r] => req[s].pc # "replace"

(* create_document: the row is committed before the job is queued.         *)
CreateDocument(r, d) ==
  /\ "text" \in Ops
  /\ req[r].pc = "idle" /\ row[d].status = "unborn" /\ ~file[d]
  /\ row' = [row EXCEPT ![d] = NewRow(TRUE)]
  /\ SetReq(r, Call("enqueue", d, FALSE, NoRow))
  /\ UNCHANGED <<file, chunks, newest, queue, job, run, reap, faults>>

(* upload_document, first half: the bytes go to storage.                   *)
SaveUpload(r, d) ==
  /\ "file" \in Ops
  /\ req[r].pc = "idle" /\ row[d].status = "unborn" /\ ~file[d]
  /\ file' = [file EXCEPT ![d] = TRUE]
  /\ SetReq(r, Call("insert", d, TRUE, NoRow))
  /\ UNCHANGED <<row, chunks, newest, queue, job, run, reap, faults>>

(* upload_document: the row is committed.                                  *)
CommitUpload(r) ==
  LET d == req[r].doc IN
  /\ req[r].pc = "insert" /\ row[d].status = "unborn"
  /\ row' = [row EXCEPT ![d] = NewRow(FALSE)]
  /\ SetReq(r, Call("enqueue", d, TRUE, NoRow))
  /\ UNCHANGED <<file, chunks, newest, queue, job, run, reap, faults>>

LastEvent(x) == IF x.started # Never THEN x.started
                ELSE IF x.indexed # Never THEN x.indexed ELSE x.created

(* reindex_document: 409 while processing, 429 within the cooldown.        *)
ReindexCheck(r, d) ==
  /\ "reindex" \in Ops
  /\ req[r].pc = "idle" /\ Exists(d)
  /\ row[d].status # "processing" /\ (Cooldown => LastEvent(row[d]) # Now)
  /\ SetReq(r, Call("recommit", d, FALSE, row[d]))
  /\ UNCHANGED <<row, file, chunks, newest, queue, job, run, reap, faults>>

(* reindex_document: the row loaded by the check is reset and committed;   *)
(* the commit fails when the row has been deleted since.                   *)
ReindexCommit(r) ==
  LET d == req[r].doc  seen == req[r].seen IN
  /\ req[r].pc = "recommit"
  /\ \/ /\ Exists(d)
        /\ row' = [row EXCEPT ![d] = Flush(@, seen, Pending(seen))]
        /\ SetReq(r, Call("enqueue", d, FALSE, NoRow))
     \/ /\ ~Exists(d)
        /\ SetReq(r, IdleReq)
        /\ UNCHANGED row
  /\ UNCHANGED <<file, chunks, newest, queue, job, run, reap, faults>>

DropUpload(r) == file' = [file EXCEPT ![req[r].doc] = @ /\ ~req[r].upload]

(* db.refresh, then enqueue_index_document up to the status of the         *)
(* existing job: an active one is kept and the request is over.            *)
EnqueueFetch(r) ==
  LET d == req[r].doc IN
  /\ req[r].pc = "enqueue" /\ LoopFree(r)
  /\ \/ /\ Exists(d) /\ job[d].status \in ActiveJob
        /\ SetReq(r, IdleReq)
        /\ UNCHANGED file
     \/ /\ Exists(d) /\ job[d].status \notin ActiveJob
        /\ SetReq(r, Call("replace", d, req[r].upload, row[d]))
        /\ UNCHANGED file
     \/ /\ ~Exists(d)
        /\ SetReq(r, IdleReq)
        /\ DropUpload(r)
  /\ UNCHANGED <<row, chunks, newest, queue, job, run, reap, faults>>

NewJob(d) ==
  /\ queue' = queue \cup {d}
  /\ job' = [job EXCEPT ![d] = [status |-> "queued", left |-> RetryMax]]

(* enqueue_index_document: the terminal job is deleted and a new one queued. *)
EnqueueJob(r) ==
  /\ req[r].pc = "replace"
  /\ NewJob(req[r].doc)
  /\ SetReq(r, IdleReq)
  /\ UNCHANGED <<row, file, chunks, newest, run, reap, faults>>

(* A Redis call raises, before the new job is queued or after it (the      *)
(* reply was lost).                                                        *)
EnqueueError(r) ==
  LET d == req[r].doc IN
  /\ req[r].pc \in {"enqueue", "replace"} /\ Exists(d) /\ LoopFree(r)
  /\ Fault
  /\ SetReq(r, Call("queuefailed", d, req[r].upload,
                    IF req[r].pc = "enqueue" THEN row[d] ELSE req[r].seen))
  /\ \/ UNCHANGED <<queue, job>>
     \/ req[r].pc = "replace" /\ NewJob(d)
  /\ UNCHANGED <<row, file, chunks, newest, run, reap>>

(* The except branch around enqueue_index_document: the row is marked      *)
(* failed, and upload_document also removes the object it had saved.       *)
MarkEnqueueFailed(r) ==
  LET d == req[r].doc  seen == req[r].seen IN
  /\ req[r].pc = "queuefailed"
  /\ row' = IF Exists(d)
            THEN [row EXCEPT ![d] = QueueFailed(@, seen)] ELSE row
  /\ DropUpload(r)
  /\ SetReq(r, IdleReq)
  /\ UNCHANGED <<chunks, newest, queue, job, run, reap, faults>>

(* The outer except: a commit fails, a commit's reply is lost (the row is  *)
(* in, and the request stands at "enqueue"), db.refresh fails, or the      *)
(* commit that marks the row as failed does.  The row stays as committed,  *)
(* nothing is queued any more, and an upload's object goes.                *)
RequestFails(r) ==
  /\ req[r].pc \in {"insert", "recommit", "enqueue", "queuefailed"}
  /\ Fault
  /\ DropUpload(r)
  /\ SetReq(r, IdleReq)
  /\ UNCHANGED <<row, chunks, newest, queue, job, run, reap>>

(* An API process dies: every request it serves is lost where it stands.   *)
ApiCrash(l) ==
  /\ \E r \in Reqs : LoopOf[r] = l /\ req[r].pc # "idle"
  /\ Fault
  /\ req' = [r \in Reqs |-> IF LoopOf[r] = l THEN IdleReq ELSE req[r]]
  /\ UNCHANGED <<row, file, chunks, newest, queue, job, run, reap>>

(* Mutant: the foreign key of chunks does not cascade.                     *)
SessionDeleteNoCascade(d) ==
  /\ Exists(d)
  /\ row' = [row EXCEPT ![d] = [NoRow EXCEPT !.status = "gone"]]
  /\ newest' = [newest EXCEPT ![d] = NoGen]
  /\ file' = [file EXCEPT ![d] = FALSE]
  /\ UNCHANGED <<chunks, queue, job, run, req, reap, faults>>

(* invalidate_guest_session and cleanup_expired_guest_sessions: the        *)
(* meeting is deleted, the cascade takes row and chunks, the object goes.  *)
SessionDelete(d) ==
  /\ Exists(d)
  /\ row' = [row EXCEPT ![d] = [NoRow EXCEPT !.status = "gone"]]
  /\ chunks' = [chunks EXCEPT ![d] = {}]
  /\ newest' = [newest EXCEPT ![d] = NoGen]
  /\ file' = [file EXCEPT ![d] = FALSE]
  /\ UNCHANGED <<queue, job, run, req, reap, faults>>

-----------------------------------------------------------------------------
(* The worker: one execution of index_document_async *)

SetRun(w, x) == run' = [run EXCEPT ![w] = x]
GoTo(w, pc, seen) == SetRun(w, At(pc, run[w].doc, seen, run[w].prev))
Quit(w, pc) == SetRun(w, At(pc, run[w].doc, NoRow, {}))

(* RQ hands the job to an idle worker.                                     *)
Dequeue(w, d) ==
  /\ d \in queue /\ run[w].pc = "idle"
  /\ queue' = queue \ {d}
  /\ job' = [job EXCEPT ![d].status = "started"]
  /\ SetRun(w, At("load", d, NoRow, {}))
  /\ UNCHANGED <<row, file, chunks, newest, req, reap, faults>>

(* The first select; a deleted document ends the job without error.        *)
LoadDocument(w) ==
  LET d == run[w].doc IN
  /\ run[w].pc = "load"
  /\ IF Exists(d) THEN GoTo(w, "mark", row[d]) ELSE Quit(w, "ok")
  /\ UNCHANGED <<row, file, chunks, newest, queue, job, req, reap, faults>>

(* Mutant: the old chunks are deleted when the run starts.                 *)
MarkProcessingClears(w) ==
  LET d == run[w].doc  seen == run[w].seen IN
  /\ run[w].pc = "mark"
  /\ IF Exists(d)
     THEN /\ row' = [row EXCEPT ![d] = Flush(@, seen, Processing(seen))]
          /\ GoTo(w, "capture", Processing(seen))
     ELSE Quit(w, "fail") /\ UNCHANGED row
  /\ chunks' = [chunks EXCEPT ![d] = {}]
  /\ UNCHANGED <<file, newest, queue, job, req, reap, faults>>

(* status = "processing" is committed, and the previous failure cleared.   *)
MarkProcessing(w) ==
  LET d == run[w].doc  seen == run[w].seen IN
  /\ run[w].pc = "mark"
  /\ IF Exists(d)
     THEN /\ row' = [row EXCEPT ![d] = Flush(@, seen, Processing(seen))]
          /\ GoTo(w, "capture", Processing(seen))
     ELSE Quit(w, "fail") /\ UNCHANGED row
  /\ UNCHANGED <<file, chunks, newest, queue, job, req, reap, faults>>

(* Mutant: the previous chunk ids are never captured.                      *)
CaptureNothing(w) ==
  /\ run[w].pc = "capture"
  /\ GoTo(w, "work", run[w].seen)
  /\ UNCHANGED <<row, file, chunks, newest, queue, job, req, reap, faults>>

(* select(Chunk.id): the chunk sets to delete once the new one is in.      *)
CapturePrevious(w) ==
  /\ run[w].pc = "capture"
  /\ SetRun(w, At("work", run[w].doc, run[w].seen, chunks[run[w].doc]))
  /\ UNCHANGED <<row, file, chunks, newest, queue, job, req, reap, faults>>

(* Text comes from the row or is extracted from the object; an S3 object   *)
(* cannot be materialised (yield from a context manager is a TypeError).   *)
Readable(w) ==
  LET d == run[w].doc IN
  d \notin BadDocs /\ (run[w].seen.text \/ (file[d] /\ ~S3Backend))

ExtractAndEmbed(w) ==
  /\ run[w].pc = "work"
  /\ IF Readable(w) THEN GoTo(w, "commit", run[w].seen) ELSE Quit(w, "fail")
  /\ UNCHANGED <<row, file, chunks, newest, queue, job, req, reap, faults>>

(* The new chunks and status = "indexed" are one transaction.              *)
Publish(w) ==
  LET d == run[w].doc  seen == run[w].seen IN
  /\ Exists(d)
  /\ row' = [row EXCEPT ![d] = Flush(@, seen, Indexed(seen))]
  /\ \E g \in FreshGens(d) :
       /\ chunks' = [chunks EXCEPT ![d] = @ \cup {g}]
       /\ newest' = [newest EXCEPT ![d] = g]

CommitIndexed(w) ==
  /\ run[w].pc = "commit"
  /\ \/ /\ Publish(w)
        /\ GoTo(w, IF run[w].prev = {} THEN "ok" ELSE "cleanup", NoRow)
     \/ /\ ~Exists(run[w].doc)
        /\ Quit(w, "fail")
        /\ UNCHANGED <<row, chunks, newest>>
  /\ UNCHANGED <<file, queue, job, req, reap, faults>>

(* Mutant: the cleanup deletes by document instead of by captured id.      *)
CleanupAll(w) ==
  /\ run[w].pc = "cleanup"
  /\ chunks' = [chunks EXCEPT ![run[w].doc] = {}]
  /\ Quit(w, "ok")
  /\ UNCHANGED <<row, file, newest, queue, job, req, reap, faults>>

(* The chunk ids captured before the work are deleted after the commit.    *)
CleanupPrevious(w) ==
  LET d == run[w].doc IN
  /\ run[w].pc = "cleanup"
  /\ chunks' = [chunks EXCEPT ![d] = @ \ run[w].prev]
  /\ Quit(w, "ok")
  /\ UNCHANGED <<row, file, newest, queue, job, req, reap, faults>>

(* The except branch: roll back, read the row again, mark it failed.       *)
ReloadForFailure(w) ==
  LET d == run[w].doc IN
  /\ run[w].pc = "fail"
  /\ IF Exists(d)
     THEN GoTo(w, "markfailed", row[d])
     ELSE Quit(w, "raise")
  /\ UNCHANGED <<row, file, chunks, newest, queue, job, req, reap, faults>>

MarkFailed(w) ==
  LET d == run[w].doc  seen == run[w].seen IN
  /\ run[w].pc = "markfailed"
  /\ row' = IF Exists(d)
            THEN [row EXCEPT ![d] = Flush(@, seen, Failed(seen, "job"))] ELSE row
  /\ Quit(w, "raise")
  /\ UNCHANGED <<file, chunks, newest, queue, job, req, reap, faults>>

(* A database or embedding error, or RQ's job timeout, at the next call;   *)
(* the cleanup swallows it, the except branch does not.                    *)
TransientError(w) ==
  /\ Fault
  /\ \/ run[w].pc \in {"mark", "capture", "work", "commit"} /\ Quit(w, "fail")
     \/ run[w].pc \in {"load", "fail", "markfailed"} /\ Quit(w, "raise")
     \/ run[w].pc = "cleanup" /\ Quit(w, "ok")
  /\ UNCHANGED <<row, file, chunks, newest, queue, job, req, reap>>

(* The commit of the new chunks takes effect but its reply is lost.        *)
LostCommitReply(w) ==
  /\ run[w].pc = "commit"
  /\ Fault /\ Publish(w) /\ Quit(w, "fail")
  /\ UNCHANGED <<file, queue, job, req, reap>>

(* Mutants: retries without a limit, and no retry at all.                  *)
RetryForever(j) == [status |-> "scheduled", left |-> j.left - 1]
NeverRetry(j) == [status |-> "failed", left |-> 0]

(* RQ's bookkeeping when the job function returns or raises.               *)
RetryOrFail(j) == IF j.left > 0 THEN [status |-> "scheduled", left |-> j.left - 1]
                                ELSE [status |-> "failed", left |-> 0]

JobSucceeded(w) ==
  /\ run[w].pc = "ok"
  /\ job' = [job EXCEPT ![run[w].doc].status = "finished"]
  /\ SetRun(w, IdleRun)
  /\ UNCHANGED <<row, file, chunks, newest, queue, req, reap, faults>>

JobRaised(w) ==
  /\ run[w].pc = "raise"
  /\ job' = [job EXCEPT ![run[w].doc] = RetryOrFail(@)]
  /\ SetRun(w, IdleRun)
  /\ UNCHANGED <<row, file, chunks, newest, queue, req, reap, faults>>

(* The worker process is killed; its open transaction is rolled back.      *)
WorkerCrash(w) ==
  /\ Live(w)
  /\ Fault /\ Quit(w, "dead")
  /\ UNCHANGED <<row, file, chunks, newest, queue, job, req, reap>>

(* RQ finds the job of a dead worker in the started registry, and a worker *)
(* takes the place of the dead one.                                        *)
ReclaimJob(w) ==
  /\ run[w].pc = "dead"
  /\ job' = [job EXCEPT ![run[w].doc] = RetryOrFail(@)]
  /\ SetRun(w, IdleRun)
  /\ UNCHANGED <<row, file, chunks, newest, queue, req, reap, faults>>

(* RQ's scheduler moves a retry whose interval is over to the list.        *)
SchedulerEnqueue(d) ==
  /\ WithScheduler /\ job[d].status = "scheduled"
  /\ job' = [job EXCEPT ![d].status = "queued"]
  /\ queue' = queue \cup {d}
  /\ UNCHANGED <<row, file, chunks, newest, run, req, reap, faults>>

-----------------------------------------------------------------------------
(* The reaper and the passing of time *)

(* Mutants: the reaper ignores the age, or waits for one beyond it.        *)
StaleAtAnyAge(d, age) == row[d].status = "processing"
StaleAtOlder(d, age) == row[d].status = "processing" /\ row[d].started > age

StaleAt(d, age) ==
  /\ row[d].status = "processing"
  /\ row[d].started = Never \/ row[d].started >= age

(* reap_stale_processing_documents_async: the select ...                   *)
ReapSelect(age) ==
  /\ DOMAIN reap = {} /\ \E d \in Docs : StaleAt(d, age)
  /\ reap' = [d \in {e \in Docs : StaleAt(e, age)} |-> row[d]]
  /\ UNCHANGED <<row, file, chunks, newest, queue, job, run, req, faults>>

(* ... and its commit, which one deleted row is enough to abort.           *)
ReapCommit ==
  /\ DOMAIN reap # {}
  /\ row' = IF \A d \in DOMAIN reap : Exists(d)
            THEN [d \in Docs |->
                    IF d \in DOMAIN reap
                    THEN Flush(row[d], reap[d], Failed(reap[d], "timeout"))
                    ELSE row[d]]
            ELSE row
  /\ reap' = [d \in {} |-> NoRow]
  /\ UNCHANGED <<file, chunks, newest, queue, job, run, req, faults>>

ReaperCrash ==
  /\ DOMAIN reap # {}
  /\ Fault
  /\ reap' = [d \in {} |-> NoRow]
  /\ UNCHANGED <<row, file, chunks, newest, queue, job, run, req>>

Older(t) == IF t < MaxAge THEN t + 1 ELSE t
Aged(x) == [status |-> x.status, error |-> x.error, started |-> Older(x.started),
            indexed |-> Older(x.indexed), created |-> Older(x.created),
            text |-> x.text]

(* RQ stops a run after INDEX_JOB_TIMEOUT_SECONDS, half of                 *)
(* STALE_PROCESSING_MINUTES: no run is still at work when the stamp it     *)
(* committed turns stale.                                                  *)
Tick ==
  /\ \A w \in Workers : Working(w) => row[run[w].doc].started # 1
  /\ row' = [d \in Docs |-> Aged(row[d])]
  /\ row' # row
  /\ UNCHANGED <<file, chunks, newest, queue, job, run, req, reap, faults>>

-----------------------------------------------------------------------------
ApiStep(r) ==
  \/ \E d \in Docs : CreateDocument(r, d) \/ SaveUpload(r, d) \/ ReindexCheck(r, d)
  \/ CommitUpload(r) \/ ReindexCommit(r)
  \/ EnqueueFetch(r) \/ EnqueueJob(r) \/ EnqueueError(r) \/ MarkEnqueueFailed(r)
  \/ RequestFails(r)

RunStep(w) ==
  \/ LoadDocument(w) \/ MarkProcessing(w) \/ CapturePrevious(w)
  \/ ExtractAndEmbed(w) \/ CommitIndexed(w) \/ CleanupPrevious(w)
  \/ ReloadForFailure(w) \/ MarkFailed(w) \/ JobSucceeded(w) \/ JobRaised(w)

Next ==
  \/ \E r \in Reqs : ApiStep(r) \/ ApiCrash(LoopOf[r])
  \/ \E d \in Docs : SessionDelete(d) \/ SchedulerEnqueue(d)
  \/ \E w \in Workers, d \in Docs : Dequeue(w, d)
  \/ \E w \in Workers : RunStep(w) \/ ReclaimJob(w)
  \/ \E w \in Workers : TransientError(w) \/ LostCommitReply(w) \/ WorkerCrash(w)
  \/ \E age \in ReapAges : ReapSelect(age)
  \/ ReapCommit \/ ReaperCrash \/ Tick

Spec == Init /\ [][Next]_vars

(* What the deployment provides: requests, runs and RQ's bookkeeping go on, *)
(* a queued job gets its turn, the reaper is triggered again and again, and *)
(* time passes.  No crash and no error is ever required to happen.          *)
ApiProgress(r) == CommitUpload(r) \/ ReindexCommit(r) \/ EnqueueFetch(r)
                    \/ EnqueueJob(r) \/ MarkEnqueueFailed(r)

Fairness ==
  /\ \A r \in Reqs : WF_vars(ApiProgress(r))
  /\ \A w \in Workers : WF_vars(RunStep(w)) /\ WF_vars(ReclaimJob(w))
  /\ \A d \in Docs : /\ SF_vars(\E w \in Workers : Dequeue(w, d))
                     /\ WF_vars(SchedulerEnqueue(d))
  /\ WF_vars(\E age \in ReapAges : ReapSelect(age))
  /\ WF_vars(ReapCommit) /\ WF_vars(Tick)

FairSpec == Spec /\ Fairness

-----------------------------------------------------------------------------
(* Properties *)

(* Every variable keeps its type, and a busy worker or slot has a document. *)
ReqOK == /\ req \in [Reqs -> Req]
         /\ \A r \in Reqs : req[r].pc # "idle" => req[r].doc \in Docs
RunOK == /\ run \in [Workers -> Run]
         /\ \A w \in Workers : run[w].pc # "idle" => run[w].doc \in Docs
ReapOK == DOMAIN reap \subseteq Docs /\ reap \in [DOMAIN reap -> Row]
TypeOK ==
  /\ row \in [Docs -> Row] /\ file \in [Docs -> BOOLEAN]
  /\ chunks \in [Docs -> SUBSET Gens] /\ newest \in [Docs -> Gens \cup {NoGen}]
  /\ queue \subseteq Docs /\ job \in [Docs -> Job]
  /\ ReqOK /\ RunOK /\ ReapOK
  /\ faults \in 0..MaxFaults

(* A document that has been indexed keeps its latest chunk set for as long *)
(* as it exists, and a document shown as indexed has one: the cleanup that *)
(* follows a commit, delayed or overlapping with other runs, never deletes *)
(* the chunks the commit published (indexing.py, "clean previous").        *)
LatestChunksKept ==
  \A d \in Docs : /\ newest[d] # NoGen => newest[d] \in chunks[d]
                  /\ row[d].status = "indexed" => newest[d] # NoGen

(* A document that can be searched stays searchable until it is deleted:   *)
(* no reindex, failure, crash or cleanup leaves it without any chunk.      *)
SearchableNeverLost ==
  [][\A d \in Docs : chunks[d] # {} /\ Exists(d)' => chunks'[d] # {}]_vars

(* At most one worker is executing index_document for a document: the      *)
(* stable job id is what keeps two runs apart (queue.py, "dedupe").        *)
OneRunPerDoc ==
  \A v, w \in Workers :
    Live(v) /\ Live(w) /\ run[v].doc = run[w].doc => v = w

(* Before anything has failed, a document outside the short window between *)
(* commit and cleanup has exactly one chunk set, so retrieval never sees   *)
(* the same text twice.                                                    *)
NoStaleChunks ==
  \A d \in Docs :
    /\ faults = MaxFaults /\ chunks[d] # {}
    /\ \A w \in LiveOn(d) : run[w].pc # "cleanup"
    => chunks[d] = {newest[d]}

(* Each crash, error or lost reply leaves at most one more copy of a       *)
(* document's text behind, whatever the runs after it do: retrieval never  *)
(* sees more copies than there were faults, beside the latest one and,     *)
(* between commit and cleanup, the one about to go.                        *)
CopiesBounded ==
  \A d \in Docs :
    Cardinality(chunks[d]) <=
      1 + (MaxFaults - faults) + Cardinality({w \in LiveOn(d) : run[w].pc = "cleanup"})

(* A document is only ever reported as failed for a reason: its content    *)
(* cannot be indexed, or something crashed or raised.                      *)
FailureHasCause ==
  \A d \in Docs :
    row[d].status = "failed" => d \in BadDocs \/ faults < MaxFaults

(* Without reindex requests, the reaper's select never picks a document    *)
(* that a worker has stamped and is still working on: every run restamps   *)
(* processing_started_at.                                                  *)
ReaperSelectsAbandoned ==
  [][\A d \in DOMAIN reap' \ DOMAIN reap :
       \A w \in Workers : run[w].doc = d => ~Working(w)]_vars

(* What moves a pending document on: a job RQ will run (again), a run that *)
(* has yet to report, or a request that has yet to queue the job.          *)
Attempting(w) == \/ Live(w) /\ run[w].pc \notin {"ok", "raise", "cleanup"}
                 \/ run[w].pc \in {"raise", "dead"} /\ job[run[w].doc].left > 0
Moved(d) ==
  \/ job[d].status \in {"queued", "scheduled"}
  \/ \E w \in Workers : run[w].doc = d /\ Attempting(w)
  \/ \E r \in Reqs : /\ req[r].doc = d
                     /\ req[r].pc \in {"enqueue", "replace"}

(* Without reindex requests, a pending document is never left behind for   *)
(* nothing: either something still moves it on, or its request failed      *)
(* before a job was queued, or every one of the job's RetryMax + 1         *)
(* attempts was lost to a fault of its own before it could mark the row.   *)
PendingIsOwned ==
  \A d \in Docs :
    row[d].status = "pending" =>
      \/ Moved(d)
      \/ job[d].status = "none" /\ faults < MaxFaults
      \/ job[d].status \in {"started", "failed"} /\ MaxFaults - faults > RetryMax

(* Without reindex requests, a document shown as processing says since     *)
(* when, so the reaper measures from its run and never falls back on a     *)
(* missing stamp; one shown as indexed says since when and has text:       *)
(* writing back only the attributes a transaction changed never mixes the  *)
(* row of one run with another's.                                          *)
StampsFitStatus ==
  \A d \in Docs :
    /\ row[d].status = "processing" => row[d].started # Never
    /\ row[d].status = "indexed" => row[d].text /\ row[d].indexed # Never

(* A document shown as failed that has no text yet still has its uploaded  *)
(* file, so that indexing it again can succeed.                            *)
UnindexedKeepsFile ==
  \A d \in Docs : row[d].status = "failed" /\ ~row[d].text => file[d]

(* A document never stays in "processing": the run ends, or the reaper,    *)
(* triggered again and again, gives the document up.                       *)
ProcessingEnds ==
  \A d \in Docs : (row[d].status = "processing") ~> (row[d].status # "processing")

(* A pending document with a queued job leaves "pending", whatever happens *)
(* to the workers, as long as the retries outnumber the faults.            *)
QueuedIsPickedUp ==
  \A d \in Docs : (row[d].status = "pending" /\ d \in queue)
                     ~> (row[d].status # "pending")

(* The pipeline implements the promise SearchIndex makes to retrieval and  *)
(* to polling clients: reported statuses, visible and latest chunk sets.   *)
Promise == INSTANCE SearchIndex WITH
             status <- [d \in Docs |-> row[d].status],
             visible <- chunks, latest <- newest
KeepsPromise == Promise!Spec
=============================================================================
