-------------------------------- MODULE Quotas --------------------------------
(***************************************************************************)
(* The daily quotas and the indexing capacity of a session (rate_limit.py) *)
(* in the handlers that ask for them (main.py): text and file uploads,     *)
(* reindex, chat and verify.  Each limit is counted in one query and acted *)
(* upon after further awaits, while the other requests of the session, the *)
(* workers and the calendar go on.                                         *)
(*                                                                         *)
(* What the per-minute limits admit is RateWindow's subject: here any      *)
(* request may arrive.  A file, or a text, is one unit of bytes.           *)
(***************************************************************************)
EXTENDS Naturals, FiniteSets

CONSTANTS
  Slots,      \* requests the API serves at a time
  Owners,     \* guest sessions
  Docs,       \* bound: rows of documents
  NoDoc,
  PerDay,     \* the daily quota of each meter
  MaxActive,  \* MAX_ACTIVE_INDEX_JOBS_PER_SESSION; 0: off
  MaxFiles,   \* MAX_FILES_PER_UPLOAD_REQUEST
  MaxFaults   \* bound: crashes of the API or a worker, and commits that fail

ASSUME SlotAssumption == IsFiniteSet(Slots) /\ Slots # {} /\ IsFiniteSet(Docs)
ASSUME NoDocAssumption == NoDoc \notin Docs

RunTypes == {"chat", "verify"}
Meters == {"uploads", "bytes"} \cup RunTypes

ASSUME QuotaAssumption ==
  PerDay \in [Meters -> Nat] /\ {MaxActive, MaxFiles, MaxFaults} \subseteq Nat

VARIABLES
  doc,    \* doc[d]: its row and its job in the queue
  today,  \* today[s][m]: rows, or sum of size_bytes, of s since midnight
  req,    \* req[p]: what the handler in slot p is doing
  faults  \* how many more faults may happen

quotaVars == <<doc, today, req, faults>>

(* "again": pending because of a reindex.                                  *)
Row == [owner : Owners, status : {"pending", "again", "processing", "settled"},
        job : {"none", "queued", "started"}]
NoRow == [owner |-> "none"]

Of(s) == {d \in Docs : doc[d] # NoRow /\ doc[d].owner = s}
Waiting(s) == {d \in Of(s) : doc[d].status \in {"pending", "again"}}
Active(s) == {d \in Of(s) : doc[d].status \in {"pending", "again", "processing"}}

(* requeue: a reindex of a document it read as pending.  left: files still *)
(* to come, this one included; target: the document to reindex, or the one *)
(* just stored.                                                            *)
Handlers == {"text", "upload", "reindex", "requeue"} \cup RunTypes
Request == [op : Handlers, by : Owners,
            pc : {"entry", "capacity", "quota", "commit", "enqueue", "runs", "log"},
            left : 0..MaxFiles, target : Docs \cup {NoDoc}]
Idle == [op |-> "none"]
At(p, pc) == req[p] # Idle /\ req[p].pc = pc
Holds(p, d) == req[p] # Idle /\ req[p].target = d

QuotaInit ==
  /\ doc = [d \in Docs |-> NoRow]
  /\ today = [s \in Owners |-> [m \in Meters |-> 0]]
  /\ req = [p \in Slots |-> Idle]
  /\ faults = MaxFaults

SetReq(p, q) == req' = [req EXCEPT ![p] = q]
GoTo(p, pc) == SetReq(p, [req[p] EXCEPT !.pc = pc])
(* A response, whatever its status.                                        *)
Respond(p) == SetReq(p, Idle)
Fault == faults > 0 /\ faults' = faults - 1

-----------------------------------------------------------------------------
(* The limits *)

(* enforce_index_queue_capacity                                            *)
HasCapacity(s) == MaxActive = 0 \/ Cardinality(Active(s)) < MaxActive

(* enforce_daily_upload_quotas, with one more unit coming in, and          *)
(* enforce_daily_run_quotas.                                               *)
HasQuota(s, m) == today[s][m] < PerDay[m]

Count(s, meters) ==
  today' = [today EXCEPT ![s] = [m \in Meters |-> @[m] + IF m \in meters THEN 1 ELSE 0]]

-----------------------------------------------------------------------------
(* The handlers *)

New(op, s, pc, left, target) ==
  [op |-> op, by |-> s, pc |-> pc, left |-> left, target |-> target]

(* The owner and, for a reindex, the status of the document are read.      *)
Arrive(p, s, op) ==
  /\ req[p] = Idle
  /\ \/ op = "text" /\ SetReq(p, New(op, s, "quota", 0, NoDoc))
     \/ op = "upload" /\ \E n \in 1..MaxFiles : SetReq(p, New(op, s, "entry", n, NoDoc))
     \/ \E d \in Of(s) :
          /\ \/ op = "reindex" /\ doc[d].status = "settled"
             \/ op = "requeue" /\ d \in Waiting(s)
          /\ SetReq(p, New(op, s, "capacity", 0, d))
     \/ op \in RunTypes /\ SetReq(p, New(op, s, "runs", 0, NoDoc))
  /\ UNCHANGED <<doc, today, faults>>

(* The form may be refused; the capacity is asked for once more before the *)
(* first file.                                                             *)
Entry(p) ==
  /\ At(p, "entry")
  /\ \/ HasCapacity(req[p].by) /\ GoTo(p, "capacity")
     \/ Respond(p)
  /\ UNCHANGED <<doc, today, faults>>

AfterCapacity(op) == IF op = "upload" THEN "quota" ELSE "commit"

(* Mutant: the capacity is only asked for at the entry.                    *)
CapacityOfTexts(p) ==
  /\ At(p, "capacity")
  /\ IF req[p].op = "upload" \/ HasCapacity(req[p].by)
     THEN GoTo(p, AfterCapacity(req[p].op)) ELSE Respond(p)
  /\ UNCHANGED <<doc, today, faults>>

(* Then a file of an unsupported type, empty or too large is refused, and  *)
(* so is a reindex that comes too soon.                                    *)
Capacity(p) ==
  /\ At(p, "capacity")
  /\ \/ HasCapacity(req[p].by) /\ GoTo(p, AfterCapacity(req[p].op))
     \/ ~HasCapacity(req[p].by) /\ Respond(p)
     \/ req[p].op # "text" /\ Respond(p)
  /\ UNCHANGED <<doc, today, faults>>

(* A text goes on to the capacity, a file to the object store, where       *)
(* saving it may fail.                                                     *)
Quota(p) ==
  /\ At(p, "quota")
  /\ \/ /\ \A m \in {"uploads", "bytes"} : HasQuota(req[p].by, m)
        /\ GoTo(p, IF req[p].op = "text" THEN "capacity" ELSE "commit")
     \/ (\E m \in {"uploads", "bytes"} : ~HasQuota(req[p].by, m)) /\ Respond(p)
     \/ req[p].op = "upload" /\ Respond(p)
  /\ UNCHANGED <<doc, today, faults>>

(* The row the commit writes (a requeue has no new status to write), and   *)
(* the meters it adds to: the size of a text is not stored.                *)
Written(q, d) ==
  CASE q.op = "reindex" -> [doc[d] EXCEPT !.status = "again"]
    [] q.op = "requeue" -> doc[d]
    [] OTHER -> [owner |-> q.by, status |-> "pending", job |-> "none"]
Adds(op) == CASE op = "upload" -> {"uploads", "bytes"}
              [] op = "text" -> {"uploads"}
              [] op \in RunTypes -> {op}
              [] OTHER -> {}

(* A commit that fails ends the request; one whose reply, or whose         *)
(* refresh, is lost has written the row, and nothing will queue it.        *)
Commit(p) ==
  /\ At(p, "commit")
  /\ \/ Respond(p) /\ UNCHANGED <<doc, today, faults>>
     \/ \E d \in Docs :
          /\ IF req[p].op \in {"reindex", "requeue"} THEN d = req[p].target
             ELSE doc[d] = NoRow
          /\ doc' = [doc EXCEPT ![d] = Written(req[p], d)]
          /\ Count(req[p].by, Adds(req[p].op))
          /\ \/ SetReq(p, [req[p] EXCEPT !.pc = "enqueue", !.target = d]) /\ UNCHANGED faults
             \/ Respond(p) /\ Fault

(* Mutant: the first file speaks for the others.                           *)
QuotaOnce(q) ==
  IF q.left > 1 THEN [q EXCEPT !.pc = "commit", !.left = @ - 1, !.target = NoDoc] ELSE Idle
(* Mutant: one file too many.                                              *)
NextFileAtZero(q) ==
  IF q.left > 0 THEN [q EXCEPT !.pc = "capacity", !.left = @ - 1, !.target = NoDoc] ELSE Idle
(* The next file of the batch, or the response.                            *)
NextFile(q) ==
  IF q.left > 1 THEN [q EXCEPT !.pc = "capacity", !.left = @ - 1, !.target = NoDoc] ELSE Idle

(* enqueue_index_document: a job that is queued or started stays.          *)
Queued(job) == IF job = "none" THEN "queued" ELSE job

(* Mutant: the exception reaches the client and nobody else.               *)
FailQuietly(d) == UNCHANGED doc
(* The row is marked failed; the job may have been queued all the same.    *)
MarkFailed(d) ==
  \E job \in {doc[d].job, Queued(doc[d].job)} :
    doc' = [doc EXCEPT ![d].status = "settled", ![d].job = job]

(* The marking is a commit of its own, which may fail as well.             *)
Enqueue(p) ==
  LET d == req[p].target IN
  /\ At(p, "enqueue")
  /\ \/ doc' = [doc EXCEPT ![d].job = Queued(@)] /\ SetReq(p, NextFile(req[p])) /\ UNCHANGED faults
     \/ MarkFailed(d) /\ Respond(p) /\ UNCHANGED faults
     \/ /\ \E job \in {doc[d].job, Queued(doc[d].job)} : doc' = [doc EXCEPT ![d].job = job]
        /\ Respond(p) /\ Fault
  /\ UNCHANGED today

RunCheck(p) ==
  /\ At(p, "runs")
  /\ IF HasQuota(req[p].by, req[p].op) THEN GoTo(p, "log") ELSE Respond(p)
  /\ UNCHANGED <<doc, today, faults>>

(* The model answers and the run is logged, or either fails.               *)
LogRun(p) ==
  /\ At(p, "log")
  /\ Respond(p)
  /\ Count(req[p].by, Adds(req[p].op)) \/ UNCHANGED today
  /\ UNCHANGED <<doc, faults>>

(* The API process dies with all its requests.                             *)
Crash ==
  /\ Fault
  /\ req' = [p \in Slots |-> Idle]
  /\ UNCHANGED <<doc, today>>

-----------------------------------------------------------------------------
(* Meanwhile *)

(* A worker starts a job and reads the row, then marks it, and reports how *)
(* the run ended; the reaper gives a document up.                          *)
Start(d) == doc[d].job = "queued" /\ doc' = [doc EXCEPT ![d].job = "started"]
Mark(d) == doc[d].job = "started" /\ doc' = [doc EXCEPT ![d].status = "processing"]
Settle(d) == doc[d].job = "started" /\ doc' = [doc EXCEPT ![d].status = "settled"]
Reap(d) == doc[d].status = "processing" /\ doc' = [doc EXCEPT ![d].status = "settled"]

(* The job leaves the queue, or is to be retried: the run is over, or died *)
(* with its worker.  A row still pending was never marked, nor could the   *)
(* run mark it failed: the worker died, or the database failed, first.     *)
Leave(d) ==
  /\ doc[d].job = "started"
  /\ \E job \in {"none", "queued"} : doc' = [doc EXCEPT ![d].job = job]
  /\ IF doc[d].status = "pending" THEN Fault ELSE UNCHANGED faults

Work ==
  /\ \E d \in Docs :
       /\ doc[d] # NoRow
       /\ \/ (Start(d) \/ Mark(d) \/ Settle(d) \/ Reap(d)) /\ UNCHANGED faults
          \/ Leave(d)
  /\ UNCHANGED <<today, req>>

(* Midnight, UTC.                                                          *)
NewDay ==
  /\ today' = [s \in Owners |-> [m \in Meters |-> 0]]
  /\ UNCHANGED <<doc, req, faults>>

Serve(p) ==
  \/ \E s \in Owners, op \in Handlers : Arrive(p, s, op)
  \/ Entry(p) \/ Capacity(p) \/ Quota(p) \/ Commit(p) \/ Enqueue(p) \/ RunCheck(p) \/ LogRun(p)

QuotaNext == (\E p \in Slots : Serve(p)) \/ Crash \/ Work \/ NewDay

QuotaSpec == QuotaInit /\ [][QuotaNext]_quotaVars

-----------------------------------------------------------------------------
(* Properties *)

(* Types; a request stores no more files than it brought, and queues what  *)
(* belongs to its session.                                                 *)
QuotaTypeOK ==
  /\ doc \in [Docs -> Row \cup {NoRow}]
  /\ today \in [Owners -> [Meters -> Nat]]
  /\ req \in [Slots -> Request \cup {Idle}]
  /\ \A p \in Slots :
       /\ req[p].op = "upload" => req[p].left > 0
       /\ At(p, "enqueue") => req[p].target \in Of(req[p].by)
  /\ faults \in 0..MaxFaults

(* The daily quotas are exceeded by less than the number of requests       *)
(* served at a time, however they interleave, however many files a request *)
(* brings, and whatever happens around midnight.                           *)
DailyQuotas ==
  \A s \in Owners, m \in Meters : today[s][m] < PerDay[m] + Cardinality(Slots)

(* No session has more than its limit, and one for each other request      *)
(* served, waiting to be indexed: retries, which nobody asks for, make     *)
(* documents "processing" again, never "pending".                          *)
QueueCapacity ==
  MaxActive > 0 =>
    \A s \in Owners : Cardinality(Waiting(s)) < MaxActive + Cardinality(Slots)

(* Documents that wait for a job, which no request is about to queue: they *)
(* take capacity until somebody reindexes them.                            *)
Stranded ==
  {d \in Docs : /\ doc[d] # NoRow /\ doc[d].status = "pending" /\ doc[d].job = "none"
                /\ ~\E p \in Slots : At(p, "enqueue") /\ Holds(p, d)}

(* However batches end (refused midway, queue down, marking failed), and   *)
(* whatever becomes of the jobs, each crash of the API or a worker and     *)
(* each commit that fails strands at most the one new document per request *)
(* being served, and nothing else strands any.  (A reindex may lose its    *)
(* job without a failure: Indexing, LostReindex.)                          *)
StrandedBounded ==
  Cardinality(Stranded) <= (MaxFaults - faults) * Cardinality(Slots)
=============================================================================
