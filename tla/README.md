# A TLA+ model of meeting-notes

meeting-notes lets an anonymous guest upload meeting documents, indexes them in
the background into embedded chunks, and answers questions about them with
citations. This directory holds TLA+ modules that model the program, TLC
configurations that check them on small instances, and theorems that TLAPS
proves for every value of the constants. `PROJECT.json` lists, in machine-readable
form, the components, the runs, the source lines behind every definition, a
seeded bug for every property (the definitions marked "Mutant"), the hazards of
the code and the theorems.

    tlc -workers 2 -config IndexingFaults.cfg MCIndexing.tla
    tlapm IndexingProofs.tla

Paths below are relative to `src/`; `app/` stands for `apps/api/app/`.

## 1. The system

| Component | State it keeps | Operations |
|---|---|---|
| API, documents (`app/main.py` 494-820) | `documents`, `chunks` rows | create, upload (one or several files), list, status, reindex, health |
| Queue (`app/queue.py`, RQ) | the job list, job hashes `index-document-<id>` in Redis | `enqueue_index_document`, `enqueue_reap_stale_processing`; RQ: dequeue, retry, scheduler, started-job registry |
| Worker (`app/worker.py`, `app/jobs/indexing.py`) | the ORM object it has loaded, the chunk ids it captured | `index_document`, `reap_stale_processing_documents` |
| Storage (`app/storage.py`) | one object per uploaded document (local file or S3) | save, delete, materialise |
| Guest sessions (`app/auth.py`, `app/main.py` 427-477) | `guest_sessions`, `meetings.session_id` | create, authenticate and touch, reset, delete, clean-up of expired ones |
| Meetings (`app/main.py` 480-491) | `meetings` | create, list, ownership checks |
| Rate limits and quotas (`app/rate_limit.py`) | per-process deques of hits; counts over `documents` and `runs` | per-minute window, daily uploads and runs, indexing capacity |
| Chat (`app/main.py` 888-1098, `app/ai/client.py`) | `runs`, `run_feedback` | readiness check, retrieval, answer, fallback citations, history, feedback, chunk detail |
| Verification (`app/main.py` 1101-1206, `app/verifier/engine.py`) | `runs` | call the model, validate evidence, retry once, strip, rule checks |
| Citation validation (`app/ai/grounding.py`) | none; no endpoint calls it | `validate_citations` |
| Extraction, chunking, embeddings (`app/processing`, `app/ingestion`, `app/ai/embeddings.py`) | none | text of a file, overlapping chunks, vectors |
| Run logging, analytics (`app/observability/runs.py`, `app/main.py` 1209-1271) | `runs` | one insert per run, counts |
| Middleware (`app/main.py`) | none | headers, CSRF, size guard, health probes |
| Web client (`apps/web/src/lib`) | the guest token in localStorage, `pendingTokenRequest`, the React Query cache | authorised fetch with one renewal, polling, optimistic documents, chat panel |

How they interact. The API and the workers are separate processes that share
PostgreSQL (READ COMMITTED, one SQLAlchemy session per request or job), Redis
and the object store; there is no transaction across two of them. An upload
writes the object, commits the row and queues the job in three steps, any of
which may fail. A worker loads a row, commits `processing`, works for minutes
without a lock, commits chunks and `indexed` together, and removes the previous
chunks afterwards. The reaper, a job of its own on the same queue, fails rows
that have been `processing` for too long. Deleting a session deletes its
meetings, which cascades to documents and chunks, whatever is running on them.
The web client polls until no document is pending or processing.

What is hard to get right: the ORM writes back only the attributes that differ
from what it loaded, over rows other processes have changed since; RQ counts a
job as started until it has recorded its end, which is after the run has
committed its result; a worker may die, and a reply may be lost, between any two
steps; sessions are deleted statement by statement under READ COMMITTED while
requests that authenticated earlier go on; and the browser makes many calls at
once that all find no token, or a stale one; a handler asks whether it may, or
whether there is content, in one query and relies on the answer several awaits
later, while documents are reindexed and other requests ask the same.

What makes each part correct, as far as a property below states it:

- documents and queue: nothing searchable is ever lost, retrieval never sees two
  versions of a document at rest, a document has one run at a time, fails only
  for a reason, leaves `processing`, and waits without anyone to move it only after
  faults;
- sessions: an owner is always live, uploads stay with their owner, a confirmed
  upload keeps its object as long as its guest can reach it, and a deletion leaves
  nothing behind;
- guest token: one request for a session at a time, the newest token wins, a
  refused token is not sent again, a live one is not dropped, and a failure leaves
  nothing behind that later calls trip over;
- limits: at most the limit in every window of a minute, wherever it starts;
  concurrent requests overshoot a daily quota, or the indexing capacity, by less
  than their own number; a batch that stops halfway
  strands nothing without a failure;
- chat and verification: every citation and every evidence reference is a chunk
  of the meeting that the model was shown; one retry at most, and reported
  truly; nobody is told that there is no content while there is; a response
  names a run that exists, and feedback is about one.

## 2. Modules

| Module | What it is |
|---|---|
| `SearchIndex` | What the pipeline promises to retrieval and to polling clients: a status, visible chunk sets and the latest one, per document. No worker, queue or ORM. |
| `Indexing` | The pipeline: API requests, Redis, workers, RQ's bookkeeping, the reaper, deletion, time. Implements `SearchIndex`. |
| `MCIndexing` | Symmetry and the single event loop, for TLC. |
| `IndexingProofs` | Theorems about `Indexing`: types, chunk sets, runs, refinement. |
| `IndexingOutcomesProofs` | Theorems about `Indexing`: what stays behind and how much of it, what the reaper takes, why a document fails, who moves a pending one, what its stamps say. |
| `GuestSessions` | Sessions, meetings, uploads and objects, one SQL statement at a time. |
| `MCGuestSessions` | Symmetry, for TLC. |
| `GuestSessionsProofs` | Theorems about `GuestSessions`: ownership, rows and objects. |
| `OwnedDataProofs` | The theorem that a deletion leaves nothing behind. |
| `GuestToken` | `ensureGuestToken` and `authorizedFetch` in overlapping calls. |
| `MCGuestToken` | One tab, for TLC. |
| `GuestTokenProofs` | Theorems about `GuestToken`. |
| `Answering` | Chat and verification, one query or model call at a time, over documents that change as `SearchIndex` promises; the run log and feedback. |
| `MCAnswering` | Symmetry, for TLC. |
| `AnsweringProofs` | Theorems about `Answering`. |
| `SlidingLog` | What a limit per minute promises: a log of all that was let through, and a refusal exactly when the limit was reached within the last window. No deque. |
| `RateWindow` | The per-minute sliding windows. Implements `SlidingLog`. |
| `RateWindowProofs` | Theorems about `RateWindow`: the bound, refinement. |
| `Quotas` | The daily quotas and the indexing capacity in the handlers that ask for them, with workers and midnight. |
| `QuotasProofs` | Theorems about `Quotas`. |
| `MCLimits` | `RateWindow` and `Quotas` side by side, for TLC. |

### Indexing

A step is what one process does between two points where another can observe
it: a transaction, a Redis exchange or a storage call.

| Variable | Code |
|---|---|
| `row[d]` | the `documents` row: status, error, the three timestamps, whether `raw_text` is set |
| `chunks[d]` | the chunk sets of `d` in `chunks`; a set is what one run published |
| `newest[d]` | the set published last (history) |
| `file[d]` | the stored object |
| `queue`, `job[d]` | the RQ list; the hash of job `index-document-<d>` with its status and retries left |
| `run[w]` | the execution in worker `w`: where it stands, the row it loaded, the chunk ids it captured |
| `req[r]` | an API request between two of its steps, with the row it loaded |
| `reap` | the rows the reaper has selected and not yet written back |
| `faults` | how many crashes, errors and lost replies may still happen |

`CreateDocument`, `SaveUpload`/`CommitUpload`, `ReindexCheck`/`ReindexCommit`,
`EnqueueFetch`/`EnqueueJob` and `MarkEnqueueFailed` are the handlers of
`main.py` and `queue.py` cut at their awaits and Redis calls. `RequestFails` is what
their outer `except` makes of a commit, a refresh or a marking that raises: the row
stays as it was committed, nothing is queued any more, and an upload's object goes
(a commit whose reply is lost is a `CommitUpload` followed by `RequestFails`); `LoadDocument` to
`MarkFailed` is `index_document_async`; `RetryOrFail`, `JobSucceeded`,
`JobRaised`, `ReclaimJob` and `SchedulerEnqueue` are what the code relies on in
RQ; `ReapSelect` and `ReapCommit` are the reaper.

`Flush` is SQLAlchemy's unit of work: a commit writes the attributes whose new
value differs from the loaded one, a current timestamp always differs, and the
rest of the row stays as other transactions left it. An UPDATE that matches no
row raises, which is how a run or the reaper learns that a document is gone.

Time is a class per timestamp: younger than the reindex cooldown, older, older
than `STALE_PROCESSING_MINUTES`. `Tick` ages every timestamp at once and is held
back while a run is at the edge of its job timeout (half of the stale limit).
The reaper endpoint takes an age from its caller; `ReapAges` says which.

The event loop of an API process does not run another request during the
synchronous Redis calls of `enqueue_index_document` (`LoopFree`); requests of
different processes interleave there.

Simplifications: a request uploads one file (a batch is a sequence of such
requests that shares one response); a deletion of the owning session is one step
here and is taken apart in `GuestSessions`; what a document contains is whether
it can be indexed at all (`BadDocs`); list, status and health endpoints only read.

### GuestSessions

One step per SQL statement, commit or storage call. `sess[s]` is the session
row with its idle and absolute age as classes; `owner`, `meeting`, `doc` and
`file` are the tables and the objects; `proc[p]` is a request or reaper job with
the ids, paths and uncommitted deletes it holds. A transaction's deletes stay
visible to other statements until it commits, while an insert that refers to
such a row waits (`Locked`). The foreign key of meetings is SET NULL, so a
meeting the deletion did not see is kept without owner; documents cascade.
`doc[d]` is queued once the upload has been confirmed; a commit whose reply is lost,
a refresh or a marking that fails leaves the row live and removes the object
(`InsertDocument`, `EnqueueDocument`). `by`, `of`, `in` and `raced` are history: who created a meeting, who uploaded a
document and into which meeting, and whether a session was in use while it was
deleted. A DELETE takes the locks of all its rows in one step, where PostgreSQL
takes them one by one: two overlapping deletions may deadlock there, and the one
PostgreSQL aborts is a `Crash` here. That nothing ever waits for ever is therefore
not claimed of this module.

### GuestToken

A step is what one tab does between two awaits, or the server's handling of one
request. `call[c]` is an `authorizedFetch` with its header and the promise it
awaits, `pending[b]` the module variable `pendingTokenRequest` of tab `b`,
`post[t]` the `POST /sessions/guest` that returns token `t`, `from[t]` the tab that
made it (history), and `stored` the localStorage all tabs share. Awaiting a promise
that has been settled goes on, or raises, at once (`JoinRequest`). Requests are numbered as they are made; a call needs
two at most, so their number is no bound (`PostsSuffice` proves it).

### Answering

`status`, `visible` and `latest` are the variables of `SearchIndex`, and
`IndexChanges` lets them do whatever that abstract specification allows: what is
checked here holds for any pipeline that keeps the promise `Indexing` is shown
to keep (`KeepsPromise`), without a worker in the state. A chunk set stands for
its chunks, and retrieval returns any `TopK` of what is searchable: ranking and
embeddings are a choice.

`req[r]` is what a handler holds between two queries, then its response. A chat
retrieves first and asks for readiness only when nothing was found
(`Retrieve`, `ReadBusy`, `ReadHas`); a verification asks first, then
loads chunks inside `verify_meeting`, whose failures become a fail-safe answer.
A model may say anything its schema allows: any set of the chunks it was shown
and of ids that name none of them (`Alien`). `Strip`, `Removed` and `WithRules` are
the validation, its declaration and the rule issues of `verifier/engine.py`.
`Log` is the best-effort insert into `runs`, with the failures that leave a row
behind although the response has no id; `DeleteMeeting` is the deletion of the
session, in one step (`GuestSessions` takes it apart).

### RateWindow and Quotas

`hits[k]` is the deque of bucket `k`; `recorded[k]`, everything that ever went
into it, is history, and `SlidingLog` promises what a limiter with nothing but that
history would do (`IsSlidingLog`). `Call` is one call of `enforce_per_minute_limits`, which has
no await and is one step: the address first, then the session, and a hit of the
address stays when the session is refused.

In `Quotas`, `req[p]` is a handler in one of the slots the API serves at a time,
cut at its awaits: `Entry`, `Capacity`, `Quota`, `Commit`, `Enqueue` for documents
in the order of `create_document`, `upload_document` (with its loop over files)
and `reindex_document`; `RunCheck` and `LogRun` for chat and verification.
`today[s][m]` is what the query of `rate_limit.py` would count for meter `m` since
midnight, and `doc[d]` a row with its job. `Work` is all a worker, RQ's retries and
the reaper do to them: RQ starts a job (`Start`) before the run commits `processing`
(`Mark`), and a job that ends or is retried while its row is still pending
(`Leave`) has lost its worker or its database. `NewDay` comes at any moment.

## 3. Runs

| Run | Instance | What it shows |
|---|---|---|
| `IndexingFaults` | 1 document, 2 workers, 2 requests in one loop, 3 chunk sets, text and reindex without cooldown, 1 retry, 1 fault, a reaper that may act at any time | `TypeOK`; `LatestChunksKept` and `SearchableNeverLost`: cleanup, failure and crash never take what is searchable; `OneRunPerDoc`: the stable job id keeps runs apart; `NoStaleChunks`, `CopiesBounded`: stale chunk sets go, and there are never more than faults; `KeepsPromise`: refinement of `SearchIndex` |
| `IndexingReaper` | 2 documents (one can never be indexed), 1 worker, text and uploads, 2 faults, reaper at its default age | `FailureHasCause`; `PendingIsOwned`: without reindex requests a pending document is moved on by a job, a run or a request, unless a fault broke its request off or faults took every attempt; `StampsFitStatus`: stamps and status of a row belong together; `ReaperSelectsAbandoned`: the reaper never takes a document a run has stamped and is working on |
| `IndexingLive` | 2 documents (one can never be indexed), 1 worker, 1 fault, 1 retry, fair | `ProcessingEnds`, `QueuedIsPickedUp` |
| `IndexingLostReindex` | 1 document that can be indexed, no fault | violated: `PendingIsOwned` |
| `IndexingS3` | 1 upload, S3, no fault | violated: `FailureHasCause` |
| `IndexingUploadLost` | 1 upload, 1 fault | violated: `UnindexedKeepsFile` |
| `Sessions` | 2 sessions, 1 meeting, 1 document, 2 requests or jobs, 1 fault | `TypeOK`, `OwnersAreLive`, `UploadsStayInOwnMeetings`, `RowsKeepObjects`, `OwnedDataDeleted` |
| `SessionsLeftovers` | the same, no fault | violated: `InvalidationIsComplete` |
| `GuestTokens` | 3 calls in one tab, 2 losses, fair | `TypeOK`, `SingleFlight`, `StoredIsNewest`, `SecondTokenIsFresh`, `WaitsAreShared`, `CallsRecover` |
| `GuestTokenCleared` | the same | violated: `LiveTokenKept` |
| `Answering` | 2 documents, 2 chunk sets each, 1 request, 2 chunks retrieved or verified, 1 citation, 1 fault | `TypeOK`; `Grounded`: references are to chunks shown; `ReadyNotDenied` and `DeniedWhenEmpty`: the two readiness queries; `ResponsesLogged`, `FeedbackOnChats`: the log under failures and deletion; `RetryAccounted` |
| `Limits` | 1 address, 2 sessions, 2 operations, 5 instants, 4 calls; and 2 slots, 1 session, 3 documents, batches of 2, quotas of 1 and 2, capacity 1, 1 fault | `WindowTypeOK`, `WindowBound`; `IsSlidingLog`: refinement of `SlidingLog`; `QuotaTypeOK`; `DailyQuotas` and `QueueCapacity`: the overshoot is bounded; `StrandedBounded`: each crash or failed commit strands one new document per slot at most |

Why the bounds are enough. The interference the pipeline has to survive is
between two runs of one document, two requests for it, the reaper and one
deletion: two workers and two requests give all of these pairs. Three chunk sets
are needed for two published sets and a third one captured or about to be; a
set nobody refers to any more is used again, so the number of reindexes is not
bounded. One fault with one retry reaches a second run after each kind of
failure at each step. A second document matters to the reaper, whose commit
covers all rows it selected, and to fairness between queued jobs; the runs with
two documents leave reindex out. `IndexingFaults` leaves time out: it has no reindex cooldown
(`REINDEX_COOLDOWN_SECONDS=0`) and a reaper asked for age 0, which fails documents
that are still being worked on, so its properties depend on neither limit;
`IndexingReaper` and `IndexingLive` have time and the default limits.
`IndexingReaper` has two faults: one run may lose its worker in the middle, and
its retry fail before it stamps the row anew, so that the reaper sees the old
stamp while a run is under way (a run that has not stamped yet, or has given up,
is not `Working`, and the reaper may take its document). One worker is enough
there, because runs of one document do not overlap (`OneRunPerDoc`).
Sessions need a second session for clean-ups that name several and for
ownership, and two slots for every race of a deletion with a request or with
another deletion. Three calls are the least in which one joins a request, one
is refused late, and one starts afresh.

Requests of `Answering` share no state but the documents, which change freely
already, so one request meets every interference that many would cause each
other. Two documents tell apart "one is pending" and "another is searchable",
and two chunk sets each give a set that replaces another while a request holds
chunks of the first; chunk sets come back into use once nothing refers to them.

`Limits` explores three parts that share no variable, each with the others at
rest, because their product says no more: the windows, the document handlers,
and the runs. Two slots are the least in which a check of one request meets the
use of another, and the bound `< limit + slots` is attained; three rows hold a batch
of two and one more; a window of two in a clock of five instants has hits that are
younger, exactly as old, and older than it. `IsSlidingLog` speaks of each request by
its operation, address and session (`DecidesAlike`): the log alone does not show who
was refused, and a request that names nobody leaves it as it is. What these bounds leave open, larger
numbers of slots and limits above all, the theorems below close.

Deadlock is not checked: every instance comes to rest when all documents,
calls or requests are done and no fault is left, or the clock of `RateWindow` has
reached its bound. That nothing is stuck is what
`ProcessingEnds`, `QueuedIsPickedUp`, `CallsRecover`, `PendingIsOwned` and `StrandedBounded` say.

Fairness. Requests that a process has started, runs and RQ's bookkeeping go on
(weak fairness per slot and worker). `Dequeue` is strongly fair per document: a
worker that becomes free again and again takes jobs in the order of the list.
The scheduler enqueues a retry when its interval is over (`worker.py` starts the
worker without one; `infra/deployment.md:21` and `scripts/run_worker_local.sh`
start it with one: `WithScheduler`). Time passes, and an operator's timer calls
`POST /internal/reaper/trigger` (`backendap.md:306`) again and again: nothing in
the repository triggers the reaper, so `ProcessingEnds` is only as good as that
timer. Faults, crashes,
reindex requests and deletions are never required. In the client, requests are
answered and promises run; a lost answer is a `TokenFails` or `CallFails`, which
nothing requires either. `Answering`, `RateWindow` and `Quotas` state safety only: a handler
that is served goes on to its response step by step, and nothing in them waits
for anything else.

### What the violations say

- `PendingIsOwned`: a reindex accepted while RQ still counts the previous job as
  started (the run has committed `indexed`, RQ has not recorded its end) finds an
  active job and queues nothing. The document is good and its run is over, so no
  retry follows, and it stays pending (`queue.py:75`).
- `FailureHasCause` with S3: `materialize_storage_path` iterates over a context
  manager, so no uploaded document can be indexed from S3 (`storage.py:79`).
- `UnindexedKeepsFile`: when queueing an upload fails, the row stays, marked
  failed, and its object is deleted; reindexing it cannot succeed (`main.py:688`).
- `InvalidationIsComplete`: a meeting created, or an upload committed, during the
  deletion of its session survives as a meeting without owner or an object
  without row (`auth.py:57`).
- `LiveTokenKept`: the slower of two calls refused with one stale token removes
  the live token the faster one has stored (`api.ts:32`).

Seen while modelling, and promised by no document, so not a finding: an `error`
committed since a row was loaded survives the run that clears it
(`indexing.py:45`); two API processes may both replace a terminal job and run a
document twice (`queue.py:72`); a reaper commit may overwrite `pending` written
by a reindex since its select; two overlapping reindexes of one document in one API
process, without any failure, can leave a row processing without a stamp: the first
commits its reset over a run that is already at work (pending, but with the
run's stamp), the second has read that row and commits once a later run is at work,
when only the stamp differs from what it loaded (`main.py:807`). The reaper may select
such a row at any age, so that `StampsFitStatus`, `ReaperSelectsAbandoned` and
`FailureHasCause` are false with reindex requests, which is why their runs and
theorems leave them out; a failed row need not have an error text, nor an indexed row
be without one, once the reply of an enqueue is lost and the job runs beside
the handler that marks its document failed; a crash between the deletion of rows and of
objects leaves objects behind (`auth.py:61`); an API process that dies between the
commit and the queueing of a document leaves it pending, counting against the
capacity of its session, until somebody reindexes it (`main.py:560`); the same
happens when the commit's reply is lost, the refresh fails or the commit that marks
the row failed does, and for an upload the outer `except` then removes the object of
the committed, pending row, so that a reindex can only fail (`main.py:666-674`,
`685-691`); the select of a run stands outside its `try`, so attempts that raise or
die before `indexing.py:48` leave no trace in the row, and when the last of them has
gone the document is pending without a job; retries turn
failed documents into `processing` without asking for capacity, so only what
waits is bounded, not `Active`; a text document stores no `size_bytes`, so texts are
refused by the daily megabytes but never use them up (`rate_limit.py:110`,
`main.py:542`); a client that obeys `Retry-After` may be refused
once more, because it is rounded down and a hit exactly one minute old still
counts (`rate_limit.py:54-59`); a
request refused for its session has already used up a hit of its address; the
windows live in the memory of one process, so a restart forgets them and several
processes multiply them (`security-hardening.md:81`); a daily quota of runs counts
logged runs, so one that could not be logged is free; a chat that retrieves
before the first document is published and asks for readiness after it answers
that it does not know; and a verification that fails after its first answer does
not mention the retry.

## 4. Proofs

`IndexingProofs` proves, from the assumptions on the constants only:

- `TypeCorrect`: `TypeOK`, which is inductive as it stands;
- `LatestChunksAreKept`: `LatestChunksKept`, by `ChunkInv`. The property alone is
  not inductive: a cleanup deletes the ids its run captured before it published,
  so one has to know that in a run about to clean up the newest set of the
  document is never among them. A fresh set is fresh for captured lists as well
  (`FreshGens`), as uuids are, so a run that publishes meanwhile keeps this;
- `NeverUnsearchable`: `SearchableNeverLost` from the same invariant: a cleanup
  leaves the newest set, and no other step but a deletion removes one;
- `OneLoopOneRun`: `OneRunPerDoc`, when all requests are served by one event loop
  or there are no reindex requests (`RunsApart`, a hypothesis of the theorem; with
  neither it is false). `JobInv` ties the three places a job can be: a
  document in the list has status queued and no worker, a busy worker has status
  started and is alone, and while a request is replacing a job the job is not
  active and no other request is there. With several processes the last part
  rests on `ReqInv`: a document that was just created is in the hands of one
  request at most, and has no job before that request enqueues one;
- `KeepsItsPromise`: `Indexing` implements `SearchIndex`. It needs `ChunkInv` for
  `Retire`, and `SeenInv` (the row a working run holds says processing) for
  `Publish`: only then does the flush write `indexed`.

`GuestSessionsProofs` proves, for any numbers of sessions, meetings, documents,
requests and faults, with one invariant:

- `SessionTypes`: `TypeOK`;
- `OwnersStayLive`: `OwnersAreLive`, inductive with the types: the commit of a
  deletion takes the owner of every meeting that still names the session, and the
  foreign key refuses new ones;
- `UploadsStayOwned`: `UploadsStayInOwnMeetings`, because an upload holds a meeting
  whose creator is its own guest from the check on (`UploadsOwn`);
- `ReachableRowsHaveObjects`: `RowsKeepObjects`, by `PathsDoomed`: a path that a
  deletion has read belongs to a row whose owner is among the ids it is about to
  delete, and by the time it removes objects that owner is gone from the meeting.
  Only a fault before the upload was confirmed takes the object of a reachable row:
  the invariant says that such a row is not `queued`, and that a fault was used.

`GuestTokenProofs` proves, for any finite numbers of calls and tabs:

- `TokenTypes`: `TypeOK`;
- `OneRequestPerTab`: `SingleFlight`. A request under way is the
  `pendingTokenRequest` of the tab that made it (`Owned`), which stands for one;
- `NewestTokenStored`: `StoredIsNewest`, because in a single tab a request is
  made only when none is under way, hence is newer than all others (`Newest`);
- `RetryIsFresh`: `SecondTokenIsFresh`, because a token in a header has arrived
  (`Arrived`) and the one awaited has not;
- `NobodyLeftWaiting`: `WaitsAreShared`. A promise is settled for all its callers in
  the step that clears `pendingTokenRequest`, so whoever still waits does so
  for the one under way;
- `PostsSuffice`: a request for a session is always possible when a call is about
  to need one. Each stands for an occasion on which a call asked (`Asks`: its
  first attempt, its retry), the requests made are no more than these
  (`MadeForAsks`), and `Posts` has two numbers per call.

`AnsweringProofs` proves, for any finite numbers of documents and chunk sets, any
requests and any budgets, all seven properties of the run: `TypeCorrect`,
`GroundedAlways`, `ReadyNeverDenied`, `ResponsesAlwaysLogged`,
`FeedbackAlwaysOnChats` from one invariant, and `RetryAlwaysAccounted` and
`DeniedOnlyWhenEmpty` from what each step tells under it (`Told`). The invariant
(`Inv`) says of the documents that the set published last is visible
(`LatestVisible`: this is what makes retrieval monotone while documents are
reindexed), and of each request how far it has come (`Progress`: no references
before an answer, one invalid answer before the second), that content it began
with is still searchable and that it is not on the way to a denial (`Honest`), and
how its response, the log and the feedback agree (`Kept`).

`RateWindowProofs` proves `WindowTypes`, `WindowAlwaysBounds` and `WindowIsSlidingLog`
for any operations, addresses, sessions, limits and window. The bound speaks of hits that were let
through, which the deque forgets; `Bucket` therefore says that the deque holds at
least every hit that is not older than the window, so that a new hit, admitted
because the deque was not full, completes no window that already was.
The refinement needs both directions: the deque, once its old hits are dropped, is
exactly what the log has in the window, so that the length the code compares with the
limit is the number `SlidingLog` compares, for every key and at every call.

`QuotasProofs` proves `QuotaTypes`, `DailyQuotasHold`, `QueueNeverOverrun` and
`FewAreStranded` for any finite number of slots and rows, any sessions, quotas,
capacity, batch size and faults. A bound on what is counted is not inductive: a
request that has passed its check may add to it at any time. Such a request has a
claim (`Claiming`, `Queueing`), and what is counted plus what is claimed stays below
the limit plus the number of slots (`InMeters`, `InQueue`): a check that succeeds
leaves at most one claim per slot, a use turns a claim into a count, and midnight,
refusals, crashes and workers only take away. For `FewAreStranded` the same account
is kept of new documents without a job: a step that strands one uses a fault, a
crash of the API strands what its slots hold, and no more. `Sensible` says at which points of
which handler a request can be, hence that whoever adds had a claim.

`OwnedDataProofs` proves `DeletionLeavesNothing`: `OwnedDataDeleted`, for any
sessions, meetings, documents and requests. It takes an account of who will
still act on what. For a session that no request used while it was being deleted,
and while nothing has crashed or failed (`Clean`), `Accounted` says that its
live meetings still name it (`StillOwned`), that each of its objects has a live
row, an upload about to insert one, or a deletion about to remove it
(`ObjectsHeld`), and that a deletion of it has every meeting and every path it
will be answerable for in hand (`InHand`). Nothing can be added behind the back of
such a deletion, because whoever adds is using the session.

`IndexingOutcomesProofs` proves, for any number of documents, workers, requests and
faults, and under `RunsApart`:

- `StaleCopiesAreBounded`: `CopiesBounded`. A run that has captured the chunk sets
  of its document knows all of them, and after its commit all but the new one
  (`Sets`), so a cleanup that happens leaves a single set. One that is given up costs
  a fault (`Spared` counts these), and `CopyInv` adds the set that a run between its
  commit and its cleanup is about to remove;
- `StaleChunksGo`: `NoStaleChunks`, the case without a fault, from `CopyInv` and
  `ChunkInv`: the one set that is left is the newest.

And without reindex requests, hence for any number of API processes:

- `ReaperSparesWorking`: `ReaperSelectsAbandoned`, whatever crashes or fails. The row
  of a working run that still says processing has a stamp younger than the reaper's
  age (`StampInv`), because nothing but `Processing` makes a row processing
  and `Tick` stops short of the job's timeout. The theorem assumes the default
  age;
- `FailuresHaveCauses`: `FailureHasCause`, with the default age and local storage (with
  S3 it is false). `CauseOK` follows readable content from the request to the run: a
  row has a text or a file, a run that works on it too unless the row is gone, a run
  fails only on bad content or a row that is gone, and a good document in
  processing is held by a run whose stamp the reaper respects;
- `PendingIsNeverOrphaned`: `PendingIsOwned`, whatever crashes or fails and however
  many retries RQ is given. `PendOK` names what will move a pending document: the
  request that created it until it has queued the job, then the job, then the run
  that has taken it, then the retry. An attempt that ends with the row still pending
  was lost to a fault of its own, so `PendOK` keeps the sum: the attempts lost are no
  more than the faults used, and a document nothing moves has lost all
  `RetryMax + 1` of them. With reindex requests it is false (`IndexingLostReindex`);
- `StampsAlwaysFit`: `StampsFitStatus`, whatever crashes, fails, is reaped or is
  deleted in between. A commit writes only the attributes that differ from what was
  loaded, so `FitInv` says of each run how the row it holds may lag behind: as long as
  it may still write, a row that shows processing or indexed was loaded as such, and a
  text that was loaded is still there (`SeenFits`).

Only model-checked: the liveness properties (`ProcessingEnds`, `QueuedIsPickedUp`,
`CallsRecover`), which are out of the prover's reach. Every other property of a passing run is proved, under the assumptions
named above.

## 5. Not modelled, and what is left

Not modelled: the parsers of `processing/extract.py` (text handling without
state; whether they succeed is `BadDocs`), embeddings and ranking (an external
call, and a choice of chunks), `chunk_text` (a pure loop over one string whose two
sizes are constants), `validate_citations` (nothing but its own test calls it), the
middleware and health probes (no state of their own), the analytics endpoint
(counts only), schemas and migrations (data shapes). Of the web client, the
queries: they fetch server state again after every mutation and poll while a
document is pending or processing, and what is left to go wrong is the order in
which React Query tells components about it; the form with the optimistic
document (`DocumentUploadForm.tsx`) is mounted nowhere.

What would come next, in this order:

1. Several API processes, each with windows of its own, in `RateWindow`.
2. Time in runs with reindex and two documents, for what reindex requests do
   to stamps.
3. Deletions of sessions that lock their rows one by one, for deadlocks.
4. `chunk_text` over positions against a reference definition.
