------------------------------- MODULE Answering -------------------------------
(***************************************************************************)
(* Chat and verification over one meeting whose documents are being        *)
(* indexed, reindexed and deleted meanwhile: chat_with_meeting and         *)
(* verify_endpoint (main.py), verify_meeting (verifier/engine.py),         *)
(* answer_with_citations (ai/client.py), the run log and the feedback.     *)
(*                                                                         *)
(* The documents change as SearchIndex promises.  A handler holds no lock: *)
(* a step is one query, one model call or one commit, and anything may     *)
(* happen to the index between two of them.  What a model says is any      *)
(* answer its schema allows.                                               *)
(***************************************************************************)
EXTENDS Naturals, FiniteSets

CONSTANTS
  Docs, Gens, NoGen,  \* as in SearchIndex
  Reqs,               \* chat and verify requests, each made once
  TopK,               \* chunks retrieved for a chat answer
  MaxVerifyChunks,    \* MAX_VERIFY_CHUNKS
  MaxCitations,       \* max_items of _build_fallback_citations
  Alien,              \* an id a model returns that names no chunk it was shown
  MaxFaults           \* bound: queries, model calls and commits that fail

ASSUME AlienAssumption == Alien \notin Docs \X Gens
ASSUME GenAssumption == NoGen \notin Gens
ASSUME TopAssumption == TopK \in Nat \ {0} /\ MaxVerifyChunks \in Nat \ {0}
ASSUME SizeAssumption == {MaxCitations, MaxFaults} \subseteq Nat
ASSUME FiniteAssumption == IsFiniteSet(Docs) /\ IsFiniteSet(Gens)

VARIABLES
  status, visible, latest,  \* the documents of the meeting, as in SearchIndex
  meeting,   \* the meetings row exists
  req,       \* req[r]: what the handler of request r holds, then its response
  logged,    \* the requests with a row in runs; the row repeats req[r]
  feedback,  \* feedback[r]: feedback on run r, in progress or stored
  faults     \* how many more faults may happen

index == <<status, visible, latest>>
vars == <<status, visible, latest, meeting, req, logged, feedback, faults>>

Index == INSTANCE SearchIndex

-----------------------------------------------------------------------------
(* A chunk set stands for its chunks: what retrieval can find.             *)
Chunks == Docs \X Gens
Searchable == {c \in Chunks : c[2] \in visible[c[1]]}

(* The k best-ranked chunks: any k of them, or all when there are fewer.   *)
Best(k) == {s \in SUBSET Searchable :
              Cardinality(s) = k \/ (Cardinality(s) < k /\ s = Searchable)}

Refs == Chunks \cup {Alien}
Invalid(refs, allowed) == Cardinality(refs \ allowed)

Pc == {"new", "retrieve", "busy", "has", "answer", "load", "first", "second",
       "log", "done", "error"}
Said == {"none", "indexing", "not indexed", "no content", "unknown", "answer",
         "verified", "failsafe"}

(* seen: the chunks shown to the model.  items, issues: what the citations *)
(* or action items, and the issues, refer to.  note: the issue that        *)
(* references were removed.  ready: content was searchable at the start    *)
(* (history), calls: answers a verification got (history).                 *)
Request == [op : {"none", "chat", "verify"}, pc : Pc, said : Said,
            ready : BOOLEAN, busy : BOOLEAN, aborted : BOOLEAN,
            seen : SUBSET Chunks, items : SUBSET Refs, issues : SUBSET Refs,
            note : BOOLEAN, calls : 0..2, retry : BOOLEAN,
            invalid : Nat, runId : BOOLEAN]

Blank == [op |-> "none", pc |-> "new", said |-> "none", ready |-> FALSE,
          busy |-> FALSE, aborted |-> FALSE, seen |-> {}, items |-> {},
          issues |-> {}, note |-> FALSE, calls |-> 0, retry |-> FALSE,
          invalid |-> 0, runId |-> FALSE]

Init ==
  /\ Index!Init
  /\ meeting = TRUE
  /\ req = [r \in Reqs |-> Blank]
  /\ logged = {}
  /\ feedback = [r \in Reqs |-> "none"]
  /\ faults = MaxFaults

SetReq(r, q) == req' = [req EXCEPT ![r] = q]
Fault == faults > 0 /\ faults' = faults - 1
Here(r, pc) == req[r].pc = pc /\ UNCHANGED <<index, meeting, feedback>>

-----------------------------------------------------------------------------
(* The handlers up to the first answer *)

(* _get_owned_meeting_or_404; a chat goes on to retrieve, a verification   *)
(* asks first whether there is anything to verify.                         *)
Begin(r, op) ==
  /\ Here(r, "new") /\ meeting
  /\ SetReq(r, [Blank EXCEPT !.op = op, !.ready = Searchable # {},
                             !.pc = IF op = "chat" THEN "retrieve" ELSE "busy"])
  /\ UNCHANGED <<logged, faults>>

(* retrieve_similar_chunks has no threshold: empty only if nothing is.     *)
Retrieve(r) ==
  /\ Here(r, "retrieve")
  /\ \E s \in Best(TopK) :
       SetReq(r, [req[r] EXCEPT !.seen = s,
                                !.pc = IF s = {} THEN "busy" ELSE "answer"])
  /\ UNCHANGED <<logged, faults>>

Busy == \E d \in Docs : status[d] \in {"pending", "processing"}

(* _meeting_indexing_in_progress                                           *)
ReadBusy(r) ==
  /\ Here(r, "busy")
  /\ SetReq(r, [req[r] EXCEPT !.busy = Busy, !.pc = "has"])
  /\ UNCHANGED <<logged, faults>>

(* Mutant: what is being indexed decides alone.                            *)
ReplyIfBusy(q, has) ==
  IF q.busy THEN "indexing"
  ELSE IF q.op = "chat" THEN "unknown" ELSE IF has THEN "none" ELSE "not indexed"
(* The branches on the two readiness queries; "none": verify_meeting.      *)
Reply(q, has) ==
  IF q.busy /\ ~has THEN "indexing"
  ELSE IF q.op = "chat" THEN "unknown" ELSE IF has THEN "none" ELSE "not indexed"

Answered(q, said) == [q EXCEPT !.said = said, !.pc = IF said = "none" THEN "load" ELSE "log"]

(* Mutant: the second query is made before the first.                      *)
ReadHasFirst(r) ==
  /\ Here(r, "has")
  /\ SetReq(r, Answered(req[r], Reply(req[r], req[r].ready)))
  /\ UNCHANGED <<logged, faults>>

(* _meeting_has_indexed_chunks, and the branches.                          *)
ReadHas(r) ==
  /\ Here(r, "has")
  /\ SetReq(r, Answered(req[r], Reply(req[r], Searchable # {})))
  /\ UNCHANGED <<logged, faults>>

(* answer_with_citations: no citation for an unknown answer, otherwise     *)
(* quotes from the best-ranked chunks shown (those with a quote in them).  *)
ChatModel(r) ==
  /\ Here(r, "answer")
  /\ \/ SetReq(r, [req[r] EXCEPT !.pc = "log", !.said = "unknown"])
     \/ \E cited \in SUBSET req[r].seen :
          /\ Cardinality(cited) <= MaxCitations
          /\ SetReq(r, [req[r] EXCEPT !.pc = "log", !.said = "answer", !.items = cited])
  /\ UNCHANGED <<logged, faults>>

-----------------------------------------------------------------------------
(* verify_meeting *)

(* load_meeting_chunks                                                     *)
Load(r) ==
  /\ Here(r, "load")
  /\ \E s \in Best(MaxVerifyChunks) :
       SetReq(r, IF s = {} THEN [req[r] EXCEPT !.pc = "log", !.said = "no content"]
                 ELSE [req[r] EXCEPT !.pc = "first", !.seen = s])
  /\ UNCHANGED <<logged, faults>>

(* _apply_rule_based_checks: an issue the rules add copies the evidence of *)
(* its action item.                                                        *)
WithRules(items, issues) == {issues} \cup {issues \cup e : e \in SUBSET items}

(* The result after an answer with this evidence, n invalid references in  *)
(* all the answers so far.                                                 *)
Verified(q, items, issues, n, note) ==
  [q EXCEPT !.pc = "log", !.said = "verified", !.items = items, !.issues = issues,
            !.calls = @ + 1, !.retry = (@ \/ q.pc = "second"), !.invalid = n,
            !.note = note]

VerifyFirst(r) ==
  LET q == req[r] IN
  /\ Here(r, "first")
  /\ \E items, issues \in SUBSET (q.seen \cup {Alien}) :
       LET n == Invalid(items, q.seen) + Invalid(issues, q.seen) IN
       \/ /\ n = 0
          /\ \E all \in WithRules(items, issues) :
               SetReq(r, Verified(q, items, all, 0, FALSE))
       \/ /\ n > 0
          /\ SetReq(r, [q EXCEPT !.pc = "second", !.calls = 1, !.retry = TRUE,
                                 !.invalid = n])
  /\ UNCHANGED <<logged, faults>>

(* Mutant: the answer to the retry is trusted.                             *)
StripNothing(refs, allowed) == refs
(* _strip_invalid_evidence_ids                                             *)
Strip(refs, allowed) == refs \cap allowed

(* Mutant: the issue is added whenever there was a retry.                  *)
RemovedIfRetried(refs, kept) == TRUE
Removed(refs, kept) == refs # kept

(* Mutant: the model is asked until its answer is clean.                   *)
VerifyUntilClean(r) ==
  LET q == req[r] IN
  /\ Here(r, "second")
  /\ \E items, issues \in SUBSET (q.seen \cup {Alien}) :
       LET n == Invalid(items, q.seen) + Invalid(issues, q.seen) IN
       SetReq(r, IF n = 0 THEN Verified(q, items, issues, q.invalid, FALSE)
                 ELSE [q EXCEPT !.calls = @ + 1, !.invalid = @ + n])
  /\ UNCHANGED <<logged, faults>>

(* The retry: the answer is used whatever it is, without the references    *)
(* that name nothing the model was shown, and the removal is declared.     *)
VerifySecond(r) ==
  LET q == req[r] IN
  /\ Here(r, "second")
  /\ \E items, issues \in SUBSET (q.seen \cup {Alien}) :
       LET n == Invalid(items, q.seen) + Invalid(issues, q.seen)
           kept == Strip(items, q.seen)
           keptIssues == Strip(issues, q.seen)
           note == Removed(<<items, issues>>, <<kept, keptIssues>>) IN
       \E all \in WithRules(kept, keptIssues) :
         SetReq(r, Verified(q, kept, all, q.invalid + n, note))
  /\ UNCHANGED <<logged, faults>>

(* A query or a model call raises: a 500, except inside verify_meeting,    *)
(* whose caller answers that it is unable to verify, without evidence and  *)
(* without the retry it may have made.  A failed query leaves the          *)
(* transaction aborted.                                                    *)
Raise(r) ==
  LET q == req[r] IN
  /\ UNCHANGED <<index, meeting, feedback, logged>>
  /\ Fault
  /\ \/ /\ q.pc \in {"retrieve", "busy", "has", "answer"}
        /\ SetReq(r, [q EXCEPT !.pc = "error"])
     \/ /\ q.pc \in {"load", "first", "second"}
        /\ SetReq(r, [Blank EXCEPT !.op = q.op, !.ready = q.ready, !.pc = "log",
                                   !.said = "failsafe", !.calls = q.calls,
                                   !.aborted = (q.pc = "load")])
-----------------------------------------------------------------------------
(* What is kept: log_chat_run, log_verify_run, feedback *)

(* Mutant: the response carries an id before the row is written.           *)
DoneWithId(q, withId) == [q EXCEPT !.pc = "done", !.runId = (q.op = "chat")]
Done(q, withId) == [q EXCEPT !.pc = "done", !.runId = (withId /\ q.op = "chat")]

(* Best effort: the response goes out whether or not the row could be      *)
(* written.  A row needs its meeting; a commit whose reply, or whose       *)
(* refresh, fails has been written although the response has no run_id.    *)
Log(r) ==
  LET q == req[r] IN
  /\ Here(r, "log")
  /\ \/ /\ meeting /\ ~q.aborted
        /\ logged' = logged \cup {r} /\ SetReq(r, Done(q, TRUE))
        /\ UNCHANGED faults
     \/ /\ ~meeting \/ q.aborted
        /\ SetReq(r, Done(q, FALSE))
        /\ UNCHANGED <<logged, faults>>
     \/ /\ meeting /\ ~q.aborted /\ Fault
        /\ logged' \in {logged, logged \cup {r}} /\ SetReq(r, Done(q, FALSE))

(* Mutant: any run of the meeting will do.                                 *)
FeedbackFindAny(r) ==
  /\ feedback[r] = "none" /\ r \in logged
  /\ feedback' = [feedback EXCEPT ![r] = "found"]
  /\ UNCHANGED <<index, meeting, req, logged, faults>>

(* chat_history: the chat runs, whose rows the client can refer to.        *)
History == {r \in logged : req[r].op = "chat"}

(* submit_chat_feedback: a chat run of this meeting.                       *)
FeedbackFind(r) ==
  /\ feedback[r] = "none" /\ r \in History
  /\ feedback' = [feedback EXCEPT ![r] = "found"]
  /\ UNCHANGED <<index, meeting, req, logged, faults>>

(* The insert refers to the run and the meeting: it fails without them.    *)
FeedbackStore(r) ==
  /\ feedback[r] = "found"
  /\ feedback' = [feedback EXCEPT ![r] = IF r \in logged THEN "stored" ELSE "none"]
  /\ UNCHANGED <<index, meeting, req, logged, faults>>

-----------------------------------------------------------------------------
(* The documents, meanwhile *)

(* A chunk id is a uuid: no response or request refers to it beforehand.   *)
Referenced == UNION {req[r].seen \cup req[r].items \cup req[r].issues : r \in Reqs}

IndexChanges ==
  /\ meeting
  /\ \/ \E d \in Docs : Index!Create(d) \/ Index!Retire(d)
     \/ \E d \in Docs, g \in Gens : <<d, g>> \notin Referenced /\ Index!Publish(d, g)
     \/ Index!Report
  /\ UNCHANGED <<meeting, req, logged, feedback, faults>>

(* The session is deleted and its meeting with it: documents, chunks, runs *)
(* and feedback cascade.                                                   *)
DeleteMeeting ==
  /\ meeting
  /\ meeting' = FALSE /\ logged' = {}
  /\ feedback' = [r \in Reqs |-> IF feedback[r] = "stored" THEN "none" ELSE feedback[r]]
  /\ status' = [d \in Docs |-> IF status[d] = "unborn" THEN "unborn" ELSE "gone"]
  /\ visible' = [d \in Docs |-> {}]
  /\ latest' = [d \in Docs |-> NoGen]
  /\ UNCHANGED <<req, faults>>

Handle(r) ==
  \/ \E op \in {"chat", "verify"} : Begin(r, op)
  \/ Retrieve(r) \/ ReadBusy(r) \/ ReadHas(r) \/ ChatModel(r)
  \/ Load(r) \/ VerifyFirst(r) \/ VerifySecond(r) \/ Raise(r) \/ Log(r)
  \/ FeedbackFind(r) \/ FeedbackStore(r)

Next == (\E r \in Reqs : Handle(r)) \/ IndexChanges \/ DeleteMeeting

Spec == Init /\ [][Next]_vars

-----------------------------------------------------------------------------
(* Properties *)

(* Types; a verification asks the model twice at most.                     *)
TypeOK ==
  /\ status \in [Docs -> Index!Absent \cup Index!Reported \cup {"indexed"}]
  /\ visible \in [Docs -> SUBSET Gens]
  /\ latest \in [Docs -> Gens \cup {NoGen}]
  /\ meeting \in BOOLEAN
  /\ req \in [Reqs -> Request]
  /\ logged \in SUBSET Reqs
  /\ feedback \in [Reqs -> {"none", "found", "stored"}]
  /\ faults \in 0..MaxFaults

(* Every citation, every evidence reference of an action item and every    *)
(* reference of an issue, those the rules add included, names a chunk of   *)
(* this meeting that the model was shown, whatever the model answered.     *)
Grounded == \A r \in Reqs : req[r].items \cup req[r].issues \subseteq req[r].seen

(* The account of a verification is true: it reports a retry exactly when  *)
(* the model was asked twice, which it is exactly when the first answer    *)
(* had invalid references, and declares that references were removed       *)
(* exactly when the second answer had some.                                *)
RetryAccounted ==
  [][\A r \in Reqs : LET q == req[r]  a == req'[r] IN
       q.said # "verified" /\ a.said = "verified" =>
         /\ a.retry <=> a.calls = 2
         /\ a.retry <=> a.invalid > 0
         /\ a.note <=> a.invalid > q.invalid]_vars

(* "Still indexing", "not indexed", "no content", or not knowing for want  *)
(* of any context.                                                         *)
Denies(q) == q.said \in {"indexing", "not indexed", "no content"}
             \/ (q.said = "unknown" /\ q.seen = {})

(* A request that began when something was searchable never says that      *)
(* there is nothing, however often documents are reindexed, cleaned up or  *)
(* reported as pending while it runs, unless the meeting is deleted.       *)
ReadyNotDenied == \A r \in Reqs : req[r].ready /\ Denies(req[r]) => ~meeting

(* Nothing is searchable at the moment a response says that nothing is     *)
(* indexed, or nothing yet: a document indexed between the two queries is  *)
(* seen by the second.                                                     *)
DeniedWhenEmpty ==
  [][\A r \in Reqs : req[r].said = "none" /\ req'[r].said \in {"indexing", "not indexed"}
       => Searchable = {}]_vars

(* As long as the meeting exists, an id in a response names a run, every   *)
(* response is logged unless something failed, and a 500 never is.         *)
ResponsesLogged ==
  \A r \in Reqs :
    /\ r \in logged => req[r].pc = "done" /\ meeting
    /\ req[r].runId /\ meeting => r \in logged
    /\ req[r].pc = "done" /\ meeting /\ faults = MaxFaults => r \in logged

(* Feedback is stored for chat runs that exist, whatever is deleted        *)
(* between the look-up of the run and the insert.                          *)
FeedbackOnChats ==
  \A r \in Reqs : feedback[r] = "stored" => r \in logged /\ req[r].op = "chat"
=============================================================================
