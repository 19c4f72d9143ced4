---------------------------- MODULE GuestSessions ----------------------------
(***************************************************************************)
(* Guest sessions and what they own: authentication and touch, creation of *)
(* meetings and uploads, DELETE /sessions/current, POST /sessions/reset,   *)
(* and the removal of expired sessions by POST /sessions/guest and by the  *)
(* reaper job.                                                             *)
(*                                                                         *)
(* A step is one SQL statement or commit, or one storage call.  Statements *)
(* run under READ COMMITTED: what a transaction has deleted stays visible  *)
(* to others until it commits, but a row that refers to it has to wait.    *)
(* The delete of the session row and the commit after it are one step:     *)
(* whatever needs that row waits for the commit.                           *)
(***************************************************************************)
EXTENDS Naturals

CONSTANTS
  Sessions,   \* guest sessions (rows and tokens, never reused)
  Meetings,   \* meeting ids
  Docs,       \* ids of uploaded documents
  Procs,      \* API requests and reaper jobs in progress
  MaxFaults,  \* bound: crashes and errors in one behaviour
  None

ASSUME NoneAssumption == None \notin Sessions \cup Meetings \cup Docs
ASSUME FaultsAssumption == MaxFaults \in Nat

VARIABLES
  sess,    \* sess[s]: the guest_sessions table
  owner,   \* owner[m]: Meeting.session_id
  meeting, \* meeting[m]: the meetings table
  doc,     \* doc[d]: the documents table (queued: its upload succeeded)
  file,    \* file[d]: the uploaded object is in storage
  proc,    \* proc[p]: the request or job in slot p
  by,      \* by[m], of[d]: the session that created m, that uploaded d, and
  of,      \*   the meeting in[d] of d (in and by outlive the rows)
  in,
  raced,   \* raced[s]: s was in use while it was being deleted (history)
  faults   \* how many more crashes and errors may happen

data == <<sess, owner, meeting, doc, file, by, of, in>>
vars == <<sess, owner, meeting, doc, file, proc, by, of, in, raced, faults>>

-----------------------------------------------------------------------------
(* Idle time as a class: touched within _SESSION_TOUCH_INTERVAL, less than  *)
(* the idle TTL ago, longer ago.  old: past SESSION_MAX_AGE_HOURS.          *)
Life == [state : {"none", "live", "gone"}, idle : 0..2, old : BOOLEAN]
Unborn == [state |-> "none", idle |-> 0, old |-> FALSE]
Newborn == [state |-> "live", idle |-> 0, old |-> FALSE]

Live(s) == sess[s].state = "live"
Expired(s) == Live(s) /\ (sess[s].idle = 2 \/ sess[s].old)

Pc == {"idle", "touch", "authed", "save", "insert", "enqueue", "select",
       "paths", "meetings", "sessions", "objects", "new"}
Op == {"none", "meeting", "upload", "delete", "reset", "guest", "reaper"}
Proc == [pc : Pc, op : Op, sess : Sessions \cup {None}, ids : SUBSET Sessions,
         mine : SUBSET Meetings, paths : SUBSET Docs,
         meeting : Meetings \cup {None}, doc : Docs \cup {None}]
Idle == [pc |-> "idle", op |-> "none", sess |-> None, ids |-> {},
         mine |-> {}, paths |-> {}, meeting |-> None, doc |-> None]
Start(pc, op, s) == [Idle EXCEPT !.pc = pc, !.op = op, !.sess = s]

Becomes(p, x) == proc' = [proc EXCEPT ![p] = x]
GoTo(p, pc) == Becomes(p, [proc[p] EXCEPT !.pc = pc])
Stop(p) == Becomes(p, Idle)

(* The meeting is deleted by a transaction that has not committed.         *)
Locked(m, p) == \E q \in Procs \ {p} : m \in proc[q].mine

OwnedBy(ids) == {m \in Meetings : meeting[m] = "live" /\ owner[m] \in ids}
DocsIn(ms) == {d \in Docs : doc[d] \in {"live", "queued", "failed"} /\ in[d] \in ms}

Fault == faults > 0 /\ faults' = faults - 1

-----------------------------------------------------------------------------
Init ==
  /\ sess = [s \in Sessions |-> Unborn]
  /\ owner = [m \in Meetings |-> None] /\ meeting = [m \in Meetings |-> "none"]
  /\ doc = [d \in Docs |-> "none"] /\ file = [d \in Docs |-> FALSE]
  /\ proc = [p \in Procs |-> Idle]
  /\ by = [m \in Meetings |-> None]
  /\ of = [d \in Docs |-> None] /\ in = [d \in Docs |-> None]
  /\ raced = [s \in Sessions |-> FALSE]
  /\ faults = MaxFaults

(* get_guest_session_optional: an expired session is invalidated and the   *)
(* request refused (a reset goes on without a session); one not touched    *)
(* for a while is touched.  A token whose session is gone gets a 401.      *)
Authenticate(p, s, op) ==
  /\ proc[p].pc = "idle" /\ Live(s)
  /\ \/ /\ Expired(s)
        /\ Becomes(p, [Start("paths", IF op = "reset" THEN op ELSE "delete", None)
                         EXCEPT !.ids = {s}])
     \/ ~Expired(s) /\ sess[s].idle > 0 /\ Becomes(p, Start("touch", op, s))
     \/ ~Expired(s) /\ sess[s].idle = 0 /\ Becomes(p, Start("authed", op, s))
  /\ UNCHANGED <<data, faults>>

(* The UPDATE of last_seen_at fails when the row has been deleted.         *)
Touch(p) ==
  LET s == proc[p].sess IN
  /\ proc[p].pc = "touch"
  /\ IF Live(s)
     THEN GoTo(p, "authed") /\ sess' = [sess EXCEPT ![s].idle = 0]
     ELSE Stop(p) /\ UNCHANGED sess
  /\ UNCHANGED <<owner, meeting, doc, file, by, of, in, faults>>

(* Mutant: no foreign key from meetings to guest_sessions.                 *)
CreateMeetingUnchecked(p, m) ==
  LET s == proc[p].sess IN
  /\ proc[p].pc = "authed" /\ proc[p].op = "meeting" /\ meeting[m] = "none"
  /\ meeting' = [meeting EXCEPT ![m] = "live"]
  /\ owner' = [owner EXCEPT ![m] = s] /\ by' = [by EXCEPT ![m] = s]
  /\ Stop(p)
  /\ UNCHANGED <<sess, doc, file, of, in, faults>>

(* create_meeting: the foreign key refuses a session that is gone.         *)
CreateMeeting(p, m) ==
  LET s == proc[p].sess IN
  /\ proc[p].pc = "authed" /\ proc[p].op = "meeting" /\ meeting[m] = "none"
  /\ IF Live(s)
     THEN /\ meeting' = [meeting EXCEPT ![m] = "live"]
          /\ owner' = [owner EXCEPT ![m] = s] /\ by' = [by EXCEPT ![m] = s]
     ELSE UNCHANGED <<meeting, owner, by>>
  /\ Stop(p)
  /\ UNCHANGED <<sess, doc, file, of, in, faults>>

(* Mutant: the query does not ask for the session.                         *)
AnyMeeting(p, m) == meeting[m] = "live"
(* _get_owned_meeting_or_404                                               *)
OwnedMeeting(p, m) == meeting[m] = "live" /\ owner[m] = proc[p].sess

(* upload_document, up to the storage call: 404 or the meeting.            *)
FindMeeting(p, m) ==
  /\ proc[p].pc = "authed" /\ proc[p].op = "upload"
  /\ IF OwnedMeeting(p, m)
     THEN Becomes(p, [proc[p] EXCEPT !.pc = "save", !.meeting = m]) ELSE Stop(p)
  /\ UNCHANGED <<data, faults>>

SaveObject(p, d) ==
  /\ proc[p].pc = "save" /\ of[d] = None
  /\ file' = [file EXCEPT ![d] = TRUE]
  /\ of' = [of EXCEPT ![d] = proc[p].sess]
  /\ in' = [in EXCEPT ![d] = proc[p].meeting]
  /\ Becomes(p, [proc[p] EXCEPT !.pc = "insert", !.doc = d])
  /\ UNCHANGED <<sess, owner, meeting, doc, by, faults>>

(* The insert waits for a delete of the meeting that has not committed; if *)
(* the meeting is gone, or on an error, the object is removed again, also  *)
(* when the commit took effect and only its reply was lost.                *)
InsertDocument(p) ==
  LET d == proc[p].doc  m == proc[p].meeting IN
  /\ proc[p].pc = "insert" /\ ~Locked(m, p)
  /\ \/ /\ meeting[m] = "live"
        /\ doc' = [doc EXCEPT ![d] = "live"]
        /\ GoTo(p, "enqueue")
        /\ UNCHANGED <<file, faults>>
     \/ /\ \/ UNCHANGED doc /\ IF meeting[m] = "live" THEN Fault ELSE UNCHANGED faults
           \/ meeting[m] = "live" /\ doc' = [doc EXCEPT ![d] = "live"] /\ Fault
        /\ file' = [file EXCEPT ![d] = FALSE]
        /\ Stop(p)
  /\ UNCHANGED <<sess, owner, meeting, by, of, in>>

(* The job is queued.  Or the object goes: because the refresh finds the   *)
(* row gone, or fails; because queueing fails and the row is marked; or    *)
(* because the marking fails too, and the row stays as it was.             *)
EnqueueDocument(p) ==
  LET d == proc[p].doc IN
  /\ proc[p].pc = "enqueue"
  /\ \/ /\ doc[d] = "live"
        /\ doc' = [doc EXCEPT ![d] = "queued"]
        /\ UNCHANGED <<file, faults>>
     \/ /\ doc[d] = "live" /\ Fault
        /\ \E row \in {"live", "failed"} : doc' = [doc EXCEPT ![d] = row]
        /\ file' = [file EXCEPT ![d] = FALSE]
     \/ /\ doc[d] = "gone"
        /\ file' = [file EXCEPT ![d] = FALSE]
        /\ UNCHANGED <<doc, faults>>
  /\ Stop(p)
  /\ UNCHANGED <<sess, owner, meeting, by, of, in>>

-----------------------------------------------------------------------------
(* invalidate_guest_session and cleanup_expired_guest_sessions *)

(* delete_current_session, reset_guest_session: invalidate the caller's.   *)
InvalidateOwn(p) ==
  /\ proc[p].pc = "authed" /\ proc[p].op \in {"delete", "reset"}
  /\ Becomes(p, [proc[p] EXCEPT !.pc = "paths", !.sess = None,
                                !.ids = {proc[p].sess}])
  /\ UNCHANGED <<data, faults>>

(* POST /sessions/guest (or a reset without a session) and the reaper job. *)
BeginCleanup(p) ==
  /\ proc[p].pc = "idle"
  /\ \E op \in {"guest", "reaper"} : Becomes(p, Start("select", op, None))
  /\ UNCHANGED <<data, faults>>

(* What follows the clean-up: a new session, or nothing.                   *)
AfterCleanup(p) == IF proc[p].op = "guest" THEN Start("new", "guest", None) ELSE Idle

(* Mutant: no early return when no session has expired.                    *)
SelectEvenNone(p) ==
  /\ proc[p].pc = "select"
  /\ Becomes(p, [proc[p] EXCEPT !.pc = "paths", !.ids = {s \in Sessions : Expired(s)}])
  /\ UNCHANGED <<data, faults>>

(* The ids of the sessions past one of the two limits.                     *)
SelectExpired(p) ==
  LET ids == {s \in Sessions : Expired(s)} IN
  /\ proc[p].pc = "select"
  /\ Becomes(p, IF ids = {} THEN AfterCleanup(p)
                            ELSE [proc[p] EXCEPT !.pc = "paths", !.ids = ids])
  /\ UNCHANGED <<data, faults>>

(* Mutant: the objects are deleted before the rows are.                    *)
RemoveFirst(p) ==
  LET ds == DocsIn(OwnedBy(proc[p].ids)) IN
  /\ proc[p].pc = "paths"
  /\ Becomes(p, [proc[p] EXCEPT !.pc = "meetings"])
  /\ file' = [d \in Docs |-> file[d] /\ d \notin ds]
  /\ UNCHANGED <<sess, owner, meeting, doc, by, of, in, faults>>

(* select(Document.storage_path)                                           *)
ReadPaths(p) ==
  /\ proc[p].pc = "paths"
  /\ Becomes(p, [proc[p] EXCEPT !.pc = "meetings",
                                !.paths = DocsIn(OwnedBy(proc[p].ids))])
  /\ UNCHANGED <<data, faults>>

(* Mutant: the session row is deleted before its meetings.                 *)
SessionsFirst(p) == proc[p].pc = "meetings" /\ GoTo(p, "sessions") /\ UNCHANGED <<data, faults>>

(* delete(Meeting), waiting for another delete of the same rows.           *)
DeleteMeetings(p) ==
  LET ms == OwnedBy(proc[p].ids) IN
  /\ proc[p].pc = "meetings"
  /\ \A m \in ms : ~Locked(m, p)
  /\ Becomes(p, [proc[p] EXCEPT !.pc = "sessions", !.mine = ms])
  /\ UNCHANGED <<data, faults>>

(* delete(GuestSession) and the commit: what the transaction deleted and   *)
(* its documents go; a meeting it did not see loses its owner (SET NULL).  *)
DeleteSessions(p) ==
  LET ids == proc[p].ids  mine == proc[p].mine  late == OwnedBy(ids) \ mine IN
  /\ proc[p].pc = "sessions"
  /\ \A m \in late : ~Locked(m, p)
  /\ sess' = [s \in Sessions |->
                IF s \in ids THEN [Unborn EXCEPT !.state = "gone"] ELSE sess[s]]
  /\ meeting' = [m \in Meetings |-> IF m \in mine THEN "gone" ELSE meeting[m]]
  /\ owner' = [m \in Meetings |-> IF m \in mine \cup late THEN None ELSE owner[m]]
  /\ doc' = [d \in Docs |-> IF d \in DocsIn(mine) THEN "gone" ELSE doc[d]]
  /\ Becomes(p, [proc[p] EXCEPT !.pc = "objects", !.mine = {}])
  /\ UNCHANGED <<file, by, of, in, faults>>

(* delete_upload_object for each path; an error is logged and passed over. *)
RemoveObject(p) ==
  /\ proc[p].pc = "objects"
  /\ \E d \in proc[p].paths :
       /\ Becomes(p, [proc[p] EXCEPT !.paths = @ \ {d}])
       /\ \/ file' = [file EXCEPT ![d] = FALSE] /\ UNCHANGED faults
          \/ Fault /\ UNCHANGED file
  /\ UNCHANGED <<sess, owner, meeting, doc, by, of, in>>

(* A reset goes on with the clean-up of expired sessions.                  *)
Finish(p) ==
  /\ proc[p].pc = "objects" /\ proc[p].paths = {}
  /\ Becomes(p, IF proc[p].op = "reset" THEN Start("select", "guest", None)
                                        ELSE AfterCleanup(p))
  /\ UNCHANGED <<data, faults>>

(* create_guest_session                                                    *)
NewSession(p, s) ==
  /\ proc[p].pc = "new" /\ sess[s].state = "none"
  /\ sess' = [sess EXCEPT ![s] = Newborn]
  /\ Stop(p)
  /\ UNCHANGED <<owner, meeting, doc, file, by, of, in, faults>>

-----------------------------------------------------------------------------
(* A request or job dies where it stands; its transaction is rolled back.  *)
Crash(p) ==
  /\ proc[p].pc # "idle" /\ Fault
  /\ Stop(p) /\ UNCHANGED data

Age(s) ==
  /\ Live(s)
  /\ \/ sess[s].idle < 2 /\ sess' = [sess EXCEPT ![s].idle = @ + 1]
     \/ ~sess[s].old /\ sess' = [sess EXCEPT ![s].old = TRUE]
  /\ UNCHANGED <<owner, meeting, doc, file, proc, by, of, in, faults>>

Continue(p) ==
  \/ Touch(p) \/ InsertDocument(p) \/ EnqueueDocument(p)
  \/ \E m \in Meetings : CreateMeeting(p, m) \/ FindMeeting(p, m)
  \/ \E d \in Docs : SaveObject(p, d)
  \/ \E s \in Sessions : NewSession(p, s)
  \/ InvalidateOwn(p) \/ SelectExpired(p) \/ ReadPaths(p) \/ DeleteMeetings(p)
  \/ DeleteSessions(p) \/ RemoveObject(p) \/ Finish(p)

Step ==
  \/ \E p \in Procs, s \in Sessions, op \in {"meeting", "upload", "delete", "reset"} :
       Authenticate(p, s, op)
  \/ \E p \in Procs : BeginCleanup(p) \/ Continue(p) \/ Crash(p)
  \/ \E s \in Sessions : Age(s)

(* History: a request of s that adds data overlaps a deletion of s.        *)
Using(s) == \E p \in Procs : proc[p].sess = s /\ proc[p].op \in {"meeting", "upload"}
Deleting(s) == \E p \in Procs : /\ s \in proc[p].ids
                                /\ proc[p].pc \in {"paths", "meetings", "sessions"}
Overlap(s) == Using(s) /\ Deleting(s)

Next == Step /\ raced' = [s \in Sessions |-> raced[s] \/ Overlap(s)']

Spec == Init /\ [][Next]_vars

-----------------------------------------------------------------------------
(* Properties *)

(* Every variable keeps its type; a deletion always has sessions to delete *)
(* and an idle slot remembers nothing.                                     *)
ProcOK ==
  /\ proc \in [Procs -> Proc]
  /\ \A p \in Procs :
       /\ proc[p].pc = "idle" => proc[p] = Idle
       /\ proc[p].pc \in {"paths", "meetings", "sessions"} => proc[p].ids # {}
TablesOK ==
  /\ sess \in [Sessions -> Life] /\ owner \in [Meetings -> Sessions \cup {None}]
  /\ meeting \in [Meetings -> {"none", "live", "gone"}]
  /\ doc \in [Docs -> {"none", "live", "queued", "failed", "gone"}]
  /\ file \in [Docs -> BOOLEAN]
  /\ by \in [Meetings -> Sessions \cup {None}]
  /\ of \in [Docs -> Sessions \cup {None}] /\ in \in [Docs -> Meetings \cup {None}]
TypeOK ==
  /\ TablesOK /\ ProcOK
  /\ raced \in [Sessions -> BOOLEAN] /\ faults \in 0..MaxFaults

(* No meeting ever belongs to a session that is gone, however the deletion *)
(* interleaves with requests that authenticated before it.                 *)
OwnersAreLive ==
  \A m \in Meetings :
    meeting[m] = "live" /\ owner[m] # None => Live(owner[m]) /\ owner[m] = by[m]

(* A guest only ever uploads into a meeting the same guest created.        *)
UploadsStayInOwnMeetings == \A d \in Docs : of[d] # None => by[in[d]] = of[d]

(* A document its guest can still reach never refers to an object that has *)
(* been removed: deletions remove objects only after the rows that own     *)
(* them are gone, whatever crashes or rolls back in between, and an upload *)
(* takes its object back only if a fault broke it off before it succeeded. *)
(* (The row of one that could not be queued is marked as failed.)          *)
Reachable(d) == doc[d] \in {"live", "queued"} /\ owner[in[d]] # None
RowsKeepObjects ==
  \A d \in Docs :
    Reachable(d) /\ ~file[d] => doc[d] = "live" /\ faults < MaxFaults

(* A deleted session whose requests were not interrupted by the deletion   *)
(* leaves nothing behind, unless something crashed: its meetings are gone, *)
(* and its objects are gone or about to be removed.                        *)
AboutToGo(d) == \E p \in Procs : d \in proc[p].paths
LeavesNothing(s) ==
  /\ \A m \in Meetings : by[m] = s => meeting[m] # "live"
  /\ \A d \in Docs : of[d] = s /\ file[d] => AboutToGo(d)
OwnedDataDeleted ==
  \A s \in Sessions :
    sess[s].state = "gone" /\ ~raced[s] /\ faults = MaxFaults => LeavesNothing(s)

(* Invalidating a session deletes its owned data, also when a request of   *)
(* the session was still in progress: once every request is over, nothing  *)
(* is left.                                                                *)
InvalidationIsComplete ==
  \A s \in Sessions :
    /\ sess[s].state = "gone" /\ faults = MaxFaults
    /\ \A p \in Procs : proc[p].pc = "idle"
    => LeavesNothing(s)
=============================================================================
