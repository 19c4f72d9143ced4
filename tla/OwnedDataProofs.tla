---------------------------- MODULE OwnedDataProofs ----------------------------
(***************************************************************************)
(* Deleting a session leaves nothing of it behind, for any number of       *)
(* sessions, meetings, uploads and requests: the argument needs an account *)
(* of who will still act on each row and each object.                      *)
(***************************************************************************)
EXTENDS GuestSessionsProofs

-----------------------------------------------------------------------------
(* What each request remembers: only a deletion that has read its paths    *)
(* has any, only an upload saves and inserts, and it does so for its own   *)
(* session; the meetings a transaction has deleted were created by the     *)
(* sessions it is deleting.                                                *)
Slot(x) ==
  /\ x.pc \notin {"meetings", "sessions", "objects"} => x.paths = {}
  /\ x.pc \in {"save", "insert", "enqueue"} => x.op = "upload"
  /\ x.pc \in {"insert", "enqueue"} => of[x.doc] = x.sess
  /\ x.pc = "sessions" =>
       \A m \in x.mine : by[m] \in x.ids /\ meeting[m] # "none"

(* A document that has a row has a meeting.                                *)
HasRow(d) == doc[d] \in {"live", "queued", "failed"}
RowsInMeetings == \A d \in Docs : HasRow(d) => meeting[in[d]] = "live"

SlotInv == (\A p \in Procs : Slot(proc[p])) /\ RowsInMeetings

(* A session that was never in use while it was being deleted, while       *)
(* nothing has crashed or failed.                                          *)
Clean(s) == ~raced[s] /\ faults = MaxFaults

(* The account of a clean session: its live meetings still belong to it    *)
(* and each of its objects has a live row, an upload about to insert one,  *)
(* or a deletion about to remove it; a deletion of the session has in hand *)
(* every meeting and every path it will be answerable for.                 *)
Waiting(d) == \E p \in Procs : proc[p].pc = "insert" /\ proc[p].doc = d
InHand(s, x) ==
  s \in x.ids =>
    /\ x.pc = "sessions" =>
         \A m \in Meetings : meeting[m] = "live" /\ owner[m] = s => m \in x.mine
    /\ x.pc \in {"meetings", "sessions"} =>
         \A d \in Docs : of[d] = s /\ HasRow(d) => d \in x.paths
Unused(s) == ~Overlap(s) /\ (sess[s].state = "gone" => ~Using(s))
StillOwned(s) == \A m \in Meetings : by[m] = s /\ meeting[m] = "live" => owner[m] = s
ObjectsHeld(s) ==
  \A d \in Docs :
    of[d] = s /\ file[d] => doc[d] \in {"live", "queued"} \/ Waiting(d) \/ AboutToGo(d)
Accounted(s) == /\ Unused(s) /\ StillOwned(s) /\ ObjectsHeld(s)
                /\ \A p \in Procs : InHand(s, proc[p])

CleanInv == \A s \in Sessions : Clean(s) => Accounted(s)

-----------------------------------------------------------------------------
(* What requests remember *)

LEMMA MoveSlot ==
  ASSUME Inv, SlotInv, NEW p \in Procs, NEW x \in Proc, Becomes(p, x), Slot(x),
         UNCHANGED <<meeting, doc, by, of, in>>
  PROVE  SlotInv'
<1>1. /\ proc' \in [Procs -> Proc] /\ proc'[p] = x
      /\ \A q \in Procs \ {p} : proc'[q] = proc[q]
  BY DEF Becomes, Inv, ProcOK
<1>2. \A q \in Procs : Slot(proc[q])'
  BY <1>1 DEF SlotInv, Slot
<1>3. RowsInMeetings'
  BY DEF SlotInv, RowsInMeetings, HasRow
<1> QED BY <1>2, <1>3 DEF SlotInv

LEMMA IdleSlot ==
  /\ Idle \in Proc /\ Slot(Idle)
  /\ \A pc \in Pc \ {"save", "insert", "enqueue"}, op \in Op, s \in Sessions \cup {None} :
       Start(pc, op, s) \in Proc /\ Slot(Start(pc, op, s))
<1>1. Slot(Idle)
  BY ProcTypes DEF Slot, Idle
<1>2. \A pc \in Pc \ {"save", "insert", "enqueue"}, op \in Op, s \in Sessions \cup {None} :
        Slot(Start(pc, op, s)) \/ pc \in {"sessions"}
  BY ProcTypes DEF Slot
<1>3. \A op \in Op, s \in Sessions \cup {None} : Start("sessions", op, s).mine = {}
  BY DEF Start, Idle
<1>4. \A op \in Op, s \in Sessions \cup {None} : Slot(Start("sessions", op, s))
  BY <1>3, ProcTypes DEF Slot, Pc
<1> QED BY <1>1, <1>2, <1>4, ProcTypes

LEMMA StopSlot ==
  ASSUME Inv, SlotInv, NEW p \in Procs, Stop(p), UNCHANGED <<meeting, doc, by, of, in>>
  PROVE  SlotInv'
BY IdleSlot, MoveSlot DEF Stop

LEMMA StartSlot ==
  ASSUME Inv, SlotInv, NEW p \in Procs, NEW pc \in {"touch", "authed", "select", "new"},
         NEW op \in Op, NEW s \in Sessions \cup {None},
         Becomes(p, Start(pc, op, s)), UNCHANGED <<meeting, doc, by, of, in>>
  PROVE  SlotInv'
<1>1. pc \in Pc \ {"save", "insert", "enqueue"}
  BY DEF Pc
<1> QED BY <1>1, IdleSlot, MoveSlot

LEMMA RequestSlot ==
  ASSUME Inv, SlotInv, NEW p \in Procs,
         \/ \E s \in Sessions, op \in {"meeting", "upload", "delete", "reset"} :
              Authenticate(p, s, op)
         \/ Touch(p) \/ \E m \in Meetings : FindMeeting(p, m)
         \/ InvalidateOwn(p) \/ BeginCleanup(p) \/ SelectExpired(p)
  PROVE  SlotInv'
<1>0. proc[p] \in Proc /\ Slot(proc[p])
  BY DEF Inv, ProcOK, SlotInv
<1>1. ASSUME NEW s \in Sessions, NEW op \in {"meeting", "upload", "delete", "reset"},
             Authenticate(p, s, op)
      PROVE  SlotInv'
  <2>0. op \in Op /\ UNCHANGED data
    BY <1>1 DEF Op, Authenticate
  <2>1. CASE Becomes(p, Start("touch", op, s)) \/ Becomes(p, Start("authed", op, s))
    BY <2>0, <2>1, StartSlot DEF data
  <2>2. CASE Becomes(p, [Start("paths", IF op = "reset" THEN op ELSE "delete", None)
                           EXCEPT !.ids = {s}])
    <3> DEFINE y == Start("paths", IF op = "reset" THEN op ELSE "delete", None)
               x == [y EXCEPT !.ids = {s}]
    <3>1. y \in Proc /\ y.pc = "paths" /\ y.paths = {}
      BY <2>0, ProcTypes DEF Pc, Op
    <3>2. x \in Proc /\ Slot(x)
      BY <3>1 DEF Proc, Slot
    <3>3. Becomes(p, x)
      BY <2>2
    <3> HIDE DEF y, x
    <3> QED BY <2>0, <3>2, <3>3, MoveSlot DEF data
  <2> QED BY <1>1, <2>1, <2>2 DEF Authenticate
<1>2. CASE Touch(p)
  <2>1. CASE GoTo(p, "authed")
    <3>1. [proc[p] EXCEPT !.pc = "authed"] \in Proc /\ Slot([proc[p] EXCEPT !.pc = "authed"])
      BY <1>0, <1>2 DEF Touch, Proc, Pc, Slot
    <3> QED BY <1>2, <2>1, <3>1, MoveSlot DEF GoTo, Touch
  <2>2. CASE Stop(p)
    BY <1>2, <2>2, StopSlot DEF Touch
  <2> QED BY <1>2, <2>1, <2>2 DEF Touch
<1>3. ASSUME NEW m \in Meetings, FindMeeting(p, m) PROVE SlotInv'
  <2>1. CASE OwnedMeeting(p, m)
    <3> DEFINE x == [proc[p] EXCEPT !.pc = "save", !.meeting = m]
    <3>1. x \in Proc /\ Slot(x)
      BY <1>0, <1>3 DEF FindMeeting, Proc, Pc, Slot
    <3> QED BY <1>3, <2>1, <3>1, MoveSlot DEF FindMeeting, data
  <2>2. CASE ~OwnedMeeting(p, m)
    BY <1>3, <2>2, StopSlot DEF FindMeeting, data
  <2> QED BY <2>1, <2>2
<1>4. CASE InvalidateOwn(p)
  <2> DEFINE x == [proc[p] EXCEPT !.pc = "paths", !.sess = None, !.ids = {proc[p].sess}]
  <2>1. proc[p].sess \in Sessions
    BY <1>4 DEF InvalidateOwn, Inv, UploadsOwn, ProcOK, Proc
  <2>2. x \in Proc /\ Slot(x)
    BY <1>0, <1>4, <2>1 DEF InvalidateOwn, Proc, Pc, Slot
  <2> QED BY <1>4, <2>2, MoveSlot DEF InvalidateOwn, data
<1>5. CASE BeginCleanup(p)
  BY <1>5, StartSlot DEF BeginCleanup, Op, data
<1>6. CASE SelectExpired(p)
  <2> DEFINE ids == {s \in Sessions : Expired(s)}
             x == [proc[p] EXCEPT !.pc = "paths", !.ids = ids]
  <2>1. CASE Becomes(p, x)
    <3>1. x \in Proc /\ Slot(x)
      BY <1>0, <1>6 DEF SelectExpired, Proc, Pc, Slot
    <3> QED BY <1>6, <2>1, <3>1, MoveSlot DEF SelectExpired, data
  <2>2. CASE Becomes(p, AfterCleanup(p))
    <3>1. Becomes(p, Start("new", "guest", None)) \/ Stop(p)
      BY <2>2 DEF AfterCleanup, Stop
    <3> QED BY <1>6, <3>1, StartSlot, StopSlot DEF SelectExpired, data, Op
  <2> QED BY <1>6, <2>1, <2>2 DEF SelectExpired
<1> QED BY <1>1, <1>2, <1>3, <1>4, <1>5, <1>6

LEMMA UploadSlot ==
  ASSUME Inv, SlotInv, NEW p \in Procs,
         \/ \E m \in Meetings : CreateMeeting(p, m)
         \/ \E d \in Docs : SaveObject(p, d)
         \/ InsertDocument(p) \/ EnqueueDocument(p)
         \/ \E s \in Sessions : NewSession(p, s)
  PROVE  SlotInv'
<1> USE DEF Inv
<1>0. proc \in [Procs -> Proc] /\ proc[p] \in Proc /\ Slot(proc[p])
  BY DEF ProcOK, SlotInv
<1>1. ASSUME NEW m \in Meetings, CreateMeeting(p, m) PROVE SlotInv'
  <2>1. /\ proc' = [proc EXCEPT ![p] = Idle] /\ UNCHANGED <<doc, of, in>>
        /\ \A n \in Meetings : n # m => by'[n] = by[n] /\ meeting'[n] = meeting[n]
        /\ meeting[m] = "none" /\ meeting'[m] \in {"none", "live"}
    BY <1>1 DEF CreateMeeting, Stop, Becomes, TablesOK
  <2>2. \A q \in Procs : Slot(proc[q])'
    <3>1. Slot(Idle)'
      BY ProcTypes DEF Slot, Idle
    <3>2. \A q \in Procs \ {p} : proc[q].pc = "sessions" => m \notin proc[q].mine
      BY <2>1 DEF SlotInv, Slot
    <3> QED BY <2>1, <1>0, <3>1, <3>2 DEF SlotInv, Slot, Proc
  <2>3. RowsInMeetings'
    BY <2>1 DEF RowsInMeetings, HasRow, SlotInv, UploadsKnown, Known
  <2> QED BY <2>2, <2>3 DEF SlotInv
<1>2. ASSUME NEW d \in Docs, SaveObject(p, d) PROVE SlotInv'
  <2> DEFINE x == [proc[p] EXCEPT !.pc = "insert", !.doc = d]
  <2>1. /\ proc' = [proc EXCEPT ![p] = x] /\ UNCHANGED <<meeting, doc, by>>
        /\ \A e \in Docs : e # d => of'[e] = of[e] /\ in'[e] = in[e]
        /\ of[d] = None /\ of'[d] = proc[p].sess
    BY <1>2 DEF SaveObject, Becomes, TablesOK
  <2>2. /\ proc'[p].pc = "insert" /\ proc'[p].doc = d /\ proc'[p].op = "upload"
        /\ proc'[p].paths = {} /\ of'[proc'[p].doc] = proc'[p].sess
    BY <1>0, <1>2, <2>1 DEF SaveObject, Slot, Proc
  <2>3. \A q \in Procs \ {p} : proc[q].pc \in {"insert", "enqueue"} => proc[q].doc \in Docs \ {d}
    BY <2>1 DEF UploadsOwn, Uploading, Known
  <2>4. \A q \in Procs : Slot(proc[q])'
    <3> HIDE DEF x
    <3>1. Slot(proc[p])'
      BY <2>2 DEF Slot
    <3>2. \A q \in Procs \ {p} : Slot(proc[q])'
      BY <1>0, <2>1, <2>3 DEF SlotInv, Slot
    <3> QED BY <3>1, <3>2
  <2>5. RowsInMeetings'
    BY <2>1 DEF RowsInMeetings, HasRow, SlotInv, UploadsKnown
  <2> QED BY <2>4, <2>5 DEF SlotInv
<1>3. CASE InsertDocument(p) \/ EnqueueDocument(p)
  <2> DEFINE x == [proc[p] EXCEPT !.pc = "enqueue"]
  <2>1. x \in Proc /\ (proc[p].pc = "insert" => Slot(x)) /\ Slot(Idle)
    BY <1>0, IdleSlot DEF Slot, Proc, Pc
  <2>2. /\ UNCHANGED <<meeting, by, of, in>>
        /\ proc' = [proc EXCEPT ![p] = Idle]
             \/ (proc[p].pc = "insert" /\ proc' = [proc EXCEPT ![p] = x])
    BY <1>3 DEF InsertDocument, EnqueueDocument, Stop, GoTo, Becomes
  <2>3. \A q \in Procs : Slot(proc[q])'
    <3> HIDE DEF x
    <3> QED BY <1>0, <2>1, <2>2 DEF SlotInv, Slot
  <2>4. proc[p].doc \in Docs /\ in[proc[p].doc] = proc[p].meeting
    BY <1>3 DEF InsertDocument, EnqueueDocument, UploadsOwn, Uploading
  <2>5. \A d \in Docs : HasRow(d)' => HasRow(d) \/ meeting[in[d]] = "live"
    BY <1>3, <2>4 DEF InsertDocument, EnqueueDocument, HasRow, TablesOK
  <2>6. RowsInMeetings'
    BY <2>2, <2>5 DEF RowsInMeetings, SlotInv
  <2> QED BY <2>3, <2>6 DEF SlotInv
<1>4. CASE \E s \in Sessions : NewSession(p, s)
  BY <1>4, StopSlot DEF NewSession
<1> QED BY <1>1, <1>2, <1>3, <1>4

LEMMA DeletionSlot ==
  ASSUME Inv, SlotInv, NEW p \in Procs,
         \/ ReadPaths(p) \/ DeleteMeetings(p) \/ DeleteSessions(p)
         \/ RemoveObject(p) \/ Finish(p) \/ Crash(p)
  PROVE  SlotInv'
<1>0. /\ proc \in [Procs -> Proc] /\ proc[p] \in Proc /\ Slot(proc[p])
      /\ OwnedBy(proc[p].ids) \in SUBSET Meetings
  BY DEF Inv, ProcOK, SlotInv, OwnedBy
<1>1. CASE ReadPaths(p)
  <2> DEFINE ds == DocsIn(OwnedBy(proc[p].ids))
             x == [proc[p] EXCEPT !.pc = "meetings", !.paths = ds]
  <2>1. ds \in SUBSET Docs
    BY DEF DocsIn
  <2>2. x \in Proc /\ x.pc = "meetings"
    BY <1>0, <2>1 DEF Proc, Pc
  <2>3. Becomes(p, x) /\ UNCHANGED data
    BY <1>1 DEF ReadPaths
  <2> HIDE DEF ds, x
  <2>4. Slot(x)
    BY <2>2 DEF Slot
  <2> QED BY <2>2, <2>3, <2>4, MoveSlot DEF data
<1>2. CASE DeleteMeetings(p)
  <2> DEFINE ms == OwnedBy(proc[p].ids)
             x == [proc[p] EXCEPT !.pc = "sessions", !.mine = ms]
  <2>1. \A m \in ms : by[m] \in proc[p].ids /\ meeting[m] # "none"
    <3> SUFFICES ASSUME NEW m \in Meetings, meeting[m] = "live", owner[m] \in proc[p].ids
                 PROVE  by[m] \in proc[p].ids
      BY DEF OwnedBy
    <3>1. owner[m] # None
      BY <1>0, NoneAssumption DEF Proc
    <3> QED BY <3>1 DEF Inv, OwnersAreLive
  <2>2. /\ x \in Proc /\ x.pc = "sessions" /\ x.mine = ms /\ x.ids = proc[p].ids
    BY <1>0 DEF Proc, Pc
  <2>3. Becomes(p, x) /\ UNCHANGED data
    BY <1>2 DEF DeleteMeetings
  <2> HIDE DEF ms, x
  <2>4. Slot(x)
    BY <2>1, <2>2 DEF Slot
  <2> QED BY <2>2, <2>3, <2>4, MoveSlot DEF data
<1>3. CASE DeleteSessions(p)
  <2> DEFINE x == [proc[p] EXCEPT !.pc = "objects", !.mine = {}]
  <2>1. x \in Proc /\ x.pc = "objects"
    BY <1>0 DEF Proc, Pc
  <2>2. proc' = [proc EXCEPT ![p] = x] /\ UNCHANGED <<by, of, in>>
    BY <1>3 DEF DeleteSessions, Becomes
  <2>3. \A m \in Meetings : /\ meeting[m] # "none" => meeting'[m] # "none"
                            /\ m \notin proc[p].mine => meeting'[m] = meeting[m]
    BY <1>3 DEF DeleteSessions
  <2> HIDE DEF x
  <2>4. \A q \in Procs : Slot(proc[q])'
    <3>1. \A q \in Procs : proc[q].mine \subseteq Meetings
      BY <1>0 DEF Proc
    <3> QED BY <1>0, <2>1, <2>2, <2>3, <3>1 DEF SlotInv, Slot
  <2>5. \A d \in Docs : HasRow(d)' => HasRow(d) /\ in[d] \notin proc[p].mine
    BY <1>3 DEF DeleteSessions, HasRow, DocsIn
  <2>6. \A d \in Docs : HasRow(d) => in[d] \in Meetings
    BY DEF Inv, UploadsKnown, Known, HasRow
  <2>7. RowsInMeetings'
    BY <2>2, <2>3, <2>5, <2>6 DEF RowsInMeetings, SlotInv
  <2> QED BY <2>4, <2>7 DEF SlotInv
<1>4. CASE RemoveObject(p)
  <2>1. PICK d \in proc[p].paths : Becomes(p, [proc[p] EXCEPT !.paths = @ \ {d}])
    BY <1>4 DEF RemoveObject
  <2>2. proc[p].pc = "objects" /\ UNCHANGED <<meeting, doc, by, of, in>>
    BY <1>4 DEF RemoveObject
  <2> DEFINE x == [proc[p] EXCEPT !.paths = @ \ {d}]
  <2>3. x \in Proc /\ Slot(x)
    BY <1>0, <2>2 DEF Proc, Slot
  <2> QED BY <2>1, <2>2, <2>3, MoveSlot
<1>5. CASE Finish(p)
  <2>1. \/ Becomes(p, Start("select", "guest", None))
        \/ Becomes(p, Start("new", "guest", None)) \/ Stop(p)
    BY <1>5 DEF Finish, AfterCleanup, Stop
  <2> QED BY <1>5, <2>1, StartSlot, StopSlot DEF Finish, data, Op
<1>6. CASE Crash(p)
  BY <1>6, StopSlot DEF Crash, data
<1> QED BY <1>1, <1>2, <1>3, <1>4, <1>5, <1>6

LEMMA SlotStep == Inv /\ SlotInv /\ Step => SlotInv'
<1> SUFFICES ASSUME Inv, SlotInv, Step PROVE SlotInv'
  OBVIOUS
<1>1. ASSUME NEW s \in Sessions, Age(s) PROVE SlotInv'
  BY <1>1 DEF Age, SlotInv, Slot, RowsInMeetings, HasRow
<1> QED BY <1>1, RequestSlot, UploadSlot, DeletionSlot DEF Step, Continue

-----------------------------------------------------------------------------
(* What a step does to the account of one clean session *)

(* The session is clean before any step after which it is clean, and it is *)
(* not in use and being deleted at once then.                              *)
Quiet(s) == faults' = faults /\ ~Overlap(s)'

LEMMA CleanBack ==
  ASSUME Inv, Next, raced \in [Sessions -> BOOLEAN], NEW s \in Sessions, Clean(s)'
  PROVE  Clean(s) /\ Quiet(s)
<1>1. Step /\ ~(raced[s] \/ Overlap(s)')
  BY DEF Next, Clean
<1>2. faults' = faults \/ Fault
  <2>1. ASSUME NEW p \in Procs, Continue(p) PROVE faults' = faults \/ Fault
    BY <2>1 DEF Continue, Touch, InsertDocument, EnqueueDocument, CreateMeeting,
       FindMeeting, SaveObject, NewSession, InvalidateOwn, SelectExpired,
       ReadPaths, DeleteMeetings, DeleteSessions, RemoveObject, Finish
  <2> QED BY <1>1, <2>1 DEF Step, Authenticate, BeginCleanup, Crash, Age
<1>3. faults \in 0..MaxFaults /\ MaxFaults \in Nat /\ faults' = MaxFaults
  BY FaultsAssumption DEF Inv, Clean
<1>4. faults' = faults
  BY <1>2, <1>3 DEF Fault
<1> QED BY <1>1, <1>3, <1>4 DEF Clean, Quiet

(* A step that moves one request on, keeps its paths and deletes nothing.  *)
LEMMA MoveAccount ==
  ASSUME Inv, NEW s \in Sessions, Accounted(s), Quiet(s),
         NEW p \in Procs, NEW x, Becomes(p, x), proc[p].pc # "insert",
         UNCHANGED <<owner, meeting, doc, file, by, of, in>>,
         sess'[s].state = "gone" => sess[s].state = "gone",
         x.sess = s /\ x.op \in {"meeting", "upload"} =>
           Using(s) \/ sess[s].state # "gone",
         proc[p].paths \subseteq x.paths, InHand(s, x)
  PROVE  Accounted(s)'
<1>1. proc'[p] = x /\ \A q \in Procs \ {p} : proc'[q] = proc[q]
  BY DEF Inv, ProcOK, Becomes
<1>2. Unused(s)'
  BY <1>1 DEF Accounted, Unused, Quiet, Using
<1>3. StillOwned(s)'
  BY DEF Accounted, StillOwned
<1>4. \A d \in Docs : /\ Waiting(d) => Waiting(d)'
                      /\ AboutToGo(d) => AboutToGo(d)'
  BY <1>1 DEF Waiting, AboutToGo
<1>5. ObjectsHeld(s)'
  BY <1>4 DEF Accounted, ObjectsHeld
<1>6. \A q \in Procs : InHand(s, proc[q])'
  BY <1>1 DEF Accounted, InHand, HasRow
<1> QED BY <1>2, <1>3, <1>5, <1>6 DEF Accounted

(* Such a step towards a place where a request has nothing in hand.        *)
LEMMA StartAccount ==
  ASSUME Inv, SlotInv, NEW s \in Sessions, Accounted(s), Quiet(s),
         NEW p \in Procs, NEW x, Becomes(p, x), proc[p].pc # "insert",
         UNCHANGED <<owner, meeting, doc, file, by, of, in>>,
         sess'[s].state = "gone" => sess[s].state = "gone",
         x.sess = s /\ x.op \in {"meeting", "upload"} =>
           Using(s) \/ sess[s].state # "gone",
         proc[p].paths = {}, x.pc \notin {"meetings", "sessions"}
  PROVE  Accounted(s)'
<1>1. InHand(s, x)
  BY DEF InHand
<1> QED BY <1>1, MoveAccount

LEMMA RequestAccount ==
  ASSUME Inv, SlotInv, NEW s \in Sessions, Accounted(s), Quiet(s), NEW p \in Procs,
         \/ \E t \in Sessions, op \in {"meeting", "upload", "delete", "reset"} :
              Authenticate(p, t, op)
         \/ Touch(p) \/ \E m \in Meetings : FindMeeting(p, m)
         \/ InvalidateOwn(p) \/ BeginCleanup(p) \/ SelectExpired(p) \/ Finish(p)
         \/ \E t \in Sessions : NewSession(p, t)
  PROVE  Accounted(s)'
<1>0. /\ proc[p] \in Proc /\ Slot(proc[p]) /\ s # None
      /\ sess \in [Sessions -> Life]
  BY NoneAssumption DEF Inv, ProcOK, SlotInv, TablesOK
<1>1. ASSUME NEW t \in Sessions, NEW op \in {"meeting", "upload", "delete", "reset"},
             Authenticate(p, t, op)
      PROVE  Accounted(s)'
  <2>0. /\ op \in Op /\ UNCHANGED <<sess, owner, meeting, doc, file, by, of, in>>
        /\ proc[p].pc = "idle" /\ sess[t].state = "live"
    BY <1>1 DEF Op, Authenticate, data, Live
  <2>1. PICK x : /\ Becomes(p, x) /\ x.pc \in {"touch", "authed", "paths"}
                 /\ x.sess \in {t, None}
    <3>1. CASE Becomes(p, Start("touch", op, t)) \/ Becomes(p, Start("authed", op, t))
      BY <2>0, <3>1, ProcTypes DEF Pc
    <3>2. CASE Becomes(p, [Start("paths", IF op = "reset" THEN op ELSE "delete", None)
                             EXCEPT !.ids = {t}])
      <4> DEFINE y == Start("paths", IF op = "reset" THEN op ELSE "delete", None)
      <4>1. y \in Proc /\ y.pc = "paths" /\ y.sess = None
        BY <2>0, ProcTypes DEF Pc, Op
      <4>2. [y EXCEPT !.ids = {t}].pc = "paths" /\ [y EXCEPT !.ids = {t}].sess = None
        BY <4>1 DEF Proc
      <4> QED BY <3>2, <4>2
    <3> QED BY <1>1, <3>1, <3>2 DEF Authenticate
  <2>2. proc[p].paths = {} /\ proc[p].pc # "insert"
    BY <1>0, <2>0 DEF Slot
  <2> QED BY <1>0, <2>0, <2>1, <2>2, StartAccount
<1>2. CASE Touch(p)
  <2>1. PICK x : /\ Becomes(p, x) /\ x.pc \in {"authed", "idle"}
                 /\ (x.sess = proc[p].sess /\ x.op = proc[p].op) \/ x = Idle
    BY <1>0, <1>2, ProcTypes DEF Touch, GoTo, Stop, Proc
  <2>2. /\ proc[p].paths = {} /\ proc[p].pc # "insert"
        /\ UNCHANGED <<owner, meeting, doc, file, by, of, in>>
    BY <1>0, <1>2 DEF Touch, Slot
  <2>3. sess'[s].state = sess[s].state
    BY <1>0, <1>2 DEF Touch, Life
  <2>4. Idle.sess = None
    BY DEF Idle
  <2>5. x.sess = s /\ x.op \in {"meeting", "upload"} => Using(s)
    BY <1>0, <2>1, <2>4 DEF Using
  <2> QED BY <2>1, <2>2, <2>3, <2>5, StartAccount
<1>3. ASSUME \/ \E m \in Meetings : FindMeeting(p, m)
             \/ InvalidateOwn(p) \/ BeginCleanup(p) \/ SelectExpired(p) \/ Finish(p)
      PROVE  Accounted(s)'
  <2>1. /\ UNCHANGED <<sess, owner, meeting, doc, file, by, of, in>>
        /\ proc[p].paths = {} /\ proc[p].pc # "insert"
    BY <1>0, <1>3 DEF FindMeeting, InvalidateOwn, BeginCleanup, SelectExpired,
       Finish, data, Slot
  <2>2. Idle.sess = None /\ Idle.pc = "idle"
    BY DEF Idle
  <2>3. \A pc \in Pc, op \in Op : Start(pc, op, None).sess = None /\ Start(pc, op, None).pc = pc
    BY ProcTypes
  <2>4. PICK x : /\ Becomes(p, x) /\ x.pc \notin {"meetings", "sessions"}
                 /\ x.sess = None \/ (x.sess = proc[p].sess /\ x.op = proc[p].op)
    <3>1. CASE \E m \in Meetings : FindMeeting(p, m)
      <4>1. PICK m \in Meetings : FindMeeting(p, m)
        BY <3>1
      <4> DEFINE y == [proc[p] EXCEPT !.pc = "save", !.meeting = m]
      <4>2. y.pc = "save" /\ y.sess = proc[p].sess /\ y.op = proc[p].op
        BY <1>0 DEF Proc
      <4>3. Becomes(p, y) \/ Becomes(p, Idle)
        BY <4>1 DEF FindMeeting, Stop
      <4> QED BY <2>2, <4>2, <4>3
    <3>2. CASE InvalidateOwn(p)
      <4> DEFINE y == [proc[p] EXCEPT !.pc = "paths", !.sess = None,
                                      !.ids = {proc[p].sess}]
      <4>1. y.pc = "paths" /\ y.sess = None
        BY <1>0 DEF Proc
      <4> QED BY <3>2, <4>1 DEF InvalidateOwn
    <3>3. CASE BeginCleanup(p)
      BY <3>3, <2>3 DEF BeginCleanup, Pc, Op
    <3>4. CASE SelectExpired(p)
      <4> DEFINE y == [proc[p] EXCEPT !.pc = "paths", !.ids = {t \in Sessions : Expired(t)}]
      <4>1. y.pc = "paths" /\ y.sess = proc[p].sess /\ y.op = proc[p].op
        BY <1>0 DEF Proc
      <4>2. Becomes(p, y) \/ Becomes(p, Idle) \/ Becomes(p, Start("new", "guest", None))
        BY <3>4 DEF SelectExpired, AfterCleanup
      <4> HIDE DEF y
      <4> QED BY <4>1, <4>2, <2>2, <2>3 DEF Pc, Op
    <3>5. CASE Finish(p)
      BY <3>5, <2>2, <2>3 DEF Finish, AfterCleanup, Pc, Op
    <3> QED BY <1>3, <3>1, <3>2, <3>3, <3>4, <3>5
  <2>5. x.sess = s /\ x.op \in {"meeting", "upload"} => Using(s)
    BY <1>0, <2>4 DEF Using
  <2> QED BY <2>1, <2>4, <2>5, StartAccount
<1>4. ASSUME NEW t \in Sessions, NewSession(p, t) PROVE Accounted(s)'
  <2>1. /\ Becomes(p, Idle) /\ Idle.pc = "idle" /\ Idle.sess = None
        /\ proc[p].paths = {} /\ proc[p].pc # "insert"
        /\ UNCHANGED <<owner, meeting, doc, file, by, of, in>>
    BY <1>0, <1>4 DEF NewSession, Stop, Slot, Idle
  <2>2. sess'[s].state = "gone" => sess[s].state = "gone"
    BY <1>0, <1>4 DEF NewSession, Newborn
  <2> QED BY <1>0, <2>1, <2>2, StartAccount
<1> QED BY <1>1, <1>2, <1>3, <1>4

(* Every meeting and every path a deletion reads of a clean session.       *)
LEMMA SelectAccount ==
  ASSUME Inv, SlotInv, NEW s \in Sessions, Accounted(s), Quiet(s), NEW p \in Procs,
         ReadPaths(p) \/ DeleteMeetings(p)
  PROVE  Accounted(s)'
<1>0. /\ proc[p] \in Proc /\ Slot(proc[p]) /\ s # None
      /\ proc[p].pc \in {"paths", "meetings"}
      /\ UNCHANGED <<sess, owner, meeting, doc, file, by, of, in>>
  BY NoneAssumption DEF Inv, ProcOK, SlotInv, ReadPaths, DeleteMeetings, data
<1>1. CASE ReadPaths(p)
  <2> DEFINE ds == DocsIn(OwnedBy(proc[p].ids))
             x == [proc[p] EXCEPT !.pc = "meetings", !.paths = ds]
  <2>1. /\ x.pc = "meetings" /\ x.paths = ds /\ x.ids = proc[p].ids
        /\ x.sess = proc[p].sess /\ x.op = proc[p].op
    BY <1>0 DEF Proc
  <2>2. ASSUME s \in proc[p].ids, NEW d \in Docs, of[d] = s, HasRow(d) PROVE d \in ds
    <3>1. in[d] \in Meetings /\ by[in[d]] = s /\ meeting[in[d]] = "live"
      BY <1>0, <2>2 DEF Inv, UploadsKnown, Known, SlotInv, RowsInMeetings
    <3>2. owner[in[d]] = s
      BY <3>1 DEF Accounted, StillOwned
    <3> QED BY <2>2, <3>1, <3>2 DEF DocsIn, OwnedBy, HasRow
  <2>3. proc[p].paths = {} /\ Becomes(p, x) /\ proc[p].pc = "paths"
    BY <1>0, <1>1 DEF ReadPaths, Slot
  <2> HIDE DEF ds, x
  <2>4. InHand(s, x)
    BY <2>1, <2>2 DEF InHand
  <2>5. x.sess = s /\ x.op \in {"meeting", "upload"} => Using(s)
    BY <2>1 DEF Using
  <2> QED BY <1>0, <2>3, <2>4, <2>5, MoveAccount
<1>2. CASE DeleteMeetings(p)
  <2> DEFINE ms == OwnedBy(proc[p].ids)
             x == [proc[p] EXCEPT !.pc = "sessions", !.mine = ms]
  <2>1. /\ x.pc = "sessions" /\ x.paths = proc[p].paths /\ x.ids = proc[p].ids
        /\ x.sess = proc[p].sess /\ x.op = proc[p].op /\ x.mine = ms
    BY <1>0 DEF Proc
  <2>2. s \in proc[p].ids =>
          \A m \in Meetings : meeting[m] = "live" /\ owner[m] = s => m \in ms
    BY DEF OwnedBy
  <2>3. Becomes(p, x) /\ proc[p].pc = "meetings"
    BY <1>2 DEF DeleteMeetings
  <2> HIDE DEF ms, x
  <2>4. InHand(s, proc[p])
    BY DEF Accounted
  <2>5. InHand(s, x)
    BY <2>1, <2>2, <2>3, <2>4 DEF InHand
  <2>6. x.sess = s /\ x.op \in {"meeting", "upload"} => Using(s)
    BY <2>1 DEF Using
  <2> QED BY <1>0, <2>1, <2>3, <2>5, <2>6, MoveAccount
<1> QED BY <1>1, <1>2

(* A meeting is created for a session in use, which is not being deleted.  *)
LEMMA CreateAccount ==
  ASSUME Inv, SlotInv, NEW s \in Sessions, Accounted(s), Quiet(s), NEW p \in Procs,
         NEW m \in Meetings, CreateMeeting(p, m)
  PROVE  Accounted(s)'
<1> DEFINE t == proc[p].sess
<1>0. /\ proc[p] \in Proc /\ Slot(proc[p]) /\ s # None /\ proc[p].paths = {}
      /\ proc[p].pc = "authed" /\ proc[p].op = "meeting"
      /\ Becomes(p, Idle) /\ Idle.pc = "idle" /\ Idle.sess = None /\ Idle.paths = {}
      /\ UNCHANGED <<sess, doc, file, of, in>>
  BY NoneAssumption
     DEF Inv, ProcOK, SlotInv, Slot, CreateMeeting, Stop, Idle
<1>1. CASE ~Live(t)
  <2>1. UNCHANGED <<owner, meeting, by>>
    BY <1>1 DEF CreateMeeting
  <2> QED BY <1>0, <2>1, StartAccount
<1>2. CASE Live(t)
  <2>1. /\ \A n \in Meetings \ {m} : /\ owner'[n] = owner[n] /\ by'[n] = by[n]
                                     /\ meeting'[n] = meeting[n]
        /\ owner'[m] = t /\ by'[m] = t
    BY <1>2 DEF CreateMeeting, Inv, TablesOK
  <2>2. /\ proc'[p] = Idle /\ \A q \in Procs \ {p} : proc'[q] = proc[q]
    BY <1>0 DEF Inv, ProcOK, Becomes
  <2>3. Unused(s)'
    BY <1>0, <2>2 DEF Accounted, Unused, Quiet, Using
  <2>4. StillOwned(s)'
    BY <2>1 DEF Accounted, StillOwned
  <2>5. ObjectsHeld(s)'
    <3>1. \A d \in Docs : /\ Waiting(d) => Waiting(d)'
                          /\ AboutToGo(d) => AboutToGo(d)'
      BY <1>0, <2>2 DEF Waiting, AboutToGo
    <3> QED BY <1>0, <3>1 DEF Accounted, ObjectsHeld
  <2>6. s = t => ~Deleting(s)
    BY <1>0 DEF Accounted, Unused, Overlap, Using
  <2>7. \A q \in Procs \ {p} : InHand(s, proc[q])'
    BY <1>0, <2>1, <2>2, <2>6 DEF Accounted, InHand, HasRow, Deleting
  <2>8. InHand(s, proc[p])'
    BY <1>0, <2>2 DEF InHand
  <2> QED BY <2>3, <2>4, <2>5, <2>7, <2>8 DEF Accounted
<1> QED BY <1>1, <1>2

(* The object an upload saves is its own to account for.                   *)
LEMMA SaveAccount ==
  ASSUME Inv, SlotInv, NEW s \in Sessions, Accounted(s), Quiet(s), NEW p \in Procs,
         NEW d \in Docs, SaveObject(p, d)
  PROVE  Accounted(s)'
<1> DEFINE x == [proc[p] EXCEPT !.pc = "insert", !.doc = d]
<1>0. /\ proc[p] \in Proc /\ Slot(proc[p]) /\ Becomes(p, x)
      /\ proc[p].pc = "save" /\ proc[p].op = "upload" /\ proc[p].paths = {}
      /\ UNCHANGED <<sess, owner, meeting, doc, by>>
  BY DEF Inv, ProcOK, SlotInv, Slot, SaveObject
<1>1. /\ x.pc = "insert" /\ x.doc = d /\ x.sess = proc[p].sess /\ x.op = "upload"
      /\ x.paths = {}
  BY <1>0 DEF Proc
<1>2. /\ proc'[p] = x /\ \A q \in Procs \ {p} : proc'[q] = proc[q]
  BY <1>0 DEF Inv, ProcOK, Becomes
<1>3. /\ of[d] = None /\ of'[d] = proc[p].sess /\ doc[d] = "none"
      /\ \A e \in Docs \ {d} : of'[e] = of[e] /\ file'[e] = file[e]
  BY DEF SaveObject, Inv, TablesOK, UploadsKnown
<1> HIDE DEF x
<1>4. Unused(s)'
  BY <1>0, <1>1, <1>2 DEF Accounted, Unused, Quiet, Using
<1>5. StillOwned(s)'
  BY <1>0 DEF Accounted, StillOwned
<1>6. ObjectsHeld(s)'
  <2>1. \A e \in Docs \ {d} : /\ Waiting(e) => Waiting(e)'
                              /\ AboutToGo(e) => AboutToGo(e)'
    BY <1>0, <1>2 DEF Waiting, AboutToGo
  <2>2. Waiting(d)'
    BY <1>1, <1>2 DEF Waiting
  <2> QED BY <1>0, <1>3, <2>1, <2>2 DEF Accounted, ObjectsHeld
<1>7. \A q \in Procs : InHand(s, proc[q])'
  BY <1>0, <1>1, <1>2, <1>3 DEF Accounted, InHand, HasRow
<1> QED BY <1>4, <1>5, <1>6, <1>7 DEF Accounted

(* The insert gives the object a row, unless it takes the object away; a   *)
(* session it is done for is in use, so no deletion of it has read paths.  *)
LEMMA InsertAccount ==
  ASSUME Inv, SlotInv, NEW s \in Sessions, Accounted(s), Quiet(s), NEW p \in Procs,
         InsertDocument(p)
  PROVE  Accounted(s)'
<1> DEFINE d == proc[p].doc
           x == [proc[p] EXCEPT !.pc = "enqueue"]
<1>0. /\ proc[p] \in Proc /\ Slot(proc[p]) /\ proc[p].pc = "insert"
      /\ proc[p].op = "upload" /\ proc[p].paths = {} /\ of[d] = proc[p].sess
      /\ d \in Docs /\ doc[d] = "none"
      /\ UNCHANGED <<sess, owner, meeting, by, of, in>>
  BY DEF Inv, ProcOK, SlotInv, Slot, InsertDocument, UploadsOwn, Uploading
<1>1. /\ x.pc = "enqueue" /\ x.sess = proc[p].sess /\ x.op = "upload"
      /\ Idle.pc = "idle" /\ Idle.sess = None /\ s # None
  BY <1>0, NoneAssumption DEF Proc, Idle
<1>2. \/ /\ Becomes(p, x) /\ UNCHANGED file
         /\ doc' = [doc EXCEPT ![d] = "live"]
      \/ /\ Becomes(p, Idle) /\ UNCHANGED doc
         /\ file' = [file EXCEPT ![d] = FALSE]
  BY FaultsAssumption DEF InsertDocument, GoTo, Stop, Quiet, Fault, Inv
<1> HIDE DEF x
<1>3. /\ proc'[p] \in {x, Idle} /\ \A q \in Procs \ {p} : proc'[q] = proc[q]
  BY <1>2 DEF Inv, ProcOK, Becomes
<1>4. /\ \A e \in Docs \ {d} : doc'[e] = doc[e] /\ file'[e] = file[e]
      /\ doc'[d] = "live" \/ (doc'[d] = "none" /\ ~file'[d])
  BY <1>0, <1>2 DEF Inv, TablesOK
<1>5. Unused(s)'
  BY <1>0, <1>1, <1>3 DEF Accounted, Unused, Quiet, Using
<1>6. StillOwned(s)'
  BY <1>0 DEF Accounted, StillOwned
<1>7. ObjectsHeld(s)'
  <2>1. \A e \in Docs \ {d} : /\ Waiting(e) => Waiting(e)'
                              /\ AboutToGo(e) => AboutToGo(e)'
    BY <1>0, <1>3 DEF Waiting, AboutToGo
  <2> QED BY <1>0, <1>4, <2>1 DEF Accounted, ObjectsHeld
<1>8. of[d] = s => ~Deleting(s)
  BY <1>0 DEF Accounted, Unused, Overlap, Using
<1>9. InHand(s, proc[p])'
  BY <1>1, <1>3 DEF InHand
<1>10. \A q \in Procs \ {p} : InHand(s, proc[q])'
  BY <1>0, <1>3, <1>4, <1>8 DEF Accounted, InHand, HasRow, Deleting
<1> QED BY <1>5, <1>6, <1>7, <1>9, <1>10 DEF Accounted

LEMMA EnqueueAccount ==
  ASSUME Inv, SlotInv, NEW s \in Sessions, Accounted(s), Quiet(s), NEW p \in Procs,
         EnqueueDocument(p)
  PROVE  Accounted(s)'
<1> DEFINE d == proc[p].doc
<1>0. /\ proc[p] \in Proc /\ Slot(proc[p]) /\ proc[p].pc = "enqueue"
      /\ proc[p].paths = {} /\ d \in Docs /\ Becomes(p, Idle)
      /\ Idle.pc = "idle" /\ Idle.sess = None /\ s # None
      /\ UNCHANGED <<sess, owner, meeting, by, of, in>>
  BY NoneAssumption DEF Inv, ProcOK, SlotInv, Slot, EnqueueDocument, UploadsOwn,
     Uploading, Stop, Idle
<1>1. \/ doc[d] = "live" /\ doc' = [doc EXCEPT ![d] = "queued"] /\ UNCHANGED file
      \/ UNCHANGED doc /\ file' = [file EXCEPT ![d] = FALSE]
  BY FaultsAssumption DEF EnqueueDocument, Quiet, Fault, Inv
<1>2. /\ proc'[p] = Idle /\ \A q \in Procs \ {p} : proc'[q] = proc[q]
  BY <1>0 DEF Inv, ProcOK, Becomes
<1>3. \A e \in Docs : /\ file'[e] => file[e]
                      /\ doc'[e] = doc[e] \/ (doc[e] = "live" /\ doc'[e] = "queued")
  BY <1>0, <1>1 DEF Inv, TablesOK
<1>4. Unused(s)'
  BY <1>0, <1>2 DEF Accounted, Unused, Quiet, Using
<1>5. StillOwned(s)'
  BY <1>0 DEF Accounted, StillOwned
<1>6. ObjectsHeld(s)'
  <2>1. \A e \in Docs : /\ Waiting(e) => Waiting(e)'
                        /\ AboutToGo(e) => AboutToGo(e)'
    BY <1>0, <1>2 DEF Waiting, AboutToGo
  <2> QED BY <1>0, <1>3, <2>1 DEF Accounted, ObjectsHeld
<1>7. \A q \in Procs : InHand(s, proc[q])'
  BY <1>0, <1>2, <1>3 DEF Accounted, InHand, HasRow
<1> QED BY <1>4, <1>5, <1>6, <1>7 DEF Accounted

(* The commit of a deletion: the meetings it deletes are those of its own  *)
(* sessions, and it has the paths of all that goes with them.              *)
LEMMA DeleteAccount ==
  ASSUME Inv, SlotInv, NEW s \in Sessions, Accounted(s), Quiet(s), NEW p \in Procs,
         DeleteSessions(p)
  PROVE  Accounted(s)'
<1> DEFINE ids == proc[p].ids
           mine == proc[p].mine
           late == OwnedBy(ids) \ mine
           x == [proc[p] EXCEPT !.pc = "objects", !.mine = {}]
<1>0. /\ proc[p] \in Proc /\ Slot(proc[p]) /\ proc[p].pc = "sessions" /\ s # None
      /\ Becomes(p, x) /\ UNCHANGED <<file, by, of, in>>
  BY NoneAssumption DEF Inv, ProcOK, SlotInv, DeleteSessions
<1>1. /\ x.pc = "objects" /\ x.paths = proc[p].paths
      /\ x.sess = proc[p].sess /\ x.op = proc[p].op
  BY <1>0 DEF Proc
<1> HIDE DEF x
<1>2. /\ proc'[p] = x /\ \A q \in Procs \ {p} : proc'[q] = proc[q]
  BY <1>0 DEF Inv, ProcOK, Becomes
<1>3. \A q \in Procs : InHand(s, proc[q])
  BY DEF Accounted
<1>4. /\ \A m \in Meetings : meeting'[m] = "live" => meeting[m] = "live" /\ m \notin mine
      /\ \A m \in Meetings : owner'[m] = IF m \in mine \cup late THEN None ELSE owner[m]
      /\ \A d \in Docs : /\ d \in DocsIn(mine) => doc'[d] = "gone"
                         /\ d \notin DocsIn(mine) => doc'[d] = doc[d]
      /\ sess'[s].state = "gone" => s \in ids \/ sess[s].state = "gone"
  BY DEF DeleteSessions
<1>5. Using(s)' => Using(s)
  BY <1>1, <1>2 DEF Using
<1>6. s \in ids => ~Using(s)
  BY <1>0 DEF Accounted, Unused, Overlap, Deleting
<1>7. Unused(s)'
  BY <1>0, <1>4, <1>5, <1>6 DEF Accounted, Unused, Quiet
<1>8. StillOwned(s)'
  <2> SUFFICES ASSUME NEW m \in Meetings, by[m] = s, meeting'[m] = "live"
               PROVE  owner'[m] = s
    BY <1>0 DEF StillOwned
  <2>1. meeting[m] = "live" /\ m \notin mine /\ owner[m] = s
    BY <1>4 DEF Accounted, StillOwned
  <2>2. m \notin late
    BY <1>0, <1>3, <2>1 DEF InHand, OwnedBy
  <2> QED BY <1>4, <2>1, <2>2
<1>9. \A d \in Docs : of[d] = s /\ d \in DocsIn(mine) => d \in proc[p].paths
  <2> SUFFICES ASSUME NEW d \in Docs, of[d] = s, d \in DocsIn(mine)
               PROVE  d \in proc[p].paths
    OBVIOUS
  <2>1. HasRow(d) /\ in[d] \in mine /\ by[in[d]] = s
    BY <1>0 DEF DocsIn, HasRow, Inv, UploadsKnown
  <2>2. s \in ids
    BY <1>0, <2>1 DEF Slot
  <2> QED BY <1>0, <1>3, <2>1, <2>2 DEF InHand
<1>10. ObjectsHeld(s)'
  <2>1. \A d \in Docs : /\ Waiting(d) => Waiting(d)'
                        /\ AboutToGo(d) => AboutToGo(d)'
                        /\ d \in proc[p].paths => AboutToGo(d)'
    BY <1>0, <1>1, <1>2 DEF Waiting, AboutToGo
  <2> QED BY <1>0, <1>4, <1>9, <2>1 DEF Accounted, ObjectsHeld
<1>11. \A q \in Procs : InHand(s, proc[q])'
  <2>1. InHand(s, proc[p])'
    BY <1>1, <1>2 DEF InHand
  <2>2. /\ \A m \in Meetings : meeting'[m] = "live" /\ owner'[m] = s =>
                                 meeting[m] = "live" /\ owner[m] = s
        /\ \A d \in Docs : of'[d] = s /\ HasRow(d)' => of[d] = s /\ HasRow(d)
    BY <1>0, <1>4 DEF HasRow
  <2>3. \A q \in Procs \ {p} : InHand(s, proc[q])'
    BY <1>2, <1>3, <2>2 DEF InHand
  <2> QED BY <2>1, <2>3
<1> QED BY <1>7, <1>8, <1>10, <1>11 DEF Accounted

(* A path is forgotten only once its object is gone.                       *)
LEMMA RemoveAccount ==
  ASSUME Inv, SlotInv, NEW s \in Sessions, Accounted(s), Quiet(s), NEW p \in Procs,
         RemoveObject(p)
  PROVE  Accounted(s)'
<1>0. ~Fault
  BY FaultsAssumption DEF Quiet, Fault, Inv
<1>1. PICK d \in proc[p].paths :
        /\ Becomes(p, [proc[p] EXCEPT !.paths = @ \ {d}])
        /\ file' = [file EXCEPT ![d] = FALSE]
  BY <1>0 DEF RemoveObject
<1> DEFINE x == [proc[p] EXCEPT !.paths = @ \ {d}]
<1>2. /\ proc[p] \in Proc /\ proc[p].pc = "objects"
      /\ UNCHANGED <<sess, owner, meeting, doc, by, of, in>>
  BY DEF Inv, ProcOK, RemoveObject
<1>3. /\ x.pc = "objects" /\ x.paths = proc[p].paths \ {d}
      /\ x.sess = proc[p].sess /\ x.op = proc[p].op
  BY <1>2 DEF Proc
<1>4. Becomes(p, x)
  BY <1>1
<1> HIDE DEF x
<1>5. /\ proc'[p] = x /\ \A q \in Procs \ {p} : proc'[q] = proc[q]
  BY <1>4 DEF Inv, ProcOK, Becomes
<1>6. \A e \in Docs : file'[e] => file[e] /\ e # d
  BY <1>1 DEF Inv, TablesOK
<1>7. Unused(s)'
  BY <1>2, <1>3, <1>5 DEF Accounted, Unused, Quiet, Using
<1>8. StillOwned(s)'
  BY <1>2 DEF Accounted, StillOwned
<1>9. ObjectsHeld(s)'
  <2>1. \A e \in Docs \ {d} : /\ Waiting(e) => Waiting(e)'
                              /\ AboutToGo(e) => AboutToGo(e)'
    BY <1>2, <1>3, <1>5 DEF Waiting, AboutToGo
  <2> QED BY <1>2, <1>6, <2>1 DEF Accounted, ObjectsHeld
<1>10. \A q \in Procs : InHand(s, proc[q])'
  BY <1>2, <1>3, <1>5 DEF Accounted, InHand, HasRow
<1> QED BY <1>7, <1>8, <1>9, <1>10 DEF Accounted

LEMMA AgeAccount ==
  ASSUME Inv, NEW s \in Sessions, Accounted(s), Quiet(s), NEW t \in Sessions, Age(t)
  PROVE  Accounted(s)'
<1>1. /\ UNCHANGED <<owner, meeting, doc, file, proc, by, of, in>>
      /\ sess'[s].state = sess[s].state
  <2>1. sess \in [Sessions -> Life]
    BY DEF Inv, TablesOK
  <2>2. PICK i, o : sess' = [sess EXCEPT ![t].idle = i] \/ sess' = [sess EXCEPT ![t].old = o]
    BY DEF Age
  <2>3. /\ [sess[t] EXCEPT !.idle = i].state = sess[t].state
        /\ [sess[t] EXCEPT !.old = o].state = sess[t].state
    BY <2>1 DEF Life
  <2>4. \/ sess'[s] = sess[s]
        \/ s = t /\ sess'[s] = [sess[t] EXCEPT !.idle = i]
        \/ s = t /\ sess'[s] = [sess[t] EXCEPT !.old = o]
    BY <2>1, <2>2
  <2> QED BY <2>3, <2>4 DEF Age
<1> QED
  BY <1>1 DEF Accounted, Unused, Quiet, Using, StillOwned, ObjectsHeld, Waiting,
     AboutToGo, InHand, HasRow

-----------------------------------------------------------------------------
LEMMA StepAccount ==
  ASSUME Inv, SlotInv, Step, NEW s \in Sessions, Accounted(s), Quiet(s)
  PROVE  Accounted(s)'
<1>1. ASSUME NEW p \in Procs, Continue(p) PROVE Accounted(s)'
  BY <1>1, RequestAccount, CreateAccount, SaveAccount, InsertAccount,
     EnqueueAccount, SelectAccount, DeleteAccount, RemoveAccount
     DEF Continue
<1>2. ASSUME NEW p \in Procs, Crash(p) PROVE Accounted(s)'
  BY <1>2, FaultsAssumption DEF Crash, Fault, Quiet, Inv
<1> QED BY <1>1, <1>2, RequestAccount, AgeAccount DEF Step

OwnedInv == Inv /\ raced \in [Sessions -> BOOLEAN] /\ SlotInv /\ CleanInv

LEMMA OwnedInit == Init => OwnedInv
<1> SUFFICES ASSUME Init PROVE OwnedInv
  OBVIOUS
<1>1. Inv /\ raced \in [Sessions -> BOOLEAN]
  BY InitInv DEF Init
<1>2. \A p \in Procs : /\ proc[p] = Idle /\ proc[p].pc = "idle" /\ proc[p].sess = None
                       /\ proc[p].ids = {}
  BY DEF Init, Idle
<1>3. SlotInv
  BY <1>2, IdleSlot DEF Init, SlotInv, RowsInMeetings, HasRow
<1>4. CleanInv
  BY <1>2, NoneAssumption
     DEF Init, CleanInv, Accounted, Unused, Overlap, Using, StillOwned,
         ObjectsHeld, InHand
<1> QED BY <1>1, <1>3, <1>4 DEF OwnedInv

LEMMA OwnedStep == OwnedInv /\ [Next]_vars => OwnedInv'
<1> SUFFICES ASSUME OwnedInv, [Next]_vars PROVE OwnedInv'
  OBVIOUS
<1>0. Inv'
  BY NextInv DEF OwnedInv
<1>1. CASE Next
  <2>1. SlotInv' /\ raced' \in [Sessions -> BOOLEAN]
    BY <1>1, SlotStep DEF Next, OwnedInv
  <2>2. CleanInv'
    <3> SUFFICES ASSUME NEW s \in Sessions, Clean(s)' PROVE Accounted(s)'
      BY DEF CleanInv
    <3>1. Clean(s) /\ Quiet(s)
      BY <1>1, CleanBack DEF OwnedInv
    <3> QED BY <1>1, <3>1, StepAccount DEF Next, OwnedInv, CleanInv
  <2> QED BY <1>0, <2>1, <2>2 DEF OwnedInv
<1>2. CASE UNCHANGED vars
  BY <1>0, <1>2
     DEF vars, OwnedInv, SlotInv, Slot, RowsInMeetings, HasRow, CleanInv, Clean,
         Accounted, Unused, Overlap, Using, Deleting, StillOwned, ObjectsHeld,
         Waiting, AboutToGo, InHand
<1> QED BY <1>1, <1>2

(* Once a session is gone, no meeting it created is left and every object  *)
(* it uploaded is gone or about to go, unless one of its requests and its  *)
(* deletion overlapped or something crashed: for any number of sessions,   *)
(* and for expired, deleted and reset ones alike.                          *)
THEOREM DeletionLeavesNothing == Spec => []OwnedDataDeleted
<1>1. OwnedInv => OwnedDataDeleted
  <2> SUFFICES ASSUME OwnedInv, NEW s \in Sessions, sess[s].state = "gone", Clean(s)
               PROVE  LeavesNothing(s)
    BY DEF OwnedDataDeleted, Clean
  <2>1. Accounted(s) /\ ~Using(s)
    BY DEF OwnedInv, CleanInv, Accounted, Unused
  <2>2. \A m \in Meetings : by[m] = s => meeting[m] # "live"
    <3> SUFFICES ASSUME NEW m \in Meetings, by[m] = s, meeting[m] = "live" PROVE FALSE
      OBVIOUS
    <3>1. owner[m] = s /\ s # None
      BY <2>1, NoneAssumption DEF Accounted, StillOwned
    <3> QED BY <3>1 DEF OwnedInv, Inv, OwnersAreLive, Live
  <2>3. \A d \in Docs : of[d] = s /\ file[d] => AboutToGo(d)
    <3> SUFFICES ASSUME NEW d \in Docs, of[d] = s, file[d] PROVE AboutToGo(d)
      OBVIOUS
    <3>1. by[in[d]] = s /\ in[d] \in Meetings
      BY NoneAssumption DEF OwnedInv, Inv, UploadsKnown, Known
    <3>2. doc[d] \notin {"live", "queued"}
      BY <2>2, <3>1 DEF OwnedInv, SlotInv, RowsInMeetings, HasRow
    <3>3. ~Waiting(d)
      BY <2>1 DEF Waiting, OwnedInv, SlotInv, Slot, Using
    <3> QED BY <2>1, <3>2, <3>3 DEF Accounted, ObjectsHeld
  <2> QED BY <2>2, <2>3 DEF LeavesNothing
<1> QED BY <1>1, OwnedInit, OwnedStep, PTL DEF Spec
=============================================================================
