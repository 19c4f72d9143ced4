-------------------------- MODULE GuestSessionsProofs --------------------------
(***************************************************************************)
(* What holds of sessions, meetings, uploads and objects for any number of *)
(* them, of requests and jobs, and of faults.                              *)
(***************************************************************************)
EXTENDS GuestSessions, TLAPS

-----------------------------------------------------------------------------
(* The inductive invariant *)

(* A meeting that was never created or is gone has no owner.               *)
NoDeadOwned == \A m \in Meetings : meeting[m] # "live" => owner[m] = None

(* An upload is known with its guest and its meeting, which that guest     *)
(* created; what has not been uploaded has no row.                         *)
Known(d) == of[d] # None /\ in[d] \in Meetings /\ meeting[in[d]] # "none"
UploadsKnown ==
  \A d \in Docs : /\ of[d] # None => Known(d) /\ by[in[d]] = of[d]
                  /\ of[d] = None => doc[d] = "none"

(* An upload in progress is into a meeting of its guest, it has an object  *)
(* of its own until its row is committed, and a row only afterwards; the   *)
(* object stays for as long as the guest can reach the row.                *)
Uploading(p) == proc[p].pc \in {"insert", "enqueue"}
UploadsOwn ==
  \A p \in Procs :
    /\ proc[p].pc = "save" =>
         /\ proc[p].sess # None /\ proc[p].meeting \in Meetings
         /\ meeting[proc[p].meeting] # "none"
         /\ by[proc[p].meeting] = proc[p].sess
    /\ Uploading(p) => /\ proc[p].doc \in Docs /\ Known(proc[p].doc)
                       /\ proc[p].meeting = in[proc[p].doc]
    /\ proc[p].pc = "insert" => doc[proc[p].doc] = "none" /\ file[proc[p].doc]
    /\ proc[p].pc = "enqueue" /\ Reachable(proc[p].doc) => file[proc[p].doc]
    /\ \A q \in Procs : Uploading(p) /\ Uploading(q) /\ proc[p].doc = proc[q].doc
                          => p = q
    /\ proc[p].pc \in {"touch", "authed"} => proc[p].sess # None

(* The paths a deletion has read are those of rows whose owner it is about *)
(* to delete; once it removes objects, they have lost their owner.         *)
PathsDoomed ==
  \A p \in Procs : \A d \in proc[p].paths :
    /\ doc[d] # "none" /\ Known(d)
    /\ owner[in[d]] # None => /\ owner[in[d]] \in proc[p].ids
                              /\ proc[p].pc \in {"meetings", "sessions"}

Inv == /\ TablesOK /\ ProcOK /\ faults \in 0..MaxFaults
       /\ OwnersAreLive /\ NoDeadOwned /\ UploadsKnown /\ UploadsOwn
       /\ PathsDoomed /\ RowsKeepObjects

-----------------------------------------------------------------------------
LEMMA ProcTypes ==
  /\ Idle \in Proc /\ Idle.pc = "idle" /\ Idle.paths = {}
  /\ \A pc \in Pc, op \in Op, s \in Sessions \cup {None} :
       /\ Start(pc, op, s) \in Proc /\ Start(pc, op, s).pc = pc
       /\ Start(pc, op, s).sess = s /\ Start(pc, op, s).paths = {}
<1>1. Idle \in Proc /\ Idle.pc = "idle" /\ Idle.paths = {}
  BY DEF Idle, Proc, Pc, Op
<1>2. ASSUME NEW pc \in Pc, NEW op \in Op, NEW s \in Sessions \cup {None}
      PROVE  /\ Start(pc, op, s) \in Proc /\ Start(pc, op, s).pc = pc
             /\ Start(pc, op, s).sess = s /\ Start(pc, op, s).paths = {}
  BY <1>1 DEF Start, Proc
<1> QED BY <1>1, <1>2

LEMMA FaultType ==
  faults \in 0..MaxFaults /\ Fault => faults' \in 0..faults /\ faults' < MaxFaults
BY FaultsAssumption DEF Fault

(* What the faults that are left say of the faults there were.             *)
LEMMA FaultsLeft ==
  ASSUME faults \in 0..MaxFaults, faults' \in 0..faults
  PROVE  faults' \in 0..MaxFaults /\ (faults < MaxFaults => faults' < MaxFaults)
BY FaultsAssumption

LEMMA InitInv == Init => Inv
<1> SUFFICES ASSUME Init PROVE Inv
  OBVIOUS
<1>1. TablesOK /\ ProcOK /\ faults \in 0..MaxFaults
  BY ProcTypes, FaultsAssumption DEF Init, TablesOK, ProcOK, Life, Unborn
<1>2. \A p \in Procs : proc[p].pc = "idle" /\ proc[p].paths = {}
  BY ProcTypes DEF Init
<1> QED
  BY <1>1, <1>2
     DEF Init, Inv, OwnersAreLive, NoDeadOwned, UploadsKnown, UploadsOwn, Uploading, Reachable,
         PathsDoomed, RowsKeepObjects

(* A step that only moves one request on keeps the invariant, if what the  *)
(* request remembers from then on agrees with the tables.                  *)
LEMMA MoveInv ==
  ASSUME Inv, NEW p \in Procs, NEW x \in Proc, Becomes(p, x),
         UNCHANGED data, faults' \in 0..faults,
         x.pc \notin {"insert", "enqueue"},
         x.pc = "idle" => x = Idle,
         x.pc \in {"paths", "meetings", "sessions"} => x.ids # {},
         x.pc \in {"touch", "authed"} => x.sess # None,
         x.pc = "save" => /\ x.sess # None /\ x.meeting \in Meetings
                          /\ meeting[x.meeting] # "none" /\ by[x.meeting] = x.sess,
         \A d \in x.paths :
           /\ doc[d] # "none" /\ Known(d)
           /\ owner[in[d]] # None => /\ owner[in[d]] \in x.ids
                                     /\ x.pc \in {"meetings", "sessions"}
  PROVE  Inv'
<1> USE DEF Inv, data
<1>1. /\ proc' \in [Procs -> Proc] /\ proc'[p] = x
      /\ \A q \in Procs \ {p} : proc'[q] = proc[q]
  BY DEF Becomes, ProcOK
<1>2. TablesOK' /\ ProcOK'
  BY <1>1 DEF TablesOK, ProcOK
<1>3. UploadsOwn'
  BY <1>1 DEF UploadsOwn, Uploading, Reachable, Known
<1>4. PathsDoomed'
  BY <1>1 DEF PathsDoomed, Known
<1>5. OwnersAreLive' /\ NoDeadOwned' /\ UploadsKnown' /\ RowsKeepObjects'
  BY FaultsLeft DEF OwnersAreLive, NoDeadOwned, UploadsKnown, RowsKeepObjects, Reachable, Known, Live
<1> QED BY <1>2, <1>3, <1>4, <1>5, FaultsLeft

LEMMA StopInv ==
  ASSUME Inv, NEW p \in Procs, Stop(p), UNCHANGED data, faults' \in 0..faults
  PROVE  Inv'
BY ProcTypes, MoveInv DEF Stop

LEMMA StartInv ==
  ASSUME Inv, NEW p \in Procs, NEW pc \in {"touch", "authed", "select", "new"},
         NEW op \in Op, NEW s \in Sessions \cup {None},
         pc \in {"touch", "authed"} => s # None,
         Becomes(p, Start(pc, op, s)), UNCHANGED <<data, faults>>
  PROVE  Inv'
<1>1. pc \in Pc
  BY DEF Pc
<1> QED BY <1>1, ProcTypes, MoveInv DEF Inv

-----------------------------------------------------------------------------
(* Requests *)

LEMMA AuthenticateInv ==
  ASSUME Inv, NEW p \in Procs, NEW s \in Sessions,
         NEW op \in {"meeting", "upload", "delete", "reset"}, Authenticate(p, s, op)
  PROVE  Inv'
<1>0. op \in Op /\ s # None
  BY NoneAssumption DEF Op
<1>1. CASE Becomes(p, Start("touch", op, s)) \/ Becomes(p, Start("authed", op, s))
  BY <1>0, <1>1, StartInv DEF Authenticate
<1>2. CASE Becomes(p, [Start("paths", IF op = "reset" THEN op ELSE "delete", None)
                         EXCEPT !.ids = {s}])
  <2> DEFINE y == Start("paths", IF op = "reset" THEN op ELSE "delete", None)
             x == [y EXCEPT !.ids = {s}]
  <2>1. y \in Proc /\ y.pc = "paths" /\ y.paths = {}
    BY <1>0, ProcTypes DEF Pc, Op
  <2>2. x \in Proc /\ x.pc = "paths" /\ x.paths = {} /\ x.ids = {s}
    BY <2>1 DEF Proc
  <2>3. UNCHANGED data /\ faults' \in 0..faults /\ Becomes(p, x)
    BY <1>2 DEF Authenticate, Inv
  <2> HIDE DEF y, x
  <2> QED BY <2>2, <2>3, MoveInv
<1> QED BY <1>1, <1>2 DEF Authenticate

(* A new idle time or age leaves the sessions well typed and live.         *)
LEMMA AgesType ==
  ASSUME sess \in [Sessions -> Life], NEW s, NEW i \in 0..2,
         \/ sess' = [sess EXCEPT ![s].idle = i]
         \/ sess' = [sess EXCEPT ![s].old = TRUE]
  PROVE  sess' \in [Sessions -> Life] /\ \A t \in Sessions : Live(t) => Live(t)'
<1>1. ASSUME NEW t \in Sessions
      PROVE  sess'[t] \in Life /\ sess'[t].state = sess[t].state
  <2>1. sess[t] \in Life
    OBVIOUS
  <2>2. /\ [sess[t] EXCEPT !.idle = i] \in Life
        /\ [sess[t] EXCEPT !.idle = i].state = sess[t].state
    BY <2>1 DEF Life
  <2>3. /\ [sess[t] EXCEPT !.old = TRUE] \in Life
        /\ [sess[t] EXCEPT !.old = TRUE].state = sess[t].state
    BY <2>1 DEF Life
  <2>4. \/ sess'[t] = sess[t]
        \/ sess'[t] = [sess[t] EXCEPT !.idle = i]
        \/ sess'[t] = [sess[t] EXCEPT !.old = TRUE]
    OBVIOUS
  <2> QED BY <2>1, <2>2, <2>3, <2>4
<1>2. sess' = [t \in Sessions |-> sess'[t]]
  OBVIOUS
<1> QED BY <1>1, <1>2 DEF Live

(* The touch moves a request on and stamps a session that is live.         *)
LEMMA TouchInv ==
  ASSUME Inv, NEW p \in Procs, Touch(p)
  PROVE  Inv'
<1>1. CASE ~Live(proc[p].sess)
  BY <1>1, StopInv DEF Touch, data, Inv
<1>2. CASE Live(proc[p].sess)
  <2> USE <1>2 DEF Inv, Touch
  <2>1. /\ proc' \in [Procs -> Proc] /\ proc'[p].pc = "authed"
        /\ proc'[p].sess = proc[p].sess /\ proc'[p].paths = proc[p].paths
        /\ proc'[p].ids = proc[p].ids
        /\ \A q \in Procs \ {p} : proc'[q] = proc[q]
    <3> DEFINE x == [proc[p] EXCEPT !.pc = "authed"]
    <3>1. proc[p] \in Proc /\ proc' = [proc EXCEPT ![p] = x]
      BY DEF GoTo, Becomes, ProcOK
    <3>2. /\ x \in Proc /\ x.pc = "authed" /\ x.sess = proc[p].sess
          /\ x.paths = proc[p].paths /\ x.ids = proc[p].ids
      BY <3>1 DEF Proc, Pc
    <3> HIDE DEF x
    <3> QED BY <3>1, <3>2 DEF ProcOK
  <2>2. sess' \in [Sessions -> Life] /\ \A s \in Sessions : Live(s) => Live(s)'
    <3>1. /\ sess \in [Sessions -> Life]
          /\ sess' = [sess EXCEPT ![proc[p].sess].idle = 0]
      BY DEF TablesOK
    <3> QED BY <3>1, AgesType, 0 \in 0..2
  <2>3. TablesOK' /\ ProcOK'
    BY <2>1, <2>2 DEF TablesOK, ProcOK
  <2>4. OwnersAreLive' /\ NoDeadOwned' /\ UploadsKnown' /\ RowsKeepObjects'
    BY <2>2 DEF OwnersAreLive, NoDeadOwned, UploadsKnown, RowsKeepObjects, Reachable, Known, TablesOK
  <2>5. UploadsOwn'
    BY <2>1 DEF UploadsOwn, Uploading, Reachable, Known
  <2>6. PathsDoomed'
    BY <2>1 DEF PathsDoomed, Known
  <2> QED BY <2>3, <2>4, <2>5, <2>6
<1> QED BY <1>1, <1>2

(* What a step that ends request p and leaves the others alone keeps.      *)
LEMMA EndsAlone ==
  ASSUME ProcOK, NEW p \in Procs, Stop(p)
  PROVE  /\ ProcOK' /\ proc'[p].pc = "idle" /\ proc'[p].paths = {}
         /\ \A q \in Procs \ {p} : proc'[q] = proc[q]
BY ProcTypes DEF Stop, Becomes, ProcOK

LEMMA CreateMeetingInv ==
  ASSUME Inv, NEW p \in Procs, NEW m \in Meetings, CreateMeeting(p, m)
  PROVE  Inv'
<1> DEFINE s == proc[p].sess
<1>1. CASE ~Live(s)
  BY <1>1, StopInv DEF CreateMeeting, data, Inv
<1>2. CASE Live(s)
  <2> USE <1>2 DEF Inv, CreateMeeting
  <2>1. s \in Sessions /\ s # None
    BY NoneAssumption DEF ProcOK, Proc, UploadsOwn
  <2>2. TablesOK'
    BY <2>1 DEF TablesOK
  <2>3. ProcOK' /\ proc'[p].pc = "idle" /\ proc'[p].paths = {}
        /\ \A q \in Procs \ {p} : proc'[q] = proc[q]
    BY EndsAlone
  <2>4. \A d \in Docs : Known(d) => Known(d)' /\ in[d] # m
    BY DEF Known, TablesOK
  <2>5. OwnersAreLive' /\ NoDeadOwned'
    BY <2>1 DEF OwnersAreLive, NoDeadOwned, TablesOK, Live
  <2>6. UploadsKnown'
    BY <2>4 DEF UploadsKnown, Known, TablesOK
  <2>7. UploadsOwn'
    BY <2>3, <2>4 DEF UploadsOwn, Uploading, Reachable, Known, TablesOK
  <2>8. PathsDoomed'
    <3> SUFFICES ASSUME NEW q \in Procs, NEW d \in proc'[q].paths
                 PROVE  /\ doc[d] # "none" /\ Known(d)'
                        /\ owner'[in[d]] # None =>
                             /\ owner'[in[d]] \in proc'[q].ids
                             /\ proc'[q].pc \in {"meetings", "sessions"}
      BY DEF PathsDoomed
    <3>1. q # p /\ d \in proc[q].paths /\ d \in Docs
      BY <2>3 DEF ProcOK, Proc
    <3>2. Known(d) /\ in[d] # m
      BY <3>1, <2>4 DEF PathsDoomed
    <3> QED BY <3>1, <3>2, <2>3, <2>4 DEF PathsDoomed, TablesOK, Known
  <2>9. RowsKeepObjects'
    BY <2>4 DEF RowsKeepObjects, Reachable, UploadsKnown, Known, TablesOK
  <2> QED BY <2>2, <2>3, <2>5, <2>6, <2>7, <2>8, <2>9
<1> QED BY <1>1, <1>2

LEMMA FindMeetingInv ==
  ASSUME Inv, NEW p \in Procs, NEW m \in Meetings, FindMeeting(p, m)
  PROVE  Inv'
<1>1. CASE ~OwnedMeeting(p, m)
  BY <1>1, StopInv DEF FindMeeting, Inv
<1>2. CASE OwnedMeeting(p, m)
  <2> DEFINE x == [proc[p] EXCEPT !.pc = "save", !.meeting = m]
  <2>1. proc[p] \in Proc /\ proc[p].pc = "authed" /\ Becomes(p, x)
    BY <1>2 DEF FindMeeting, Inv, ProcOK
  <2>2. /\ x \in Proc /\ x.pc = "save" /\ x.meeting = m /\ x.sess = proc[p].sess
        /\ x.paths = proc[p].paths /\ x.ids = proc[p].ids
    BY <2>1 DEF Proc, Pc
  <2>3. /\ proc[p].sess # None /\ meeting[m] # "none" /\ by[m] = proc[p].sess
    BY <1>2, <2>1 DEF Inv, UploadsOwn, OwnersAreLive, OwnedMeeting
  <2>4. \A d \in x.paths :
           /\ doc[d] # "none" /\ Known(d) /\ owner[in[d]] = None
    BY <2>1, <2>2 DEF Inv, PathsDoomed
  <2>5. UNCHANGED data /\ faults' \in 0..faults
    BY DEF FindMeeting, Inv
  <2> HIDE DEF x
  <2> QED BY <2>1, <2>2, <2>3, <2>4, <2>5, MoveInv
<1> QED BY <1>1, <1>2

LEMMA SaveObjectInv ==
  ASSUME Inv, NEW p \in Procs, NEW d \in Docs, SaveObject(p, d)
  PROVE  Inv'
<1> USE DEF Inv, SaveObject
<1>1. /\ proc' \in [Procs -> Proc] /\ proc'[p].pc = "insert" /\ proc'[p].doc = d
      /\ proc'[p].meeting = proc[p].meeting
      /\ proc'[p].paths = proc[p].paths /\ proc'[p].ids = proc[p].ids
      /\ \A q \in Procs \ {p} : proc'[q] = proc[q]
  <2> DEFINE x == [proc[p] EXCEPT !.pc = "insert", !.doc = d]
  <2>1. proc[p] \in Proc /\ proc' = [proc EXCEPT ![p] = x]
    BY DEF Becomes, ProcOK
  <2>2. /\ x \in Proc /\ x.pc = "insert" /\ x.doc = d
        /\ x.meeting = proc[p].meeting
        /\ x.paths = proc[p].paths /\ x.ids = proc[p].ids
    BY <2>1 DEF Proc, Pc
  <2> HIDE DEF x
  <2> QED BY <2>1, <2>2 DEF ProcOK
<1>2. /\ proc[p].sess \in Sessions /\ proc[p].sess # None
      /\ proc[p].meeting \in Meetings /\ meeting[proc[p].meeting] # "none"
      /\ by[proc[p].meeting] = proc[p].sess
  BY DEF UploadsOwn, ProcOK, Proc
<1>3. TablesOK'
  BY <1>2 DEF TablesOK
<1>4. ProcOK'
  BY <1>1 DEF ProcOK
<1>5. Known(d)' /\ \A e \in Docs : Known(e) => e # d /\ Known(e)'
  BY <1>2 DEF Known, TablesOK
<1>6. doc[d] = "none"
  BY DEF UploadsKnown
<1>7. OwnersAreLive' /\ NoDeadOwned'
  BY DEF OwnersAreLive, NoDeadOwned, Live
<1>8. UploadsKnown'
  BY <1>2, <1>5 DEF UploadsKnown, TablesOK
<1>9. UploadsOwn'
  BY <1>1, <1>2, <1>5, <1>6 DEF UploadsOwn, Uploading, Reachable, TablesOK
<1>10. PathsDoomed'
  <2>1. \A q \in Procs : proc'[q].paths = proc[q].paths /\ proc[q].paths \subseteq Docs
    BY <1>1 DEF ProcOK, Proc
  <2> QED BY <1>1, <1>5, <2>1 DEF PathsDoomed, Known, TablesOK
<1>11. RowsKeepObjects'
  BY <1>6, <1>5 DEF RowsKeepObjects, Reachable, TablesOK
<1> QED BY <1>3, <1>4, <1>7, <1>8, <1>9, <1>10, <1>11

LEMMA InsertDocumentInv ==
  ASSUME Inv, NEW p \in Procs, InsertDocument(p)
  PROVE  Inv'
<1> DEFINE d == proc[p].doc
<1> USE DEF Inv, InsertDocument
<1>0. d \in Docs /\ Known(d) /\ doc[d] = "none" /\ file[d] /\ Uploading(p)
  BY DEF UploadsOwn, Uploading, Reachable
<1>a. \A q \in Procs : d \notin proc[q].paths /\ proc[q].paths \subseteq Docs
  BY <1>0 DEF PathsDoomed, ProcOK, Proc
<1>b. \A q \in Procs \ {p} : Uploading(q) => proc[q].doc # d
  BY <1>0 DEF UploadsOwn
<1>1. CASE doc' = [doc EXCEPT ![d] = "live"] /\ GoTo(p, "enqueue") /\ UNCHANGED <<file, faults>>
  <2>1. /\ proc' \in [Procs -> Proc] /\ proc'[p].pc = "enqueue" /\ proc'[p].doc = d
        /\ proc'[p].meeting = proc[p].meeting
        /\ proc'[p].paths = proc[p].paths /\ proc'[p].ids = proc[p].ids
        /\ \A q \in Procs \ {p} : proc'[q] = proc[q]
    BY <1>1 DEF GoTo, Becomes, ProcOK, Proc, Pc
  <2>2. TablesOK' /\ ProcOK'
    <3>1. TablesOK'
      BY <1>1, <1>0 DEF TablesOK
    <3>2. ProcOK'
      BY <2>1 DEF ProcOK
    <3> QED BY <3>1, <3>2
  <2>3. OwnersAreLive' /\ NoDeadOwned' /\ UploadsKnown' /\ RowsKeepObjects'
    BY <1>1, <1>0 DEF OwnersAreLive, NoDeadOwned, UploadsKnown, RowsKeepObjects, Reachable, Known, Live, TablesOK
  <2>4. UploadsOwn'
    BY <1>1, <1>0, <1>b, <2>1 DEF UploadsOwn, Uploading, Reachable, Known, TablesOK
  <2>5. PathsDoomed'
    BY <1>1, <1>a, <2>1 DEF PathsDoomed, Known, TablesOK
  <2> QED BY <1>1, <2>2, <2>3, <2>4, <2>5
<1>2. CASE /\ file' = [file EXCEPT ![d] = FALSE] /\ Stop(p)
           /\ \/ UNCHANGED doc /\ (Fault \/ UNCHANGED faults)
              \/ doc' = [doc EXCEPT ![d] = "live"] /\ Fault
  <2>0. faults' \in 0..faults /\ (doc'[d] # "none" => faults' < MaxFaults)
    BY <1>2, FaultType, <1>0
  <2>z. \A e \in Docs : e # d => doc'[e] = doc[e] /\ file'[e] = file[e]
    BY <1>2 DEF TablesOK
  <2>y. doc'[d] \in {"none", "live"}
    BY <1>2, <1>0 DEF TablesOK
  <2>1. ProcOK' /\ proc'[p].pc = "idle" /\ proc'[p].paths = {}
        /\ \A q \in Procs \ {p} : proc'[q] = proc[q]
    BY <1>2, EndsAlone
  <2>2. TablesOK'
    BY <1>2 DEF TablesOK
  <2>3. OwnersAreLive' /\ NoDeadOwned' /\ UploadsKnown'
    BY <1>0, <2>z DEF OwnersAreLive, NoDeadOwned, UploadsKnown, Known, Live
  <2>4. UploadsOwn'
    BY <1>0, <1>b, <2>1, <2>z DEF UploadsOwn, Uploading, Reachable, Known
  <2>5. PathsDoomed'
    BY <1>a, <2>1, <2>z DEF PathsDoomed, Known
  <2>6. RowsKeepObjects'
    BY <2>0, <2>z, <2>y, FaultsLeft DEF RowsKeepObjects, Reachable
  <2> QED BY <2>0, <2>1, <2>2, <2>3, <2>4, <2>5, <2>6, FaultsLeft
<1> QED BY <1>1, <1>2

LEMMA EnqueueDocumentInv ==
  ASSUME Inv, NEW p \in Procs, EnqueueDocument(p)
  PROVE  Inv'
<1> DEFINE d == proc[p].doc
<1> USE DEF Inv, EnqueueDocument
<1>0. d \in Docs /\ Known(d) /\ Uploading(p) /\ faults' \in 0..faults
  BY FaultType DEF UploadsOwn, Uploading, Reachable
<1>b. \A q \in Procs \ {p} : Uploading(q) => proc[q].doc # d
  BY <1>0 DEF UploadsOwn
<1>1. ProcOK' /\ proc'[p].pc = "idle" /\ proc'[p].paths = {}
      /\ \A q \in Procs \ {p} : proc'[q] = proc[q]
  BY EndsAlone
<1>2. /\ \A e \in Docs : e # d => doc'[e] = doc[e] /\ file'[e] = file[e]
      /\ doc'[d] # "none"
      /\ doc'[d] = "queued" => file'[d] = file[d] /\ doc[d] = "live"
      /\ doc'[d] = "live" => Fault
  BY <1>0 DEF TablesOK
<1>3. TablesOK'
  BY DEF TablesOK
<1>4. OwnersAreLive' /\ NoDeadOwned' /\ UploadsKnown'
  BY <1>0, <1>2 DEF OwnersAreLive, NoDeadOwned, UploadsKnown, Known, Live
<1>7. RowsKeepObjects'
  <2>1. Fault => faults' < MaxFaults
    BY FaultType
  <2>2. doc[d] = "live" /\ owner[in[d]] # None => file[d]
    BY <1>0 DEF UploadsOwn, Reachable
  <2>3. UNCHANGED <<owner, in>> /\ RowsKeepObjects /\ (faults < MaxFaults => faults' < MaxFaults)
    BY <1>0, FaultsLeft
  <2> HIDE DEF EnqueueDocument, Inv, d
  <2>4. doc'[d] \in {"live", "queued"} /\ owner[in[d]] # None /\ ~file'[d]
          => doc'[d] = "live" /\ faults' < MaxFaults
    BY <1>2, <2>1, <2>2
  <2> QED BY <1>2, <2>3, <2>4 DEF RowsKeepObjects, Reachable
<1>5. UploadsOwn'
  BY <1>0, <1>1, <1>2, <1>b DEF UploadsOwn, Uploading, Reachable, Known
<1>6. PathsDoomed'
  <2>1. \A q \in Procs : proc[q].paths \subseteq Docs
    BY DEF ProcOK, Proc
  <2> QED BY <1>1, <1>2, <2>1 DEF PathsDoomed, Known
<1> QED BY <1>0, <1>1, <1>3, <1>4, <1>5, <1>6, <1>7, FaultsLeft

-----------------------------------------------------------------------------
(* Deletions *)

(* What a request carries over when only its place and its ids change.     *)
LEMMA CarriesPaths ==
  ASSUME Inv, NEW p \in Procs, NEW ids \in SUBSET Sessions, ids # {},
         proc[p].pc \in {"authed", "select"},
         UNCHANGED <<data, faults>>,
         \/ Becomes(p, [proc[p] EXCEPT !.pc = "paths", !.ids = ids])
         \/ Becomes(p, [proc[p] EXCEPT !.pc = "paths", !.sess = None, !.ids = ids])
  PROVE  Inv'
<1>0. /\ proc[p] \in Proc /\ UNCHANGED data /\ faults' \in 0..faults
      /\ \A d \in proc[p].paths : doc[d] # "none" /\ Known(d) /\ owner[in[d]] = None
  BY DEF Inv, ProcOK, PathsDoomed
<1>1. PICK x : /\ Becomes(p, x)
               /\ \/ x = [proc[p] EXCEPT !.pc = "paths", !.ids = ids]
                  \/ x = [proc[p] EXCEPT !.pc = "paths", !.sess = None, !.ids = ids]
  OBVIOUS
<1>2. x \in Proc /\ x.pc = "paths" /\ x.ids = ids /\ x.paths = proc[p].paths
  BY <1>0, <1>1 DEF Proc, Pc
<1> QED BY <1>0, <1>1, <1>2, MoveInv

LEMMA InvalidateOwnInv ==
  ASSUME Inv, NEW p \in Procs, InvalidateOwn(p)
  PROVE  Inv'
<1>1. proc[p].sess \in Sessions
  BY DEF InvalidateOwn, Inv, UploadsOwn, ProcOK, Proc
<1>2. {proc[p].sess} \in SUBSET Sessions /\ {proc[p].sess} # {}
  BY <1>1
<1>3. /\ Becomes(p, [proc[p] EXCEPT !.pc = "paths", !.sess = None,
                                    !.ids = {proc[p].sess}])
      /\ UNCHANGED <<data, faults>> /\ proc[p].pc \in {"authed", "select"}
  BY DEF InvalidateOwn
<1> QED BY <1>2, <1>3, CarriesPaths

LEMMA AfterCleanupInv ==
  ASSUME Inv, NEW p \in Procs, Becomes(p, AfterCleanup(p)), UNCHANGED <<data, faults>>
  PROVE  Inv'
<1>1. CASE AfterCleanup(p) = Start("new", "guest", None)
  BY <1>1, StartInv DEF Op
<1>2. CASE AfterCleanup(p) = Idle
  BY <1>2, StopInv DEF Stop, Inv
<1> QED BY <1>1, <1>2 DEF AfterCleanup

LEMMA SelectExpiredInv ==
  ASSUME Inv, NEW p \in Procs, SelectExpired(p)
  PROVE  Inv'
<1> DEFINE ids == {s \in Sessions : Expired(s)}
<1>1. CASE ids = {}
  BY <1>1, AfterCleanupInv DEF SelectExpired
<1>2. CASE ids # {}
  BY <1>2, CarriesPaths DEF SelectExpired
<1> QED BY <1>1, <1>2

LEMMA ReadPathsInv ==
  ASSUME Inv, NEW p \in Procs, ReadPaths(p)
  PROVE  Inv'
<1> DEFINE ds == DocsIn(OwnedBy(proc[p].ids))
           x == [proc[p] EXCEPT !.pc = "meetings", !.paths = ds]
<1>1. proc[p] \in Proc /\ ds \in SUBSET Docs /\ proc[p].ids # {} /\ Becomes(p, x)
  BY DEF ReadPaths, Inv, ProcOK, DocsIn
<1>2. x \in Proc /\ x.pc = "meetings" /\ x.paths = ds /\ x.ids = proc[p].ids
  BY <1>1 DEF Proc, Pc
<1>3. \A d \in ds : doc[d] # "none" /\ Known(d) /\ owner[in[d]] \in proc[p].ids
  BY DEF DocsIn, OwnedBy, Inv, UploadsKnown
<1>4. UNCHANGED data /\ faults' \in 0..faults
  BY DEF ReadPaths, Inv
<1> HIDE DEF ds, x
<1> QED BY <1>1, <1>2, <1>3, <1>4, MoveInv

LEMMA DeleteMeetingsInv ==
  ASSUME Inv, NEW p \in Procs, DeleteMeetings(p)
  PROVE  Inv'
<1> DEFINE ms == OwnedBy(proc[p].ids)
           x == [proc[p] EXCEPT !.pc = "sessions", !.mine = ms]
<1>1. /\ proc[p] \in Proc /\ ms \in SUBSET Meetings /\ proc[p].ids # {}
      /\ proc[p].pc = "meetings" /\ Becomes(p, x)
  BY DEF DeleteMeetings, Inv, ProcOK, OwnedBy
<1>2. /\ x \in Proc /\ x.pc = "sessions" /\ x.paths = proc[p].paths
      /\ x.ids = proc[p].ids
  BY <1>1 DEF Proc, Pc
<1>3. UNCHANGED data /\ faults' \in 0..faults
  BY DEF DeleteMeetings, Inv
<1>4. \A d \in x.paths :
        /\ doc[d] # "none" /\ Known(d)
        /\ owner[in[d]] # None => owner[in[d]] \in x.ids
  BY <1>1, <1>2 DEF Inv, PathsDoomed
<1> HIDE DEF ms, x
<1> QED BY <1>1, <1>2, <1>3, <1>4, MoveInv

(* The commit: whatever belonged to the deleted sessions is gone or has    *)
(* lost its owner, which is what the paths were waiting for.               *)
LEMMA DeleteSessionsInv ==
  ASSUME Inv, NEW p \in Procs, DeleteSessions(p)
  PROVE  Inv'
<1> DEFINE ids == proc[p].ids
           mine == proc[p].mine
           late == OwnedBy(ids) \ mine
<1> USE DEF Inv, DeleteSessions
<1>1. /\ proc' \in [Procs -> Proc] /\ proc'[p].pc = "objects"
      /\ proc'[p].paths = proc[p].paths
      /\ \A q \in Procs \ {p} : proc'[q] = proc[q]
  <2> DEFINE x == [proc[p] EXCEPT !.pc = "objects", !.mine = {}]
  <2>1. proc[p] \in Proc /\ proc' = [proc EXCEPT ![p] = x]
    BY DEF Becomes, ProcOK
  <2>2. x \in Proc /\ x.pc = "objects" /\ x.paths = proc[p].paths
    BY <2>1 DEF Proc, Pc
  <2> HIDE DEF x
  <2> QED BY <2>1, <2>2 DEF ProcOK
<1>2. ProcOK'
  BY <1>1 DEF ProcOK
<1>3. [Unborn EXCEPT !.state = "gone"] \in Life
  <2>1. Unborn \in Life
    BY DEF Unborn, Life
  <2> QED BY <2>1 DEF Life
<1>4. TablesOK'
  BY <1>3 DEF TablesOK
<1>5. \A m \in Meetings :
        /\ owner'[m] # None => owner'[m] = owner[m] /\ owner[m] \notin ids
        /\ meeting'[m] = "live" => meeting[m] = "live"
        /\ meeting[m] # "none" => meeting'[m] # "none"
        /\ meeting'[m] # "live" => owner'[m] = None
  BY DEF TablesOK, NoDeadOwned, OwnedBy
<1>6. \A d \in Docs : /\ doc'[d] = "none" <=> doc[d] = "none"
                      /\ doc'[d] \in {"live", "queued"} => doc'[d] = doc[d]
  BY DEF TablesOK, DocsIn
<1>7. \A d \in Docs : Known(d) => Known(d)'
  BY <1>5 DEF Known
<1>8. OwnersAreLive'
  BY <1>5 DEF OwnersAreLive, Live, TablesOK
<1>9. NoDeadOwned'
  BY <1>5 DEF NoDeadOwned
<1>10. UploadsKnown'
  BY <1>6, <1>7 DEF UploadsKnown
<1>11. UploadsOwn'
  BY <1>1, <1>5, <1>6, <1>7 DEF UploadsOwn, Uploading, Reachable, Known
<1>12. PathsDoomed'
  <2> SUFFICES ASSUME NEW q \in Procs, NEW d \in proc'[q].paths
               PROVE  /\ doc'[d] # "none" /\ Known(d)'
                      /\ owner'[in[d]] # None =>
                           /\ owner'[in[d]] \in proc'[q].ids
                           /\ proc'[q].pc \in {"meetings", "sessions"}
    BY DEF PathsDoomed
  <2>1. d \in proc[q].paths /\ d \in Docs
    BY <1>1 DEF ProcOK, Proc
  <2>2. doc[d] # "none" /\ Known(d)
    BY <2>1 DEF PathsDoomed
  <2>3. owner'[in[d]] # None =>
          owner'[in[d]] = owner[in[d]] /\ owner[in[d]] \in proc[q].ids
            /\ owner[in[d]] \notin ids /\ proc[q].pc \in {"meetings", "sessions"}
    BY <1>5, <2>1, <2>2 DEF PathsDoomed, Known
  <2> QED BY <1>1, <1>6, <1>7, <2>1, <2>2, <2>3
<1>13. RowsKeepObjects'
  BY <1>5, <1>6 DEF RowsKeepObjects, Reachable, UploadsKnown, Known
<1> QED BY <1>2, <1>4, <1>8, <1>9, <1>10, <1>11, <1>12, <1>13

LEMMA RemoveObjectInv ==
  ASSUME Inv, NEW p \in Procs, RemoveObject(p)
  PROVE  Inv'
<1> USE DEF Inv, RemoveObject
<1>1. PICK d \in proc[p].paths :
        /\ Becomes(p, [proc[p] EXCEPT !.paths = @ \ {d}])
        /\ \/ file' = [file EXCEPT ![d] = FALSE] /\ UNCHANGED faults
           \/ Fault /\ UNCHANGED file
  OBVIOUS
<1>2. /\ proc' \in [Procs -> Proc] /\ proc'[p].pc = "objects"
      /\ proc'[p].paths \subseteq proc[p].paths
      /\ \A q \in Procs \ {p} : proc'[q] = proc[q]
  BY <1>1 DEF Becomes, ProcOK, Proc
<1>3. d \in Docs /\ Known(d) /\ doc[d] # "none" /\ owner[in[d]] = None
  BY DEF PathsDoomed, ProcOK, Proc
<1>4. \A e \in Docs : e # d => file'[e] = file[e]
  BY <1>1 DEF TablesOK
<1>5. TablesOK' /\ ProcOK' /\ faults' \in 0..faults
  <2>1. faults' \in 0..faults
    BY <1>1, FaultType
  <2> QED BY <1>1, <1>2, <2>1 DEF TablesOK, ProcOK
<1>6. OwnersAreLive' /\ NoDeadOwned' /\ UploadsKnown'
  BY DEF OwnersAreLive, NoDeadOwned, UploadsKnown, Known, Live
<1>7. UploadsOwn'
  BY <1>2, <1>3, <1>4 DEF UploadsOwn, Uploading, Reachable, Known
<1>8. PathsDoomed'
  BY <1>2 DEF PathsDoomed, Known
<1>9. RowsKeepObjects'
  BY <1>3, <1>4, <1>5, FaultsLeft DEF RowsKeepObjects, Reachable
<1> QED BY <1>5, <1>6, <1>7, <1>8, <1>9, FaultsLeft

LEMMA FinishInv ==
  ASSUME Inv, NEW p \in Procs, Finish(p)
  PROVE  Inv'
<1>1. CASE proc[p].op = "reset"
  BY <1>1, StartInv DEF Finish, Op
<1>2. CASE proc[p].op # "reset"
  BY <1>2, AfterCleanupInv DEF Finish
<1> QED BY <1>1, <1>2

(* Steps that change the sessions only, and keep the live ones.            *)
LEMMA SessionsOnly ==
  ASSUME Inv, sess' \in [Sessions -> Life], \A s \in Sessions : Live(s) => Live(s)',
         ProcOK', UNCHANGED <<owner, meeting, doc, file, by, of, in, faults>>,
         \A q \in Procs : proc'[q] = proc[q] \/ proc'[q] = Idle
  PROVE  Inv'
<1> USE DEF Inv
<1>1. TablesOK'
  BY DEF TablesOK
<1>2. OwnersAreLive' /\ NoDeadOwned' /\ UploadsKnown' /\ RowsKeepObjects'
  BY DEF OwnersAreLive, NoDeadOwned, UploadsKnown, RowsKeepObjects, Reachable, Known, TablesOK
<1>3. UploadsOwn'
  BY ProcTypes DEF UploadsOwn, Uploading, Reachable, Known
<1>4. PathsDoomed'
  BY ProcTypes DEF PathsDoomed, Known
<1> QED BY <1>1, <1>2, <1>3, <1>4

LEMMA NewSessionInv ==
  ASSUME Inv, NEW p \in Procs, NEW s \in Sessions, NewSession(p, s)
  PROVE  Inv'
<1>1. sess' \in [Sessions -> Life] /\ \A t \in Sessions : Live(t) => Live(t)'
  BY DEF NewSession, Inv, TablesOK, Life, Newborn, Live
<1>2. ProcOK' /\ \A q \in Procs : proc'[q] = proc[q] \/ proc'[q] = Idle
  BY EndsAlone DEF NewSession, Inv, Stop, Becomes, ProcOK
<1> QED BY <1>1, <1>2, SessionsOnly DEF NewSession

LEMMA AgeInv ==
  ASSUME Inv, NEW s \in Sessions, Age(s)
  PROVE  Inv'
<1>1. sess' \in [Sessions -> Life] /\ \A t \in Sessions : Live(t) => Live(t)'
  <2>1. sess \in [Sessions -> Life]
    BY DEF Inv, TablesOK
  <2>2. CASE sess[s].idle < 2 /\ sess' = [sess EXCEPT ![s].idle = @ + 1]
    <3>1. sess[s].idle + 1 \in 0..2 /\ sess' = [sess EXCEPT ![s].idle = sess[s].idle + 1]
      BY <2>1, <2>2 DEF Life
    <3> QED BY <2>1, <3>1, AgesType
  <2>3. CASE sess' = [sess EXCEPT ![s].old = TRUE]
    BY <2>1, <2>3, AgesType, 0 \in 0..2
  <2> QED BY <2>2, <2>3 DEF Age
<1>2. ProcOK'
  BY DEF Age, Inv, ProcOK
<1> QED BY <1>1, <1>2, SessionsOnly DEF Age

LEMMA CrashInv ==
  ASSUME Inv, NEW p \in Procs, Crash(p)
  PROVE  Inv'
BY FaultType, StopInv DEF Crash, Inv

LEMMA BeginCleanupInv ==
  ASSUME Inv, NEW p \in Procs, BeginCleanup(p)
  PROVE  Inv'
BY StartInv DEF BeginCleanup, Op

-----------------------------------------------------------------------------
LEMMA StepInv == Inv /\ Step => Inv'
<1> SUFFICES ASSUME Inv, Step PROVE Inv'
  OBVIOUS
<1>1. ASSUME NEW p \in Procs, Continue(p) PROVE Inv'
  BY <1>1, TouchInv, InsertDocumentInv, EnqueueDocumentInv, CreateMeetingInv,
     FindMeetingInv, SaveObjectInv, NewSessionInv, InvalidateOwnInv,
     SelectExpiredInv, ReadPathsInv, DeleteMeetingsInv, DeleteSessionsInv,
     RemoveObjectInv, FinishInv
     DEF Continue
<1> QED
  BY <1>1, AuthenticateInv, BeginCleanupInv, CrashInv, AgeInv DEF Step

LEMMA NextInv == Inv /\ [Next]_vars => Inv'
<1>1. Inv /\ UNCHANGED vars => Inv'
  BY DEF vars, Inv, TablesOK, ProcOK, OwnersAreLive, NoDeadOwned, UploadsKnown,
         UploadsOwn, Uploading, PathsDoomed, RowsKeepObjects, Reachable, Known, Live
<1> QED BY <1>1, StepInv DEF Next

LEMMA InvAlways == Spec => []Inv
BY InitInv, NextInv, PTL DEF Spec

(* Every variable keeps its type, for any number of sessions, meetings,    *)
(* documents and requests: a deletion always has sessions to delete.       *)
THEOREM SessionTypes == Spec => []TypeOK
<1> DEFINE RacedOK == raced \in [Sessions -> BOOLEAN]
<1>1. Init => RacedOK
  BY DEF Init
<1>2. RacedOK /\ [Next]_vars => RacedOK'
  BY DEF Next, vars
<1>3. Inv /\ RacedOK => TypeOK
  BY DEF Inv, TypeOK
<1> QED BY <1>1, <1>2, <1>3, InvAlways, PTL DEF Spec

(* A meeting never belongs to a session that is gone, or to another than   *)
(* the one that created it.                                                *)
THEOREM OwnersStayLive == Spec => []OwnersAreLive
BY InvAlways, PTL DEF Inv

(* A guest only ever uploads into a meeting of the same guest.             *)
THEOREM UploadsStayOwned == Spec => []UploadsStayInOwnMeetings
<1>1. Inv => UploadsStayInOwnMeetings
  BY DEF Inv, UploadsKnown, UploadsStayInOwnMeetings
<1> QED BY <1>1, InvAlways, PTL

(* No deletion, whatever crashes, removes the object of a row its guest    *)
(* can still reach: such a row has its object, unless a fault broke its    *)
(* upload off after the insert and before it was confirmed (main.py).      *)
THEOREM ReachableRowsHaveObjects == Spec => []RowsKeepObjects
BY InvAlways, PTL DEF Inv
=============================================================================
