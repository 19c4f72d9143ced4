----------------------------- MODULE SearchIndex -----------------------------
(***************************************************************************)
(* What the indexing pipeline promises to retrieval and to the clients     *)
(* that poll documents, without workers, queue, ORM or reaper.             *)
(*                                                                         *)
(* A document has a reported status, the chunk sets retrieval can see and  *)
(* the one published last.  "indexed" is only ever reported together with  *)
(* a new chunk set; every other report leaves the chunk sets alone; old    *)
(* sets are retired, the latest one never; a deleted document is gone.     *)
(***************************************************************************)
CONSTANTS Docs, Gens, NoGen

VARIABLES
  status,   \* status[d]: what GET /documents/{id} reports
  visible,  \* visible[d]: the chunk sets retrieval can see
  latest    \* latest[d]: the chunk set published last

promised == <<status, visible, latest>>

Absent == {"unborn", "gone"}
Reported == {"pending", "processing", "failed"}

Init ==
  /\ status = [d \in Docs |-> "unborn"]
  /\ visible = [d \in Docs |-> {}]
  /\ latest = [d \in Docs |-> NoGen]

Create(d) ==
  /\ status[d] = "unborn"
  /\ status' = [status EXCEPT ![d] = "pending"]
  /\ UNCHANGED <<visible, latest>>

(* Any existing documents may be reported as waiting, as being processed   *)
(* or as failed (the reaper reports several in one step).                  *)
Report ==
  /\ status' \in [Docs -> Absent \cup Reported \cup {"indexed"}]
  /\ \A d \in Docs :
       status'[d] = status[d] \/ (status[d] \notin Absent /\ status'[d] \in Reported)
  /\ UNCHANGED <<visible, latest>>

Publish(d, g) ==
  /\ status[d] \notin Absent /\ g \notin visible[d]
  /\ status' = [status EXCEPT ![d] = "indexed"]
  /\ visible' = [visible EXCEPT ![d] = @ \cup {g}]
  /\ latest' = [latest EXCEPT ![d] = g]

Retire(d) ==
  /\ \E old \in SUBSET visible[d] :
       /\ latest[d] \notin old
       /\ visible' = [visible EXCEPT ![d] = @ \ old]
  /\ UNCHANGED <<status, latest>>

Remove(d) ==
  /\ status[d] \notin Absent
  /\ status' = [status EXCEPT ![d] = "gone"]
  /\ visible' = [visible EXCEPT ![d] = {}]
  /\ latest' = [latest EXCEPT ![d] = NoGen]

Next ==
  \/ \E d \in Docs : Create(d) \/ Retire(d) \/ Remove(d)
  \/ \E d \in Docs, g \in Gens : Publish(d, g)
  \/ Report

Spec == Init /\ [][Next]_promised
=============================================================================
