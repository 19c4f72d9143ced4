------------------------- MODULE IndexingOutcomesProofs -------------------------
(***************************************************************************)
(* What the pipeline achieves, for any number of documents and workers:    *)
(* stale chunk sets go and are bounded, the reaper leaves working runs     *)
(* alone, a document fails only for a cause and is left waiting only by    *)
(* faults, and its stamps fit its status.  The arguments rest on the one   *)
(* run per document of RunsApart: a single API event loop, or no reindex.  *)
(***************************************************************************)
EXTENDS IndexingProofs, FiniteSetTheorems

Faultless == faults = MaxFaults

(* A step after which nothing has failed is not a fault.                   *)
LEMMA FaultlessBack ==
  ASSUME TypeOK, [Next]_vars, Faultless'
  PROVE  Faultless /\ ~Fault
<1>1. faults' = faults \/ Fault
  <2>1. ASSUME NEW r \in Reqs, ApiStep(r) \/ ApiCrash(LoopOf[r])
        PROVE  faults' = faults \/ Fault
    BY <2>1 DEF ApiStep, CreateDocument, SaveUpload, ReindexCheck, CommitUpload,
       ReindexCommit, EnqueueFetch, EnqueueJob, EnqueueError, MarkEnqueueFailed, RequestFails,
     ApiCrash
  <2>2. ASSUME NEW w \in Workers,
               \/ RunStep(w) \/ ReclaimJob(w) \/ TransientError(w)
               \/ LostCommitReply(w) \/ WorkerCrash(w)
        PROVE  faults' = faults \/ Fault
    BY <2>2 DEF RunStep, LoadDocument, MarkProcessing, CapturePrevious,
       ExtractAndEmbed, CommitIndexed, CleanupPrevious, ReloadForFailure,
       MarkFailed, JobSucceeded, JobRaised, ReclaimJob, TransientError,
       LostCommitReply, WorkerCrash
  <2> QED
    BY <2>1, <2>2 DEF Next, SessionDelete, SchedulerEnqueue, Dequeue, ReapSelect,
       ReapCommit, ReaperCrash, Tick, vars
<1> QED BY <1>1, BoundAssumption DEF TypeOK, Faultless, Fault

(* What a fault-free step can be.                                          *)
Undisturbed ==
  \/ \E r \in Reqs, d \in Docs :
       CreateDocument(r, d) \/ SaveUpload(r, d) \/ ReindexCheck(r, d)
  \/ \E r \in Reqs : \/ CommitUpload(r) \/ ReindexCommit(r) \/ EnqueueFetch(r)
                     \/ EnqueueJob(r) \/ MarkEnqueueFailed(r)
  \/ \E d \in Docs : SessionDelete(d) \/ SchedulerEnqueue(d)
  \/ \E w \in Workers, d \in Docs : Dequeue(w, d)
  \/ \E w \in Workers : RunStep(w) \/ ReclaimJob(w)
  \/ \E age \in ReapAges : ReapSelect(age)
  \/ ReapCommit \/ Tick \/ UNCHANGED vars

LEMMA NoFaultNoDisturbance == [Next]_vars /\ ~Fault => Undisturbed
BY DEF Next, ApiStep, ApiCrash, EnqueueError, RequestFails, TransientError, LostCommitReply,
   WorkerCrash, ReaperCrash, Undisturbed

-----------------------------------------------------------------------------
(* Copies of a document *)

(* A run that has captured the chunk sets of its document knows them all,  *)
(* and after its commit all but the new one.                               *)
Sets(x) ==
  /\ x.pc \in {"work", "commit"} => chunks[x.doc] \subseteq x.prev
  /\ x.pc = "cleanup" => chunks[x.doc] \subseteq x.prev \cup {newest[x.doc]}

(* So what is there is the latest set, what a run is about to remove, and  *)
(* what each fault has left behind.                                        *)
CleaningUp(d) == \E w \in Workers : run[w].pc = "cleanup" /\ run[w].doc = d
Spared == MaxFaults - faults
CopiesOK(d) ==
  /\ IsFiniteSet(chunks[d])
  /\ Cardinality(chunks[d]) <= Spared + 2
  /\ ~CleaningUp(d) => Cardinality(chunks[d]) <= Spared + 1

CopyInv ==
  /\ \A w \in Workers : Sets(run[w])
  /\ \A d \in Docs : CopiesOK(d)

(* Steps that publish and remove nothing: a cleanup that is given up is    *)
(* paid for by a fault.                                                    *)
LEMMA CopiesKept ==
  ASSUME TypeOK, faults' \in 0..MaxFaults, CopyInv, UNCHANGED <<chunks, newest>>,
         \A w \in Workers :
           \/ run'[w] = run[w] \/ run'[w].pc \notin {"work", "commit", "cleanup"}
           \/ run'[w].pc # "cleanup" /\ chunks[run'[w].doc] \subseteq run'[w].prev,
         \/ faults' = faults /\ \A w \in Workers : run[w].pc = "cleanup" => run'[w] = run[w]
         \/ faults' = faults - 1
  PROVE  CopyInv'
<1>1. ASSUME NEW w \in Workers PROVE Sets(run[w])'
  BY <1>1 DEF CopyInv, Sets
<1>2. faults \in Nat /\ faults' \in Nat /\ MaxFaults \in Nat
  BY BoundAssumption DEF TypeOK
<1>3. ASSUME NEW d \in Docs PROVE CopiesOK(d)'
  <2>1. CopiesOK(d) /\ Cardinality(chunks[d]) \in Nat
    BY FS_CardinalityType DEF CopyInv, CopiesOK
  <2>2. CASE faults' = faults /\ \A w \in Workers : run[w].pc = "cleanup" => run'[w] = run[w]
    <3>1. CleaningUp(d) => CleaningUp(d)'
      BY <2>2 DEF CleaningUp
    <3> QED BY <2>1, <2>2, <3>1 DEF CopiesOK, Spared
  <2>3. CASE faults' = faults - 1
    <3>1. Spared' = Spared + 1 /\ Spared \in Int
      BY <1>2, <2>3 DEF Spared
    <3> QED BY <2>1, <3>1 DEF CopiesOK
  <2> QED BY <2>2, <2>3
<1> QED BY <1>1, <1>3 DEF CopyInv

(* A step of a run that touches its own document only.                     *)
LEMMA CopiesOfOne ==
  ASSUME TypeOK, JobInv, CopyInv, NEW w \in Workers, run[w].pc # "idle",
         \A v \in Workers \ {w} : run'[v] = run[v],
         \A d \in Docs \ {run[w].doc} : chunks'[d] = chunks[d] /\ newest'[d] = newest[d],
         run'[w].doc = run[w].doc, Spared' \in {Spared, Spared + 1},
         Sets(run[w])', CopiesOK(run[w].doc)'
  PROVE  CopyInv'
<1>1. \A v \in Workers \ {w} : run[v].pc # "idle" => run[v].doc \in Docs \ {run[w].doc}
  BY DEF JobInv, Busy, TypeOK, RunOK
<1>2. \A v \in Workers : Sets(run[v])'
  BY <1>1 DEF CopyInv, Sets
<1>3. ASSUME NEW d \in Docs \ {run[w].doc} PROVE CopiesOK(d)'
  <2>1. CleaningUp(d)' <=> CleaningUp(d)
    BY DEF CleaningUp
  <2>2. CopiesOK(d) /\ Cardinality(chunks[d]) \in Nat /\ Spared \in Int
    BY FS_CardinalityType, BoundAssumption DEF CopyInv, CopiesOK, Spared, TypeOK
  <2> QED BY <2>1, <2>2 DEF CopiesOK
<1> QED BY <1>2, <1>3 DEF CopyInv

(* The chunks of a commit replace nothing, and are all there is when the   *)
(* run found none before.                                                  *)
LEMMA CopiesPublished ==
  ASSUME TypeOK, JobInv, CopyInv, NEW w \in Workers, run[w].pc = "commit", Publish(w)
  PROVE  LET d == run[w].doc IN
         \E g : /\ d \in Docs
                /\ chunks'[d] = chunks[d] \cup {g} /\ newest'[d] = g
                /\ \A e \in Docs \ {d} : chunks'[e] = chunks[e] /\ newest'[e] = newest[e]
                /\ IsFiniteSet(chunks'[d])
                /\ Cardinality(chunks'[d]) <= Spared + 2
                /\ chunks[d] \subseteq run[w].prev
                /\ run[w].prev = {} => Cardinality(chunks'[d]) = 1
<1>1. PICK d \in Docs : d = run[w].doc
  BY DEF TypeOK, RunOK
<1>2. PICK g : /\ chunks' = [chunks EXCEPT ![d] = @ \cup {g}]
               /\ newest' = [newest EXCEPT ![d] = g]
  BY <1>1 DEF Publish
<1>3. /\ chunks'[d] = chunks[d] \cup {g} /\ newest'[d] = g
      /\ \A e \in Docs \ {d} : chunks'[e] = chunks[e] /\ newest'[e] = newest[e]
  BY <1>1, <1>2 DEF TypeOK
<1>4. ~CleaningUp(d)
  BY <1>1 DEF CleaningUp, JobInv, Busy
<1>5. /\ IsFiniteSet(chunks[d]) /\ Cardinality(chunks[d]) <= Spared + 1
      /\ chunks[d] \subseteq run[w].prev
  BY <1>1, <1>4 DEF CopyInv, CopiesOK, Sets
<1>6. Cardinality(chunks[d]) \in Nat /\ Spared \in Int
  BY <1>5, FS_CardinalityType, BoundAssumption DEF Spared, TypeOK
<1>7. IsFiniteSet(chunks'[d]) /\ Cardinality(chunks'[d]) <= Spared + 2
  <2>1. /\ IsFiniteSet(chunks[d] \cup {g})
        /\ Cardinality(chunks[d] \cup {g}) \in {Cardinality(chunks[d]), Cardinality(chunks[d]) + 1}
    BY <1>5, FS_AddElement
  <2>2. Cardinality(chunks'[d]) \in {Cardinality(chunks[d]), Cardinality(chunks[d]) + 1}
    BY <1>3, <2>1
  <2> QED BY <1>3, <1>5, <1>6, <2>1, <2>2
<1>8. run[w].prev = {} => Cardinality(chunks'[d]) = 1
  <2> SUFFICES ASSUME run[w].prev = {} PROVE chunks'[d] = {g}
    BY FS_Singleton
  <2> QED BY <1>3, <1>5
<1> QED BY <1>1, <1>3, <1>5, <1>7, <1>8

LEMMA CopiesRun ==
  ASSUME TypeOK, faults' \in 0..MaxFaults, JobInv, CopyInv, NEW w \in Workers,
         \/ RunStep(w) \/ ReclaimJob(w) \/ TransientError(w)
         \/ LostCommitReply(w) \/ WorkerCrash(w)
  PROVE  CopyInv'
<1> USE DEF TypeOK
<1>0. faults \in Nat /\ MaxFaults \in Nat /\ Spared \in Nat
  BY BoundAssumption DEF Spared
<1>1. ASSUME NEW x, SetRun(w, x), UNCHANGED <<chunks, newest>>, x.pc # "cleanup",
             x.pc \in {"work", "commit"} => chunks[x.doc] \subseteq x.prev,
             \/ faults' = faults /\ run[w].pc # "cleanup"
             \/ faults' = faults - 1
      PROVE  CopyInv'
  <2>1. run'[w] = x /\ \A v \in Workers \ {w} : run'[v] = run[v]
    BY <1>1 DEF RunOK, SetRun
  <2> QED BY <1>1, <2>1, CopiesKept
<1>2. ASSUME NEW pc \in RunPc \ {"work", "commit", "cleanup"}, NEW s,
             GoTo(w, pc, s) \/ Quit(w, pc) \/ SetRun(w, IdleRun),
             UNCHANGED <<chunks, newest>>,
             \/ faults' = faults /\ run[w].pc # "cleanup"
             \/ faults' = faults - 1
      PROVE  CopyInv'
  <2>1. PICK x : SetRun(w, x) /\ x.pc \notin {"work", "commit", "cleanup"}
    BY <1>2 DEF GoTo, Quit, At, IdleRun
  <2> QED BY <1>1, <1>2, <2>1
<1>3. CASE \/ LoadDocument(w) \/ MarkProcessing(w) \/ ReloadForFailure(w)
           \/ MarkFailed(w) \/ JobSucceeded(w) \/ JobRaised(w) \/ ReclaimJob(w)
  <2>1. run[w].pc # "cleanup" /\ UNCHANGED <<chunks, newest, faults>>
    BY <1>3 DEF LoadDocument, MarkProcessing, ReloadForFailure, MarkFailed,
       JobSucceeded, JobRaised, ReclaimJob
  <2>2. \E pc \in RunPc \ {"work", "commit", "cleanup"} : \E s :
          GoTo(w, pc, s) \/ Quit(w, pc) \/ SetRun(w, IdleRun)
    BY <1>3 DEF LoadDocument, MarkProcessing, ReloadForFailure, MarkFailed,
       JobSucceeded, JobRaised, ReclaimJob, RunPc
  <2> QED BY <1>2, <2>1, <2>2
<1>4. CASE TransientError(w) \/ WorkerCrash(w)
  <2>1. /\ UNCHANGED <<chunks, newest>> /\ faults' = faults - 1
        /\ \E pc \in {"fail", "raise", "ok", "dead"} : Quit(w, pc)
    BY <1>4 DEF TransientError, WorkerCrash, Fault
  <2> QED BY <1>2, <2>1 DEF RunPc
<1>5. CASE CapturePrevious(w)
  <2> DEFINE x == At("work", run[w].doc, run[w].seen, chunks[run[w].doc])
  <2>1. x.pc = "work" /\ chunks[x.doc] \subseteq x.prev
    BY DEF At
  <2> QED BY <1>1, <1>5, <2>1 DEF CapturePrevious
<1>6. CASE ExtractAndEmbed(w)
  <2>1. CASE GoTo(w, "commit", run[w].seen)
    <3> DEFINE x == At("commit", run[w].doc, run[w].seen, run[w].prev)
    <3>1. x.pc = "commit" /\ x.doc = run[w].doc /\ x.prev = run[w].prev
      BY DEF At
    <3>2. chunks[x.doc] \subseteq x.prev
      BY <1>6, <3>1 DEF ExtractAndEmbed, CopyInv, Sets
    <3> QED BY <1>1, <1>6, <2>1, <3>1, <3>2 DEF ExtractAndEmbed, GoTo
  <2>2. CASE Quit(w, "fail")
    BY <1>2, <1>6, <2>2 DEF ExtractAndEmbed, RunPc
  <2> QED BY <1>6, <2>1, <2>2 DEF ExtractAndEmbed
<1>7. CASE CommitIndexed(w) \/ LostCommitReply(w)
  <2>1. run[w].pc = "commit" /\ run[w].doc \in Docs
    BY <1>7 DEF CommitIndexed, LostCommitReply, RunOK
  <2>2. CASE Quit(w, "fail") /\ UNCHANGED <<chunks, newest, faults>>
    BY <1>2, <2>1, <2>2 DEF RunPc
  <2>3. CASE CommitIndexed(w) /\ Publish(w)
             /\ GoTo(w, IF run[w].prev = {} THEN "ok" ELSE "cleanup", NoRow)
    <3>1. /\ run'[w].doc = run[w].doc /\ run'[w].prev = run[w].prev
          /\ run'[w].pc = IF run[w].prev = {} THEN "ok" ELSE "cleanup"
          /\ \A v \in Workers \ {w} : run'[v] = run[v]
          /\ Spared' = Spared
      BY <2>3 DEF CommitIndexed, GoTo, SetRun, At, RunOK, Spared
    <3>2. Sets(run[w])'
      BY <2>1, <2>3, <3>1, CopiesPublished DEF Sets
    <3>3. run[w].prev # {} => CleaningUp(run[w].doc)'
      BY <3>1 DEF CleaningUp
    <3>4. CopiesOK(run[w].doc)'
      BY <1>0, <2>1, <2>3, <3>1, <3>3, CopiesPublished DEF CopiesOK
    <3> QED BY <2>1, <2>3, <3>1, <3>2, <3>4, CopiesPublished, CopiesOfOne
  <2>4. CASE LostCommitReply(w)
    <3>1. /\ run'[w].doc = run[w].doc /\ run'[w].pc = "fail"
          /\ \A v \in Workers \ {w} : run'[v] = run[v]
      BY <2>4 DEF LostCommitReply, Quit, SetRun, At, RunOK
    <3>2. Spared' = Spared + 1 /\ Publish(w)
      BY <1>0, <2>4 DEF LostCommitReply, Fault, Spared
    <3>3. Sets(run[w])'
      BY <3>1 DEF Sets
    <3>4. CopiesOK(run[w].doc)'
      <4>1. /\ IsFiniteSet(chunks'[run[w].doc])
            /\ Cardinality(chunks'[run[w].doc]) <= Spared + 2
        BY <2>1, <3>2, CopiesPublished
      <4>2. Cardinality(chunks'[run[w].doc]) \in Nat
        BY <4>1, FS_CardinalityType
      <4> QED BY <1>0, <3>1, <3>2, <4>1, <4>2 DEF CopiesOK
    <3> QED BY <2>1, <3>1, <3>2, <3>3, <3>4, CopiesPublished, CopiesOfOne
  <2> QED BY <1>7, <2>2, <2>3, <2>4 DEF CommitIndexed
<1>8. CASE CleanupPrevious(w)
  <2>0. PICK d \in Docs : /\ d = run[w].doc /\ run[w].pc = "cleanup"
                          /\ chunks[d] \subseteq run[w].prev \cup {newest[d]}
    BY <1>8 DEF CleanupPrevious, RunOK, CopyInv, Sets
  <2>1. /\ chunks' = [chunks EXCEPT ![d] = @ \ run[w].prev] /\ UNCHANGED <<newest, faults>>
        /\ run'[w].pc = "ok" /\ run'[w].doc = run[w].doc
        /\ \A v \in Workers \ {w} : run'[v] = run[v]
    BY <1>8, <2>0 DEF CleanupPrevious, Quit, SetRun, At, RunOK
  <2>2. IsFiniteSet(chunks'[d]) /\ Cardinality(chunks'[d]) <= 1
    <3>1. chunks'[d] \in SUBSET {newest[d]}
      BY <2>0, <2>1
    <3>2. IsFiniteSet({newest[d]}) /\ Cardinality({newest[d]}) = 1
      BY FS_Singleton
    <3> QED BY <3>1, <3>2, FS_Subset
  <2>3. CopiesOK(run[w].doc)'
    <3>1. Cardinality(chunks'[d]) \in Nat
      BY <2>2, FS_CardinalityType
    <3>2. Spared' = Spared
      BY <2>1 DEF Spared
    <3> QED BY <1>0, <2>0, <2>1, <2>2, <3>1, <3>2 DEF CopiesOK
  <2>4. Sets(run[w])' /\ Spared' = Spared
    BY <2>1 DEF Sets, Spared
  <2> QED BY <2>0, <2>1, <2>3, <2>4, CopiesOfOne
<1> QED BY <1>3, <1>4, <1>5, <1>6, <1>7, <1>8 DEF RunStep

LEMMA CopiesStep == TypeOK /\ JobInv /\ CopyInv /\ [Next]_vars => CopyInv'
<1> SUFFICES ASSUME TypeOK, JobInv, CopyInv, [Next]_vars PROVE CopyInv'
  OBVIOUS
<1> USE DEF TypeOK
<1>0. faults' \in 0..MaxFaults
  BY TypeStep
<1>1. ASSUME UNCHANGED <<run, chunks, newest>>, faults' = faults \/ faults' = faults - 1
      PROVE  CopyInv'
  BY <1>0, <1>1, CopiesKept
<1>2. ASSUME NEW r \in Reqs, ApiStep(r) \/ ApiCrash(LoopOf[r]) PROVE CopyInv'
  BY <1>1, <1>2 DEF ApiStep, CreateDocument, SaveUpload, ReindexCheck, CommitUpload,
     ReindexCommit, EnqueueFetch, EnqueueJob, EnqueueError, MarkEnqueueFailed, RequestFails,
     ApiCrash, Fault
<1>3. ASSUME NEW d \in Docs, SessionDelete(d) PROVE CopyInv'
  <2>1. /\ UNCHANGED <<run, faults>> /\ chunks'[d] = {}
        /\ \A e \in Docs \ {d} : newest'[e] = newest[e] /\ chunks'[e] = chunks[e]
    BY <1>3 DEF SessionDelete
  <2>2. \A w \in Workers : run[w].pc # "idle" => run[w].doc \in Docs
    BY DEF RunOK
  <2>3. \A w \in Workers : Sets(run[w])'
    BY <2>1, <2>2 DEF CopyInv, Sets
  <2>4. CopiesOK(d)'
    BY <2>1, FS_EmptySet, BoundAssumption DEF CopiesOK, Spared
  <2>5. \A e \in Docs \ {d} : CopiesOK(e)'
    BY <2>1 DEF CopyInv, CopiesOK, CleaningUp, Spared
  <2> QED BY <2>3, <2>4, <2>5 DEF CopyInv
<1>4. ASSUME NEW w \in Workers, NEW d \in Docs, Dequeue(w, d) PROVE CopyInv'
  <2>1. /\ run[w].pc = "idle" /\ run'[w].pc = "load"
        /\ \A v \in Workers \ {w} : run'[v] = run[v]
        /\ UNCHANGED <<chunks, newest, faults>>
    BY <1>4 DEF Dequeue, SetRun, At, RunOK
  <2> QED BY <1>0, <2>1, CopiesKept
<1>5. CASE \/ \E d \in Docs : SchedulerEnqueue(d)
           \/ \E age \in ReapAges : ReapSelect(age)
           \/ ReapCommit \/ ReaperCrash \/ Tick \/ UNCHANGED vars
  BY <1>1, <1>5 DEF SchedulerEnqueue, ReapSelect, ReapCommit, ReaperCrash, Fault, Tick, vars
<1> QED BY <1>0, <1>2, <1>3, <1>4, <1>5, CopiesRun DEF Next

LEMMA CopiesAlways ==
  ASSUME RunsApart
  PROVE  Spec => [](ApartInv /\ CopyInv)
<1>1. Init => ApartInv /\ CopyInv
  <2> SUFFICES ASSUME Init PROVE CopyInv
    BY ApartInit
  <2> QED BY FS_EmptySet, BoundAssumption
          DEF Init, CopyInv, Sets, CopiesOK, Spared, IdleRun, At
<1>2. ApartInv /\ CopyInv /\ [Next]_vars => (ApartInv /\ CopyInv)'
  BY ApartStep, CopiesStep DEF ApartInv
<1> QED BY <1>1, <1>2, PTL DEF Spec

(* Each crash, error or lost reply leaves at most one more copy of a text  *)
(* behind, for any number of documents, workers, runs and faults: what one *)
(* cleanup misses, the next one removes.                                   *)
THEOREM StaleCopiesAreBounded ==
  ASSUME RunsApart
  PROVE  Spec => []CopiesBounded
<1>1. TypeOK /\ ApartInv /\ CopyInv => CopiesBounded
  <2> SUFFICES ASSUME TypeOK, JobInv, CopyInv, NEW d \in Docs
               PROVE  Cardinality(chunks[d]) <=
                        1 + (MaxFaults - faults)
                          + Cardinality({w \in LiveOn(d) : run[w].pc = "cleanup"})
    BY DEF ApartInv, CopiesBounded
  <2> DEFINE Cleaners == {w \in LiveOn(d) : run[w].pc = "cleanup"}
  <2>1. CopiesOK(d) /\ Cardinality(chunks[d]) \in Nat /\ Spared \in Nat
    BY FS_CardinalityType, BoundAssumption DEF CopyInv, CopiesOK, Spared, TypeOK
  <2>2. CASE CleaningUp(d)
    <3>1. PICK w \in Workers : run[w].pc = "cleanup" /\ run[w].doc = d
      BY <2>2 DEF CleaningUp
    <3>2. Cleaners = {w}
      BY <3>1 DEF LiveOn, Live, JobInv, Busy
    <3>3. Cardinality(Cleaners) = 1
      BY <3>2, FS_Singleton
    <3> QED BY <2>1, <3>3 DEF CopiesOK, Spared
  <2>3. CASE ~CleaningUp(d)
    <3>1. Cleaners = {}
      BY <2>3 DEF CleaningUp, LiveOn
    <3>2. Cardinality(Cleaners) = 0
      BY <3>1, FS_EmptySet
    <3> QED BY <2>1, <2>3, <3>2 DEF CopiesOK, Spared
  <2> QED BY <2>2, <2>3
<1> QED BY <1>1, CopiesAlways, TypeCorrect, PTL

(* While nothing has failed, a document has no chunk set but the latest    *)
(* once the run that published it has cleaned up: retrieval does not see   *)
(* the same text twice.                                                    *)
THEOREM StaleChunksGo ==
  ASSUME RunsApart
  PROVE  Spec => []NoStaleChunks
<1>1. ChunkInv /\ CopyInv => NoStaleChunks
  <2> SUFFICES ASSUME ChunkInv, CopyInv, NEW d \in Docs, faults = MaxFaults,
                      chunks[d] # {}, \A w \in LiveOn(d) : run[w].pc # "cleanup"
               PROVE  chunks[d] = {newest[d]}
    BY DEF NoStaleChunks
  <2>1. ~CleaningUp(d)
    BY DEF CleaningUp, LiveOn, Live
  <2>2. newest[d] \in chunks[d]
    BY DEF ChunkInv, LatestChunksKept
  <2>3. IsFiniteSet(chunks[d]) /\ Cardinality(chunks[d]) <= 1
    BY <2>1, BoundAssumption DEF CopyInv, CopiesOK, Spared
  <2>4. Cardinality(chunks[d]) = 1
    BY <2>3, FS_CardinalityType, FS_EmptySet
  <2> QED BY <2>2, <2>3, <2>4, FS_Singleton
<1> QED BY <1>1, CopiesAlways, ChunkCorrect, PTL

-----------------------------------------------------------------------------
(* Stamps *)

(* A stamp a working run depends on is never taken back or let go stale,   *)
(* when no endpoint resets rows in between.                                *)
Stamped(w) ==
  Working(w) /\ row[run[w].doc].status = "processing" => row[run[w].doc].started \in {0, 1}
StampInv ==
  /\ \A r \in Reqs : req[r].pc # "recommit"
  /\ \A d \in DOMAIN reap : reap[d].status = "processing"
  /\ \A w \in Workers : Stamped(w)

(* A row that is processing after a step was so before, with the same or a *)
(* new stamp.                                                              *)
StampKept(d) ==
  row'[d].status = "processing" =>
    row[d].status = "processing" /\ row'[d].started \in {row[d].started, Now}

LEMMA KeepStamps ==
  ASSUME TypeOK, StampInv, \A d \in Docs : StampKept(d),
         \A w \in Workers : Working(w)' => Working(w) /\ run'[w].doc = run[w].doc,
         \A r \in Reqs : req'[r].pc # "recommit", UNCHANGED reap
  PROVE  StampInv'
<1>1. ASSUME NEW w \in Workers PROVE Stamped(w)'
  <2>1. Working(w)' => run[w].doc \in Docs /\ run'[w].doc = run[w].doc /\ Working(w)
    BY DEF Working, TypeOK, RunOK
  <2> QED BY <2>1 DEF StampInv, Stamped, StampKept, Now
<1> QED BY <1>1 DEF StampInv

LEMMA WorkingMoves ==
  ASSUME TypeOK, NEW w \in Workers, NEW x, SetRun(w, x),
         x.pc \in {"capture", "work", "commit"} => Working(w) /\ x.doc = run[w].doc
  PROVE  \A v \in Workers : Working(v)' => Working(v) /\ run'[v].doc = run[v].doc
<1> USE DEF TypeOK
<1>1. run'[w] = x /\ \A v \in Workers \ {w} : run'[v] = run[v]
  BY DEF SetRun, RunOK
<1> QED BY <1>1 DEF Working

LEMMA QuitMoves ==
  ASSUME TypeOK, NEW w \in Workers, NEW pc \in RunPc \ {"capture", "work", "commit"},
         \/ Quit(w, pc) \/ \E s : GoTo(w, pc, s)
  PROVE  \A v \in Workers : Working(v)' => Working(v) /\ run'[v].doc = run[v].doc
<1>1. PICK s, p : SetRun(w, At(pc, run[w].doc, s, p))
  BY DEF Quit, GoTo
<1>2. At(pc, run[w].doc, s, p).pc = pc
  BY DEF At
<1> QED BY <1>1, <1>2, WorkingMoves

LEMMA StampApi ==
  ASSUME "reindex" \notin Ops, TypeOK, StampInv, NEW r \in Reqs, ApiStep(r)
  PROVE  StampInv'
<1> USE DEF TypeOK
<1>1. UNCHANGED <<run, reap>>
  BY DEF ApiStep, CreateDocument, SaveUpload, ReindexCheck, CommitUpload,
     ReindexCommit, EnqueueFetch, EnqueueJob, EnqueueError, MarkEnqueueFailed,
     RequestFails
<1>2. \A q \in Reqs : req'[q].pc # "recommit"
  <2>1. \/ \E pc \in ReqPc \ {"recommit"} : \E d, u, s : SetReq(r, Call(pc, d, u, s))
        \/ SetReq(r, IdleReq)
    BY DEF ApiStep, CreateDocument, SaveUpload, ReindexCheck, CommitUpload,
       ReindexCommit, EnqueueFetch, EnqueueJob, EnqueueError, MarkEnqueueFailed, RequestFails,
     StampInv, ReqPc
  <2>2. \E x : SetReq(r, x) /\ x.pc # "recommit"
    <3>1. IdleReq.pc # "recommit"
      BY DEF IdleReq, Call
    <3>2. \A pc \in ReqPc \ {"recommit"} : \A d, u, s : Call(pc, d, u, s).pc # "recommit"
      BY DEF Call
    <3> QED BY <2>1, <3>1, <3>2
  <2> QED BY <2>2 DEF SetReq, StampInv, ReqOK
<1>3. ASSUME NEW d \in Docs PROVE StampKept(d)
  <2>1. CASE UNCHANGED row
    BY <2>1 DEF StampKept
  <2>2. ASSUME NEW e \in Docs, NEW t, row' = [row EXCEPT ![e] = NewRow(t)]
        PROVE  StampKept(d)
    BY <2>2 DEF StampKept, NewRow
  <2>3. ASSUME NEW e \in Docs, NEW seen, row' = [row EXCEPT ![e] = QueueFailed(@, seen)]
        PROVE  StampKept(d)
    BY <2>3, QueueFailedType DEF StampKept
  <2>4. CASE MarkEnqueueFailed(r)
    BY <2>1, <2>3, <2>4 DEF MarkEnqueueFailed, ReqOK
  <2>5. CASE CommitUpload(r)
    BY <2>1, <2>2, <2>5 DEF CommitUpload, ReqOK
  <2>6. ASSUME NEW e \in Docs, CreateDocument(r, e) PROVE StampKept(d)
    BY <2>2, <2>6 DEF CreateDocument
  <2>7. ~ReindexCommit(r) /\ \A e \in Docs : ~ReindexCheck(r, e)
    BY DEF ReindexCommit, ReindexCheck, StampInv
  <2> QED
    BY <2>1, <2>4, <2>5, <2>6, <2>7
       DEF ApiStep, SaveUpload, EnqueueFetch, EnqueueJob, EnqueueError, RequestFails
<1>4. \A w \in Workers : Working(w)' => Working(w) /\ run'[w].doc = run[w].doc
  BY <1>1 DEF Working
<1> QED BY <1>1, <1>2, <1>3, <1>4, KeepStamps

LEMMA StampRun ==
  ASSUME TypeOK, JobInv, SeenInv, StampInv, NEW w \in Workers,
         \/ RunStep(w) \/ ReclaimJob(w) \/ TransientError(w)
         \/ LostCommitReply(w) \/ WorkerCrash(w)
  PROVE  StampInv'
<1> USE DEF TypeOK
<1>0. UNCHANGED <<req, reap>>
  BY DEF RunStep, LoadDocument, MarkProcessing, CapturePrevious, ExtractAndEmbed,
     CommitIndexed, CleanupPrevious, ReloadForFailure, MarkFailed, JobSucceeded,
     JobRaised, ReclaimJob, TransientError, LostCommitReply, WorkerCrash
<1>1. \A q \in Reqs : req'[q].pc # "recommit"
  BY <1>0 DEF StampInv
<1>2. ASSUME UNCHANGED row,
             \A v \in Workers : Working(v)' => Working(v) /\ run'[v].doc = run[v].doc
      PROVE  StampInv'
  <2>1. \A d \in Docs : StampKept(d)
    BY <1>2 DEF StampKept
  <2> QED BY <1>0, <1>1, <1>2, <2>1, KeepStamps
<1>3. CASE \/ LoadDocument(w) \/ ExtractAndEmbed(w) \/ CleanupPrevious(w)
           \/ ReloadForFailure(w) \/ JobSucceeded(w) \/ JobRaised(w)
           \/ ReclaimJob(w) \/ TransientError(w) \/ WorkerCrash(w)
           \/ (CommitIndexed(w) /\ ~Publish(w))
  <2>1. UNCHANGED row
    BY <1>3 DEF LoadDocument, ExtractAndEmbed, CleanupPrevious, ReloadForFailure,
       JobSucceeded, JobRaised, ReclaimJob, TransientError, WorkerCrash, CommitIndexed
  <2> DEFINE Moves == \A v \in Workers : Working(v)' => Working(v) /\ run'[v].doc = run[v].doc
  <2>2. CASE LoadDocument(w)
    <3>1. Quit(w, "ok") \/ \E s : GoTo(w, "mark", s)
      BY <2>2 DEF LoadDocument
    <3> QED BY <3>1, QuitMoves, <1>2, <2>1 DEF RunPc
  <2>3. CASE ExtractAndEmbed(w)
    <3>1. CASE Quit(w, "fail")
      BY <3>1, QuitMoves, <1>2, <2>1 DEF RunPc
    <3>2. CASE GoTo(w, "commit", run[w].seen)
      <4>1. /\ SetRun(w, At("commit", run[w].doc, run[w].seen, run[w].prev))
            /\ At("commit", run[w].doc, run[w].seen, run[w].prev).doc = run[w].doc
            /\ Working(w)
        BY <2>3, <3>2 DEF ExtractAndEmbed, GoTo, At, Working
      <4>2. Moves
        BY <4>1, WorkingMoves
      <4> QED BY <1>2, <2>1, <4>2
    <3> QED BY <2>3, <3>1, <3>2 DEF ExtractAndEmbed
  <2>4. CASE CleanupPrevious(w)
    BY <2>4, QuitMoves, <1>2, <2>1 DEF CleanupPrevious, RunPc
  <2>5. CASE ReloadForFailure(w)
    <3>1. Quit(w, "raise") \/ \E s : GoTo(w, "markfailed", s)
      BY <2>5 DEF ReloadForFailure
    <3> QED BY <3>1, QuitMoves, <1>2, <2>1 DEF RunPc
  <2>6. CASE JobSucceeded(w) \/ JobRaised(w) \/ ReclaimJob(w)
    <3>1. SetRun(w, IdleRun) /\ IdleRun.pc = "idle"
      BY <2>6 DEF JobSucceeded, JobRaised, ReclaimJob, IdleRun, At
    <3>2. Moves
      BY <3>1, WorkingMoves
    <3> QED BY <1>2, <2>1, <3>2
  <2>7. CASE TransientError(w) \/ WorkerCrash(w) \/ (CommitIndexed(w) /\ ~Publish(w))
    <3>1. \E pc \in {"fail", "raise", "ok", "dead"} : Quit(w, pc)
      BY <2>7 DEF TransientError, WorkerCrash, CommitIndexed
    <3> QED BY <3>1, QuitMoves, <1>2, <2>1 DEF RunPc
  <2> QED BY <1>3, <2>2, <2>3, <2>4, <2>5, <2>6, <2>7
<1>4. CASE CapturePrevious(w)
  <2>1. UNCHANGED row
    BY <1>4 DEF CapturePrevious
  <2>2. \A v \in Workers : Working(v)' => Working(v) /\ run'[v].doc = run[v].doc
    BY <1>4 DEF CapturePrevious, SetRun, At, Working, RunOK
  <2> QED BY <1>2, <2>1, <2>2
<1>5. ASSUME run[w].pc # "idle", NEW new,
             row' = [row EXCEPT ![run[w].doc] = new],
             \A v \in Workers \ {w} : run'[v] = run[v],
             Stamped(w)'
      PROVE  StampInv'
  <2>1. \A v \in Workers \ {w} : Working(v) => run[v].doc # run[w].doc /\ run[v].doc \in Docs
    BY <1>5 DEF JobInv, Busy, Working, RunOK
  <2>2. \A v \in Workers \ {w} : Stamped(v)'
    BY <1>5, <2>1 DEF StampInv, Stamped, Working
  <2> QED BY <1>0, <1>1, <1>5, <2>2 DEF StampInv
<1>6. CASE MarkProcessing(w)
  <2>1. CASE ~Exists(run[w].doc)
    <3>1. Quit(w, "fail") /\ UNCHANGED row
      BY <1>6, <2>1 DEF MarkProcessing
    <3>2. \A v \in Workers : Working(v)' => Working(v) /\ run'[v].doc = run[v].doc
      BY <3>1, QuitMoves DEF RunPc
    <3> QED BY <1>2, <3>1, <3>2
  <2>2. CASE Exists(run[w].doc)
    <3>1. /\ run[w].doc \in Docs /\ run'[w].doc = run[w].doc
          /\ \A v \in Workers \ {w} : run'[v] = run[v]
      BY <1>6, <2>2 DEF MarkProcessing, RunOK, GoTo, SetRun, At
    <3>2. row' = [row EXCEPT ![run[w].doc] =
                    Flush(row[run[w].doc], run[w].seen, Processing(run[w].seen))]
      BY <1>6, <2>2 DEF MarkProcessing
    <3>3. row'[run[w].doc].started = 0
      BY <3>1, <3>2 DEF Flush, PutStamp, Processing, Edit, Now
    <3>4. Stamped(w)'
      BY <3>1, <3>3 DEF Stamped
    <3>5. run[w].pc # "idle"
      BY <1>6 DEF MarkProcessing
    <3> QED BY <1>5, <3>1, <3>2, <3>4, <3>5
  <2> QED BY <2>1, <2>2
<1>7. CASE MarkFailed(w) \/ LostCommitReply(w) \/ (CommitIndexed(w) /\ Publish(w))
  <2>1. /\ run[w].pc # "idle" /\ ~Working(w)'
        /\ \A v \in Workers \ {w} : run'[v] = run[v]
    BY <1>7 DEF MarkFailed, LostCommitReply, CommitIndexed, Publish, Quit, GoTo,
       SetRun, At, Working, RunOK
  <2>2. (\E new : row' = [row EXCEPT ![run[w].doc] = new]) \/ UNCHANGED row
    BY <1>7 DEF MarkFailed, LostCommitReply, CommitIndexed, Publish
  <2>3. Stamped(w)'
    BY <2>1 DEF Stamped
  <2>4. CASE UNCHANGED row
    <3>1. \A v \in Workers : Working(v)' => Working(v) /\ run'[v].doc = run[v].doc
      BY <2>1 DEF Working
    <3> QED BY <1>2, <2>4, <3>1
  <2> QED BY <1>5, <2>1, <2>2, <2>3, <2>4
<1> QED BY <1>3, <1>4, <1>6, <1>7 DEF RunStep

LEMMA StampStep ==
  ASSUME "reindex" \notin Ops
  PROVE  TypeOK /\ JobInv /\ SeenInv /\ StampInv /\ [Next]_vars => StampInv'
<1> SUFFICES ASSUME TypeOK, JobInv, SeenInv, StampInv, [Next]_vars PROVE StampInv'
  OBVIOUS
<1> USE DEF TypeOK
<1>0. \A w \in Workers : Working(w) => run[w].doc \in Docs
  BY DEF Working, RunOK
<1>1. ASSUME NEW l, ApiCrash(l) PROVE StampInv'
  <2>1. \A q \in Reqs : req'[q].pc # "recommit"
    BY <1>1 DEF ApiCrash, IdleReq, Call, StampInv
  <2> QED BY <1>1, <2>1 DEF ApiCrash, StampInv, Stamped, Working
<1>2. ASSUME NEW d \in Docs, SessionDelete(d) PROVE StampInv'
  <2>1. \A e \in Docs : StampKept(e)
    BY <1>2 DEF SessionDelete, StampKept, NoRow
  <2> QED BY <1>2, <2>1, KeepStamps DEF SessionDelete, StampInv, Working
<1>3. ASSUME NEW w \in Workers, NEW d \in Docs, Dequeue(w, d) PROVE StampInv'
  <2>1. \A v \in Workers : Working(v)' => run'[v] = run[v]
    BY <1>3 DEF Dequeue, SetRun, At, Working, RunOK
  <2>2. UNCHANGED <<row, req, reap>>
    BY <1>3 DEF Dequeue
  <2> QED BY <2>1, <2>2 DEF StampInv, Stamped, Working
<1>4. CASE (\E d \in Docs : SchedulerEnqueue(d)) \/ ReaperCrash \/ UNCHANGED vars
  BY <1>4 DEF SchedulerEnqueue, ReaperCrash, vars, StampInv, Stamped, Working
<1>5. ASSUME NEW age \in ReapAges, ReapSelect(age) PROVE StampInv'
  BY <1>5 DEF ReapSelect, StaleAt, StampInv, Stamped, Working
<1>6. CASE ReapCommit
  <2>1. \A d \in Docs : StampKept(d)
    <3> SUFFICES ASSUME NEW d \in Docs PROVE StampKept(d)
      OBVIOUS
    <3>1. CASE row'[d] = row[d]
      BY <3>1 DEF StampKept
    <3>2. CASE d \in DOMAIN reap /\ row'[d] = Flush(row[d], reap[d], Failed(reap[d], "timeout"))
      BY <3>2 DEF StampKept, StampInv, Flush, Put, Failed, Edit
    <3> QED BY <1>6, <3>1, <3>2 DEF ReapCommit
  <2>2. UNCHANGED <<run, req>> /\ DOMAIN reap' = {}
    BY <1>6 DEF ReapCommit
  <2>3. \A w \in Workers : Stamped(w)'
    BY <1>0, <2>1, <2>2 DEF StampInv, Stamped, StampKept, Working, Now
  <2> QED BY <2>2, <2>3 DEF StampInv
<1>7. CASE Tick
  <2>1. \A d \in Docs : /\ row'[d].status = row[d].status
                        /\ row'[d].started = Older(row[d].started)
    BY <1>7 DEF Tick, Aged
  <2>2. UNCHANGED <<run, req, reap>>
    BY <1>7 DEF Tick
  <2>3. Older(0) \in {0, 1}
    BY AgeAssumption DEF Older
  <2>4. ASSUME NEW w \in Workers PROVE Stamped(w)'
    BY <1>0, <1>7, <2>1, <2>2, <2>3 DEF Tick, StampInv, Stamped, Working
  <2> QED BY <2>2, <2>4 DEF StampInv
<1> QED
  BY <1>1, <1>2, <1>3, <1>4, <1>5, <1>6, <1>7, StampApi, StampRun DEF Next

(* At its default age the reaper never selects a document a worker has     *)
(* stamped and is working on, whatever crashes or fails around it, as long *)
(* as documents are only created: a reindex that overlaps another one can  *)
(* reset the stamp of a running document.                                  *)
THEOREM ReaperSparesWorking ==
  ASSUME "reindex" \notin Ops, ReapAges \subseteq {2}
  PROVE  Spec => ReaperSelectsAbandoned
<1> DEFINE I == ApartInv /\ SeenInv /\ StampInv
           Spares == \A d \in DOMAIN reap' \ DOMAIN reap :
                       \A w \in Workers : run[w].doc = d => ~Working(w)
<1>1. Init => I
  <2>1. Init => SeenInv /\ StampInv
    BY DEF Init, SeenInv, Holding, StampInv, Stamped, Working, IdleRun, IdleReq, At, Call
  <2> QED BY <2>1, ApartInit
<1>2. I /\ [Next]_vars => I'
  BY ApartStep, SeenStep, StampStep DEF ApartInv, RunsApart
<1>3. I /\ [Next]_vars => [Spares]_vars
  <2> SUFFICES ASSUME I, Next PROVE Spares
    BY DEF vars
  <2> USE DEF ApartInv
  <2>1. ASSUME NEW age \in ReapAges, ReapSelect(age) PROVE Spares
    <3>1. age = 2
      OBVIOUS
    <3>2. \A d \in DOMAIN reap' : StaleAt(d, 2)
      BY <2>1, <3>1 DEF ReapSelect
    <3> QED BY <3>2 DEF StaleAt, StampInv, Stamped, Never
  <2>2. CASE DOMAIN reap' \subseteq DOMAIN reap
    BY <2>2
  <2>3. (\E age \in ReapAges : ReapSelect(age)) \/ DOMAIN reap' \subseteq DOMAIN reap
    <3>1. ASSUME NEW r \in Reqs, ApiStep(r) \/ ApiCrash(LoopOf[r]) PROVE UNCHANGED reap
      BY <3>1 DEF ApiStep, CreateDocument, SaveUpload, ReindexCheck, CommitUpload,
         ReindexCommit, EnqueueFetch, EnqueueJob, EnqueueError, MarkEnqueueFailed, RequestFails,
     ApiCrash
    <3>2. ASSUME NEW w \in Workers,
                 \/ RunStep(w) \/ ReclaimJob(w) \/ TransientError(w)
                 \/ LostCommitReply(w) \/ WorkerCrash(w)
          PROVE  UNCHANGED reap
      BY <3>2 DEF RunStep, LoadDocument, MarkProcessing, CapturePrevious,
         ExtractAndEmbed, CommitIndexed, CleanupPrevious, ReloadForFailure,
         MarkFailed, JobSucceeded, JobRaised, ReclaimJob, TransientError,
         LostCommitReply, WorkerCrash
    <3> QED
      BY <3>1, <3>2 DEF Next, SessionDelete, SchedulerEnqueue, Dequeue, ReapCommit,
         ReaperCrash, Tick
  <2> QED BY <2>1, <2>2, <2>3
<1> QED BY <1>1, <1>2, <1>3, PTL DEF Spec, ReaperSelectsAbandoned
-----------------------------------------------------------------------------
(* Causes *)

(* While nothing has failed: what a request, a run and a document owe to a *)
(* readable text, to a row that is there, or to bad content.               *)
Gone(d) == row[d].status = "gone"
Held(d) == \E w \in Workers : Working(w) /\ run[w].doc = d

ReqCause(q) ==
  /\ q.pc # "queuefailed"
  /\ q.pc \in {"enqueue", "replace"} => Born(q.doc)
  /\ q.pc = "insert" => file[q.doc] \/ Born(q.doc)
RunCause(x) ==
  /\ x.pc # "idle" => Born(x.doc)
  /\ x.pc \in {"mark", "capture", "work"} => x.seen.text \/ file[x.doc] \/ Gone(x.doc)
  /\ x.pc \in {"fail", "markfailed"} => x.doc \in BadDocs \/ Gone(x.doc)
DocCause(d) ==
  /\ job[d].status # "none" => Born(d)
  /\ Exists(d) => row[d].text \/ file[d]
  /\ row[d].status = "processing" => d \in BadDocs \/ Held(d)
  /\ row[d].status = "failed" \/ d \in DOMAIN reap => d \in BadDocs
CauseOK ==
  /\ \A r \in Reqs : ReqCause(req[r])
  /\ \A w \in Workers : RunCause(run[w])
  /\ \A d \in Docs : DocCause(d)

(* A document is never unborn again, never back from the dead, and keeps   *)
(* its file until its row is gone.                                         *)
Lasts(d) ==
  /\ Born(d) => Born(d)'
  /\ Gone(d) => Gone(d)'
  /\ file[d] => file'[d] \/ Gone(d)'

LEMMA FlushKeeps ==
  ASSUME NEW cur, NEW seen, NEW new
  PROVE  /\ Flush(cur, seen, new).status \in {cur.status, new.status}
         /\ Flush(cur, seen, new).text \in {cur.text, new.text}
         /\ new.text = seen.text => Flush(cur, seen, new).text = cur.text
         /\ new.status # seen.status => Flush(cur, seen, new).status = new.status
BY DEF Flush, Put

LEMMA FlushIndexed ==
  ASSUME NEW cur, NEW seen, seen.status = "processing"
  PROVE  /\ Flush(cur, seen, Indexed(seen)).status = "indexed"
         /\ Flush(cur, seen, Indexed(seen)).text \in {cur.text, TRUE}
<1>1. Indexed(seen).status = "indexed" /\ Indexed(seen).text = TRUE
  BY DEF Indexed, Edit
<1>2. ASSUME NEW new, new.status = "indexed", new.text = TRUE
      PROVE  /\ Flush(cur, seen, new).status = "indexed"
             /\ Flush(cur, seen, new).text \in {cur.text, TRUE}
  BY <1>2 DEF Flush, Put
<1> QED BY <1>1, <1>2

LEMMA RowLasts ==
  ASSUME TypeOK, UNCHANGED file, NEW e \in Docs, NEW new,
         row' = [row EXCEPT ![e] = new], new.status # "unborn",
         Gone(e) => new.status = "gone"
  PROVE  \A d \in Docs : Lasts(d)
BY DEF TypeOK, Lasts, Born, Gone

LEMMA FileLasts ==
  ASSUME TypeOK, CauseOK, NEW r \in Reqs, EnqueueFetch(r)
  PROVE  \A d \in Docs : Lasts(d)
<1> USE DEF TypeOK
<1>1. UNCHANGED row
  BY DEF EnqueueFetch
<1>2. CASE UNCHANGED file
  BY <1>1, <1>2 DEF Lasts, Born, Gone
<1>3. CASE ~Exists(req[r].doc) /\ DropUpload(r)
  <2>1. req[r].doc \in Docs /\ Gone(req[r].doc)
    BY <1>3 DEF EnqueueFetch, ReqOK, CauseOK, ReqCause, Born, Gone, Exists
  <2> QED BY <1>1, <1>3, <2>1 DEF Lasts, Born, Gone, DropUpload
<1> QED BY <1>2, <1>3 DEF EnqueueFetch

LEMMA Lasting ==
  ASSUME "reindex" \notin Ops, TypeOK, StampInv, CauseOK, Undisturbed, ~Fault
  PROVE  \A d \in Docs : Lasts(d)
<1> USE DEF TypeOK
<1>0. \A t : NewRow(t).status = "pending"
  BY DEF NewRow
<1>1. CASE UNCHANGED <<row, file>>
  BY <1>1 DEF Lasts, Born, Gone
<1>2. ASSUME NEW r \in Reqs, NEW e \in Docs, CreateDocument(r, e)
      PROVE  \A d \in Docs : Lasts(d)
  BY <1>2, <1>0, RowLasts DEF CreateDocument, Gone
<1>3. ASSUME NEW r \in Reqs, NEW e \in Docs, SaveUpload(r, e)
      PROVE  \A d \in Docs : Lasts(d)
  BY <1>3 DEF SaveUpload, Lasts, Born, Gone
<1>4. ASSUME NEW r \in Reqs, CommitUpload(r)
      PROVE  \A d \in Docs : Lasts(d)
  <2>1. req[r].doc \in Docs
    BY <1>4 DEF CommitUpload, ReqOK
  <2>2. UNCHANGED file /\ row' = [row EXCEPT ![req[r].doc] = NewRow(FALSE)]
        /\ ~Gone(req[r].doc)
    BY <1>4 DEF CommitUpload, Gone
  <2> QED BY <1>0, <2>1, <2>2, RowLasts
<1>5. ASSUME NEW r \in Reqs, EnqueueFetch(r)
      PROVE  \A d \in Docs : Lasts(d)
  BY <1>5, FileLasts
<1>6. ASSUME NEW e \in Docs, SessionDelete(e)
      PROVE  \A d \in Docs : Lasts(d)
  BY <1>6 DEF SessionDelete, Lasts, Born, Gone, NoRow
<1>7. ASSUME NEW w \in Workers, MarkProcessing(w) \/ MarkFailed(w) \/ CommitIndexed(w),
             row' # row
      PROVE  \A d \in Docs : Lasts(d)
  <2> DEFINE e == run[w].doc
  <2>1. /\ Exists(e) /\ UNCHANGED file
        /\ \E s, new : /\ row' = [row EXCEPT ![e] = Flush(row[e], s, new)]
                       /\ new.status \in {"processing", "failed", "indexed"}
    BY <1>7 DEF MarkProcessing, MarkFailed, CommitIndexed, Publish, Processing,
       Failed, Indexed, Edit
  <2>2. e \in Docs
    BY <1>7 DEF MarkProcessing, MarkFailed, CommitIndexed, RunOK
  <2> HIDE DEF e
  <2>3. PICK s, new : /\ row' = [row EXCEPT ![e] = Flush(row[e], s, new)]
                      /\ new.status \in {"processing", "failed", "indexed"}
    BY <2>1
  <2>4. Flush(row[e], s, new).status # "unborn" /\ ~Gone(e)
    BY <2>1, <2>3, FlushKeeps DEF Exists, Gone
  <2> QED BY <2>1, <2>2, <2>3, <2>4, RowLasts
<1>8. CASE ReapCommit
  <2> SUFFICES ASSUME NEW d \in Docs PROVE Lasts(d)
    OBVIOUS
  <2>1. UNCHANGED file /\ (row'[d] = row[d] \/ Exists(d))
    BY <1>8 DEF ReapCommit
  <2>2. \/ row'[d] = row[d]
        \/ row'[d] = Flush(row[d], reap[d], Failed(reap[d], "timeout"))
    BY <1>8 DEF ReapCommit
  <2>3. Failed(reap[d], "timeout").status = "failed"
    BY DEF Failed, Edit
  <2>4. row'[d].status \in {row[d].status, "failed"}
    BY <2>2, <2>3, FlushKeeps
  <2> QED BY <2>1, <2>4 DEF Lasts, Born, Gone, Exists
<1>9. CASE Tick
  BY <1>9 DEF Tick, Aged, Lasts, Born, Gone
<1>10. ASSUME NEW r \in Reqs, ReindexCommit(r) \/ MarkEnqueueFailed(r)
       PROVE  FALSE
  BY <1>10 DEF ReindexCommit, MarkEnqueueFailed, StampInv, CauseOK, ReqCause
<1>11. ASSUME NEW r \in Reqs, EnqueueJob(r) \/ \E d \in Docs : ReindexCheck(r, d)
       PROVE  UNCHANGED <<row, file>>
  BY <1>11 DEF EnqueueJob, ReindexCheck
<1>12. ASSUME NEW w \in Workers, RunStep(w) \/ ReclaimJob(w)
       PROVE  \A d \in Docs : Lasts(d)
  <2>1. UNCHANGED file
    BY <1>12 DEF RunStep, LoadDocument, MarkProcessing, CapturePrevious, ExtractAndEmbed,
       CommitIndexed, CleanupPrevious, ReloadForFailure, MarkFailed, JobSucceeded,
       JobRaised, ReclaimJob
  <2>2. UNCHANGED row \/ MarkProcessing(w) \/ MarkFailed(w) \/ CommitIndexed(w)
    BY <1>12 DEF RunStep, LoadDocument, CapturePrevious, ExtractAndEmbed,
       CleanupPrevious, ReloadForFailure, JobSucceeded, JobRaised, ReclaimJob
  <2> QED BY <1>1, <1>7, <2>1, <2>2
<1> QED
  BY <1>1, <1>2, <1>3, <1>4, <1>5, <1>6, <1>8, <1>9, <1>10, <1>11, <1>12
     DEF Undisturbed, SchedulerEnqueue, Dequeue, ReapSelect, vars

(* What holds of a request or a run in hand keeps holding.                 *)
LEMMA CauseLasts ==
  ASSUME \A d \in Docs : Lasts(d)
  PROVE  /\ \A q \in Req : q.pc = "idle" \/ q.doc \in Docs =>
              (ReqCause(q) => ReqCause(q)')
         /\ \A x \in Run : x.pc = "idle" \/ x.doc \in Docs =>
              (RunCause(x) => RunCause(x)')
BY DEF Lasts, ReqCause, RunCause, Born, Gone

(* A fault-free step out of a state where all of this holds.               *)
CalmStep ==
  /\ TypeOK /\ TypeOK' /\ JobInv /\ SeenInv /\ StampInv /\ CauseOK
  /\ Undisturbed /\ ~Fault /\ \A d \in Docs : Lasts(d)

LEMMA CauseReqs ==
  ASSUME "reindex" \notin Ops, CalmStep
  PROVE  \A r \in Reqs : ReqCause(req[r])'
<1> USE DEF TypeOK
<1>1. \A r \in Reqs : req'[r] = req[r] => ReqCause(req[r])'
  <2> SUFFICES ASSUME NEW r \in Reqs, req'[r] = req[r] PROVE ReqCause(req[r])'
    OBVIOUS
  <2>1. \A q \in Req : q.pc = "idle" \/ q.doc \in Docs => (ReqCause(q) => ReqCause(q)')
    BY CauseLasts DEF CalmStep
  <2>2. req[r] \in Req /\ (req[r].pc = "idle" \/ req[r].doc \in Docs) /\ ReqCause(req[r])
    BY DEF CalmStep, ReqOK, CauseOK
  <2>3. \A q \in {req[r]} : ReqCause(q)'
    BY <2>1, <2>2
  <2> QED BY <2>3 DEF ReqCause, Born
<1>2. ASSUME NEW r \in Reqs, NEW x, SetReq(r, x), ReqCause(x)'
      PROVE  \A q \in Reqs : ReqCause(req[q])'
  <2>1. req'[r] = x /\ \A q \in Reqs \ {r} : req'[q] = req[q]
    BY <1>2 DEF SetReq, CalmStep, ReqOK
  <2>2. ReqCause(req[r])'
    BY <1>2, <2>1 DEF ReqCause, Born
  <2> QED BY <1>1, <2>1, <2>2
<1>3. ASSUME NEW r \in Reqs, SetReq(r, IdleReq)
      PROVE  \A q \in Reqs : ReqCause(req[q])'
  <2>1. ReqCause(IdleReq)'
    BY DEF ReqCause, IdleReq, Call
  <2> QED BY <1>2, <1>3, <2>1
<1>4. CASE UNCHANGED req
  BY <1>1, <1>4
<1>5. ASSUME NEW r \in Reqs, NEW d \in Docs, CreateDocument(r, d)
      PROVE  \A q \in Reqs : ReqCause(req[q])'
  <2>1. row'[d].status = "pending"
    BY <1>5 DEF CreateDocument, CalmStep, NewRow
  <2>2. ReqCause(Call("enqueue", d, FALSE, NoRow))'
    BY <2>1 DEF ReqCause, Call, Born
  <2> QED BY <1>2, <1>5, <2>2 DEF CreateDocument
<1>6. ASSUME NEW r \in Reqs, NEW d \in Docs, SaveUpload(r, d)
      PROVE  \A q \in Reqs : ReqCause(req[q])'
  <2>1. file'[d] = TRUE
    BY <1>6 DEF SaveUpload, CalmStep
  <2>2. ReqCause(Call("insert", d, TRUE, NoRow))'
    BY <2>1 DEF ReqCause, Call, Born
  <2> QED BY <1>2, <1>6, <2>2 DEF SaveUpload
<1>7. ASSUME NEW r \in Reqs, CommitUpload(r)
      PROVE  \A q \in Reqs : ReqCause(req[q])'
  <2> DEFINE x == Call("enqueue", req[r].doc, TRUE, NoRow)
  <2>1. req[r].doc \in Docs /\ row' = [row EXCEPT ![req[r].doc] = NewRow(FALSE)]
        /\ SetReq(r, x)
    BY <1>7 DEF CommitUpload, CalmStep, ReqOK
  <2>2. row'[req[r].doc].status = "pending"
    BY <2>1 DEF CalmStep, NewRow
  <2>3. req'[r] = x /\ \A q \in Reqs \ {r} : req'[q] = req[q]
    BY <2>1 DEF SetReq, CalmStep, ReqOK
  <2>4. ReqCause(req[r])'
    BY <2>2, <2>3 DEF ReqCause, Call, Born
  <2> QED BY <1>1, <2>3, <2>4
<1>8. ASSUME NEW r \in Reqs, EnqueueFetch(r)
      PROVE  \A q \in Reqs : ReqCause(req[q])'
  <2>1. CASE SetReq(r, IdleReq)
    BY <1>3, <2>1
  <2>2. CASE SetReq(r, Call("replace", req[r].doc, req[r].upload, row[req[r].doc]))
    <3> DEFINE x == Call("replace", req[r].doc, req[r].upload, row[req[r].doc])
    <3>1. req[r].doc \in Docs /\ Born(req[r].doc)
      BY <1>8 DEF EnqueueFetch, CalmStep, ReqOK, CauseOK, ReqCause
    <3>2. row'[req[r].doc].status # "unborn"
      BY <3>1 DEF CalmStep, Lasts, Born
    <3>3. req'[r] = x /\ \A q \in Reqs \ {r} : req'[q] = req[q]
      BY <2>2 DEF SetReq, CalmStep, ReqOK
    <3>4. ReqCause(req[r])'
      BY <3>2, <3>3 DEF ReqCause, Call, Born
    <3> QED BY <1>1, <3>3, <3>4
  <2> QED BY <1>8, <2>1, <2>2 DEF EnqueueFetch
<1>9. ASSUME NEW r \in Reqs, EnqueueJob(r)
      PROVE  \A q \in Reqs : ReqCause(req[q])'
  BY <1>3, <1>9 DEF EnqueueJob
<1>10. ASSUME NEW r \in Reqs,
              \/ ReindexCommit(r) \/ MarkEnqueueFailed(r)
              \/ \E d \in Docs : ReindexCheck(r, d)
       PROVE  FALSE
  BY <1>10 DEF ReindexCommit, MarkEnqueueFailed, ReindexCheck, CalmStep, StampInv,
     CauseOK, ReqCause
<1>11. ASSUME NEW w \in Workers,
              RunStep(w) \/ ReclaimJob(w) \/ \E d \in Docs : Dequeue(w, d)
       PROVE  UNCHANGED req
  BY <1>11 DEF RunStep, LoadDocument, MarkProcessing, CapturePrevious, ExtractAndEmbed,
     CommitIndexed, CleanupPrevious, ReloadForFailure, MarkFailed, JobSucceeded,
     JobRaised, ReclaimJob, Dequeue
<1> QED
  BY <1>4, <1>5, <1>6, <1>7, <1>8, <1>9, <1>10, <1>11
     DEF CalmStep, Undisturbed, SessionDelete, SchedulerEnqueue, ReapSelect,
         ReapCommit, Tick, vars

LEMMA CauseRuns ==
  ASSUME ~S3Backend, CalmStep
  PROVE  \A w \in Workers : RunCause(run[w])'
<1> USE DEF TypeOK
<1>1. \A w \in Workers : run'[w] = run[w] => RunCause(run[w])'
  <2> SUFFICES ASSUME NEW w \in Workers, run'[w] = run[w] PROVE RunCause(run[w])'
    OBVIOUS
  <2>1. \A x \in Run : x.pc = "idle" \/ x.doc \in Docs => (RunCause(x) => RunCause(x)')
    BY CauseLasts DEF CalmStep
  <2>2. run[w] \in Run /\ (run[w].pc = "idle" \/ run[w].doc \in Docs) /\ RunCause(run[w])
    BY DEF CalmStep, RunOK, CauseOK
  <2>3. \A x \in {run[w]} : RunCause(x)'
    BY <2>1, <2>2
  <2> QED BY <2>3 DEF RunCause, Born, Gone
<1>2. ASSUME NEW w \in Workers, NEW pc, NEW d, NEW s, NEW p,
             SetRun(w, At(pc, d, s, p)),
             pc = "idle" \/ (d \in Docs /\ Born(d)),
             pc \in {"mark", "capture", "work"} => s.text \/ file[d] \/ Gone(d),
             pc \in {"fail", "markfailed"} => d \in BadDocs \/ Gone(d)
      PROVE  \A v \in Workers : RunCause(run[v])'
  <2>1. /\ run'[w].pc = pc /\ run'[w].doc = d /\ run'[w].seen = s
        /\ \A v \in Workers \ {w} : run'[v] = run[v]
    BY <1>2 DEF SetRun, At, CalmStep, RunOK
  <2>2. pc = "idle" \/ Lasts(d)
    BY <1>2 DEF CalmStep
  <2>3. RunCause(run[w])'
    BY <1>2, <2>1, <2>2 DEF RunCause, Lasts, Born, Gone
  <2> QED BY <1>1, <2>1, <2>3
<1>3. CASE UNCHANGED run
  BY <1>1, <1>3
<1>4. ASSUME NEW w \in Workers, NEW d \in Docs, Dequeue(w, d)
      PROVE  \A v \in Workers : RunCause(run[v])'
  <2>1. Born(d)
    BY <1>4 DEF Dequeue, CalmStep, JobInv, CauseOK, DocCause
  <2> QED BY <1>2, <1>4, <2>1 DEF Dequeue
<1>5. ASSUME NEW w \in Workers, RunStep(w) \/ ReclaimJob(w)
      PROVE  \A v \in Workers : RunCause(run[v])'
  <2> DEFINE d == run[w].doc
  <2>1. d \in Docs /\ RunCause(run[w]) /\ Born(d)
    BY <1>5 DEF RunStep, LoadDocument, MarkProcessing, CapturePrevious,
       ExtractAndEmbed, CommitIndexed, CleanupPrevious, ReloadForFailure, MarkFailed,
       JobSucceeded, JobRaised, ReclaimJob, CalmStep, RunOK, CauseOK, RunCause
  <2>2. ~Exists(d) => Gone(d)
    BY <2>1 DEF Exists, Gone, Born
  <2>3. ASSUME NEW pc \in {"ok", "raise", "cleanup", "commit"},
               Quit(w, pc) \/ \E s : GoTo(w, pc, s)
        PROVE  \A v \in Workers : RunCause(run[v])'
    BY <1>2, <2>1, <2>3 DEF Quit, GoTo
  <2>4. ASSUME Quit(w, "fail"), d \in BadDocs \/ Gone(d)
        PROVE  \A v \in Workers : RunCause(run[v])'
    BY <1>2, <2>1, <2>4 DEF Quit
  <2>5. CASE LoadDocument(w)
    <3>1. Exists(d) => row[d].text \/ file[d]
      BY <2>1 DEF CalmStep, CauseOK, DocCause
    <3>2. CASE Exists(d) /\ GoTo(w, "mark", row[d])
      BY <1>2, <2>1, <3>1, <3>2 DEF GoTo
    <3> QED BY <2>3, <2>5, <3>2 DEF LoadDocument
  <2>6. CASE MarkProcessing(w)
    <3>1. CASE Exists(d)
      <4>1. Processing(run[w].seen).text = run[w].seen.text
        BY DEF Processing, Edit
      <4>2. run[w].seen.text \/ file[d] \/ Gone(d)
        BY <2>1, <2>6 DEF MarkProcessing, RunCause
      <4>3. GoTo(w, "capture", Processing(run[w].seen))
        BY <2>6, <3>1 DEF MarkProcessing
      <4> QED BY <1>2, <2>1, <4>1, <4>2, <4>3 DEF GoTo
    <3> QED BY <2>2, <2>4, <2>6, <3>1 DEF MarkProcessing
  <2>7. CASE CapturePrevious(w)
    <3>1. run[w].seen.text \/ file[d] \/ Gone(d)
      BY <2>1, <2>7 DEF CapturePrevious, RunCause
    <3> QED BY <1>2, <2>1, <2>7, <3>1 DEF CapturePrevious
  <2>8. CASE ExtractAndEmbed(w)
    <3>1. run[w].seen.text \/ file[d] \/ Gone(d)
      BY <2>1, <2>8 DEF ExtractAndEmbed, RunCause
    <3>2. Readable(w) \/ d \in BadDocs \/ Gone(d)
      BY <3>1 DEF Readable
    <3> QED BY <2>3, <2>4, <2>8, <3>2 DEF ExtractAndEmbed
  <2>9. CASE CommitIndexed(w)
    BY <2>2, <2>3, <2>4, <2>9 DEF CommitIndexed
  <2>10. CASE ReloadForFailure(w)
    <3>1. d \in BadDocs \/ Gone(d)
      BY <2>1, <2>10 DEF ReloadForFailure, RunCause
    <3>2. CASE GoTo(w, "markfailed", row[d])
      BY <1>2, <2>1, <3>1, <3>2 DEF GoTo
    <3> QED BY <2>3, <2>10, <3>2 DEF ReloadForFailure
  <2>11. CASE CleanupPrevious(w) \/ MarkFailed(w)
    BY <2>3, <2>11 DEF CleanupPrevious, MarkFailed
  <2>12. CASE JobSucceeded(w) \/ JobRaised(w) \/ ReclaimJob(w)
    BY <1>2, <2>12 DEF JobSucceeded, JobRaised, ReclaimJob, IdleRun
  <2> QED
    BY <1>5, <2>5, <2>6, <2>7, <2>8, <2>9, <2>10, <2>11, <2>12 DEF RunStep
<1>6. ASSUME NEW r \in Reqs,
             \/ CommitUpload(r) \/ ReindexCommit(r) \/ EnqueueFetch(r)
             \/ EnqueueJob(r) \/ MarkEnqueueFailed(r)
             \/ \E d \in Docs : \/ CreateDocument(r, d) \/ SaveUpload(r, d)
                                \/ ReindexCheck(r, d)
      PROVE  UNCHANGED run
  BY <1>6 DEF CreateDocument, SaveUpload, ReindexCheck, CommitUpload,
     ReindexCommit, EnqueueFetch, EnqueueJob, MarkEnqueueFailed
<1> QED
  BY <1>3, <1>4, <1>5, <1>6
     DEF CalmStep, Undisturbed, SessionDelete, SchedulerEnqueue, ReapSelect,
         ReapCommit, Tick, vars

(* What a fault-free step may make of the row of a document.               *)
RowMoves(d) ==
  \/ row'[d].status = row[d].status /\ row'[d].text = row[d].text
  \/ row'[d].status = "gone"
  \/ row'[d].status = "pending" /\ (row'[d].text \/ file'[d])
  \/ /\ Exists(d) /\ row'[d].text = row[d].text
     /\ row'[d].status \in {row[d].status, "processing"} /\ Held(d)'
  \/ /\ Exists(d) /\ row'[d].text = row[d].text
     /\ row'[d].status \in {row[d].status, "failed"} /\ d \in BadDocs
  \/ /\ Exists(d) /\ row'[d].text \in {row[d].text, TRUE} /\ row'[d].status = "indexed"

(* A row loses the run that works on it only by leaving "processing".      *)
HeldMoves(d) ==
  Held(d) => Held(d)' \/ row'[d].status # "processing" \/ d \in BadDocs

LEMMA CauseRows ==
  ASSUME "reindex" \notin Ops, CalmStep
  PROVE  \A d \in Docs : RowMoves(d)
<1> USE DEF TypeOK
<1>1. CASE UNCHANGED row
  BY <1>1 DEF RowMoves
<1>2. ASSUME NEW e \in Docs, NEW new, row' = [row EXCEPT ![e] = new], NEW d \in Docs,
             d = e => RowMoves(d)
      PROVE  RowMoves(d)
  BY <1>2 DEF RowMoves, CalmStep
<1>3. ASSUME NEW r \in Reqs, NEW e \in Docs, CreateDocument(r, e), NEW d \in Docs
      PROVE  RowMoves(d)
  <2>1. row'[e].status = "pending" /\ row'[e].text = TRUE
    BY <1>3 DEF CreateDocument, NewRow, CalmStep
  <2>2. RowMoves(e)
    BY <2>1 DEF RowMoves
  <2> QED BY <1>2, <1>3, <2>2 DEF CreateDocument
<1>4. ASSUME NEW r \in Reqs, CommitUpload(r), NEW d \in Docs
      PROVE  RowMoves(d)
  <2> DEFINE e == req[r].doc
  <2>1. /\ e \in Docs /\ row' = [row EXCEPT ![e] = NewRow(FALSE)] /\ UNCHANGED file
        /\ file[e]
    BY <1>4 DEF CommitUpload, CalmStep, ReqOK, CauseOK, ReqCause, Born
  <2>2. row'[e].status = "pending" /\ file'[e]
    BY <2>1 DEF CalmStep, NewRow
  <2>3. d = e => RowMoves(d)
    BY <2>2 DEF RowMoves
  <2> QED BY <1>2, <2>1, <2>3
<1>5. ASSUME NEW e \in Docs, SessionDelete(e), NEW d \in Docs PROVE RowMoves(d)
  <2>1. row'[e].status = "gone"
    BY <1>5 DEF SessionDelete, NoRow, CalmStep
  <2>2. RowMoves(e)
    BY <2>1 DEF RowMoves
  <2> QED BY <1>2, <1>5, <2>2 DEF SessionDelete
<1>6. ASSUME NEW w \in Workers, MarkProcessing(w), row' # row, NEW d \in Docs
      PROVE  RowMoves(d)
  <2> DEFINE e == run[w].doc  s == run[w].seen
  <2>1. /\ e \in Docs /\ Exists(e) /\ GoTo(w, "capture", Processing(s))
        /\ row' = [row EXCEPT ![e] = Flush(row[e], s, Processing(s))]
    BY <1>6 DEF MarkProcessing, CalmStep, RunOK
  <2>2. run'[w].pc = "capture" /\ run'[w].doc = e
    BY <2>1 DEF GoTo, SetRun, At, CalmStep, RunOK
  <2>3. \A x \in {e} : Held(x)'
    BY <2>2 DEF Held, Working
  <2>4. Processing(s).status = "processing" /\ Processing(s).text = s.text
    BY DEF Processing, Edit
  <2>5. row'[e].status \in {row[e].status, "processing"} /\ row'[e].text = row[e].text
    BY <2>1, <2>4, FlushKeeps DEF CalmStep
  <2>6. \A x \in {e} : RowMoves(x)
    BY <2>1, <2>3, <2>5 DEF RowMoves
  <2> QED BY <1>2, <2>1, <2>6
<1>7. ASSUME NEW w \in Workers, MarkFailed(w), row' # row, NEW d \in Docs
      PROVE  RowMoves(d)
  <2> DEFINE e == run[w].doc  s == run[w].seen
  <2>1. /\ e \in Docs /\ Exists(e) /\ e \in BadDocs
        /\ row' = [row EXCEPT ![e] = Flush(row[e], s, Failed(s, "job"))]
    BY <1>7 DEF MarkFailed, CalmStep, RunOK, CauseOK, RunCause, Exists, Gone
  <2>2. Failed(s, "job").status = "failed" /\ Failed(s, "job").text = s.text
    BY DEF Failed, Edit
  <2>3. row'[e].status \in {row[e].status, "failed"} /\ row'[e].text = row[e].text
    BY <2>1, <2>2, FlushKeeps DEF CalmStep
  <2>4. \A x \in {e} : RowMoves(x)
    BY <2>1, <2>3 DEF RowMoves
  <2> QED BY <1>2, <2>1, <2>4
<1>8. ASSUME NEW w \in Workers, CommitIndexed(w), row' # row, NEW d \in Docs
      PROVE  RowMoves(d)
  <2> DEFINE e == run[w].doc  s == run[w].seen
  <2>1. /\ e \in Docs /\ Exists(e) /\ s.status = "processing"
        /\ row' = [row EXCEPT ![e] = Flush(row[e], s, Indexed(s))]
    BY <1>8 DEF CommitIndexed, Publish, CalmStep, RunOK, SeenInv, Holding
  <2>3. row'[e].status = "indexed" /\ row'[e].text \in {row[e].text, TRUE}
    <3>1. /\ Flush(row[e], s, Indexed(s)).status = "indexed"
          /\ Flush(row[e], s, Indexed(s)).text \in {row[e].text, TRUE}
      BY <2>1, FlushIndexed
    <3> QED BY <2>1, <3>1 DEF CalmStep
  <2>4. \A x \in {e} : RowMoves(x)
    BY <2>1, <2>3 DEF RowMoves
  <2> QED BY <1>2, <2>1, <2>4
<1>9. ASSUME ReapCommit, NEW d \in Docs PROVE RowMoves(d)
  <2>1. CASE row'[d] = row[d]
    BY <2>1 DEF RowMoves
  <2>2. CASE /\ d \in DOMAIN reap /\ Exists(d)
             /\ row'[d] = Flush(row[d], reap[d], Failed(reap[d], "timeout"))
    <3>1. /\ Failed(reap[d], "timeout").status = "failed"
          /\ Failed(reap[d], "timeout").text = reap[d].text
      BY DEF Failed, Edit
    <3>2. row'[d].status \in {row[d].status, "failed"} /\ row'[d].text = row[d].text
      BY <2>2, <3>1, FlushKeeps
    <3>3. d \in BadDocs
      BY <2>2 DEF CalmStep, CauseOK, DocCause
    <3> QED BY <2>2, <3>2, <3>3 DEF RowMoves
  <2> QED BY <1>9, <2>1, <2>2 DEF ReapCommit
<1>10. ASSUME Tick, NEW d \in Docs PROVE RowMoves(d)
  BY <1>10 DEF Tick, Aged, RowMoves
<1>11. ASSUME NEW r \in Reqs, ReindexCommit(r) \/ MarkEnqueueFailed(r)
       PROVE  FALSE
  BY <1>11 DEF ReindexCommit, MarkEnqueueFailed, CalmStep, StampInv, CauseOK, ReqCause
<1>12. ASSUME NEW w \in Workers, RunStep(w) \/ ReclaimJob(w)
       PROVE  UNCHANGED row \/ MarkProcessing(w) \/ MarkFailed(w) \/ CommitIndexed(w)
  BY <1>12 DEF RunStep, LoadDocument, CapturePrevious, ExtractAndEmbed,
     CleanupPrevious, ReloadForFailure, JobSucceeded, JobRaised, ReclaimJob
<1>13. ASSUME NEW r \in Reqs,
              \/ EnqueueFetch(r) \/ EnqueueJob(r)
              \/ \E d \in Docs : SaveUpload(r, d) \/ ReindexCheck(r, d)
       PROVE  UNCHANGED row
  BY <1>13 DEF EnqueueFetch, EnqueueJob, SaveUpload, ReindexCheck
<1> QED
  BY <1>1, <1>3, <1>4, <1>5, <1>6, <1>7, <1>8, <1>9, <1>10, <1>11, <1>12, <1>13
     DEF CalmStep, Undisturbed, SchedulerEnqueue, Dequeue, ReapSelect, vars

LEMMA CauseHeld ==
  ASSUME ~S3Backend, CalmStep
  PROVE  \A d \in Docs : HeldMoves(d)
<1> USE DEF TypeOK
<1>1. ASSUME NEW d \in Docs, \A v \in Workers : Working(v) => Working(v)' /\ run'[v].doc = run[v].doc
      PROVE  HeldMoves(d)
  BY <1>1 DEF HeldMoves, Held
<1>2. ASSUME NEW d \in Docs, UNCHANGED run PROVE HeldMoves(d)
  BY <1>1, <1>2 DEF Working
<1>3. ASSUME NEW w \in Workers, NEW x, SetRun(w, x),
             Working(w) => x.doc = run[w].doc /\ x.pc \in {"capture", "work", "commit"},
             NEW d \in Docs
      PROVE  HeldMoves(d)
  BY <1>1, <1>3 DEF SetRun, Working, CalmStep, RunOK
<1>4. ASSUME NEW w \in Workers, NEW x, SetRun(w, x),
             run[w].doc \in BadDocs \/ row'[run[w].doc].status # "processing",
             NEW d \in Docs
      PROVE  HeldMoves(d)
  BY <1>4 DEF SetRun, Working, CalmStep, RunOK, HeldMoves, Held
<1>5. ASSUME NEW w \in Workers, NEW e \in Docs, Dequeue(w, e), NEW d \in Docs
      PROVE  HeldMoves(d)
  BY <1>3, <1>5 DEF Dequeue, Working
<1>6. ASSUME NEW w \in Workers, ~Working(w), RunStep(w) \/ ReclaimJob(w), NEW d \in Docs
      PROVE  HeldMoves(d)
  <2>1. \E x : SetRun(w, x)
    BY <1>6 DEF RunStep, LoadDocument, MarkProcessing, CapturePrevious, ExtractAndEmbed,
       CommitIndexed, CleanupPrevious, ReloadForFailure, MarkFailed, JobSucceeded,
       JobRaised, ReclaimJob, GoTo, Quit
  <2> QED BY <1>3, <1>6, <2>1
<1>7. ASSUME NEW w \in Workers, CapturePrevious(w), NEW d \in Docs PROVE HeldMoves(d)
  BY <1>3, <1>7 DEF CapturePrevious, At
<1>8. ASSUME NEW w \in Workers, ExtractAndEmbed(w), NEW d \in Docs
      PROVE  HeldMoves(d)
  <2>1. CASE GoTo(w, "commit", run[w].seen)
    BY <1>3, <2>1 DEF GoTo, At
  <2>2. CASE Quit(w, "fail") /\ ~Readable(w)
    <3>1. run[w].doc \in BadDocs \/ row'[run[w].doc].status # "processing"
      BY <1>8, <2>2 DEF ExtractAndEmbed, Readable, CalmStep, CauseOK, RunCause, Gone
    <3> QED BY <1>4, <2>2, <3>1 DEF Quit
  <2> QED BY <1>8, <2>1, <2>2 DEF ExtractAndEmbed
<1>9. ASSUME NEW w \in Workers, CommitIndexed(w), NEW d \in Docs
      PROVE  HeldMoves(d)
  <2>1. CASE Publish(w)
    <3> DEFINE e == run[w].doc  s == run[w].seen
    <3>1. /\ e \in Docs /\ s.status = "processing"
          /\ row' = [row EXCEPT ![e] = Flush(row[e], s, Indexed(s))]
      BY <1>9, <2>1 DEF CommitIndexed, Publish, CalmStep, RunOK, SeenInv, Holding
    <3>3. Flush(row[e], s, Indexed(s)).status = "indexed"
      BY <3>1, FlushIndexed
    <3>4. row'[e].status # "processing"
      BY <3>1, <3>3 DEF CalmStep
    <3>5. \E x : SetRun(w, x)
      BY <1>9 DEF CommitIndexed, GoTo, Quit
    <3> QED BY <1>4, <3>4, <3>5
  <2>2. CASE ~Publish(w)
    <3>1. row'[run[w].doc].status # "processing" /\ \E x : SetRun(w, x)
      BY <1>9, <2>2 DEF CommitIndexed, Exists, Quit
    <3> QED BY <1>4, <3>1
  <2> QED BY <2>1, <2>2
<1>10. ASSUME NEW r \in Reqs,
              \/ CommitUpload(r) \/ ReindexCommit(r) \/ EnqueueFetch(r)
              \/ EnqueueJob(r) \/ MarkEnqueueFailed(r)
              \/ \E d \in Docs : \/ CreateDocument(r, d) \/ SaveUpload(r, d)
                                 \/ ReindexCheck(r, d)
       PROVE  UNCHANGED run
  BY <1>10 DEF CreateDocument, SaveUpload, ReindexCheck, CommitUpload,
     ReindexCommit, EnqueueFetch, EnqueueJob, MarkEnqueueFailed
<1>11. ASSUME NEW w \in Workers, RunStep(w) \/ ReclaimJob(w), NEW d \in Docs
       PROVE  HeldMoves(d)
  <2>1. Working(w) => CapturePrevious(w) \/ ExtractAndEmbed(w) \/ CommitIndexed(w)
    BY <1>11 DEF Working, RunStep, LoadDocument, MarkProcessing, CleanupPrevious,
       ReloadForFailure, MarkFailed, JobSucceeded, JobRaised, ReclaimJob
  <2> QED BY <1>6, <1>7, <1>8, <1>9, <1>11, <2>1
<1> QED
  BY <1>2, <1>5, <1>10, <1>11
     DEF CalmStep, Undisturbed, SessionDelete, SchedulerEnqueue, ReapSelect,
         ReapCommit, Tick, vars

LEMMA CauseJobs ==
  ASSUME CalmStep
  PROVE  \A d \in Docs : job'[d].status # "none" => job[d].status # "none" \/ Born(d)
<1> USE DEF TypeOK
<1>1. CASE UNCHANGED job
  BY <1>1
<1>2. ASSUME NEW e \in Docs, Born(e), NEW j, job' = [job EXCEPT ![e] = j]
      PROVE  \A d \in Docs : job'[d].status # "none" => job[d].status # "none" \/ Born(d)
  BY <1>2 DEF CalmStep
<1>3. ASSUME NEW r \in Reqs, EnqueueJob(r)
      PROVE  \A d \in Docs : job'[d].status # "none" => job[d].status # "none" \/ Born(d)
  <2>1. Born(req[r].doc) /\ req[r].doc \in Docs
    BY <1>3 DEF EnqueueJob, CalmStep, ReqOK, CauseOK, ReqCause
  <2> QED BY <1>2, <1>3, <2>1 DEF EnqueueJob, NewJob
<1>4. ASSUME NEW w \in Workers, JobSucceeded(w) \/ JobRaised(w) \/ ReclaimJob(w)
      PROVE  \A d \in Docs : job'[d].status # "none" => job[d].status # "none" \/ Born(d)
  <2>1. Born(run[w].doc) /\ run[w].doc \in Docs
    BY <1>4 DEF JobSucceeded, JobRaised, ReclaimJob, CalmStep, RunOK, CauseOK, RunCause
  <2> QED BY <1>2, <1>4, <2>1 DEF JobSucceeded, JobRaised, ReclaimJob
<1>5. ASSUME NEW d \in Docs, SchedulerEnqueue(d) \/ \E w \in Workers : Dequeue(w, d)
      PROVE  \A e \in Docs : job'[e].status # "none" => job[e].status # "none" \/ Born(e)
  <2>1. Born(d)
    BY <1>5 DEF SchedulerEnqueue, Dequeue, CalmStep, JobInv, CauseOK, DocCause
  <2> QED BY <1>2, <1>5, <2>1 DEF SchedulerEnqueue, Dequeue
<1>6. ASSUME NEW r \in Reqs,
             \/ CommitUpload(r) \/ ReindexCommit(r) \/ EnqueueFetch(r)
             \/ MarkEnqueueFailed(r)
             \/ \E d \in Docs : \/ CreateDocument(r, d) \/ SaveUpload(r, d)
                                \/ ReindexCheck(r, d)
      PROVE  UNCHANGED job
  BY <1>6 DEF CreateDocument, SaveUpload, ReindexCheck, CommitUpload,
     ReindexCommit, EnqueueFetch, MarkEnqueueFailed
<1>7. ASSUME NEW w \in Workers, RunStep(w)
      PROVE  UNCHANGED job \/ JobSucceeded(w) \/ JobRaised(w)
  BY <1>7 DEF RunStep, LoadDocument, MarkProcessing, CapturePrevious, ExtractAndEmbed,
     CommitIndexed, CleanupPrevious, ReloadForFailure, MarkFailed
<1> QED
  BY <1>1, <1>3, <1>4, <1>5, <1>6, <1>7
     DEF CalmStep, Undisturbed, SessionDelete, ReapSelect, ReapCommit, Tick, vars

LEMMA CauseReap ==
  ASSUME ReapAges \subseteq {2}, CalmStep
  PROVE  DOMAIN reap' \subseteq BadDocs
<1>1. DOMAIN reap \subseteq BadDocs
  BY DEF CalmStep, CauseOK, DocCause, TypeOK, ReapOK
<1>2. ASSUME NEW age \in ReapAges, ReapSelect(age) PROVE DOMAIN reap' \subseteq BadDocs
  <2> SUFFICES ASSUME NEW d \in DOMAIN reap' PROVE d \in BadDocs
    OBVIOUS
  <2>1. age = 2
    OBVIOUS
  <2>2. d \in Docs /\ StaleAt(d, 2)
    BY <1>2, <2>1 DEF ReapSelect
  <2>3. ~Held(d)
    BY <2>2 DEF StaleAt, Held, CalmStep, StampInv, Stamped, Never
  <2> QED BY <2>2, <2>3 DEF StaleAt, CalmStep, CauseOK, DocCause
<1>3. ASSUME NEW r \in Reqs,
             \/ CommitUpload(r) \/ ReindexCommit(r) \/ EnqueueFetch(r)
             \/ EnqueueJob(r) \/ MarkEnqueueFailed(r)
             \/ \E d \in Docs : \/ CreateDocument(r, d) \/ SaveUpload(r, d)
                                \/ ReindexCheck(r, d)
      PROVE  UNCHANGED reap
  BY <1>3 DEF CreateDocument, SaveUpload, ReindexCheck, CommitUpload,
     ReindexCommit, EnqueueFetch, EnqueueJob, MarkEnqueueFailed
<1>4. ASSUME NEW w \in Workers, RunStep(w) \/ ReclaimJob(w)
      PROVE  UNCHANGED reap
  BY <1>4 DEF RunStep, LoadDocument, MarkProcessing, CapturePrevious, ExtractAndEmbed,
     CommitIndexed, CleanupPrevious, ReloadForFailure, MarkFailed, JobSucceeded,
     JobRaised, ReclaimJob
<1> QED
  BY <1>1, <1>2, <1>3, <1>4
     DEF CalmStep, Undisturbed, SessionDelete, SchedulerEnqueue, Dequeue, ReapCommit,
         Tick, vars

LEMMA CauseStep ==
  ASSUME "reindex" \notin Ops, ReapAges \subseteq {2}, ~S3Backend,
         TypeOK, JobInv, SeenInv, StampInv, CauseOK, [Next]_vars, Undisturbed, ~Fault
  PROVE  CauseOK'
<1>1. CalmStep
  BY Lasting, TypeStep DEF CalmStep
<1>2. /\ \A r \in Reqs : ReqCause(req[r])'
      /\ \A w \in Workers : RunCause(run[w])'
  BY <1>1, CauseReqs, CauseRuns
<1>3. ASSUME NEW d \in Docs PROVE DocCause(d)'
  <2>1. /\ RowMoves(d) /\ HeldMoves(d) /\ Lasts(d) /\ DocCause(d)
        /\ job'[d].status # "none" => job[d].status # "none" \/ Born(d)
        /\ DOMAIN reap' \subseteq BadDocs
    BY <1>1, CauseRows, CauseHeld, CauseJobs, CauseReap DEF CalmStep, CauseOK
  <2>2. (job[d].status # "none" => Born(d))'
    BY <2>1 DEF DocCause, Lasts
  <2>3. (Exists(d) => row[d].text \/ file[d])'
    BY <1>1, <2>1 DEF DocCause, Lasts, RowMoves, Exists, Gone, CalmStep, TypeOK, Row
  <2>4. (row[d].status = "processing" => d \in BadDocs \/ Held(d))'
    BY <2>1 DEF DocCause, RowMoves, HeldMoves
  <2>5. (row[d].status = "failed" \/ d \in DOMAIN reap => d \in BadDocs)'
    BY <2>1 DEF DocCause, RowMoves
  <2> QED BY <2>2, <2>3, <2>4, <2>5 DEF DocCause
<1> QED BY <1>2, <1>3 DEF CauseOK

(* Where nothing has crashed or raised, a document is only reported as     *)
(* failed because its content cannot be indexed: neither a session deleted *)
(* under a run, nor the reaper, nor another document's failure is enough.  *)
THEOREM FailuresHaveCauses ==
  ASSUME "reindex" \notin Ops, ReapAges \subseteq {2}, ~S3Backend
  PROVE  Spec => []FailureHasCause
<1> DEFINE I == ApartInv /\ SeenInv /\ StampInv /\ (Faultless => CauseOK)
<1>1. Init => I
  <2>1. Init => SeenInv /\ StampInv
    BY DEF Init, SeenInv, Holding, StampInv, Stamped, Working, IdleRun, IdleReq, At, Call
  <2>2. Init => CauseOK
    BY DEF Init, CauseOK, ReqCause, RunCause, DocCause, Exists, NoRow, IdleRun, IdleReq,
       At, Call
  <2> QED BY <2>1, <2>2, ApartInit
<1>2. I /\ [Next]_vars => I'
  <2> SUFFICES ASSUME I, [Next]_vars, Faultless' PROVE CauseOK'
    BY ApartStep, SeenStep, StampStep DEF ApartInv, RunsApart
  <2> QED BY FaultlessBack, NoFaultNoDisturbance, CauseStep DEF ApartInv
<1>3. I => FailureHasCause
  <2> SUFFICES ASSUME I, NEW d \in Docs, row[d].status = "failed", d \notin BadDocs
               PROVE  faults < MaxFaults
    BY DEF FailureHasCause
  <2>1. ~Faultless
    BY DEF CauseOK, DocCause
  <2> QED BY <2>1, BoundAssumption DEF Faultless, ApartInv, TypeOK
<1> QED BY <1>1, <1>2, <1>3, PTL DEF Spec
-----------------------------------------------------------------------------
(* Pending documents *)

(* A pending document without a job is in the hands of a request that has  *)
(* yet to queue it, or a fault has hit that request.  Once it has a job,   *)
(* the retries used up never exceed the faults that have happened: an      *)
(* attempt that ends before it has marked the row was ended by a fault.    *)
Hands(q, d) == q.doc = d /\ q.pc \in {"enqueue", "replace"}
Handed(d) == \E r \in Reqs : Hands(req[r], d)
Going == {"load", "mark", "fail", "markfailed"}

Goes(x) ==
  /\ x.pc \in Going \cup {"raise", "dead"}
  /\ x.pc \in Going => RetryMax <= job[x.doc].left + Spared
  /\ x.pc \in {"raise", "dead"} => RetryMax < job[x.doc].left + Spared
  /\ x.pc \in {"mark", "markfailed"} => x.seen.status = "pending"

JobHolds(d) ==
  /\ job[d].status # "finished"
  /\ job[d].status = "none" => Handed(d) \/ faults < MaxFaults
  /\ job[d].status \in {"queued", "scheduled"} => RetryMax <= job[d].left + Spared
  /\ job[d].status = "started" => \E w \in Workers : Busy(w) /\ run[w].doc = d
  /\ job[d].status = "failed" => RetryMax < Spared

PendOK(d) ==
  row[d].status = "pending" =>
    JobHolds(d) /\ \A w \in Workers : Busy(w) /\ run[w].doc = d => Goes(run[w])

(* Steps that leave the job and the runs of a document as they are.        *)
LEMMA PendHold ==
  ASSUME TypeOK, TypeOK', NEW d \in Docs, PendOK(d), faults' <= faults,
         row'[d].status = "pending" => row[d].status = "pending",
         job'[d] = job[d],
         \A w \in Workers : Busy(w) /\ run[w].doc = d => run'[w] = run[w],
         \A w \in Workers : Busy(w)' /\ run'[w].doc = d => run'[w] = run[w],
         job[d].status = "none" /\ Handed(d) => Handed(d)' \/ faults' < MaxFaults
  PROVE  PendOK(d)'
<1> SUFFICES ASSUME row'[d].status = "pending"
             PROVE  /\ JobHolds(d)'
                    /\ \A w \in Workers : Busy(w)' /\ run'[w].doc = d => Goes(run[w])'
    BY DEF PendOK
<1>1. /\ faults \in Nat /\ faults' \in Nat /\ MaxFaults \in Nat /\ RetryMax \in Nat
      /\ job[d].left \in Nat /\ Spared <= Spared' /\ Spared \in Int /\ Spared' \in Int
  BY BoundAssumption DEF TypeOK, Job, Spared
<1>2. JobHolds(d) /\ \A w \in Workers : Busy(w) /\ run[w].doc = d => Goes(run[w])
  BY DEF PendOK
<1>3. ASSUME NEW w \in Workers, Busy(w)', run'[w].doc = d PROVE Goes(run[w])'
  <2>1. run'[w] = run[w] /\ run[w].doc = d /\ Goes(run[w])
    BY <1>2, <1>3 DEF Busy
  <2> QED BY <1>1, <2>1 DEF Goes
<1>4. (\E w \in Workers : Busy(w) /\ run[w].doc = d)
        => \E w \in Workers : Busy(w)' /\ run'[w].doc = d
  BY DEF Busy
<1>5. JobHolds(d)'
  BY <1>1, <1>2, <1>4 DEF JobHolds
<1> QED BY <1>3, <1>5

LEMMA SparedNext ==
  ASSUME TypeOK'
  PROVE  Spared' \in Nat
<1>1. \A n \in 0..MaxFaults : MaxFaults - n \in Nat
  BY BoundAssumption
<1>2. faults' \in 0..MaxFaults
  BY DEF TypeOK
<1>3. Spared' = MaxFaults - faults'
  BY DEF Spared
<1> QED BY <1>1, <1>2, <1>3

LEMMA SparedType ==
  ASSUME TypeOK
  PROVE  Spared \in Nat /\ faults \in Nat /\ MaxFaults \in Nat /\ RetryMax \in Nat
BY BoundAssumption DEF TypeOK, Spared

(* A document whose job is not started has no run.                         *)
LEMMA NotStarted ==
  ASSUME JobInv, NEW d \in Docs, job[d].status # "started"
  PROVE  \A w \in Workers : Busy(w) => run[w].doc # d
BY DEF JobInv

(* A new document is in the hands of the request that made it.             *)
LEMMA PendCreated ==
  ASSUME TypeOK, JobInv, ReqInv, NEW d \in Docs, row[d].status = "unborn",
         UNCHANGED <<job, run>>, Handed(d)'
  PROVE  PendOK(d)'
<1>1. job[d].status = "none"
  BY DEF ReqInv, Born
<1>2. \A w \in Workers : Busy(w) => run[w].doc # d
  BY <1>1, NotStarted
<1> QED BY <1>1, <1>2 DEF PendOK, JobHolds, Busy

(* A document that is queued for the first time has all its retries.       *)
LEMMA PendQueued ==
  ASSUME TypeOK, TypeOK', JobInv, NEW d \in Docs, job[d].status = "none",
         NewJob(d), UNCHANGED run
  PROVE  PendOK(d)'
<1>1. job'[d] = [status |-> "queued", left |-> RetryMax]
  BY DEF NewJob, TypeOK
<1>2. RetryMax <= RetryMax + Spared'
  BY SparedNext, BoundAssumption
<1>3. \A w \in Workers : Busy(w) => run[w].doc # d
  BY NotStarted
<1> QED BY <1>1, <1>2, <1>3 DEF PendOK, JobHolds, Busy

(* The steps of a request: it hands the document on to the queue, or a     *)
(* fault breaks it off.                                                    *)
LEMMA PendApi ==
  ASSUME "reindex" \notin Ops, ApartInv, TypeOK', NEW d \in Docs, PendOK(d),
         NEW r \in Reqs, ApiStep(r)
  PROVE  PendOK(d)'
<1> USE DEF ApartInv
<1>0. /\ req[r].pc # "idle" => req[r].doc \in Docs
      /\ Serves(req[r])
      /\ UNCHANGED run /\ faults' <= faults
  <2>1. UNCHANGED run /\ (faults' = faults \/ Fault)
    BY DEF ApiStep, CreateDocument, SaveUpload, ReindexCheck, CommitUpload, ReindexCommit,
       EnqueueFetch, EnqueueJob, EnqueueError, MarkEnqueueFailed, RequestFails
  <2> QED BY <2>1, SparedType DEF TypeOK, ReqOK, ReqInv, Fault
<1>1. ASSUME row'[d].status = "pending" => row[d].status = "pending", job'[d] = job[d],
             NEW q, SetReq(r, q), ~Hands(req[r], d) \/ Hands(q, d) \/ faults' < MaxFaults
      PROVE  PendOK(d)'
  <2>1. req'[r] = q /\ \A s \in Reqs \ {r} : req'[s] = req[s]
    BY <1>1 DEF SetReq, TypeOK, ReqOK
  <2>2. Handed(d) => Handed(d)' \/ faults' < MaxFaults
    BY <1>1, <2>1 DEF Handed
  <2> QED BY <1>0, <1>1, <2>2, PendHold
<1>2. ASSUME NEW e \in Docs, row[e].status = "unborn", NEW t,
             row' = [row EXCEPT ![e] = NewRow(t)], UNCHANGED job,
             NEW u, SetReq(r, Call("enqueue", e, u, NoRow)),
             ~Hands(req[r], d)
      PROVE  PendOK(d)'
  <2> DEFINE q == Call("enqueue", e, u, NoRow)
  <2>1. q.doc = e /\ q.pc = "enqueue" BY DEF Call
  <2>2. CASE e = d
    <3>1. Handed(d)'
      BY <1>2, <2>1, <2>2 DEF SetReq, Handed, Hands, TypeOK, ReqOK
    <3> QED BY <1>0, <1>2, <2>2, <3>1, PendCreated
  <2>3. CASE e # d
    <3>1. row'[d] = row[d] BY <1>2, <2>3 DEF TypeOK
    <3> QED BY <1>1, <1>2, <3>1
  <2> QED BY <2>2, <2>3
<1>3. ASSUME NEW e \in Docs, CreateDocument(r, e) PROVE PendOK(d)'
  BY <1>2, <1>3 DEF CreateDocument, Hands
<1>4. ASSUME NEW e \in Docs, SaveUpload(r, e) PROVE PendOK(d)'
  BY <1>1, <1>4 DEF SaveUpload, Hands
<1>5. CASE CommitUpload(r)
  <2>1. req[r].doc \in Docs BY <1>0, <1>5 DEF CommitUpload
  <2> QED BY <1>2, <1>5, <2>1 DEF CommitUpload, Hands
<1>6. CASE EnqueueFetch(r)
  <2>1. UNCHANGED <<row, job>> /\ req[r].pc = "enqueue" BY <1>6 DEF EnqueueFetch
  <2>2. CASE req[r].doc = d /\ Exists(d)
    <3>1. job[d].status = "none" BY <1>0, <2>1, <2>2 DEF Serves
    <3>2. PICK q : q = Call("replace", d, req[r].upload, row[d]) OBVIOUS
    <3>3. SetReq(r, q) BY <1>6, <2>2, <3>1, <3>2 DEF EnqueueFetch, ActiveJob
    <3>4. Hands(q, d) BY <3>2 DEF Hands, Call
    <3> QED BY <1>1, <2>1, <3>3, <3>4
  <2>3. CASE req[r].doc = d /\ ~Exists(d)
    BY <2>1, <2>3 DEF PendOK, Exists
  <2>4. CASE req[r].doc # d
    <3>1. \E q : SetReq(r, q) BY <1>6 DEF EnqueueFetch
    <3> QED BY <1>1, <2>1, <2>4, <3>1 DEF Hands
  <2> QED BY <2>2, <2>3, <2>4
<1>7. ASSUME req[r].pc = "replace", NewJob(req[r].doc), UNCHANGED row,
             NEW q, SetReq(r, q)
      PROVE  PendOK(d)'
  <2>1. req[r].doc \in Docs /\ job[req[r].doc].status = "none"
    BY <1>0, <1>7 DEF Serves
  <2>2. CASE req[r].doc = d
    BY <1>0, <1>7, <2>1, <2>2, PendQueued
  <2>3. CASE req[r].doc # d
    <3>1. job'[d] = job[d] BY <1>7, <2>3 DEF NewJob, TypeOK
    <3> QED BY <1>1, <1>7, <2>3, <3>1 DEF Hands
  <2> QED BY <2>2, <2>3
<1>8. CASE EnqueueJob(r)
  BY <1>7, <1>8 DEF EnqueueJob
<1>9. CASE EnqueueError(r)
  <2>1. UNCHANGED row /\ faults' < MaxFaults /\ \E q : SetReq(r, q)
    BY <1>9, BoundAssumption DEF EnqueueError, Fault, TypeOK
  <2>2. CASE UNCHANGED job BY <1>1, <2>1, <2>2
  <2>3. CASE req[r].pc = "replace" /\ NewJob(req[r].doc) BY <1>7, <2>1, <2>3
  <2> QED BY <1>9, <2>2, <2>3 DEF EnqueueError
<1>10. CASE MarkEnqueueFailed(r)
  <2>1. UNCHANGED job /\ SetReq(r, IdleReq) /\ req[r].pc = "queuefailed"
    BY <1>10 DEF MarkEnqueueFailed
  <2>2. row'[d].status \in {row[d].status, "failed"}
    <3>1. CASE row' = row BY <3>1
    <3>2. CASE row' = [row EXCEPT ![req[r].doc] = QueueFailed(@, req[r].seen)]
      BY <3>2, QueueFailedType DEF TypeOK
    <3> QED BY <1>10, <3>1, <3>2 DEF MarkEnqueueFailed
  <2> QED BY <1>1, <2>1, <2>2 DEF Hands
<1>11. CASE RequestFails(r)
  <2>1. UNCHANGED <<row, job>> /\ faults' < MaxFaults /\ SetReq(r, IdleReq)
    BY <1>11, BoundAssumption DEF RequestFails, Fault, TypeOK
  <2> QED BY <1>1, <2>1
<1>12. ~ReindexCommit(r) /\ \A e \in Docs : ~ReindexCheck(r, e)
  BY <1>0 DEF ReindexCommit, ReindexCheck, Serves
<1> QED
  BY <1>3, <1>4, <1>5, <1>6, <1>8, <1>9, <1>10, <1>11, <1>12 DEF ApiStep

(* A worker that moves on within its run.                                  *)
LEMMA RunMoves ==
  ASSUME TypeOK, NEW w \in Workers, run[w].pc # "idle", NEW pc, NEW s,
         GoTo(w, pc, s) \/ Quit(w, pc)
  PROVE  /\ run'[w].pc = pc /\ run'[w].doc = run[w].doc
         /\ GoTo(w, pc, s) => run'[w].seen = s
         /\ \A v \in Workers \ {w} : run'[v] = run[v]
BY DEF GoTo, Quit, SetRun, At, TypeOK, RunOK

(* The run of a pending document moves on, its job as it is.               *)
LEMMA PendGoes ==
  ASSUME TypeOK, TypeOK', JobInv, NEW d \in Docs, PendOK(d), row[d].status = "pending",
         NEW w \in Workers, Busy(w), run[w].doc = d, UNCHANGED job,
         run'[w].pc # "idle", run'[w].doc = d, Goes(run[w])',
         \A v \in Workers \ {w} : run'[v] = run[v]
  PROVE  PendOK(d)'
<1>1. job[d].status = "started"
  BY DEF JobInv
<1>2. \A v \in Workers \ {w} : ~(Busy(v)' /\ run'[v].doc = d)
  BY DEF JobInv, Busy
<1> QED BY <1>1, <1>2 DEF PendOK, JobHolds, Busy

(* The steps of a run, by itself or through a fault: an attempt marks the  *)
(* row, or a fault has ended it, and RQ counts it against the retries.     *)
RunMove(w) == \/ RunStep(w) \/ ReclaimJob(w) \/ TransientError(w)
              \/ LostCommitReply(w) \/ WorkerCrash(w)

LEMMA PendRun ==
  ASSUME "reindex" \notin Ops, ApartInv, TypeOK', [Next]_vars,
         NEW d \in Docs, PendOK(d), NEW w \in Workers, RunMove(w)
  PROVE  PendOK(d)'
<1> USE DEF ApartInv
<1> DEFINE e == run[w].doc  s == run[w].seen
<1>0. /\ run[w].pc # "idle" /\ Busy(w) /\ e \in Docs /\ UNCHANGED req
      /\ \A v \in Workers \ {w} : run'[v] = run[v]
      /\ run'[w].pc = "idle" \/ run'[w].doc = e
      /\ \A c \in Docs \ {e} : row'[c] = row[c] /\ job'[c] = job[c]
      /\ faults' <= faults
  <2>1. run[w].pc # "idle" /\ UNCHANGED req
    BY DEF RunMove, RunStep, LoadDocument, MarkProcessing, CapturePrevious, ExtractAndEmbed,
       CommitIndexed, CleanupPrevious, ReloadForFailure, MarkFailed, JobSucceeded, JobRaised,
       ReclaimJob, TransientError, LostCommitReply, WorkerCrash, Live
  <2>2. e \in Docs
    BY <2>1 DEF TypeOK, RunOK
  <2>3. \A c \in Docs \ {e} : row'[c] = row[c] /\ job'[c] = job[c]
    BY <2>2 DEF RunMove, RunStep, LoadDocument, MarkProcessing, CapturePrevious,
       ExtractAndEmbed, CommitIndexed, CleanupPrevious, ReloadForFailure, MarkFailed,
       JobSucceeded, JobRaised, ReclaimJob, TransientError, LostCommitReply, WorkerCrash,
       Publish, TypeOK
  <2>4. faults' <= faults
    BY DEF RunMove, RunStep, LoadDocument, MarkProcessing, CapturePrevious, ExtractAndEmbed,
       CommitIndexed, CleanupPrevious, ReloadForFailure, MarkFailed, JobSucceeded, JobRaised,
       ReclaimJob, TransientError, LostCommitReply, WorkerCrash, Fault, TypeOK
  <2>5. /\ \A v \in Workers \ {w} : run'[v] = run[v]
        /\ run'[w].pc = "idle" \/ run'[w].doc = e
    BY DEF RunMove, RunStep, LoadDocument, MarkProcessing, CapturePrevious, ExtractAndEmbed,
       CommitIndexed, CleanupPrevious, ReloadForFailure, MarkFailed, JobSucceeded, JobRaised,
       ReclaimJob, TransientError, LostCommitReply, WorkerCrash, GoTo, Quit, SetRun, At,
       IdleRun, TypeOK, RunOK
  <2> QED BY <2>1, <2>2, <2>3, <2>4, <2>5 DEF Busy
<1>1. CASE e # d
  <2>1. /\ \A v \in Workers : Busy(v) /\ run[v].doc = d => run'[v] = run[v]
        /\ \A v \in Workers : Busy(v)' /\ run'[v].doc = d => run'[v] = run[v]
    BY <1>0, <1>1 DEF Busy
  <2>2. Handed(d) => Handed(d)'
    BY <1>0 DEF Handed
  <2> HIDE DEF e
  <2> QED BY <1>0, <1>1, <2>1, <2>2, PendHold
<1>2. CASE e = d /\ row[d].status # "pending"
  <2>1. Born(d)
    BY <1>0, <1>2 DEF JobInv, ReqInv
  <2>2. row'[d].status # "pending"
    <3>1. CASE row' = row
      BY <1>2, <3>1
    <3>2. ASSUME NEW new, row' = [row EXCEPT ![d] = Flush(row[d], s, new)],
                 new.status \in {"processing", "failed", "indexed"}
          PROVE  row'[d].status # "pending"
      <4>1. Flush(row[d], s, new).status # "pending"
        BY <1>2, <3>2, FlushKeeps
      <4> QED BY <3>2, <4>1 DEF TypeOK
    <3>3. /\ Processing(s).status = "processing" /\ Indexed(s).status = "indexed"
          /\ Failed(s, "job").status = "failed"
      BY DEF Processing, Indexed, Failed, Edit
    <3>4. \/ row' = row \/ row' = [row EXCEPT ![d] = Flush(row[d], s, Processing(s))]
          \/ row' = [row EXCEPT ![d] = Flush(row[d], s, Indexed(s))]
          \/ row' = [row EXCEPT ![d] = Flush(row[d], s, Failed(s, "job"))]
      BY <1>2 DEF RunMove, RunStep, LoadDocument, MarkProcessing, CapturePrevious,
         ExtractAndEmbed, CommitIndexed, CleanupPrevious, ReloadForFailure, MarkFailed,
         JobSucceeded, JobRaised, ReclaimJob, TransientError, LostCommitReply, WorkerCrash,
         Publish
    <3> QED BY <3>1, <3>2, <3>3, <3>4
  <2> QED BY <2>2 DEF PendOK
<1>3. CASE e = d /\ row[d].status = "pending"
  <2>1. /\ Goes(run[w]) /\ Exists(d) /\ job[d].status = "started"
        /\ \A v \in Workers \ {w} : ~(Busy(v)' /\ run'[v].doc = d)
    BY <1>0, <1>3 DEF PendOK, Exists, JobInv, Busy
  <2>2. /\ RetryMax \in Nat /\ job[d].left \in Nat /\ Spared \in Nat /\ Spared' \in Nat
        /\ job[d].left \in 0..RetryMax
    BY SparedType, SparedNext DEF TypeOK, Job
  <2>3. ASSUME NEW pc \in Going, NEW t, GoTo(w, pc, t), t.status = "pending",
               UNCHANGED <<job, faults>>, run[w].pc \in Going
        PROVE  PendOK(d)'
    <3>1. run'[w].pc = pc /\ run'[w].doc = d /\ run'[w].seen = t
      BY <1>0, <1>3, <2>3, RunMoves
    <3>2. Goes(run[w])'
      BY <1>3, <2>1, <2>3, <3>1 DEF Goes, Going, Spared
    <3> QED BY <1>0, <1>3, <2>3, <3>1, <3>2, PendGoes DEF Going
  <2>4. ASSUME NEW pc \in {"fail", "raise", "dead"}, Quit(w, pc), Fault, UNCHANGED job,
               pc = "fail" => run[w].pc \in Going
        PROVE  PendOK(d)'
    <3>1. run'[w].pc = pc /\ run'[w].doc = d
      BY <1>0, <1>3, <2>4, RunMoves
    <3>2. Spared' = Spared + 1
      BY <2>4, BoundAssumption DEF Fault, Spared, TypeOK
    <3>3. run[w].pc \in Going => RetryMax <= job[d].left + Spared
      BY <1>3, <2>1 DEF Goes
    <3>4. run[w].pc \notin Going => RetryMax < job[d].left + Spared
      BY <1>3, <2>1 DEF Goes
    <3>5. Goes(run[w])'
      BY <2>2, <2>4, <3>1, <3>2, <3>3, <3>4 DEF Goes, Going
    <3> QED BY <1>0, <1>3, <2>4, <3>1, <3>5, PendGoes
  <2>5. CASE LoadDocument(w)
    <3>1. GoTo(w, "mark", row[d]) /\ UNCHANGED <<job, faults>> /\ run[w].pc = "load"
      BY <1>3, <2>1, <2>5 DEF LoadDocument
    <3> QED BY <1>3, <2>3, <3>1 DEF Going
  <2>6. CASE MarkProcessing(w)
    <3>1. s.status = "pending" BY <2>1, <2>6 DEF MarkProcessing, Goes
    <3>2. Processing(s).status = "processing" BY DEF Processing, Edit
    <3>3. Flush(row[d], s, Processing(s)).status = "processing"
      BY <3>1, <3>2 DEF Flush, Put
    <3>4. row' = [row EXCEPT ![d] = Flush(row[d], s, Processing(s))]
      BY <1>3, <2>1, <2>6 DEF MarkProcessing
    <3>5. row'[d].status # "pending" BY <3>3, <3>4 DEF TypeOK
    <3> QED BY <3>5 DEF PendOK
  <2>7. CASE ReloadForFailure(w)
    <3>1. GoTo(w, "markfailed", row[d]) /\ UNCHANGED <<job, faults>> /\ run[w].pc = "fail"
      BY <1>3, <2>1, <2>7 DEF ReloadForFailure
    <3> QED BY <1>3, <2>3, <3>1 DEF Going
  <2>8. CASE MarkFailed(w)
    <3>1. s.status = "pending" BY <2>1, <2>8 DEF MarkFailed, Goes
    <3>2. Failed(s, "job").status = "failed" BY DEF Failed, Edit
    <3>3. Flush(row[d], s, Failed(s, "job")).status = "failed"
      BY <3>1, <3>2 DEF Flush, Put
    <3>4. row' = [row EXCEPT ![d] = Flush(row[d], s, Failed(s, "job"))]
      BY <1>3, <2>1, <2>8 DEF MarkFailed
    <3>5. row'[d].status # "pending" BY <3>3, <3>4 DEF TypeOK
    <3> QED BY <3>5 DEF PendOK
  <2>9. CASE JobRaised(w) \/ ReclaimJob(w)
    <3>1. /\ run[w].pc \in {"raise", "dead"} /\ job'[d] = RetryOrFail(job[d])
          /\ run'[w].pc = "idle" /\ UNCHANGED <<row, faults>>
      BY <1>3, <2>9 DEF JobRaised, ReclaimJob, SetRun, IdleRun, At, TypeOK, RunOK
    <3>2. RetryMax < job[d].left + Spared /\ Spared' = Spared
      BY <1>3, <2>1, <3>1 DEF Goes, Spared
    <3>3. \A v \in Workers : ~(Busy(v)' /\ run'[v].doc = d)
      BY <2>1, <3>1 DEF Busy
    <3>4. JobHolds(d)'
      <4>1. CASE job[d].left > 0
        <5>1. job'[d] = [status |-> "scheduled", left |-> job[d].left - 1]
          BY <3>1, <4>1 DEF RetryOrFail
        <5>2. RetryMax <= (job[d].left - 1) + Spared'
          BY <2>2, <3>2
        <5> QED BY <5>1, <5>2 DEF JobHolds
      <4>2. CASE ~(job[d].left > 0)
        <5>1. job'[d] = [status |-> "failed", left |-> 0]
          BY <3>1, <4>2 DEF RetryOrFail
        <5>2. RetryMax < Spared'
          BY <2>2, <3>2, <4>2
        <5> QED BY <5>1, <5>2 DEF JobHolds
      <4> QED BY <4>1, <4>2
    <3> QED BY <3>3, <3>4 DEF PendOK
  <2>10. CASE TransientError(w)
    <3>1. \/ run[w].pc = "mark" /\ Quit(w, "fail")
          \/ run[w].pc \in {"load", "fail", "markfailed"} /\ Quit(w, "raise")
      BY <2>1, <2>10 DEF TransientError, Goes, Going
    <3> QED BY <2>4, <2>10, <3>1 DEF TransientError, Going
  <2>11. CASE WorkerCrash(w)
    BY <2>4, <2>11 DEF WorkerCrash
  <2>12. ~ \/ CapturePrevious(w) \/ ExtractAndEmbed(w) \/ CommitIndexed(w)
           \/ CleanupPrevious(w) \/ JobSucceeded(w) \/ LostCommitReply(w)
    BY <2>1 DEF CapturePrevious, ExtractAndEmbed, CommitIndexed, CleanupPrevious,
       JobSucceeded, LostCommitReply, Goes, Going
  <2> QED
    BY <2>5, <2>6, <2>7, <2>8, <2>9, <2>10, <2>11, <2>12 DEF RunMove, RunStep
<1> QED BY <1>1, <1>2, <1>3

LEMMA PendStep ==
  ASSUME "reindex" \notin Ops, ApartInv, TypeOK', [Next]_vars,
         NEW d \in Docs, PendOK(d)
  PROVE  PendOK(d)'
<1> USE DEF ApartInv
<1>1. ASSUME row'[d].status = "pending" => row[d].status = "pending",
             UNCHANGED <<job, run, req>>, faults' = faults \/ Fault
      PROVE  PendOK(d)'
  <2>1. faults' <= faults BY <1>1 DEF Fault, TypeOK
  <2>2. Handed(d) => Handed(d)' BY <1>1 DEF Handed
  <2> QED BY <1>1, <2>1, <2>2, PendHold
<1>2. ASSUME NEW r \in Reqs, ApiCrash(LoopOf[r]) PROVE PendOK(d)'
  <2>1. faults' <= faults /\ faults' < MaxFaults
    BY <1>2, BoundAssumption DEF ApiCrash, Fault, TypeOK
  <2> QED BY <1>2, <2>1, PendHold DEF ApiCrash
<1>3. ASSUME NEW e \in Docs, SessionDelete(e) PROVE PendOK(d)'
  <2>1. row'[d].status \in {row[d].status, "gone"}
    BY <1>3 DEF SessionDelete, NoRow, TypeOK
  <2> QED BY <1>1, <1>3, <2>1 DEF SessionDelete
<1>4. ASSUME NEW e \in Docs, job[e].status \in {"queued", "scheduled"}, NEW st, st # "finished",
             job' = [job EXCEPT ![e].status = st], UNCHANGED <<row, req, faults>>,
             \/ st \in {"queued", "scheduled"} /\ UNCHANGED run
             \/ /\ st = "started"
                /\ \E w \in Workers : /\ run[w].pc = "idle"
                                      /\ run' = [run EXCEPT ![w] = At("load", e, NoRow, {})]
      PROVE  PendOK(d)'
  <2>1. CASE e # d
    <3>1. /\ job'[d] = job[d] /\ faults' <= faults
          /\ \A w \in Workers : Busy(w) /\ run[w].doc = d => run'[w] = run[w]
          /\ \A w \in Workers : Busy(w)' /\ run'[w].doc = d => run'[w] = run[w]
      BY <1>4, <2>1 DEF Busy, At, TypeOK, RunOK
    <3>2. Handed(d) => Handed(d)' BY <1>4 DEF Handed
    <3> QED BY <1>4, <3>1, <3>2, PendHold
  <2>2. CASE e = d
    <3> SUFFICES ASSUME row[d].status = "pending"
                 PROVE  /\ JobHolds(d)'
                        /\ \A w \in Workers : Busy(w)' /\ run'[w].doc = d => Goes(run[w])'
      BY <1>4 DEF PendOK
    <3>1. RetryMax <= job[d].left + Spared
      BY <1>4, <2>2 DEF PendOK, JobHolds
    <3>2. \A w \in Workers : Busy(w) => run[w].doc # d
      BY <1>4, <2>2, NotStarted
    <3>3. job'[d].status = st /\ job'[d].left = job[d].left /\ Spared' = Spared
      BY <1>4, <2>2 DEF TypeOK, Job, Spared
    <3>4. CASE st \in {"queued", "scheduled"} /\ UNCHANGED run
      BY <3>1, <3>2, <3>3, <3>4 DEF JobHolds, Busy
    <3>5. ASSUME st = "started", NEW w \in Workers, run[w].pc = "idle",
                 run' = [run EXCEPT ![w] = At("load", d, NoRow, {})]
          PROVE  JobHolds(d)' /\ \A v \in Workers : Busy(v)' /\ run'[v].doc = d => Goes(run[v])'
      <4>1. /\ run'[w].pc = "load" /\ run'[w].doc = d
            /\ \A v \in Workers \ {w} : run'[v] = run[v]
        BY <3>5 DEF At, TypeOK, RunOK
      <4>2. Goes(run[w])'
        BY <3>1, <3>3, <4>1 DEF Goes, Going
      <4>3. JobHolds(d)'
        BY <3>3, <3>5, <4>1 DEF JobHolds, Busy
      <4> QED BY <3>2, <4>1, <4>2, <4>3 DEF Busy
    <3> QED BY <1>4, <2>2, <3>4, <3>5
  <2> QED BY <2>1, <2>2
<1>5. ASSUME NEW e \in Docs, SchedulerEnqueue(e) PROVE PendOK(d)'
  BY <1>4, <1>5 DEF SchedulerEnqueue
<1>6. ASSUME NEW w \in Workers, NEW e \in Docs, Dequeue(w, e) PROVE PendOK(d)'
  <2>1. job[e].status = "queued" BY <1>6 DEF Dequeue, JobInv
  <2> QED BY <1>4, <1>6, <2>1 DEF Dequeue, SetRun
<1>7. CASE ReapCommit
  <2>1. row'[d].status \in {row[d].status, "failed"}
    <3>1. CASE row'[d] = row[d] BY <3>1
    <3>2. CASE row'[d] = Flush(row[d], reap[d], Failed(reap[d], "timeout"))
      <4>1. Failed(reap[d], "timeout").status = "failed" BY DEF Failed, Edit
      <4> QED BY <3>2, <4>1, FlushKeeps
    <3> QED BY <1>7, <3>1, <3>2 DEF ReapCommit
  <2> QED BY <1>1, <1>7, <2>1 DEF ReapCommit
<1>8. CASE Tick
  <2>1. row'[d].status = row[d].status BY <1>8 DEF Tick, Aged
  <2> QED BY <1>1, <1>8, <2>1 DEF Tick
<1>9. CASE (\E age \in ReapAges : ReapSelect(age)) \/ ReaperCrash \/ UNCHANGED vars
  BY <1>1, <1>9 DEF ReapSelect, ReaperCrash, vars
<1> QED
  BY <1>2, <1>3, <1>5, <1>6, <1>7, <1>8, <1>9, PendApi, PendRun DEF Next, RunMove

(* Where documents are only created, a pending document is moved on by a   *)
(* job, a run or a request, unless a fault broke its request off or the    *)
(* faults used up every attempt RQ allows its job: for any number of       *)
(* retries, faults and API processes.                                      *)
THEOREM PendingIsNeverOrphaned ==
  ASSUME "reindex" \notin Ops
  PROVE  Spec => []PendingIsOwned
<1> DEFINE I == ApartInv /\ \A d \in Docs : PendOK(d)
<1>1. Init => I
  <2>1. Init => \A d \in Docs : PendOK(d)
    BY DEF Init, PendOK, NoRow
  <2> QED BY <2>1, ApartInit
<1>2. I /\ [Next]_vars => I'
  <2> SUFFICES ASSUME I, [Next]_vars PROVE ApartInv' /\ \A d \in Docs : PendOK(d)'
    OBVIOUS
  <2>1. ApartInv' BY ApartStep DEF RunsApart
  <2> QED BY <2>1, PendStep DEF ApartInv
<1>3. I => PendingIsOwned
  <2> SUFFICES ASSUME I, NEW d \in Docs, row[d].status = "pending"
               PROVE  \/ Moved(d)
                      \/ job[d].status = "none" /\ faults < MaxFaults
                      \/ job[d].status \in {"started", "failed"} /\ Spared > RetryMax
    BY DEF PendingIsOwned, Spared
  <2>1. JobHolds(d) /\ \A w \in Workers : Busy(w) /\ run[w].doc = d => Goes(run[w])
    BY DEF PendOK
  <2>2. Handed(d) => Moved(d)
    BY DEF Handed, Hands, Moved
  <2>3. /\ RetryMax \in Nat /\ job[d].left \in Nat /\ Spared \in Nat
        /\ job[d].status \in JobStatus
    BY BoundAssumption DEF ApartInv, TypeOK, Job, Spared
  <2>4. CASE job[d].status = "started"
    <3>1. PICK w \in Workers : run[w].doc = d /\ Goes(run[w])
      BY <2>1, <2>4 DEF JobHolds
    <3>2. CASE run[w].pc \in Going
      BY <3>1, <3>2 DEF Going, Moved, Attempting, Live
    <3>3. CASE run[w].pc \in {"raise", "dead"} /\ job[d].left > 0
      BY <3>1, <3>3 DEF Moved, Attempting
    <3>4. CASE run[w].pc \in {"raise", "dead"} /\ ~(job[d].left > 0)
      BY <2>3, <2>4, <3>1, <3>4 DEF Goes
    <3> QED BY <3>1, <3>2, <3>3, <3>4 DEF Goes
  <2>5. CASE job[d].status \in {"queued", "scheduled"}
    BY <2>5 DEF Moved
  <2>6. CASE job[d].status \in {"none", "finished", "failed"}
    BY <2>1, <2>2, <2>3, <2>6 DEF JobHolds
  <2> QED BY <2>3, <2>4, <2>5, <2>6 DEF JobStatus
<1> HIDE DEF I
<1> QED BY <1>1, <1>2, <1>3, PTL DEF Spec

-----------------------------------------------------------------------------
(* Stamps that fit the status.  Only changed attributes are written back,  *)
(* so a run relies on what it has loaded: as long as it may still write, a *)
(* row shown as processing or indexed was loaded as such, and a text that  *)
(* was loaded is still there.                                              *)
Fits(x) == /\ x.status = "processing" => x.started # Never
           /\ x.status = "indexed" => x.text /\ x.indexed # Never
Lives(x) == x.status \notin {"unborn", "gone"}
Loaded == {"mark", "capture", "work", "commit", "markfailed"}
SeenFits(w) ==
  LET d == run[w].doc  seen == run[w].seen IN
  /\ run[w].pc \in {"mark", "markfailed"} /\ row[d].status \in {"processing", "indexed"}
       => seen.status = row[d].status
  /\ run[w].pc \in Loaded /\ Lives(row[d]) /\ seen.text => row[d].text
FitInv == (\A d \in Docs : Fits(row[d])) /\ (\A w \in Workers : SeenFits(w))

(* What others may do to a row a run has loaded.                           *)
Gentle(old, new) ==
  /\ new.status \in {"processing", "indexed"} => new.status = old.status
  /\ Lives(new) => Lives(old) /\ (old.text => new.text)

LEMMA FitKeep ==
  ASSUME FitInv, \A d \in Docs : Fits(row'[d]),
         \A w \in Workers :
           \/ run'[w].pc \notin Loaded
           \/ run'[w] = run[w] /\ Gentle(row[run[w].doc], row'[run[w].doc])
  PROVE  FitInv'
<1>1. ASSUME NEW w \in Workers PROVE SeenFits(w)'
  <2>1. {"mark", "markfailed"} \subseteq Loaded
    BY DEF Loaded
  <2>2. CASE run'[w].pc \notin Loaded
    BY <2>1, <2>2 DEF SeenFits
  <2>3. CASE run'[w] = run[w] /\ Gentle(row[run[w].doc], row'[run[w].doc])
    BY <2>3 DEF FitInv, SeenFits, Gentle
  <2> QED BY <2>2, <2>3
<1> QED BY <1>1 DEF FitInv

(* The rows a run, the reaper and a failed enqueue write back.             *)
LEMMA FlushFits ==
  ASSUME NEW cur \in Row, NEW seen \in Row, Fits(cur), NEW e \in Errors,
         cur.status \in {"processing", "indexed"} => seen.status = cur.status
  PROVE  /\ Fits(Flush(cur, seen, Processing(seen)))
         /\ Flush(cur, seen, Processing(seen)).text = cur.text
         /\ Fits(Flush(cur, seen, Failed(seen, e)))
         /\ Lives(cur) => Gentle(cur, Flush(cur, seen, Failed(seen, e)))
BY DEF Fits, Gentle, Lives, Flush, Put, PutStamp, Processing, Failed, Edit, Now, Never, Row

LEMMA PublishFits ==
  ASSUME NEW cur \in Row, NEW seen \in Row, seen.status = "processing",
         seen.text => cur.text
  PROVE  Fits(Flush(cur, seen, Indexed(seen)))
<1>1. LET new == Indexed(seen)
      IN  new.status = "indexed" /\ new.text = TRUE /\ new.indexed = 0
  BY DEF Indexed, Edit, Now
<1>2. Flush(cur, seen, Indexed(seen)).status = "indexed"
  BY <1>1 DEF Flush, Put
<1>3. Flush(cur, seen, Indexed(seen)).indexed = 0
  BY <1>1 DEF Flush, PutStamp, Put, Now
<1>4. Flush(cur, seen, Indexed(seen)).text
  BY <1>1 DEF Flush, Put, Row
<1> QED BY <1>2, <1>3, <1>4 DEF Fits, Never

LEMMA SameGentle == \A x : Gentle(x, x)
BY DEF Gentle

LEMMA QueueFailedFits ==
  ASSUME NEW cur \in Row, NEW seen, Lives(cur), Fits(cur)
  PROVE  Fits(QueueFailed(cur, seen)) /\ Gentle(cur, QueueFailed(cur, seen))
BY QueueFailedType DEF Fits, Gentle, Lives

(* The rows the steps of a request change are in nobody's hands, or only   *)
(* say "failed" afterwards.                                                *)
LEMMA FitApi ==
  ASSUME ApartInv, ReqInv, FitInv, NEW r \in Reqs, ApiStep(r)
  PROVE  FitInv'
<1> USE DEF ApartInv, TypeOK
<1>1. \A w \in Workers : run[w].pc \in Loaded => run[w].doc \in Docs /\ Born(run[w].doc)
  BY DEF JobInv, ReqInv, Busy, RunOK, Loaded
<1>2. UNCHANGED run
  BY DEF ApiStep, CreateDocument, SaveUpload, ReindexCheck, CommitUpload,
     ReindexCommit, EnqueueFetch, EnqueueJob, EnqueueError, MarkEnqueueFailed,
     RequestFails
<1>3. ASSUME NEW d \in Docs, NEW t \in BOOLEAN, row[d].status = "unborn",
             row' = [row EXCEPT ![d] = NewRow(t)]
      PROVE  FitInv'
  <2>1. \A e \in Docs : Fits(row'[e])
    BY <1>3 DEF FitInv, Fits, NewRow
  <2>2. \A w \in Workers : run[w].pc \in Loaded => run[w].doc # d
    BY <1>1, <1>3 DEF Born
  <2>3. \A w \in Workers : run[w].pc \in Loaded => row'[run[w].doc] = row[run[w].doc]
    BY <1>1, <1>3, <2>2
  <2> QED BY <1>2, <2>1, <2>3, SameGentle, FitKeep
<1>4. CASE UNCHANGED row
  <2>1. \A d \in Docs : Fits(row'[d])
    BY <1>4 DEF FitInv
  <2> QED BY <1>2, <1>4, <2>1, SameGentle, FitKeep
<1>5. CASE MarkEnqueueFailed(r)
  <2>1. CASE UNCHANGED row
    BY <1>4, <2>1
  <2>2. ASSUME NEW d \in Docs, NEW seen, Exists(d),
               row' = [row EXCEPT ![d] = QueueFailed(@, seen)]
        PROVE  FitInv'
    <3>1. Fits(QueueFailed(row[d], seen)) /\ Gentle(row[d], QueueFailed(row[d], seen))
      BY <2>2, QueueFailedFits DEF FitInv, Exists, Lives
    <3>2. \A e \in Docs : Fits(row'[e]) /\ Gentle(row[e], row'[e])
      BY <2>2, <3>1, SameGentle DEF FitInv
    <3> QED BY <1>1, <1>2, <3>2, FitKeep
  <2> QED BY <1>5, <2>1, <2>2 DEF MarkEnqueueFailed, ReqOK
<1>6. ASSUME NEW d \in Docs, CreateDocument(r, d) PROVE FitInv'
  BY <1>3, <1>6 DEF CreateDocument
<1>7. CASE CommitUpload(r)
  BY <1>3, <1>4, <1>7 DEF CommitUpload, ReqOK
<1>8. ~ReindexCommit(r)
  BY DEF ReindexCommit, ReqInv, Serves
<1> QED
  BY <1>4, <1>5, <1>6, <1>7, <1>8
     DEF ApiStep, SaveUpload, ReindexCheck, EnqueueFetch, EnqueueJob, EnqueueError, RequestFails

(* A run relies on what it has loaded, and no other run holds the row.     *)
LEMMA FitRun ==
  ASSUME ApartInv, SeenInv, FitInv, NEW w \in Workers,
         \/ RunStep(w) \/ ReclaimJob(w) \/ TransientError(w)
         \/ LostCommitReply(w) \/ WorkerCrash(w)
  PROVE  FitInv'
<1> USE DEF ApartInv, TypeOK
<1>0. run[w].pc # "idle" /\ run[w].doc \in Docs
  BY DEF RunStep, LoadDocument, MarkProcessing, CapturePrevious, ExtractAndEmbed,
     CommitIndexed, CleanupPrevious, ReloadForFailure, MarkFailed, JobSucceeded,
     JobRaised, ReclaimJob, TransientError, LostCommitReply, WorkerCrash, Live, RunOK
<1>1. PICK d \in Docs : d = run[w].doc
  BY <1>0
<1>2. \A v \in Workers \ {w} : run[v].pc \in Loaded => run[v].doc \in Docs \ {d}
  BY <1>0, <1>1 DEF JobInv, Busy, RunOK, Loaded
<1>3. ASSUME NEW x, SetRun(w, x), \A e \in Docs \ {d} : row'[e] = row[e],
             Fits(row'[d]), x.pc \in Loaded => SeenFits(w)'
      PROVE  FitInv'
  <2>1. /\ run' = [run EXCEPT ![w] = x] /\ run'[w] = x
        /\ \A v \in Workers \ {w} : run'[v] = run[v]
    BY <1>3 DEF SetRun, RunOK
  <2>2. \A e \in Docs : Fits(row'[e])
    BY <1>3 DEF FitInv
  <2>3. ASSUME NEW v \in Workers \ {w} PROVE SeenFits(v)'
    <3>1. CASE run[v].pc \notin Loaded
      BY <2>1, <3>1 DEF SeenFits, Loaded
    <3>2. CASE run[v].pc \in Loaded
      <4>1. run'[v] = run[v] /\ row'[run[v].doc] = row[run[v].doc]
        BY <1>2, <1>3, <2>1, <3>2
      <4> QED BY <4>1 DEF FitInv, SeenFits
    <3> QED BY <3>1, <3>2
  <2>4. SeenFits(w)'
    BY <1>3, <2>1 DEF SeenFits, Loaded
  <2> QED BY <2>2, <2>3, <2>4 DEF FitInv
<1>4. \A pc, s : /\ At(pc, d, s, {}).pc = pc
                 /\ At(pc, d, s, run[w].prev).pc = pc
  BY DEF At
<1>5. ASSUME NEW pc, pc \notin Loaded, NEW s, GoTo(w, pc, s) \/ Quit(w, pc),
             \A e \in Docs \ {d} : row'[e] = row[e], Fits(row'[d])
      PROVE  FitInv'
  BY <1>1, <1>3, <1>4, <1>5 DEF GoTo, Quit
<1>6. ASSUME UNCHANGED row, NEW pc, pc \notin Loaded, NEW s, GoTo(w, pc, s) \/ Quit(w, pc)
      PROVE  FitInv'
  BY <1>5, <1>6 DEF FitInv
<1>7. CASE LoadDocument(w) \/ ReloadForFailure(w)
  <2>1. UNCHANGED row
    BY <1>7 DEF LoadDocument, ReloadForFailure
  <2>2. ASSUME NEW pc, GoTo(w, pc, row[d]) PROVE FitInv'
    <3>1. /\ run'[w].doc = d /\ run'[w].seen = row[d]
      BY <1>1, <2>2 DEF GoTo, SetRun, At, RunOK
    <3>2. SeenFits(w)'
      BY <2>1, <3>1 DEF SeenFits
    <3> QED BY <1>1, <1>3, <2>1, <2>2, <3>2 DEF GoTo, FitInv
  <2>3. CASE Quit(w, "ok") \/ Quit(w, "raise")
    BY <1>6, <2>1, <2>3 DEF Loaded
  <2> QED BY <1>1, <1>7, <2>2, <2>3 DEF LoadDocument, ReloadForFailure
<1>8. CASE MarkProcessing(w)
  <2>1. CASE ~Exists(d)
    BY <1>1, <1>6, <1>8, <2>1 DEF MarkProcessing, Loaded
  <2>2. CASE Exists(d)
    <3>1. PICK s \in Row : s = run[w].seen
      BY DEF RunOK, Run
    <3>2. /\ row' = [row EXCEPT ![d] = Flush(@, s, Processing(s))]
          /\ SetRun(w, At("capture", d, Processing(s), run[w].prev))
          /\ run[w].pc = "mark"
      BY <1>1, <1>8, <2>2, <3>1 DEF MarkProcessing, GoTo
    <3>3. /\ row[d].status \in {"processing", "indexed"} => s.status = row[d].status
          /\ Fits(row[d]) /\ (s.text => row[d].text)
      BY <1>1, <2>2, <3>1, <3>2 DEF FitInv, SeenFits, Loaded, Exists, Lives
    <3>4. Fits(row'[d]) /\ row'[d].text = row[d].text
      BY <3>2, <3>3, FlushFits DEF Errors
    <3>5. /\ run'[w].doc = d /\ run'[w].seen.text = s.text /\ run'[w].pc = "capture"
      BY <3>2 DEF SetRun, At, RunOK, Processing, Edit
    <3>6. SeenFits(w)'
      BY <3>3, <3>4, <3>5 DEF SeenFits
    <3> QED BY <1>3, <3>2, <3>4, <3>6
  <2> QED BY <2>1, <2>2
<1>9. CASE CapturePrevious(w) \/ (ExtractAndEmbed(w) /\ Readable(w))
  <2>1. UNCHANGED row /\ run[w].pc \in {"capture", "work"}
    BY <1>9 DEF CapturePrevious, ExtractAndEmbed
  <2>2. PICK x : SetRun(w, x) /\ x.doc = d /\ x.seen = run[w].seen /\ x.pc \in {"work", "commit"}
    BY <1>1, <1>9 DEF CapturePrevious, ExtractAndEmbed, GoTo, At
  <2>3. run'[w] = x
    BY <2>2 DEF SetRun, RunOK
  <2>4. SeenFits(w)'
    BY <1>1, <2>1, <2>2, <2>3 DEF FitInv, SeenFits, Loaded
  <2> QED BY <1>3, <2>1, <2>2, <2>4 DEF FitInv
<1>10. CASE (CommitIndexed(w) /\ Publish(w)) \/ LostCommitReply(w)
  <2>1. PICK s \in Row : s = run[w].seen
    BY DEF RunOK, Run
  <2>2. /\ Exists(d) /\ run[w].pc = "commit"
        /\ row' = [row EXCEPT ![d] = Flush(@, s, Indexed(s))]
    BY <1>1, <1>10, <2>1 DEF CommitIndexed, LostCommitReply, Publish
  <2>3. s.status = "processing" /\ (s.text => row[d].text)
    BY <1>1, <2>1, <2>2 DEF SeenInv, Holding, FitInv, SeenFits, Loaded, Exists, Lives
  <2>4. Fits(row'[d])
    BY <2>2, <2>3, PublishFits
  <2>5. \E pc \in {"ok", "cleanup", "fail"} : GoTo(w, pc, NoRow) \/ Quit(w, pc)
    BY <1>10, <2>2, <1>1 DEF CommitIndexed, LostCommitReply
  <2> QED BY <1>5, <2>2, <2>4, <2>5 DEF Loaded
<1>11. CASE MarkFailed(w)
  <2>1. CASE ~Exists(d)
    BY <1>1, <1>6, <1>11, <2>1 DEF MarkFailed, Loaded
  <2>2. CASE Exists(d)
    <3>1. PICK s \in Row : s = run[w].seen
      BY DEF RunOK, Run
    <3>2. /\ row' = [row EXCEPT ![d] = Flush(@, s, Failed(s, "job"))]
          /\ Quit(w, "raise") /\ run[w].pc = "markfailed"
      BY <1>1, <1>11, <2>2, <3>1 DEF MarkFailed
    <3>3. /\ row[d].status \in {"processing", "indexed"} => s.status = row[d].status
          /\ Fits(row[d])
      BY <1>1, <3>1, <3>2 DEF FitInv, SeenFits
    <3>4. Fits(row'[d])
      BY <3>2, <3>3, FlushFits DEF Errors
    <3> QED BY <1>5, <3>2, <3>4 DEF Loaded
  <2> QED BY <2>1, <2>2
<1>12. CASE JobSucceeded(w) \/ JobRaised(w) \/ ReclaimJob(w)
  <2>1. SetRun(w, IdleRun) /\ UNCHANGED row /\ IdleRun.pc \notin Loaded
    BY <1>12 DEF JobSucceeded, JobRaised, ReclaimJob, IdleRun, At, Loaded
  <2> QED BY <1>3, <2>1 DEF FitInv
<1>13. CASE \/ CleanupPrevious(w) \/ TransientError(w) \/ WorkerCrash(w)
            \/ (ExtractAndEmbed(w) /\ ~Readable(w)) \/ (CommitIndexed(w) /\ ~Publish(w))
  <2>1. UNCHANGED row /\ \E pc \in {"fail", "raise", "ok", "dead"} : Quit(w, pc)
    BY <1>13 DEF CleanupPrevious, TransientError, WorkerCrash, ExtractAndEmbed, CommitIndexed
  <2> QED BY <1>6, <2>1 DEF Loaded
<1> QED
  BY <1>7, <1>8, <1>9, <1>10, <1>11, <1>12, <1>13 DEF RunStep

LEMMA FitStep ==
  ASSUME "reindex" \notin Ops
  PROVE  ApartInv /\ SeenInv /\ StampInv /\ FitInv /\ [Next]_vars => FitInv'
<1> SUFFICES ASSUME ApartInv, SeenInv, StampInv, FitInv, [Next]_vars PROVE FitInv'
  OBVIOUS
<1> USE DEF ApartInv, TypeOK
<1>0. \A w \in Workers : run[w].pc \in Loaded => run[w].doc \in Docs
  BY DEF RunOK, Loaded
<1>1. ASSUME UNCHANGED run, \A d \in Docs : Fits(row'[d]) /\ Gentle(row[d], row'[d])
      PROVE  FitInv'
  BY <1>0, <1>1, FitKeep
<1>2. ASSUME UNCHANGED <<row, run>> PROVE FitInv'
  BY <1>1, <1>2, SameGentle DEF FitInv
<1>3. ASSUME NEW r \in Reqs, ApiStep(r) \/ ApiCrash(LoopOf[r]) PROVE FitInv'
  BY <1>2, <1>3, FitApi DEF ApiCrash
<1>4. ASSUME NEW d \in Docs, SessionDelete(d) PROVE FitInv'
  <2>1. \A e \in Docs : Fits(row'[e]) /\ Gentle(row[e], row'[e])
    BY <1>4, SameGentle DEF SessionDelete, NoRow, Fits, Gentle, Lives, FitInv
  <2> QED BY <1>1, <1>4, <2>1 DEF SessionDelete
<1>5. ASSUME NEW w \in Workers, NEW d \in Docs, Dequeue(w, d) PROVE FitInv'
  <2>1. /\ run'[w].pc \notin Loaded /\ UNCHANGED row
        /\ \A v \in Workers \ {w} : run'[v] = run[v]
    BY <1>5 DEF Dequeue, SetRun, At, RunOK, Loaded
  <2>2. \A e \in Docs : Fits(row'[e])
    BY <2>1 DEF FitInv
  <2> QED BY <2>1, <2>2, SameGentle, FitKeep
<1>6. CASE ReapCommit
  <2>1. ASSUME NEW d \in DOMAIN reap, Exists(d),
               row'[d] = Flush(row[d], reap[d], Failed(reap[d], "timeout"))
        PROVE  Fits(row'[d]) /\ Gentle(row[d], row'[d])
    <3>1. reap[d].status = "processing" /\ d \in Docs
      BY DEF StampInv, ReapOK
    <3>2. Failed(reap[d], "timeout").status = "failed"
      BY DEF Failed, Edit
    <3>3. /\ Flush(row[d], reap[d], Failed(reap[d], "timeout")).status = "failed"
          /\ Flush(row[d], reap[d], Failed(reap[d], "timeout")).text = row[d].text
      BY <3>1, <3>2 DEF Flush, Put, Failed, Edit
    <3> QED BY <2>1, <3>3 DEF Fits, Gentle, Exists, Lives
  <2>2. \A d \in Docs : Fits(row'[d]) /\ Gentle(row[d], row'[d])
    BY <1>6, <2>1, SameGentle DEF ReapCommit, FitInv
  <2> QED BY <1>1, <1>6, <2>2 DEF ReapCommit
<1>7. CASE Tick
  <2>1. ASSUME NEW t \in Stamps, t # Never PROVE Older(t) # Never
    BY <2>1, AgeAssumption DEF Older, Stamps, Never
  <2>2. ASSUME NEW d \in Docs PROVE Fits(row'[d]) /\ Gentle(row[d], row'[d])
    <3>1. /\ row'[d] = Aged(row[d]) /\ Fits(row[d])
          /\ row[d].started \in Stamps /\ row[d].indexed \in Stamps
      BY <1>7 DEF Tick, FitInv, Row
    <3>2. /\ row'[d].status = row[d].status /\ row'[d].text = row[d].text
          /\ row'[d].started = Older(row[d].started)
          /\ row'[d].indexed = Older(row[d].indexed)
      BY <3>1 DEF Aged
    <3> QED BY <2>1, <3>1, <3>2 DEF Fits, Gentle, Lives
  <2> QED BY <1>1, <1>7, <2>2 DEF Tick
<1>8. CASE \/ \E d \in Docs : SchedulerEnqueue(d)
           \/ \E age \in ReapAges : ReapSelect(age)
           \/ ReaperCrash \/ UNCHANGED vars
  BY <1>2, <1>8 DEF SchedulerEnqueue, ReapSelect, ReaperCrash, vars
<1> QED
  BY <1>3, <1>4, <1>5, <1>6, <1>7, <1>8, FitRun DEF Next

(* Where documents are only created, a document shown as processing or     *)
(* indexed carries the stamp, and the text, that goes with it, whatever    *)
(* crashes or fails and however many API processes there are: flushing     *)
(* only what changed never mixes two writers' rows into a third.           *)
THEOREM StampsAlwaysFit ==
  ASSUME "reindex" \notin Ops
  PROVE  Spec => []StampsFitStatus
<1> DEFINE I == ApartInv /\ SeenInv /\ StampInv /\ FitInv
<1>1. Init => I
  <2>1. Init => SeenInv /\ StampInv
    BY DEF Init, SeenInv, Holding, StampInv, Stamped, Working, IdleRun, IdleReq, At, Call
  <2>2. Init => FitInv
    BY DEF Init, FitInv, Fits, SeenFits, Loaded, NoRow, IdleRun, At
  <2> QED BY <2>1, <2>2, ApartInit
<1>2. I /\ [Next]_vars => I'
  BY ApartStep, SeenStep, StampStep, FitStep DEF ApartInv, RunsApart
<1>3. I => StampsFitStatus
  BY DEF FitInv, Fits, StampsFitStatus
<1> HIDE DEF I
<1> QED BY <1>1, <1>2, <1>3, PTL DEF Spec
=============================================================================
