------------------------- MODULE ImportPipelineProofs -------------------------
(***************************************************************************)
(* The import pipeline implements the catalogue, for any number of         *)
(* uploads, scopes, workers and publication requests: each of its steps is *)
(* one transaction of the catalogue or none.  Every theorem about the      *)
(* catalogue is therefore one about the pipeline.                          *)
(*                                                                         *)
(* What the refinement needs of the pipeline is small: a process that is   *)
(* not idle works on some upload (QueueTypeOK).                            *)
(***************************************************************************)
EXTENDS ImportPipeline, DatasetVersionsProofs

-----------------------------------------------------------------------------
(* Types of the queue and of the runs *)

\* What the steps of a run make of its record.
LEMMA RunSteps ==
  ASSUME QueueTypeOK, NEW p \in Processes, run[p].at # "idle"
  PROVE  /\ run[p].batch \in Batches /\ run[p].retryable \in BOOLEAN
         /\ \A stage \in Stages \ {"idle"} : Goto(p, stage) => run' \in [Processes -> Runs]
         /\ \A r \in BOOLEAN : CatchInBatch(p, r) => run' \in [Processes -> Runs]
         /\ \A r \in BOOLEAN : Throw(p, r) => run' \in [Processes -> Runs]
<1>. USE DEF QueueTypeOK, Runs, Stages
<1>1. run[p] \in [at : Stages \ {"idle"}, batch : Batches, retryable : BOOLEAN]
  BY DEF Idle
<1>2. ASSUME NEW stage \in Stages \ {"idle"}, Goto(p, stage)
      PROVE  run' \in [Processes -> Runs]
  BY <1>1, <1>2 DEF Goto
<1>3. ASSUME NEW r \in BOOLEAN, CatchInBatch(p, r)
      PROVE  run' \in [Processes -> Runs]
  BY <1>1, <1>3 DEF CatchInBatch
<1>4. ASSUME NEW r \in BOOLEAN, Throw(p, r)
      PROVE  run' \in [Processes -> Runs]
  BY <1>1, <1>4 DEF Throw
<1>. QED  BY <1>1, <1>2, <1>3, <1>4

\* An idle process ends or begins a run.
LEMMA RunEnds ==
  ASSUME QueueTypeOK, NEW p \in Processes
  PROVE  /\ Return(p) => run' \in [Processes -> Runs]
         /\ \A b \in Batches :
              run' = [run EXCEPT ![p] = [Idle EXCEPT !.at = "check", !.batch = b]]
              => run' \in [Processes -> Runs]
<1>1. Return(p) => run' \in [Processes -> Runs]
  BY DEF QueueTypeOK, Return, Runs
<1>2. ASSUME NEW b \in Batches,
             run' = [run EXCEPT ![p] = [Idle EXCEPT !.at = "check", !.batch = b]]
      PROVE  run' \in [Processes -> Runs]
  <2>1. [Idle EXCEPT !.at = "check", !.batch = b] \in Runs
    BY DEF Idle, Runs, Stages
  <2>. QED  BY <1>2, <2>1 DEF QueueTypeOK
<1>. QED  BY <1>1, <1>2

\* A claim starts one more attempt only of a job that has one left.
LEMMA ClaimKeepsTypes ==
  ASSUME QueueTypeOK, NEW w \in Workers, Claim(w)
  PROVE  QueueTypeOK'
<1>1. PICK x \in Exhausted \cup {NoBatch}, b \in Claimable \cup {NoBatch} : SettleAndTake(w, x, b)
  BY DEF Claim
<1>2. b = NoBatch \/ (b \in Batches /\ attempts[b] < MaxAttempts)
  BY DEF Claimable
<1>3. jobStatus' \in [Batches -> {"none", "queued", "processing", "completed", "failed"}]
  BY <1>1 DEF SettleAndTake, QueueTypeOK, Reconciled
<1>4. attempts' \in [Batches -> 0..MaxAttempts]
  BY <1>1, <1>2, MaxAttemptsAssumption, NoBatchAssumption DEF SettleAndTake, QueueTypeOK
<1>5. owner' \in [Batches -> Workers \cup {NoWorker}] /\ expired' \in [Batches -> BOOLEAN]
  BY <1>1 DEF SettleAndTake, QueueTypeOK
<1>6. run' \in [Processes -> Runs]
  BY <1>1, <1>2, RunEnds DEF SettleAndTake, QueueTypeOK, Processes
<1>. QED  BY <1>3, <1>4, <1>5, <1>6 DEF QueueTypeOK

\* Every step of the pipeline keeps the types of jobs and runs.
LEMMA QueueTypeStep ==
  ASSUME QueueTypeOK, [Next]_vars
  PROVE  QueueTypeOK'
<1>1. CASE UNCHANGED vars
  BY <1>1 DEF vars, QueueTypeOK
<1>2. ASSUME NEW b \in Batches, Enqueue(b) \/ Expire(b) \/ ChangeLifecycle(b) \/ DeleteUpload(b)
      PROVE  QueueTypeOK'
  <2>. USE DEF QueueTypeOK
  <2>1. CASE Enqueue(b)
    BY <2>1 DEF Enqueue
  <2>2. CASE Expire(b)
    BY <2>2 DEF Expire
  <2>3. CASE ChangeLifecycle(b)
    BY <2>3 DEF ChangeLifecycle, jobVars
  <2>4. CASE DeleteUpload(b)
    BY <2>4, MaxAttemptsAssumption DEF DeleteUpload
  <2>. QED  BY <1>2, <2>1, <2>2, <2>3, <2>4
<1>3. ASSUME NEW p \in Processes, ProcessBatch(p) \/ TransientError(p) \/ Crash(p)
      PROVE  QueueTypeOK'
  <2>1. UNCHANGED jobVars
    BY <1>3 DEF ProcessBatch, Check, Mark, Persist, PersistFails, BatchCatch, TransientError,
       Crash
  <2>2. CASE Crash(p)
    BY <2>1, <2>2, RunEnds DEF Crash, jobVars, QueueTypeOK
  <2>3. CASE ~Crash(p)
    <3>1. run[p].at # "idle"
      BY <1>3, <2>3 DEF ProcessBatch, Check, Mark, Persist, PersistFails, BatchCatch,
         TransientError
    <3>2. run' \in [Processes -> Runs]
      <4>1. CASE Check(p)
        BY <4>1, <3>1, RunSteps DEF Check, Stages
      <4>2. CASE Mark(p)
        BY <4>2, <3>1, RunSteps DEF Mark, Stages
      <4>3. CASE Persist(p)
        BY <4>3, <3>1, RunSteps DEF Persist, Stages
      <4>4. CASE PersistFails(p)
        BY <4>4, <3>1, RunSteps DEF PersistFails
      <4>5. CASE BatchCatch(p)
        BY <4>5, <3>1, RunSteps DEF BatchCatch
      <4>6. CASE TransientError(p)
        BY <4>6, <3>1, RunSteps DEF TransientError
      <4>. QED  BY <1>3, <2>3, <4>1, <4>2, <4>3, <4>4, <4>5, <4>6 DEF ProcessBatch
    <3>. QED  BY <2>1, <3>2 DEF jobVars, QueueTypeOK
  <2>. QED  BY <2>2, <2>3
<1>4. ASSUME NEW w \in Workers,
             ActorIneligible(w) \/ Complete(w) \/ JobCatch(w) \/ Heartbeat(w)
      PROVE  QueueTypeOK'
  <2>. w \in Processes
    BY DEF Processes
  <2>1. run' \in [Processes -> Runs]
    BY <1>4, RunSteps, RunEnds DEF ActorIneligible, Complete, JobCatch, Heartbeat, QueueTypeOK
  <2>2. /\ jobStatus' \in [Batches -> {"none", "queued", "processing", "completed", "failed"}]
        /\ attempts' \in [Batches -> 0..MaxAttempts]
        /\ owner' \in [Batches -> Workers \cup {NoWorker}]
        /\ expired' \in [Batches -> BOOLEAN]
    BY <1>4 DEF ActorIneligible, Complete, JobCatch, Heartbeat, jobVars, QueueTypeOK
  <2>. QED  BY <2>1, <2>2 DEF QueueTypeOK
<1>5. ASSUME NEW p \in Publishers, FinishPublication(p)
      PROVE  QueueTypeOK'
  BY <1>5, RunEnds DEF FinishPublication, jobVars, QueueTypeOK, Processes
<1>6. ASSUME NEW p \in Publishers, NEW b \in Batches, OpenPreview(p, b)
      PROVE  QueueTypeOK'
  BY <1>6, RunEnds DEF OpenPreview, jobVars, QueueTypeOK, Processes
<1>. QED
  BY <1>1, <1>2, <1>3, <1>4, <1>5, <1>6, ClaimKeepsTypes
     DEF Next, WorkerStep, PublisherStep, Processes

\* Types of jobs and runs.
LEMMA QueueTypeCorrect == Spec => []QueueTypeOK
<1>1. Init => QueueTypeOK
  BY MaxAttemptsAssumption DEF Init, QueueTypeOK, Runs
<1>2. QueueTypeOK /\ [Next]_vars => QueueTypeOK'
  BY QueueTypeStep
<1>. QED  BY <1>1, <1>2, PTL DEF Spec

-----------------------------------------------------------------------------
(* The refinement *)

\* A status write of the pipeline is one of the catalogue, or finds no row.
LEMMA WriteRefines ==
  ASSUME NEW b \in Batches, NEW st \in {"processing", "failed", "uploaded"}
  PROVE  /\ WriteIfExists(b, MarkProcessing(b)) => [CatalogNext]_catalogVars
         /\ WriteIfExists(b, FailProcessing(b)) => [CatalogNext]_catalogVars
         /\ Requeue(b) => CatalogNext
BY DEF WriteIfExists, CatalogNext, ProcessingStep

\* Every step of the pipeline is one transaction of the catalogue, or none.
LEMMA StepRefines ==
  ASSUME QueueTypeOK, [Next]_vars
  PROVE  [CatalogNext]_catalogVars
<1>1. CASE UNCHANGED vars
  BY <1>1 DEF vars, catalogVars
<1>2. ASSUME NEW b \in Batches, Enqueue(b) \/ Expire(b) \/ ChangeLifecycle(b) \/ DeleteUpload(b)
      PROVE  [CatalogNext]_catalogVars
  BY <1>2 DEF Enqueue, Expire, ChangeLifecycle, DeleteUpload, CatalogNext, ProcessingStep,
     LifecycleStep
<1>3. ASSUME NEW p \in Processes, ProcessBatch(p) \/ TransientError(p) \/ Crash(p)
      PROVE  [CatalogNext]_catalogVars
  <2>1. CASE Check(p) \/ PersistFails(p) \/ TransientError(p) \/ Crash(p)
    BY <2>1 DEF Check, PersistFails, TransientError, Crash
  <2>2. CASE Mark(p) \/ BatchCatch(p)
    BY <2>2, RunSteps, WriteRefines DEF Mark, BatchCatch
  <2>3. CASE Persist(p)
    <3>1. run[p].batch \in Batches
      BY <2>3, RunSteps DEF Persist
    <3>. QED  BY <2>3, <3>1 DEF Persist, CatalogNext, ProcessingStep
  <2>. QED  BY <1>3, <2>1, <2>2, <2>3 DEF ProcessBatch
<1>4. ASSUME NEW w \in Workers,
             ActorIneligible(w) \/ Complete(w) \/ JobCatch(w) \/ Heartbeat(w)
      PROVE  [CatalogNext]_catalogVars
  <2>. w \in Processes
    BY DEF Processes
  <2>1. CASE ActorIneligible(w) \/ Complete(w) \/ Heartbeat(w)
    BY <2>1 DEF ActorIneligible, Complete, Heartbeat
  <2>2. CASE JobCatch(w)
    BY <2>2, RunSteps, WriteRefines DEF JobCatch
  <2>. QED  BY <1>4, <2>1, <2>2
<1>5. ASSUME NEW w \in Workers, Claim(w)
      PROVE  [CatalogNext]_catalogVars
  <2>1. PICK x \in Exhausted \cup {NoBatch}, b \in Claimable \cup {NoBatch} : SettleAndTake(w, x, b)
    BY <1>5 DEF Claim
  <2>2. x # NoBatch => x \in Batches
    BY DEF Exhausted
  <2>. QED  BY <2>1, <2>2 DEF SettleAndTake, CatalogNext, ProcessingStep
<1>6. ASSUME NEW p \in Publishers, FinishPublication(p)
      PROVE  [CatalogNext]_catalogVars
  BY <1>6, RunSteps DEF FinishPublication, Processes, CatalogNext, LifecycleStep
<1>7. ASSUME NEW p \in Publishers, NEW b \in Batches, OpenPreview(p, b)
      PROVE  [CatalogNext]_catalogVars
  BY <1>7 DEF OpenPreview
<1>. QED
  BY <1>1, <1>2, <1>3, <1>4, <1>5, <1>6, <1>7 DEF Next, WorkerStep, PublisherStep, Processes

\* Whatever workers, publication requests, crashes and lost leases do, the
\* tables only ever change by the transactions of the catalogue.
THEOREM ImplementsCatalog == Spec => CatalogSpec
<1>1. Init => CatalogInit
  BY DEF Init
<1>2. QueueTypeOK /\ [Next]_vars => [CatalogNext]_catalogVars
  BY StepRefines
<1>. QED  BY <1>1, <1>2, QueueTypeCorrect, PTL DEF Spec, CatalogSpec

\* Types of all tables and runs; attempts never exceed the limit.
THEOREM PipelineTypeCorrect == Spec => []PipelineTypeOK
<1>1. TypeOK /\ QueueTypeOK => PipelineTypeOK
  BY DEF PipelineTypeOK
<1>. QED  BY <1>1, QueueTypeCorrect, ImplementsCatalog, TypeCorrect, PTL

\* The catalogue's invariant and its two step properties hold of the pipeline.
THEOREM PipelineKeepsCatalog ==
  Spec => []CatalogInv /\ OnlyPublicationReveals /\ DeletionKeepsHistory
BY ImplementsCatalog, CatalogInvariant, Reveals, HistoryKept, PTL

-----------------------------------------------------------------------------
(* Fencing *)

\* A step of one process leaves the runs of the others alone.
LEMMA OthersKeepTheirRun ==
  ASSUME QueueTypeOK, NEW w \in Workers, NEW p \in Processes, p # w
  PROVE  /\ \A stage \in Stages : Goto(p, stage) => run'[w] = run[w]
         /\ \A r \in BOOLEAN : CatchInBatch(p, r) => run'[w] = run[w]
         /\ \A r : Throw(p, r) => run'[w] = run[w]
         /\ Return(p) => run'[w] = run[w]
<1>. w \in Processes /\ run \in [Processes -> Runs]
  BY DEF Processes, QueueTypeOK
<1>1. ASSUME NEW stage \in Stages, Goto(p, stage)
      PROVE  run'[w] = run[w]
  BY <1>1 DEF Goto
<1>2. ASSUME NEW r \in BOOLEAN, CatchInBatch(p, r)
      PROVE  run'[w] = run[w]
  BY <1>2 DEF CatchInBatch
<1>3. ASSUME NEW r, Throw(p, r)
      PROVE  run'[w] = run[w]
  BY <1>3 DEF Throw
<1>4. Return(p) => run'[w] = run[w]
  BY DEF Return
<1>. QED  BY <1>1, <1>2, <1>3, <1>4

\* A worker whose job was taken over, settled or deleted changes nothing, at
\* whatever point of its run that happened.
THEOREM StaleWorkersAreHarmless == Spec => StaleWorkerHarmless
<1>. DEFINE A == \A w \in Workers :
       /\ run[w] # Idle /\ run'[w] # run[w]
       /\ owner[run[w].batch] # w
       => UNCHANGED <<catalogVars, jobVars>>
<1>1. QueueTypeOK /\ [Next]_vars => [A]_vars
  <2>. SUFFICES ASSUME QueueTypeOK, Next, NEW w \in Workers,
                       run[w] # Idle, run'[w] # run[w], owner[run[w].batch] # w
                PROVE  UNCHANGED <<catalogVars, jobVars>>
    OBVIOUS
  <2>1. w \in Processes /\ ~PassesFence(w) /\ ~OwnsLease(w)
    BY DEF Processes, PassesFence, OwnsLease
  <2>2. ASSUME NEW p \in Processes, p # w
        PROVE  /\ ~(ProcessBatch(p) \/ TransientError(p) \/ Crash(p))
               /\ p \in Workers => ~(Claim(p) \/ WorkerStep(p))
               /\ p \in Publishers => ~PublisherStep(p)
               /\ \A b \in Batches : ~OpenPreview(p, b)
    <3>2. ~(ProcessBatch(p) \/ TransientError(p) \/ Crash(p))
      BY <2>2, OthersKeepTheirRun DEF ProcessBatch, Check, Mark, Persist, PersistFails,
         BatchCatch, TransientError, Crash, Stages, PassesFence, OwnsLease
    <3>3. ~(ActorIneligible(p) \/ Complete(p) \/ JobCatch(p) \/ FinishPublication(p))
      BY <2>2, OthersKeepTheirRun DEF ActorIneligible, Complete, JobCatch, FinishPublication
    <3>4. ASSUME NEW r, run' = run \/ run' = [run EXCEPT ![p] = r]
          PROVE  FALSE
      BY <2>1, <2>2, <3>4 DEF QueueTypeOK
    <3>5. ~Claim(p)
      <4>1. ASSUME NEW x \in Exhausted \cup {NoBatch}, NEW b \in Claimable \cup {NoBatch},
                   SettleAndTake(p, x, b)
            PROVE  FALSE
        BY <3>4, <4>1 DEF SettleAndTake
      <4>. QED  BY <4>1 DEF Claim
    <3>6. \A b \in Batches : ~OpenPreview(p, b)
      BY <3>4 DEF OpenPreview
    <3>. QED  BY <3>2, <3>3, <3>5, <3>6 DEF WorkerStep, PublisherStep
  <2>3. \A b \in Batches : ~(Enqueue(b) \/ Expire(b) \/ ChangeLifecycle(b) \/ DeleteUpload(b))
    BY DEF Enqueue, Expire, ChangeLifecycle, DeleteUpload
  <2>4. \A v \in Workers : ~Heartbeat(v)
    BY DEF Heartbeat
  <2>5. w \notin Publishers
    BY ProcessesAssumption
  <2>6. Claim(w) \/ WorkerStep(w) \/ Crash(w)
    BY <2>2, <2>3, <2>4, <2>5 DEF Next, Processes
  <2>7. ~Claim(w)
    BY DEF Claim, SettleAndTake
  <2>. QED  BY <2>1, <2>6, <2>7 DEF WorkerStep, ProcessBatch, Check, Mark, Persist,
       PersistFails, BatchCatch, TransientError, Crash, ActorIneligible, Complete, JobCatch
<1>. QED  BY <1>1, QueueTypeCorrect, PTL DEF Spec, StaleWorkerHarmless

-----------------------------------------------------------------------------
(* Every import job is a leased job, and a job is reported completed only     *)
(* for an upload that was processed.  Both need to know that a job and its    *)
(* upload exist together: no transaction other than the insertion and the     *)
(* deletion makes an upload appear or disappear (StepsLast), because a        *)
(* version that is shown, hidden or shown again belongs to an upload that     *)
(* exists (VersionsOwned).                                                    *)

\* A job is inserted and deleted with its upload.
JobsExist ==
  \A b \in Batches :
    /\ Exists(b) <=> jobStatus[b] # "none"
    /\ jobStatus[b] = "none" => attempts[b] = 0 /\ owner[b] = NoWorker

\* Between the commit of the preview and the completion of the job, only the
\* holder of the job could put the upload back among the unprocessed.
StoredIsProcessed ==
  \A w \in Workers :
    run[w].at = "persisted" /\ OwnsLease(w) => batchStatus[run[w].batch] # "uploaded"

JobInv ==
  /\ CatalogInv
  /\ QueueTypeOK
  /\ VersionsOwned
  /\ JobsExist
  /\ StoredIsProcessed
  /\ CompletedWasProcessed

USE DEF Published, ValidFallback, VersionStates, BatchStates, Processable, Reprocessable

\* Only the commit of a preview brings a run to the stage after it.
LEMMA OtherStages ==
  ASSUME QueueTypeOK, NEW p \in Processes, NEW w \in Workers, run'[w].at = "persisted"
  PROVE  /\ \A stage \in Stages \ {"persisted"} : Goto(p, stage) => run'[w] = run[w]
         /\ \A r \in BOOLEAN : CatchInBatch(p, r) => run'[w] = run[w]
         /\ \A r : Throw(p, r) => run'[w] = run[w]
         /\ Return(p) => run'[w] = run[w]
<1>. w \in Processes /\ run \in [Processes -> Runs]
  BY DEF Processes, QueueTypeOK
<1>. CASE w = p
  <2>. run[p] = Idle \/ run[p] \in [at : Stages \ {"idle"}, batch : Batches, retryable : BOOLEAN]
    BY DEF Runs
  <2>1. \A stage \in Stages \ {"persisted"} : ~Goto(p, stage)
    BY DEF Goto, Idle
  <2>2. \A r \in BOOLEAN : ~CatchInBatch(p, r)
    BY DEF CatchInBatch, Idle
  <2>3. \A r : ~Throw(p, r)
    BY DEF Throw, Idle
  <2>4. ~Return(p)
    BY DEF Return, Idle
  <2>. QED  BY <2>1, <2>2, <2>3, <2>4
<1>. CASE w # p
  BY OthersKeepTheirRun
<1>. QED  OBVIOUS

\* A step that leaves the jobs alone.
LEMMA QuietStep ==
  ASSUME JobInv, CatalogInv', QueueTypeOK', VersionsOwned',
         \A c \in Batches : Lasting(c),
         UNCHANGED <<jobStatus, attempts, owner>>,
         \A w \in Workers : run'[w].at = "persisted" =>
           run'[w] = run[w] \/ batchStatus'[run'[w].batch] # "uploaded"
  PROVE  JobInv'
<1>1. JobsExist'
  BY DEF JobInv, JobsExist, Lasting, Exists
<1>2. StoredIsProcessed'
  <2>. SUFFICES ASSUME NEW w \in Workers, run'[w].at = "persisted", OwnsLease(w)',
                       run'[w] = run[w]
                PROVE  batchStatus'[run[w].batch] # "uploaded"
    BY DEF StoredIsProcessed
  <2>1. batchStatus[run[w].batch] # "uploaded"
    BY DEF JobInv, StoredIsProcessed, OwnsLease
  <2>2. run[w].batch \in Batches
    BY RunSteps DEF JobInv, Processes
  <2>. QED  BY <2>1, <2>2 DEF Lasting
<1>3. CompletedWasProcessed'
  BY DEF JobInv, CompletedWasProcessed, Lasting
<1>. QED  BY <1>1, <1>2, <1>3 DEF JobInv

\* The job is inserted with the upload.
LEMMA EnqueueKeeps ==
  ASSUME JobInv, NEW b \in Batches, Enqueue(b), CatalogInv', QueueTypeOK'
  PROVE  JobInv'
<1>. USE DEF JobInv, Enqueue, Upload, CatalogInv, TypeOK, QueueTypeOK
<1>1. VersionsOwned'
  BY DEF VersionsOwned, Exists
<1>2. JobsExist'
  BY DEF JobsExist, Exists
<1>3. StoredIsProcessed'
  <2>. SUFFICES ASSUME NEW w \in Workers, run[w].at = "persisted", OwnsLease(w)'
                PROVE  batchStatus'[run[w].batch] # "uploaded"
    BY DEF StoredIsProcessed
  <2>1. run[w].batch \in Batches
    BY RunSteps DEF Processes
  <2>2. run[w].batch # b
    BY <2>1 DEF OwnsLease
  <2>3. OwnsLease(w)
    BY <2>1, <2>2 DEF OwnsLease
  <2>. QED  BY <2>1, <2>2, <2>3 DEF StoredIsProcessed
<1>4. CompletedWasProcessed'
  BY DEF CompletedWasProcessed
<1>. QED  BY <1>1, <1>2, <1>3, <1>4

\* The job is deleted with the upload; the fallbacks shown instead of it exist.
LEMMA DeleteKeeps ==
  ASSUME JobInv, NEW b \in Batches, DeleteUpload(b), CatalogInv', QueueTypeOK'
  PROVE  JobInv'
<1>. DEFINE S == ActiveScopes(b)
<1>1. S \in SUBSET Scopes
  BY DEF ActiveScopes
<1>2. PICK r \in AutomaticReplacement(b) :
        /\ verStatus' = [StatusesAfter(S, r, "deactivated")
                           EXCEPT ![b] = [s \in Scopes |-> "none"]]
        /\ batchStatus' = [c \in Batches |->
             CASE c = b -> "deleted"
               [] c # b /\ (\E s \in S : r[s] = c) -> "active"
               [] OTHER -> batchStatus[c]]
  BY DEF DeleteUpload, Delete
<1>3. \A s \in S : r[s] = NoBatch \/ verStatus[r[s]][s] \in ValidFallback
  BY DEF AutomaticReplacement, PreviousVersion, Candidates
<1>4. ASSUME NEW c \in Batches \ {b}
      PROVE  Lasting(c) /\ \A s \in Scopes : verStatus'[c][s] # "none" => verStatus[c][s] # "none"
  <2>1. verStatus'[c] = StatusesAfter(S, r, "deactivated")[c]
    BY <1>2 DEF StatusesAfter
  <2>2. ASSUME NEW s \in Scopes, verStatus'[c][s] # "none"
        PROVE  verStatus[c][s] # "none"
    <3>1. CASE s \in S /\ r[s] = c
      BY <3>1, <1>3, NoBatchAssumption
    <3>2. CASE ~(s \in S /\ r[s] = c)
      BY <2>1, <2>2, <3>2, StatusesAfterAt DEF ActiveScopes
    <3>. QED  BY <3>1, <3>2
  <2>3. Lasting(c)
    <3>1. CASE \E s \in S : r[s] = c
      <4>1. Exists(c)
        BY <3>1, <1>1, <1>3, NoBatchAssumption DEF JobInv, VersionsOwned
      <4>. QED  BY <3>1, <4>1, <1>2 DEF Lasting
    <3>2. CASE ~\E s \in S : r[s] = c
      BY <3>2, <1>2 DEF Lasting
    <3>. QED  BY <3>1, <3>2
  <2>. QED  BY <2>2, <2>3
<1>5. batchStatus'[b] = "deleted" /\ \A s \in Scopes : verStatus'[b][s] = "none"
  BY <1>2 DEF StatusesAfter
<1>6. /\ jobStatus'[b] = "none" /\ attempts'[b] = 0 /\ owner'[b] = NoWorker
      /\ \A c \in Batches \ {b} :
           jobStatus'[c] = jobStatus[c] /\ attempts'[c] = attempts[c] /\ owner'[c] = owner[c]
      /\ run' = run
  BY DEF DeleteUpload, JobInv, QueueTypeOK
<1>. HIDE DEF S
<1>7. VersionsOwned'
  BY <1>4, <1>5 DEF JobInv, VersionsOwned, Lasting, Exists
<1>8. JobsExist'
  BY <1>4, <1>5, <1>6 DEF JobInv, JobsExist, Lasting, Exists
<1>9. StoredIsProcessed'
  <2>. SUFFICES ASSUME NEW w \in Workers, run[w].at = "persisted", OwnsLease(w)'
                PROVE  batchStatus'[run[w].batch] # "uploaded"
    BY <1>6 DEF StoredIsProcessed
  <2>1. run[w].batch \in Batches
    BY RunSteps DEF JobInv, Processes
  <2>2. run[w].batch # b
    BY <1>6 DEF OwnsLease
  <2>3. OwnsLease(w)
    BY <2>1, <2>2, <1>6 DEF OwnsLease
  <2>. QED  BY <2>1, <2>2, <2>3, <1>4 DEF JobInv, StoredIsProcessed, Lasting
<1>10. CompletedWasProcessed'
  BY <1>4, <1>5, <1>6 DEF JobInv, CompletedWasProcessed, Lasting
<1>. QED  BY <1>7, <1>8, <1>9, <1>10 DEF JobInv

\* What a claim settles is not what it takes: the attempts of the one are used
\* up, those of the other are not.
LEMMA ClaimEffect ==
  ASSUME QueueTypeOK, NEW w \in Workers, NEW x \in Exhausted \cup {NoBatch},
         NEW b \in Claimable \cup {NoBatch}, SettleAndTake(w, x, b)
  PROVE  \A c \in Batches :
           \/ /\ c = x /\ c # b
              /\ jobStatus[c] = "processing"
              /\ jobStatus'[c] \in {"completed", "failed"}
              /\ jobStatus'[c] = "completed" =>
                   batchStatus[c] \in PersistedStates /\ UNCHANGED catalogVars
              /\ attempts'[c] = attempts[c] /\ owner'[c] = NoWorker
           \/ /\ c = b /\ c # x
              /\ jobStatus[c] \in {"queued", "processing"} /\ attempts[c] < MaxAttempts
              /\ jobStatus'[c] = "processing"
              /\ attempts'[c] = attempts[c] + 1 /\ owner'[c] = w
           \/ /\ c # x /\ c # b
              /\ jobStatus'[c] = jobStatus[c]
              /\ attempts'[c] = attempts[c] /\ owner'[c] = owner[c]
<1>. SUFFICES ASSUME NEW c \in Batches
              PROVE  \/ /\ c = x /\ c # b
                        /\ jobStatus[c] = "processing"
                        /\ jobStatus'[c] \in {"completed", "failed"}
                        /\ jobStatus'[c] = "completed" =>
                             batchStatus[c] \in PersistedStates /\ UNCHANGED catalogVars
                        /\ attempts'[c] = attempts[c] /\ owner'[c] = NoWorker
                     \/ /\ c = b /\ c # x
                        /\ jobStatus[c] \in {"queued", "processing"} /\ attempts[c] < MaxAttempts
                        /\ jobStatus'[c] = "processing"
                        /\ attempts'[c] = attempts[c] + 1 /\ owner'[c] = w
                     \/ /\ c # x /\ c # b
                        /\ jobStatus'[c] = jobStatus[c]
                        /\ attempts'[c] = attempts[c] /\ owner'[c] = owner[c]
  OBVIOUS
<1>1. ~(c = x /\ c = b)
  BY NoBatchAssumption, MaxAttemptsAssumption DEF Exhausted, Claimable, QueueTypeOK
<1>2. CASE c = x
  <2>1. jobStatus[c] = "processing"
    BY <1>2, NoBatchAssumption DEF Exhausted
  <2>2. jobStatus'[c] = Reconciled(c) /\ attempts'[c] = attempts[c] /\ owner'[c] = NoWorker
    BY <1>1, <1>2 DEF SettleAndTake
  <2>3. batchStatus[c] \in PersistedStates => UNCHANGED catalogVars
    BY <1>2 DEF SettleAndTake, PersistedStates
  <2>. QED  BY <1>1, <1>2, <2>1, <2>2, <2>3 DEF Reconciled
<1>3. CASE c = b
  BY <1>1, <1>3, NoBatchAssumption DEF SettleAndTake, Claimable
<1>4. CASE c # x /\ c # b
  BY <1>4 DEF SettleAndTake
<1>. QED  BY <1>2, <1>3, <1>4

\* A claim reports a job completed only if its preview is stored, and takes
\* the lease from runs that stored one.
LEMMA ClaimKeeps ==
  ASSUME JobInv, NEW w \in Workers, Claim(w), CatalogInv', QueueTypeOK'
  PROVE  JobInv'
<1>1. PICK x \in Exhausted \cup {NoBatch}, b \in Claimable \cup {NoBatch} : SettleAndTake(w, x, b)
  BY DEF Claim
<1>2. VersionsOwned' /\ \A c \in Batches : Lasting(c)
  <2>1. CASE UNCHANGED catalogVars
    BY <2>1 DEF JobInv, VersionsOwned, Exists, Lasting, catalogVars
  <2>2. CASE ~UNCHANGED catalogVars
    <3>1. x \in Batches /\ FailExhausted(x)
      BY <1>1, <2>2 DEF SettleAndTake, Exhausted
    <3>. QED  BY <3>1, StepsLast DEF JobInv
  <2>. QED  BY <2>1, <2>2
<1>3. JobsExist'
  <2>. SUFFICES ASSUME NEW c \in Batches
                PROVE  /\ Exists(c)' <=> jobStatus'[c] # "none"
                       /\ jobStatus'[c] = "none" => attempts'[c] = 0 /\ owner'[c] = NoWorker
    BY DEF JobsExist
  <2>1. Exists(c)' <=> Exists(c)
    BY <1>2 DEF Lasting, Exists
  <2>2. /\ jobStatus'[c] # "none" <=> jobStatus[c] # "none"
        /\ jobStatus'[c] = "none" => attempts'[c] = attempts[c] /\ owner'[c] = owner[c]
    BY <1>1, ClaimEffect DEF JobInv
  <2>. QED  BY <2>1, <2>2 DEF JobInv, JobsExist
<1>4. StoredIsProcessed'
  <2>. SUFFICES ASSUME NEW v \in Workers, run'[v].at = "persisted", OwnsLease(v)'
                PROVE  batchStatus'[run'[v].batch] # "uploaded"
    BY DEF StoredIsProcessed
  <2>1. run[w] = Idle /\ (run' = run \/ run' = [run EXCEPT ![w] = [Idle EXCEPT !.at = "check", !.batch = b]])
    BY <1>1 DEF SettleAndTake
  <2>2. v # w /\ run'[v] = run[v]
    <3>1. v \in Processes /\ w \in Processes /\ run \in [Processes -> Runs]
      BY DEF JobInv, QueueTypeOK, Processes
    <3>2. v # w
      <4>1. Idle.at # "persisted" /\ [Idle EXCEPT !.at = "check", !.batch = b].at # "persisted"
        BY DEF Idle
      <4>2. \A r : run' = [run EXCEPT ![w] = r] => run'[w] = r
        BY <3>1
      <4>. QED  BY <2>1, <4>1, <4>2
    <3>3. \A r : run' = [run EXCEPT ![w] = r] => run'[v] = run[v]
      BY <3>1, <3>2
    <3>. QED  BY <2>1, <3>2, <3>3
  <2>3. run[v].batch \in Batches
    BY <2>2, RunSteps DEF JobInv, Processes
  <2>4. OwnsLease(v)
    BY <1>1, <2>2, <2>3, ClaimEffect DEF OwnsLease, JobInv
  <2>. QED  BY <1>2, <2>2, <2>3, <2>4 DEF JobInv, StoredIsProcessed, Lasting
<1>5. CompletedWasProcessed'
  <2>. SUFFICES ASSUME NEW c \in Batches, jobStatus'[c] = "completed"
                PROVE  batchStatus'[c] \notin {"absent", "uploaded"}
    BY DEF CompletedWasProcessed
  <2>1. CASE jobStatus[c] = "completed"
    BY <1>2, <2>1 DEF JobInv, CompletedWasProcessed, Lasting
  <2>2. CASE jobStatus[c] # "completed"
    <3>1. batchStatus[c] \in PersistedStates /\ UNCHANGED catalogVars
      BY <1>1, <2>2, ClaimEffect DEF JobInv
    <3>. QED  BY <3>1 DEF PersistedStates, catalogVars
  <2>. QED  BY <2>1, <2>2
<1>. QED  BY <1>2, <1>3, <1>4, <1>5 DEF JobInv

\* A run completes the job it still holds: its upload is not an unprocessed one.
LEMMA CompleteKeeps ==
  ASSUME JobInv, NEW w \in Workers, Complete(w), CatalogInv', QueueTypeOK'
  PROVE  JobInv'
<1>. DEFINE d == run[w].batch
<1>1. d \in Batches /\ run[w].at = "persisted" /\ UNCHANGED catalogVars
  BY RunSteps DEF JobInv, Processes, Complete
<1>2. VersionsOwned' /\ \A c \in Batches : Lasting(c)
  BY <1>1 DEF JobInv, VersionsOwned, Exists, Lasting, catalogVars
<1>3. \A v \in Workers : run'[v].at = "persisted" => run'[v] = run[v]
  BY OtherStages DEF Complete, JobInv, Processes
<1>4. CASE ~OwnsLease(w)
  BY <1>2, <1>3, <1>4, QuietStep DEF Complete, jobVars
<1>5. CASE OwnsLease(w)
  <2>1. jobStatus[d] = "processing" /\ batchStatus[d] # "uploaded" /\ Exists(d)
    BY <1>1, <1>5 DEF JobInv, OwnsLease, StoredIsProcessed, JobsExist
  <2>2. /\ jobStatus'[d] = "completed"
        /\ \A c \in Batches \ {d} : jobStatus'[c] = jobStatus[c] /\ owner'[c] = owner[c]
        /\ UNCHANGED attempts
    BY <1>1, <1>5 DEF Complete, JobInv, QueueTypeOK
  <2>. HIDE DEF d
  <2>3. JobsExist'
    BY <1>1, <2>1, <2>2 DEF JobInv, JobsExist, Exists, catalogVars
  <2>4. StoredIsProcessed'
    <3>. SUFFICES ASSUME NEW v \in Workers, run[v].at = "persisted", run'[v] = run[v], OwnsLease(v)'
                  PROVE  batchStatus[run[v].batch] # "uploaded"
      BY <1>1, <1>3 DEF StoredIsProcessed, catalogVars
    <3>1. run[v].batch \in Batches
      BY RunSteps DEF JobInv, Processes
    <3>2. OwnsLease(v)
      BY <2>2, <3>1 DEF OwnsLease
    <3>. QED  BY <3>2 DEF JobInv, StoredIsProcessed
  <2>5. CompletedWasProcessed'
    BY <1>1, <2>1, <2>2 DEF JobInv, CompletedWasProcessed, Exists, catalogVars
  <2>. QED  BY <1>2, <2>3, <2>4, <2>5 DEF JobInv
<1>. QED  BY <1>4, <1>5

\* A run that failed puts its upload back only together with its job.
LEMMA JobCatchKeeps ==
  ASSUME JobInv, NEW w \in Workers, JobCatch(w), CatalogInv', QueueTypeOK'
  PROVE  JobInv'
<1>. DEFINE d == run[w].batch
<1>1. d \in Batches
  BY RunSteps DEF JobInv, Processes, JobCatch
<1>3. \A v \in Workers : run'[v].at = "persisted" => run'[v] = run[v]
  BY OtherStages DEF JobCatch, JobInv, Processes
<1>4. CASE ~OwnsLease(w)
  <2>1. UNCHANGED <<catalogVars, jobVars>>
    BY <1>4 DEF JobCatch
  <2>2. VersionsOwned' /\ \A c \in Batches : Lasting(c)
    BY <2>1 DEF JobInv, VersionsOwned, Exists, Lasting, catalogVars
  <2>. QED  BY <1>3, <2>1, <2>2, QuietStep DEF jobVars
<1>5. CASE OwnsLease(w)
  <2>1. jobStatus[d] = "processing" /\ Exists(d)
    BY <1>1, <1>5 DEF JobInv, OwnsLease, JobsExist
  <2>2. /\ jobStatus'[d] \in {"queued", "failed"}
        /\ \A c \in Batches \ {d} : jobStatus'[c] = jobStatus[c] /\ owner'[c] = owner[c]
        /\ UNCHANGED attempts
    BY <1>1, <1>5 DEF JobCatch, JobInv, QueueTypeOK
  <2>3. /\ batchStatus'[d] \notin {"absent", "deleted"}
        /\ \A c \in Batches \ {d} : batchStatus'[c] = batchStatus[c]
        /\ UNCHANGED verStatus
    BY <1>1, <1>5, <2>1 DEF JobCatch, Requeue, SetBatchStatus, catalogVars, Exists, JobInv,
       CatalogInv, TypeOK
  <2>. HIDE DEF d
  <2>4. VersionsOwned'
    BY <2>1, <2>3 DEF JobInv, VersionsOwned, Exists
  <2>5. JobsExist'
    BY <2>1, <2>2, <2>3 DEF JobInv, JobsExist, Exists
  <2>6. StoredIsProcessed'
    <3>. SUFFICES ASSUME NEW v \in Workers, run[v].at = "persisted", run'[v] = run[v], OwnsLease(v)'
                  PROVE  batchStatus'[run[v].batch] # "uploaded"
      BY <1>3 DEF StoredIsProcessed
    <3>1. run[v].batch \in Batches
      BY RunSteps DEF JobInv, Processes
    <3>2. OwnsLease(v) /\ run[v].batch # d
      BY <2>2, <3>1 DEF OwnsLease
    <3>. QED  BY <2>3, <3>1, <3>2 DEF JobInv, StoredIsProcessed
  <2>7. CompletedWasProcessed'
    BY <2>2, <2>3 DEF JobInv, CompletedWasProcessed
  <2>. QED  BY <2>4, <2>5, <2>6, <2>7 DEF JobInv
<1>. QED  BY <1>4, <1>5

\* The steps of a run that touch no job: the one that stores the preview is
\* the only one after which its job may be completed.
LEMMA ProcessKeeps ==
  ASSUME JobInv, NEW p \in Processes, ProcessBatch(p) \/ TransientError(p) \/ Crash(p),
         CatalogInv', QueueTypeOK'
  PROVE  JobInv'
<1>1. UNCHANGED <<jobStatus, attempts, owner>>
  BY DEF ProcessBatch, Check, Mark, Persist, PersistFails, BatchCatch, TransientError, Crash,
     jobVars
<1>2. ASSUME UNCHANGED catalogVars
      PROVE  VersionsOwned' /\ \A c \in Batches : Lasting(c)
  BY <1>2 DEF JobInv, VersionsOwned, Exists, Lasting, catalogVars
<1>3. CASE Check(p) \/ PersistFails(p) \/ TransientError(p) \/ Crash(p)
  <2>1. UNCHANGED catalogVars
    BY <1>3 DEF Check, PersistFails, TransientError, Crash
  <2>2. ASSUME NEW w \in Workers, run'[w].at = "persisted"
        PROVE  run'[w] = run[w]
    BY <1>3, <2>2, OtherStages DEF Check, PersistFails, TransientError, Crash, JobInv, Stages
  <2>. QED  BY <1>1, <1>2, <2>1, <2>2, QuietStep
<1>4. CASE Mark(p) \/ BatchCatch(p)
  <2>1. run[p].batch \in Batches /\ run[p].retryable \in BOOLEAN
    BY <1>4, RunSteps DEF Mark, BatchCatch, JobInv
  <2>2. VersionsOwned' /\ \A c \in Batches : Lasting(c)
    <3>1. CASE UNCHANGED catalogVars
      BY <3>1, <1>2
    <3>2. CASE MarkProcessing(run[p].batch) \/ FailProcessing(run[p].batch)
      BY <2>1, <3>2, StepsLast DEF JobInv
    <3>. QED  BY <1>4, <3>1, <3>2 DEF Mark, BatchCatch, WriteIfExists
  <2>3. ASSUME NEW w \in Workers, run'[w].at = "persisted"
        PROVE  run'[w] = run[w]
    BY <1>4, <2>1, <2>3, OtherStages DEF Mark, BatchCatch, JobInv, Stages
  <2>. QED  BY <1>1, <2>2, <2>3, QuietStep
<1>5. CASE Persist(p)
  <2>1. run[p].batch \in Batches
    BY <1>5, RunSteps DEF Persist, JobInv
  <2>2. PICK S \in SUBSET Scopes, valid \in BOOLEAN : PersistPreview(run[p].batch, S, valid)
    BY <1>5 DEF Persist
  <2>3. VersionsOwned' /\ \A c \in Batches : Lasting(c)
    BY <2>1, <2>2, StepsLast DEF JobInv
  <2>4. batchStatus'[run[p].batch] # "uploaded"
    BY <2>1, <2>2 DEF PersistPreview, JobInv, CatalogInv, TypeOK
  <2>5. run \in [Processes -> Runs] /\ run' = [run EXCEPT ![p].at = "persisted"]
    BY <1>5 DEF JobInv, QueueTypeOK, Persist, Goto
  <2>6. ASSUME NEW w \in Workers
        PROVE  run'[w] = run[w] \/ run'[w].batch = run[p].batch
    BY <2>5 DEF Processes
  <2>7. \A w \in Workers : run'[w].at = "persisted" =>
          run'[w] = run[w] \/ batchStatus'[run'[w].batch] # "uploaded"
    BY <2>4, <2>6
  <2>. QED  BY <1>1, <2>3, <2>7, QuietStep
<1>. QED  BY <1>3, <1>4, <1>5 DEF ProcessBatch

\* Publication requests and the administrators' other operations.
LEMMA AdministratorKeeps ==
  ASSUME JobInv, CatalogInv', QueueTypeOK',
         \/ \E b \in Batches : Expire(b) \/ ChangeLifecycle(b)
         \/ \E p \in Publishers : FinishPublication(p)
         \/ \E p \in Publishers, b \in Batches : OpenPreview(p, b)
  PROVE  JobInv'
<1>1. ASSUME UNCHANGED catalogVars
      PROVE  VersionsOwned' /\ \A c \in Batches : Lasting(c)
  BY <1>1 DEF JobInv, VersionsOwned, Exists, Lasting, catalogVars
<1>2. ASSUME NEW b \in Batches, Expire(b) \/ ChangeLifecycle(b)
      PROVE  JobInv'
  <2>1. VersionsOwned' /\ \A c \in Batches : Lasting(c)
    BY <1>1, <1>2, StepsLast DEF Expire, ChangeLifecycle, JobInv
  <2>2. UNCHANGED <<jobStatus, attempts, owner, run>>
    BY <1>2 DEF Expire, ChangeLifecycle, jobVars
  <2>. QED  BY <2>1, <2>2, QuietStep
<1>3. ASSUME NEW p \in Publishers, FinishPublication(p)
      PROVE  JobInv'
  <2>1. p \in Processes /\ run[p].batch \in Batches
    BY <1>3, RunSteps DEF FinishPublication, JobInv, Processes
  <2>2. VersionsOwned' /\ \A c \in Batches : Lasting(c)
    BY <1>1, <1>3, <2>1, StepsLast DEF FinishPublication, JobInv
  <2>3. UNCHANGED <<jobStatus, attempts, owner>>
    BY <1>3 DEF FinishPublication, jobVars
  <2>4. ASSUME NEW w \in Workers, run'[w].at = "persisted"
        PROVE  run'[w] = run[w]
    BY <1>3, <2>1, <2>4, OtherStages DEF FinishPublication, JobInv
  <2>. QED  BY <2>2, <2>3, <2>4, QuietStep
<1>4. ASSUME NEW p \in Publishers, NEW b \in Batches, OpenPreview(p, b)
      PROVE  JobInv'
  <2>1. UNCHANGED <<jobStatus, attempts, owner>> /\ UNCHANGED catalogVars
    BY <1>4 DEF OpenPreview, jobVars
  <2>2. ASSUME NEW w \in Workers
        PROVE  run'[w] = run[w]
    <3>1. w \in Processes /\ w # p /\ run \in [Processes -> Runs]
      BY ProcessesAssumption DEF Processes, JobInv, QueueTypeOK
    <3>2. \A r : run' = [run EXCEPT ![p] = r] => run'[w] = run[w]
      BY <3>1
    <3>. QED  BY <1>4, <3>2 DEF OpenPreview
  <2>. QED  BY <1>1, <2>1, <2>2, QuietStep
<1>. QED  BY <1>2, <1>3, <1>4

\* Every step of the pipeline keeps the invariant.
LEMMA JobInvStep ==
  ASSUME JobInv, [Next]_vars
  PROVE  JobInv'
<1>1. CatalogInv' /\ QueueTypeOK'
  BY StepRefines, NextInv, QueueTypeStep DEF JobInv
<1>2. CASE UNCHANGED vars
  BY <1>1, <1>2 DEF vars, JobInv, VersionsOwned, JobsExist, StoredIsProcessed,
     CompletedWasProcessed, Exists, OwnsLease
<1>3. ASSUME NEW w \in Workers, ActorIneligible(w) \/ Heartbeat(w)
      PROVE  JobInv'
  <2>1. UNCHANGED <<jobStatus, attempts, owner>> /\ UNCHANGED catalogVars
    BY <1>3 DEF ActorIneligible, Heartbeat, jobVars
  <2>2. VersionsOwned' /\ \A c \in Batches : Lasting(c)
    BY <2>1 DEF JobInv, VersionsOwned, Exists, Lasting, catalogVars
  <2>3. ASSUME NEW v \in Workers, run'[v].at = "persisted"
        PROVE  run'[v] = run[v]
    BY <1>3, <2>3, OtherStages DEF ActorIneligible, Heartbeat, JobInv, Processes
  <2>. QED  BY <1>1, <2>1, <2>2, <2>3, QuietStep
<1>4. CASE Next
  BY <1>1, <1>3, <1>4, EnqueueKeeps, DeleteKeeps, ClaimKeeps, CompleteKeeps, JobCatchKeeps,
     ProcessKeeps, AdministratorKeeps DEF Next, WorkerStep, PublisherStep, Processes
<1>. QED  BY <1>2, <1>4

\* Versions, jobs and runs stay with uploads that exist.
LEMMA JobInvCorrect == Spec => []JobInv
<1>1. Init => JobInv
  <2>. SUFFICES ASSUME Init PROVE JobInv
    OBVIOUS
  <2>1. CatalogInv
    BY InitInv DEF Init
  <2>2. QueueTypeOK
    BY MaxAttemptsAssumption DEF Init, QueueTypeOK, Runs
  <2>3. VersionsOwned /\ JobsExist /\ StoredIsProcessed /\ CompletedWasProcessed
    BY DEF Init, CatalogInit, VersionsOwned, JobsExist, StoredIsProcessed,
       CompletedWasProcessed, Exists, Idle, Processes
  <2>. QED  BY <2>1, <2>2, <2>3 DEF JobInv
<1>2. JobInv /\ [Next]_vars => JobInv'
  BY JobInvStep
<1>. QED  BY <1>1, <1>2, PTL DEF Spec

-----------------------------------------------------------------------------
(* The theorems *)

\* A job is reported completed only for an upload that was processed and that
\* no retry, by whichever worker, has put back among the unprocessed.
THEOREM CompletedJobsWereProcessed == Spec => []CompletedWasProcessed
<1>1. JobInv => CompletedWasProcessed
  BY DEF JobInv
<1>. QED  BY <1>1, JobInvCorrect, PTL

\* Every step of the pipeline is, for each job, a step of a leased job or none.
LEMMA StepIsLeased ==
  ASSUME JobInv, [Next]_vars, NEW b \in Batches
  PROVE  [Job(b)!Next]_(Job(b)!jobVars)
<1>. USE DEF JobInv, Job!Next, Job!jobVars
<1>1. CASE UNCHANGED <<jobStatus, attempts, owner>>
  BY <1>1
<1>2. ASSUME NEW c \in Batches, Enqueue(c)
      PROVE  [Job(b)!Next]_(Job(b)!jobVars)
  <2>1. CASE b = c
    <3>1. jobStatus[b] = "none"
      BY <1>2, <2>1 DEF Enqueue, Upload, JobsExist, Exists
    <3>. QED  BY <1>2, <2>1, <3>1 DEF Enqueue, Job!Submit, QueueTypeOK
  <2>2. CASE b # c
    BY <1>2, <2>2 DEF Enqueue, QueueTypeOK
  <2>. QED  BY <2>1, <2>2
<1>3. ASSUME NEW c \in Batches, DeleteUpload(c)
      PROVE  [Job(b)!Next]_(Job(b)!jobVars)
  <2>1. CASE b = c
    <3>1. jobStatus[b] # "none"
      BY <1>3, <2>1 DEF DeleteUpload, Delete, MayDelete, JobsExist
    <3>. QED  BY <1>3, <2>1, <3>1 DEF DeleteUpload, Job!Remove, QueueTypeOK
  <2>2. CASE b # c
    BY <1>3, <2>2 DEF DeleteUpload, QueueTypeOK
  <2>. QED  BY <2>1, <2>2
<1>4. ASSUME NEW w \in Workers, Claim(w)
      PROVE  [Job(b)!Next]_(Job(b)!jobVars)
  <2>1. PICK x \in Exhausted \cup {NoBatch}, c \in Claimable \cup {NoBatch} : SettleAndTake(w, x, c)
    BY <1>4 DEF Claim
  <2>. QED  BY <2>1, ClaimEffect DEF Job!Settle, Job!Settled, Job!Take
<1>5. ASSUME NEW w \in Workers, Complete(w) \/ JobCatch(w)
      PROVE  [Job(b)!Next]_(Job(b)!jobVars)
  <2>1. CASE OwnsLease(w) /\ run[w].batch = b
    <3>1. jobStatus[b] = "processing" /\ owner'[b] = NoWorker /\ attempts'[b] = attempts[b]
      BY <1>5, <2>1 DEF OwnsLease, Complete, JobCatch, QueueTypeOK
    <3>2. CASE Complete(w)
      BY <2>1, <3>1, <3>2 DEF Complete, QueueTypeOK, Job!Settle, Job!Settled
    <3>3. CASE JobCatch(w)
      BY <2>1, <3>1, <3>3 DEF JobCatch, Retries, QueueTypeOK, Job!Settle, Job!Settled,
         Job!GiveBack
    <3>. QED  BY <1>5, <3>2, <3>3
  <2>2. CASE ~(OwnsLease(w) /\ run[w].batch = b)
    BY <1>5, <2>2 DEF Complete, JobCatch, jobVars, QueueTypeOK
  <2>. QED  BY <2>1, <2>2
<1>6. ASSUME NEW p \in Processes, ProcessBatch(p) \/ TransientError(p) \/ Crash(p)
      PROVE  UNCHANGED <<jobStatus, attempts, owner>>
  BY <1>6 DEF ProcessBatch, Check, Mark, Persist, PersistFails, BatchCatch, TransientError,
     Crash, jobVars
<1>7. ASSUME \/ UNCHANGED vars
             \/ \E w \in Workers : ActorIneligible(w) \/ Heartbeat(w)
             \/ \E c \in Batches : Expire(c) \/ ChangeLifecycle(c)
             \/ \E p \in Publishers : FinishPublication(p)
             \/ \E p \in Publishers, c \in Batches : OpenPreview(p, c)
      PROVE  UNCHANGED <<jobStatus, attempts, owner>>
  BY <1>7 DEF vars, ActorIneligible, Heartbeat, Expire, ChangeLifecycle, FinishPublication,
     OpenPreview, jobVars
<1>. HIDE DEF Job!Next, Job!jobVars
<1>. QED
  BY <1>1, <1>2, <1>3, <1>4, <1>5, <1>6, <1>7 DEF Next, WorkerStep, PublisherStep, Processes

\* Whatever workers, administrators, crashes and lost leases do, every row of
\* import_jobs behaves as a leased job: attempts are counted before they start
\* and never exceed the limit, a job waits only if it may be taken again, and
\* a settled job stays settled.
THEOREM JobsKeepTheLease == Spec => JobsAreLeased
<1>. DEFINE I == \A b \in Batches : Job(b)!Init
            A == \A b \in Batches : [Job(b)!Next]_(Job(b)!jobVars)
<1>1. Init => I
  BY DEF Init, Job!Init
<1>2. JobInv /\ [Next]_vars => [A]_vars
  BY StepIsLeased
<1>. QED  BY <1>1, <1>2, JobInvCorrect, PTL DEF Spec, JobsAreLeased

=============================================================================
