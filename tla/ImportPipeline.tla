--------------------------- MODULE ImportPipeline ---------------------------
(***************************************************************************)
(* The callers of the catalogue's transactions: import workers that take   *)
(* jobs under expiring leases, and administrators whose publication        *)
(* requests reprocess the upload before they publish it.                   *)
(*                                                                         *)
(* Both run processDialerBatch.  It reads the batch without a lock, marks  *)
(* it, parses the file and stores the preview, each in a transaction of    *)
(* its own, and anything may happen between two of them: a lease runs out, *)
(* another worker takes the job over, an administrator publishes, rejects  *)
(* or deletes the upload, the process dies, the database fails.            *)
(*                                                                         *)
(* import_jobs.batchId is unique, so a job is named by its batch.          *)
(***************************************************************************)
EXTENDS DatasetVersions

CONSTANTS
  Workers,     \* import-worker processes
  Publishers,  \* publication requests of administrators
  NoWorker,    \* SQL NULL in import_jobs.leaseOwner
  MaxAttempts  \* import_jobs.maxAttempts

ASSUME ProcessesAssumption == Workers \cap Publishers = {}
ASSUME NoWorkerAssumption == NoWorker \notin Workers
ASSUME MaxAttemptsAssumption == MaxAttempts \in Nat \ {0}

VARIABLES
  jobStatus,   \* import_jobs.status, "none" where there is no row
  attempts,    \* import_jobs.attemptCount
  owner,       \* import_jobs.leaseOwner
  expired,     \* import_jobs.leaseExpiresAt is not after the current time
  run          \* what each process is doing: its next step, the batch, and
               \* whether the error being handled is one worth retrying

jobVars == <<jobStatus, attempts, owner, expired>>
vars == <<batchStatus, verStatus, verNumber, verPrev, active,
          jobStatus, attempts, owner, expired, run>>

Processes == Workers \cup Publishers

Stages == {"idle", "check", "mark", "persist", "persisted", "batchCatch", "jobCatch"}

Idle == [at |-> "idle", batch |-> NoBatch, retryable |-> FALSE]

Runs == {Idle} \cup [at : Stages \ {"idle"}, batch : Batches, retryable : BOOLEAN]

QueueTypeOK ==
  /\ jobStatus \in [Batches -> {"none", "queued", "processing", "completed", "failed"}]
  /\ attempts \in [Batches -> 0..MaxAttempts]
  /\ owner \in [Batches -> Workers \cup {NoWorker}]
  /\ expired \in [Batches -> BOOLEAN]
  /\ run \in [Processes -> Runs]

\* The tables keep their types, no job is attempted more often than allowed,
\* and a process that is not idle works on one upload.
PipelineTypeOK == TypeOK /\ QueueTypeOK

Init ==
  /\ CatalogInit
  /\ jobStatus = [b \in Batches |-> "none"]
  /\ attempts = [b \in Batches |-> 0]
  /\ owner = [b \in Batches |-> NoWorker]
  /\ expired = [b \in Batches |-> FALSE]
  /\ run = [p \in Processes |-> Idle]

-----------------------------------------------------------------------------
(* The steps of a run *)

Goto(p, stage) == run' = [run EXCEPT ![p].at = stage]

\* An error thrown inside the try block of processDialerBatch.
CatchInBatch(p, retryable) ==
  run' = [run EXCEPT ![p].at = "batchCatch", ![p].retryable = retryable]

\* An error that leaves processDialerBatch: a worker handles it in
\* processNextImportJob, a publication request answers with it.
Throw(p, retryable) ==
  run' = [run EXCEPT ![p] =
    IF p \in Workers THEN [@ EXCEPT !.at = "jobCatch", !.retryable = retryable] ELSE Idle]

Return(p) == run' = [run EXCEPT ![p] = Idle]

\* Deliberately wrong: any run of a job that is being processed passes.
OwnsAnyLease(w) == jobStatus[run[w].batch] = "processing"

\* ownsImportJobLease: the time of expiry is not part of the test.
OwnsLease(w) ==
  /\ jobStatus[run[w].batch] = "processing"
  /\ owner[run[w].batch] = w

\* Publication requests hold no lease and are not fenced.
PassesFence(p) == p \in Workers => OwnsLease(p)

\* Deliberately wrong: the write inserts the row it does not find.
UpsertStatus(b, write) ==
  IF Exists(b) THEN write
  ELSE /\ batchStatus' = [batchStatus EXCEPT ![b] = "processing"]
       /\ UNCHANGED <<verStatus, verNumber, verPrev, active>>

\* A status write that finds no row changes nothing.
WriteIfExists(b, write) == IF Exists(b) THEN write ELSE UNCHANGED catalogVars

-----------------------------------------------------------------------------
(* The queue *)

\* enqueueDialerPreviewBatch
Enqueue(b) ==
  /\ Upload(b)
  /\ jobStatus' = [jobStatus EXCEPT ![b] = "queued"]
  /\ UNCHANGED <<attempts, owner, expired, run>>

\* Deliberately wrong: off by one.
ExhaustedBeyondLimit ==
  {b \in Batches : jobStatus[b] = "processing" /\ expired[b] /\ attempts[b] > MaxAttempts}

Exhausted ==
  {b \in Batches : jobStatus[b] = "processing" /\ expired[b] /\ attempts[b] >= MaxAttempts}

Claimable ==
  {b \in Batches :
     /\ jobStatus[b] = "queued" \/ (jobStatus[b] = "processing" /\ expired[b])
     /\ attempts[b] < MaxAttempts}

PersistedStates == {"ready_to_publish", "validation_failed"}

\* What the claiming transaction makes of an exhausted job.
Reconciled(b) == IF batchStatus[b] \in PersistedStates THEN "completed" ELSE "failed"

\* claimNextImportJob settles at most one exhausted job and takes at most one
\* claimable job; SKIP LOCKED passes over the rows others are writing.
SettleAndTake(w, x, b) ==
  /\ run[w] = Idle
  /\ x # NoBatch \/ b # NoBatch
  /\ jobStatus' = [c \in Batches |->
       CASE c = x -> Reconciled(x) [] c = b -> "processing" [] OTHER -> jobStatus[c]]
  /\ owner' = [c \in Batches |->
       CASE c = x -> NoWorker [] c = b -> w [] OTHER -> owner[c]]
  /\ attempts' = [c \in Batches |-> IF c = b THEN attempts[c] + 1 ELSE attempts[c]]
  /\ expired' = [c \in Batches |-> c \notin {x, b} /\ expired[c]]
  /\ IF x # NoBatch /\ batchStatus[x] \in {"uploaded", "processing"}
     THEN FailExhausted(x)
     ELSE UNCHANGED catalogVars
  /\ run' = IF b = NoBatch THEN run
            ELSE [run EXCEPT ![w] = [Idle EXCEPT !.at = "check", !.batch = b]]

Claim(w) ==
  \E x \in Exhausted \cup {NoBatch}, b \in Claimable \cup {NoBatch} : SettleAndTake(w, x, b)

\* actorForJob finds no eligible actor: the error is thrown before any write.
ActorIneligible(w) ==
  /\ run[w].at = "check"
  /\ Throw(w, FALSE)
  /\ UNCHANGED <<catalogVars, jobVars>>

\* heartbeatImportJob, while the run lasts.
Heartbeat(w) ==
  /\ run[w] # Idle
  /\ OwnsLease(w)
  /\ expired' = [expired EXCEPT ![run[w].batch] = FALSE]
  /\ UNCHANGED <<catalogVars, jobStatus, attempts, owner, run>>

\* Time passes and no heartbeat arrives.
Expire(b) ==
  /\ jobStatus[b] = "processing"
  /\ ~expired[b]
  /\ expired' = [expired EXCEPT ![b] = TRUE]
  /\ UNCHANGED <<catalogVars, jobStatus, attempts, owner, run>>

-----------------------------------------------------------------------------
(* processDialerBatch *)

\* An administrator opens the preview of a ready upload.  Publication is
\* requested from that page, any time later, and starts by reprocessing the
\* upload; an administrator who does not request it is a Crash.
OpenPreview(p, b) ==
  /\ run[p] = Idle
  /\ batchStatus[b] = "ready_to_publish"
  /\ run' = [run EXCEPT ![p] = [Idle EXCEPT !.at = "check", !.batch = b]]
  /\ UNCHANGED <<catalogVars, jobVars>>

\* The unlocked read of the status.
Check(p) ==
  /\ run[p].at = "check"
  /\ IF batchStatus[run[p].batch] \in Processable THEN Goto(p, "mark") ELSE Throw(p, FALSE)
  /\ UNCHANGED <<catalogVars, jobVars>>

\* The status is written without a test of what it is now.
Mark(p) ==
  /\ run[p].at = "mark"
  /\ IF PassesFence(p)
     THEN WriteIfExists(run[p].batch, MarkProcessing(run[p].batch)) /\ Goto(p, "persist")
     ELSE UNCHANGED catalogVars /\ Throw(p, TRUE)
  /\ UNCHANGED jobVars

\* persistProcessedBatch commits; the scopes and the validity of the preview
\* depend on the file.
Persist(p) ==
  \E S \in SUBSET Scopes, valid \in BOOLEAN :
    /\ run[p].at = "persist"
    /\ PassesFence(p)
    /\ PersistPreview(run[p].batch, S, valid)
    /\ Goto(p, "persisted")
    /\ UNCHANGED jobVars

\* The lease is lost, the batch is not processable any more or one of its
\* versions is active, or the file cannot be processed.
PersistFails(p) ==
  /\ run[p].at = "persist"
  /\ CatchInBatch(p, ~PassesFence(p))
  /\ UNCHANGED <<catalogVars, jobVars>>

\* The catch block: it overwrites the status, whatever it has become.
BatchCatch(p) ==
  /\ run[p].at = "batchCatch"
  /\ IF PassesFence(p)
     THEN WriteIfExists(run[p].batch, FailProcessing(run[p].batch))
     ELSE UNCHANGED catalogVars
  /\ Throw(p, run[p].retryable)
  /\ UNCHANGED jobVars

\* The database fails in the transaction of the next step: the connection is
\* lost, a deadlock is broken, a lock wait times out.
TransientError(p) ==
  /\ \/ /\ run[p].at \in {"check", "mark", "persisted", "batchCatch"}
        /\ Throw(p, TRUE)
     \/ /\ run[p].at = "persist"
        /\ CatchInBatch(p, TRUE)
  /\ UNCHANGED <<catalogVars, jobVars>>

-----------------------------------------------------------------------------
(* The ends of a run *)

\* processNextImportJob after processDialerBatch has returned.
Complete(w) ==
  /\ run[w].at = "persisted"
  /\ IF OwnsLease(w)
     THEN /\ jobStatus' = [jobStatus EXCEPT ![run[w].batch] = "completed"]
          /\ owner' = [owner EXCEPT ![run[w].batch] = NoWorker]
          /\ expired' = [expired EXCEPT ![run[w].batch] = FALSE]
          /\ UNCHANGED attempts
     ELSE UNCHANGED jobVars
  /\ Return(w)
  /\ UNCHANGED catalogVars

\* Deliberately wrong: the last attempt is given back like any other.
RetriesWhenTransient(w) == run[w].retryable

Retries(w) == run[w].retryable /\ attempts[run[w].batch] < MaxAttempts

\* Deliberately wrong: the batch is reset before the ownership of the job is
\* tested.
JobCatchResetsFirst(w) ==
  /\ run[w].at = "jobCatch"
  /\ IF OwnsLease(w)
     THEN /\ jobStatus' = [jobStatus EXCEPT ![run[w].batch] =
               IF Retries(w) THEN "queued" ELSE "failed"]
          /\ owner' = [owner EXCEPT ![run[w].batch] = NoWorker]
          /\ expired' = [expired EXCEPT ![run[w].batch] = FALSE]
          /\ UNCHANGED attempts
     ELSE UNCHANGED jobVars
  /\ IF run[w].retryable
     THEN WriteIfExists(run[w].batch, Requeue(run[w].batch))
     ELSE UNCHANGED catalogVars
  /\ Return(w)

\* The catch block of processNextImportJob.
JobCatch(w) ==
  /\ run[w].at = "jobCatch"
  /\ IF OwnsLease(w)
     THEN /\ jobStatus' = [jobStatus EXCEPT ![run[w].batch] =
               IF Retries(w) THEN "queued" ELSE "failed"]
          /\ owner' = [owner EXCEPT ![run[w].batch] = NoWorker]
          /\ expired' = [expired EXCEPT ![run[w].batch] = FALSE]
          /\ IF Retries(w) THEN Requeue(run[w].batch) ELSE UNCHANGED catalogVars
          /\ UNCHANGED attempts
     ELSE UNCHANGED <<catalogVars, jobVars>>
  /\ Return(w)

\* The transaction of publishDialerImportBatch that moves the pointers, or one
\* of its refusals.
FinishPublication(p) ==
  /\ run[p].at = "persisted"
  /\ Publish(run[p].batch) \/ UNCHANGED catalogVars
  /\ Return(p)
  /\ UNCHANGED jobVars

\* The process dies; a restarted worker polls again.
Crash(p) ==
  /\ run[p] # Idle
  /\ Return(p)
  /\ UNCHANGED <<catalogVars, jobVars>>

-----------------------------------------------------------------------------
(* The administrators' other operations, each one transaction *)

ChangeLifecycle(b) ==
  /\ Reject(b) \/ Rollback(b) \/ Restore(b) \/ Deactivate(b)
  /\ UNCHANGED <<jobVars, run>>

\* The job is deleted with the batch.
DeleteUpload(b) ==
  /\ Delete(b)
  /\ jobStatus' = [jobStatus EXCEPT ![b] = "none"]
  /\ attempts' = [attempts EXCEPT ![b] = 0]
  /\ owner' = [owner EXCEPT ![b] = NoWorker]
  /\ expired' = [expired EXCEPT ![b] = FALSE]
  /\ UNCHANGED run

-----------------------------------------------------------------------------
(* Specification *)

ProcessBatch(p) == Check(p) \/ Mark(p) \/ Persist(p) \/ PersistFails(p) \/ BatchCatch(p)

WorkerStep(w) ==
  ActorIneligible(w) \/ ProcessBatch(w) \/ TransientError(w) \/ Complete(w) \/ JobCatch(w)

PublisherStep(p) == ProcessBatch(p) \/ TransientError(p) \/ FinishPublication(p)

Next ==
  \/ \E b \in Batches : Enqueue(b) \/ Expire(b) \/ ChangeLifecycle(b) \/ DeleteUpload(b)
  \/ \E w \in Workers : Claim(w) \/ WorkerStep(w) \/ Heartbeat(w) \/ Crash(w)
  \/ \E p \in Publishers : PublisherStep(p) \/ Crash(p)
  \/ \E p \in Publishers, b \in Batches : OpenPreview(p, b)

Spec == Init /\ [][Next]_vars

\* Nobody renews the lease of a run that is over, so its time comes.
AbandonedLeaseExpires(b) ==
  /\ \A w \in Workers : owner[b] = w => run[w].batch # b
  /\ Expire(b)

\* Workers poll, and a run that is not killed goes on.  Nothing is assumed of
\* administrators, and nothing of a lease that is still renewed.
Fairness ==
  /\ \A w \in Workers : WF_vars(Claim(w)) /\ WF_vars(WorkerStep(w))
  /\ \A b \in Batches : WF_vars(AbandonedLeaseExpires(b))

FairSpec == Spec /\ Fairness

-----------------------------------------------------------------------------
(* Properties *)

\* Every job of import_jobs keeps the promise of LeasedJob: attempts are
\* counted before they start and never exceed the limit, a job waits in the
\* queue only if it may be taken again, a settled job stays settled.
Job(b) == INSTANCE LeasedJob WITH
  status <- jobStatus[b], attempts <- attempts[b], holder <- owner[b]

JobsAreLeased ==
  /\ \A b \in Batches : Job(b)!Init
  /\ [][\A b \in Batches : [Job(b)!Next]_(Job(b)!jobVars)]_vars

\* A worker whose job was taken over, settled or deleted since it looked
\* changes neither the upload, nor its versions, nor the job.
StaleWorkerHarmless ==
  [][\A w \in Workers :
       /\ run[w] # Idle /\ run'[w] # run[w]
       /\ owner[run[w].batch] # w
       => UNCHANGED <<catalogVars, jobVars>>]_vars

\* A job is reported completed only for an upload that was processed and that
\* no retry, by whichever worker, has put back among the unprocessed.
CompletedWasProcessed ==
  \A b \in Batches : jobStatus[b] = "completed" => batchStatus[b] \notin {"absent", "uploaded"}

\* A queued job does not wait forever: it is completed, failed or deleted with
\* its upload, through crashes, lost leases and failures of the database.
JobSettles ==
  \A b \in Batches :
    jobStatus[b] = "queued" ~> jobStatus[b] \in {"completed", "failed", "none"}

\* "Only unpublished imports can be processed": processing an upload rewrites
\* its versions, so a published one is never marked as being processed.
PublishedNotProcessed ==
  [][\A b \in Batches : batchStatus[b] = "active" => batchStatus'[b] # "processing"]_vars

=============================================================================
