-------------------------- MODULE RetentionCleanup ---------------------------
(***************************************************************************)
(* ImportPipeline with the retention cleanup beside it.  One run of the    *)
(* cleanup selects expired uploads, and uploads whose raw file is due, and *)
(* in a later transaction deletes and scrubs them by their ids, whatever   *)
(* has become of them.  Any upload may be old enough: an upload waits for  *)
(* its administrator, and a slow publication request for its process, for  *)
(* as long as it takes.                                                    *)
(***************************************************************************)
EXTENDS ImportPipeline

VARIABLES
  raw,       \* by upload: rawFileContent is not NULL
  content,   \* by process: its run has read the file
  doomed,    \* uploads a run of the cleanup is about to delete
  due        \* uploads whose file it is about to scrub

cleanupVars == <<doomed, due>>
retentionVars == <<batchStatus, verStatus, verNumber, verPrev, active,
                   jobStatus, attempts, owner, expired, run,
                   raw, content, doomed, due>>

RetentionInit ==
  /\ Init
  /\ raw = [b \in Batches |-> FALSE]
  /\ content = [p \in Processes |-> FALSE]
  /\ doomed = {}
  /\ due = {}

\* The file is stored with the upload, and read with its row before the run
\* marks it; without it nothing is parsed and the run fails.
PipelineStep ==
  /\ Next
  /\ raw' = [b \in Batches |->
       \/ batchStatus[b] = "absent" /\ batchStatus'[b] = "uploaded"
       \/ raw[b] /\ batchStatus'[b] # "deleted"]
  /\ content' = [p \in Processes |->
       IF run[p].at = "check" THEN raw[run[p].batch] ELSE content[p]]
  /\ \A p \in Processes :
       run[p].at = "persist" /\ run'[p].at = "persisted" => content[p]
  /\ UNCHANGED cleanupVars

-----------------------------------------------------------------------------
(* runRetentionCleanup *)

\* Failed and rejected uploads, and abandoned ones, unless a scope shows them.
Ephemeral(b) ==
  /\ batchStatus[b] \in {"failed", "rejected", "validation_failed",
                         "uploaded", "draft", "ready_to_publish"}
  /\ ActiveScopes(b) = {}

Scrubbable(b) ==
  /\ raw[b] /\ Exists(b)
  /\ batchStatus[b] \notin {"uploaded", "processing", "draft", "ready_to_publish"}

\* The queries, each limited and none of them locking.
CleanupSelects ==
  /\ doomed = {} /\ due = {}
  /\ doomed' \in SUBSET {b \in Batches : Ephemeral(b)}
  /\ due' \in SUBSET {b \in Batches : Scrubbable(b)}
  /\ doomed' \cup due' # {}
  /\ UNCHANGED <<catalogVars, jobVars, run, raw, content>>

\* The value of a column, or `none` where the row is deleted.
Kept(column, none) == [b \in Batches |-> IF b \in doomed THEN none ELSE column[b]]

\* The transaction; the foreign key of an active pointer restricts it, that of
\* previousVersionId sets NULL and that of a job cascades.
CleanupDeletes ==
  /\ doomed \cup due # {}
  /\ doomed' = {} /\ due' = {}
  /\ \A b \in doomed : ActiveScopes(b) = {}
  /\ batchStatus' = [b \in Batches |->
       IF b \in doomed /\ Exists(b) THEN "deleted" ELSE batchStatus[b]]
  /\ verStatus' = Kept(verStatus, [s \in Scopes |-> "none"])
  /\ verNumber' = Kept(verNumber, [s \in Scopes |-> 0])
  /\ verPrev' = [b \in Batches |-> [s \in Scopes |->
       IF b \in doomed \/ verPrev[b][s] \in doomed THEN NoBatch ELSE verPrev[b][s]]]
  /\ jobStatus' = Kept(jobStatus, "none")
  /\ attempts' = Kept(attempts, 0)
  /\ owner' = Kept(owner, NoWorker)
  /\ expired' = Kept(expired, FALSE)
  /\ raw' = [b \in Batches |-> raw[b] /\ b \notin doomed \cup due]
  /\ UNCHANGED <<active, run, content>>

\* A dry run, a crash, or a transaction that was refused.
CleanupEnds ==
  /\ doomed \cup due # {}
  /\ doomed' = {} /\ due' = {}
  /\ UNCHANGED <<catalogVars, jobVars, run, raw, content>>

RetentionNext == PipelineStep \/ CleanupSelects \/ CleanupDeletes \/ CleanupEnds

RetentionSpec == RetentionInit /\ [][RetentionNext]_retentionVars

-----------------------------------------------------------------------------
(* Properties *)

\* docs/production-readiness.md: "Cleanup never selects audit logs, active
\* versions, superseded rollback history, or any published version."
PublishedNeverSelected ==
  [][\A b \in doomed' \ doomed, s \in Scopes : verStatus[b][s] \notin Published]_retentionVars

=============================================================================
