---------------------------- MODULE ImportHistory ----------------------------
(***************************************************************************)
(* ImportPipeline with a memory: what an administrator had reviewed when   *)
(* the preview was opened, and whether the current attempt of a job has    *)
(* stored its preview.  The documentation makes promises about both, and   *)
(* the tables keep neither.                                                *)
(***************************************************************************)
EXTENDS ImportPipeline

VARIABLES
  reviewed,  \* by publication request: the version each draft is to replace
  stored     \* by job: the current attempt has committed persistProcessedBatch

historyVars == <<batchStatus, verStatus, verNumber, verPrev, active,
                 jobStatus, attempts, owner, expired, run, reviewed, stored>>

OpensPreview(p) == run[p] = Idle /\ run'[p] # Idle

Preview(b) == [s \in ScopesOf(b) |-> verPrev[b][s]]

StoredBy(w, b) ==
  run[w].batch = b /\ run[w].at = "persist" /\ run'[w].at = "persisted"

HistoryInit ==
  /\ Init
  /\ reviewed = [p \in Publishers |-> <<>>]
  /\ stored = [b \in Batches |-> FALSE]

HistoryNext ==
  /\ Next
  /\ reviewed' = [p \in Publishers |->
       IF OpensPreview(p) THEN Preview(run'[p].batch) ELSE reviewed[p]]
  /\ stored' = [b \in Batches |->
       /\ attempts'[b] = attempts[b]
       /\ stored[b] \/ \E w \in Workers : StoredBy(w, b)]

HistorySpec == HistoryInit /\ [][HistoryNext]_historyVars

-----------------------------------------------------------------------------
(* Properties *)

Publishes(p) ==
  LET b == run[p].batch
  IN  /\ run[p].at = "persisted" /\ run'[p] = Idle
      /\ batchStatus[b] = "ready_to_publish" /\ batchStatus'[b] = "active"

\* docs/csv-import.md: publication "verifies that the reviewed previous version
\* is still active"; "a stale or concurrent publisher must refresh and review
\* again".
ReviewedVersionReplaced ==
  [][\A p \in Publishers :
       Publishes(p) => \A s \in DOMAIN reviewed[p] : active[s] = reviewed[p][s]]_historyVars

\* docs/production-readiness.md: "a crash after a fully persisted preview is
\* reconciled to completed idempotently"; all the more once the preview is
\* published.
PersistedIsReconciled ==
  [][\A b \in Batches :
       /\ stored[b] /\ batchStatus[b] = "active" /\ jobStatus[b] = "processing"
       /\ \A w \in Workers : owner[b] = w => run[w].batch # b
       => jobStatus'[b] # "failed"]_historyVars

=============================================================================
