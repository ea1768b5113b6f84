--------------------------- MODULE DatasetVersions ---------------------------
(***************************************************************************)
(* The dataset catalogue of the dialer import: the rows of                 *)
(* dialer_import_batches, dialer_dataset_versions and                      *)
(* dialer_dataset_scopes that decide which upload a dashboard shows.       *)
(*                                                                         *)
(* One action is one database transaction.  A transaction may be run by    *)
(* anyone at any time: what the callers read before they open it (and may  *)
(* have read long before) is not a guard here, only what the transaction   *)
(* itself re-reads under its row locks.  Whatever holds of this module     *)
(* therefore holds for every order of the transactions of workers and      *)
(* administrators; ImportPipeline adds those callers.  The transactions    *)
(* lock the rows they decide by, with one exception: the count behind      *)
(* Visibility is read without a lock, so two concurrent transactions may   *)
(* each miss the other's pointers.  No property here is about the value it *)
(* writes.                                                                 *)
(*                                                                         *)
(* (importBatchId, scopeKey) is unique, so a version row is named by its   *)
(* batch b and its scope s, and a reference to a version of scope s is the *)
(* batch that owns it.                                                     *)
(***************************************************************************)
EXTENDS Naturals

CONSTANTS
  Batches,     \* uploads; a deleted upload's id is never used again
  Scopes,      \* source + import type + reporting date + team + dialer
  NoBatch,     \* SQL NULL in a reference to a version
  MaxVersion   \* bound on version numbers

ASSUME NoBatchAssumption == NoBatch \notin Batches
ASSUME MaxVersionAssumption == MaxVersion \in Nat

VARIABLES
  batchStatus, \* dialer_import_batches.status
  verStatus,   \* dialer_dataset_versions.status, "none" where there is no row
  verNumber,   \* dialer_dataset_versions.versionNumber, 0 where there is no row
  verPrev,     \* dialer_dataset_versions.previousVersionId
  active       \* dialer_dataset_scopes.activeVersionId

catalogVars == <<batchStatus, verStatus, verNumber, verPrev, active>>

-----------------------------------------------------------------------------
(* Statuses *)

Reprocessable == {"draft", "validation_failed", "ready_to_publish"}

Processable == Reprocessable \cup {"uploaded", "processing"}

BatchStates ==
  Processable \cup
  {"active", "superseded", "rolled_back", "failed", "rejected", "deactivated"}

\* The statuses of a version that was visible and can become visible again.
ValidFallback == {"superseded", "rolled_back", "deactivated"}

Published == ValidFallback \cup {"active"}

VersionStates == Published \cup {"draft", "rejected"}

DeletableStates ==
  {"draft", "validation_failed", "ready_to_publish", "failed", "rejected",
   "deactivated", "superseded", "rolled_back"}

Exists(b) == batchStatus[b] \notin {"absent", "deleted"}

ScopesOf(b) == {s \in Scopes : verStatus[b][s] # "none"}

ActiveScopes(b) == {s \in Scopes : active[s] = b}

-----------------------------------------------------------------------------
(* The invariant that types the tables, and the initial, empty tables *)

TypeOK ==
  /\ batchStatus \in [Batches -> BatchStates \cup {"absent", "deleted"}]
  /\ verStatus \in [Batches -> [Scopes -> VersionStates \cup {"none"}]]
  /\ verNumber \in [Batches -> [Scopes -> 0..MaxVersion]]
  /\ verPrev \in [Batches -> [Scopes -> Batches \cup {NoBatch}]]
  /\ active \in [Scopes -> Batches \cup {NoBatch}]

CatalogInit ==
  /\ batchStatus = [b \in Batches |-> "absent"]
  /\ verStatus = [b \in Batches |-> [s \in Scopes |-> "none"]]
  /\ verNumber = [b \in Batches |-> [s \in Scopes |-> 0]]
  /\ verPrev = [b \in Batches |-> [s \in Scopes |-> NoBatch]]
  /\ active = [s \in Scopes |-> NoBatch]

-----------------------------------------------------------------------------
(* What the transactions have in common *)

\* The pointers of the scopes in S move to the versions of the batches t[s].
PointersAfter(S, t) ==
  [s \in Scopes |-> IF s \in S THEN t[s] ELSE active[s]]

\* Deliberately wrong: the outgoing version is left "active".
StatusesOutgoingKept(S, t, outgoing) ==
  [c \in Batches |-> [s \in Scopes |->
     IF s \in S /\ t[s] = c THEN "active" ELSE verStatus[c][s]]]

\* The version a pointer moves to becomes "active", the one it leaves gets
\* the status `outgoing`.
StatusesAfter(S, t, outgoing) ==
  [c \in Batches |-> [s \in Scopes |->
     CASE s \in S /\ t[s] = c -> "active"
       [] s \in S /\ t[s] # c /\ active[s] = c -> outgoing
       [] OTHER -> verStatus[c][s]]]

\* updateBatchVisibilityStatus: read after the pointers of the transaction
\* have moved.
Visibility(c, inactiveStatus) ==
  IF \E s \in Scopes : active'[s] = c THEN "active" ELSE inactiveStatus

\* Deliberately wrong: numbers continue from the active version.
NumberAfterActive(b, s, n) ==
  n = 1 + (IF active[s] = NoBatch THEN 0 ELSE verNumber[active[s]][s])

\* n is one more than the highest number among the scope's other versions.
IsNextNumber(b, s, n) ==
  /\ \A c \in Batches \ {b} : verNumber[c][s] < n
  /\ n = 1 \/ \E c \in Batches \ {b} : verNumber[c][s] = n - 1

NextNumber(b, s) == CHOOSE n \in 1..MaxVersion : IsNextNumber(b, s, n)

-----------------------------------------------------------------------------
(* Upload and processing *)

\* enqueueDialerPreviewBatch inserts the batch.
Upload(b) ==
  /\ batchStatus[b] = "absent"
  /\ batchStatus' = [batchStatus EXCEPT ![b] = "uploaded"]
  /\ UNCHANGED <<verStatus, verNumber, verPrev, active>>

\* Status writes that test nothing but the batch's id.
SetBatchStatus(b, status) ==
  /\ Exists(b)
  /\ batchStatus' = [batchStatus EXCEPT ![b] = status]
  /\ UNCHANGED <<verStatus, verNumber, verPrev, active>>

MarkProcessing(b) == SetBatchStatus(b, "processing")

FailProcessing(b) == SetBatchStatus(b, "failed")

\* The job goes back to the queue and takes the batch with it.
Requeue(b) == SetBatchStatus(b, "uploaded")

\* The retry limit is reached: the only status write with a condition.
FailExhausted(b) ==
  /\ batchStatus[b] \in {"uploaded", "processing"}
  /\ SetBatchStatus(b, "failed")

\* The version rows of the previous run of b are deleted and rows for the
\* scopes in S are inserted: `none` is the column's value where there is no
\* row any more.
Restaged(S, none, new) ==
  [s \in Scopes |-> IF s \in S THEN new[s] ELSE none[s]]

\* persistProcessedBatch: the drafts of a previous run are replaced by drafts
\* for the scopes S of this run.  The foreign key of the active pointer
\* restricts the deletion; the one of previousVersionId sets NULL.
PersistPreview(b, S, valid) ==
  /\ batchStatus[b] \in Processable
  /\ ActiveScopes(b) = {}
  /\ valid => S # {}
  /\ \A s \in S : \E n \in 1..MaxVersion : IsNextNumber(b, s, n)
  /\ verStatus' = [verStatus EXCEPT ![b] =
       Restaged(S, [s \in Scopes |-> "none"], [s \in S |-> "draft"])]
  /\ verNumber' = [verNumber EXCEPT ![b] =
       Restaged(S, [s \in Scopes |-> 0], [s \in S |-> NextNumber(b, s)])]
  /\ verPrev' = [c \in Batches |->
       IF c = b
       THEN Restaged(S, [s \in Scopes |-> NoBatch], [s \in S |-> active[s]])
       ELSE [s \in Scopes |->
               IF verPrev[c][s] = b THEN NoBatch ELSE verPrev[c][s]]]
  /\ batchStatus' = [batchStatus EXCEPT ![b] =
       IF valid THEN "ready_to_publish" ELSE "validation_failed"]
  /\ UNCHANGED active

-----------------------------------------------------------------------------
(* Administrators' operations on a batch *)

\* Deliberately wrong: scopes that were published to since are skipped.
PublishSkipsStale(b) ==
  LET S == {s \in ScopesOf(b) : active[s] = verPrev[b][s]}
      t == [s \in S |-> b]
  IN  /\ batchStatus[b] = "ready_to_publish"
      /\ S # {}
      /\ active' = PointersAfter(S, t)
      /\ verStatus' = StatusesAfter(S, t, "superseded")
      /\ batchStatus' = [c \in Batches |->
           CASE c = b -> "active"
             [] c # b /\ (\E s \in S : active[s] = c) -> Visibility(c, "superseded")
             [] OTHER -> batchStatus[c]]
      /\ UNCHANGED <<verNumber, verPrev>>

\* publishDialerImportBatch, its second transaction.
Publish(b) ==
  LET S == ScopesOf(b)
      t == [s \in S |-> b]
  IN  /\ batchStatus[b] = "ready_to_publish"
      /\ S # {}
      /\ \A s \in S : active[s] = verPrev[b][s]
      /\ active' = PointersAfter(S, t)
      /\ verStatus' = StatusesAfter(S, t, "superseded")
      /\ batchStatus' = [c \in Batches |->
           CASE c = b -> "active"
             [] c # b /\ (\E s \in S : active[s] = c) -> Visibility(c, "superseded")
             [] OTHER -> batchStatus[c]]
      /\ UNCHANGED <<verNumber, verPrev>>

\* rejectDialerImportBatch
Reject(b) ==
  /\ batchStatus[b] \in Reprocessable
  /\ batchStatus' = [batchStatus EXCEPT ![b] = "rejected"]
  /\ verStatus' = [verStatus EXCEPT ![b] = [s \in Scopes |->
       IF s \in ScopesOf(b) THEN "rejected" ELSE "none"]]
  /\ UNCHANGED <<verNumber, verPrev, active>>

\* switchHistoricalVersions, mode "rollback": every version of b is the active
\* one and each of them returns to the version it replaced.
Rollback(b) ==
  LET S == ScopesOf(b)
      t == [s \in S |-> verPrev[b][s]]
  IN  /\ S # {}
      /\ \A s \in S : active[s] = b /\ verPrev[b][s] # NoBatch
      /\ active' = PointersAfter(S, t)
      /\ verStatus' = StatusesAfter(S, t, "rolled_back")
      /\ batchStatus' = [c \in Batches |->
           CASE c = b -> "rolled_back"
             [] c # b /\ (\E s \in S : t[s] = c) -> Visibility(c, "superseded")
             [] OTHER -> batchStatus[c]]
      /\ UNCHANGED <<verNumber, verPrev>>

\* Deliberately wrong: only rejected versions are refused.
RestorableUnlessRejected(b) ==
  \A s \in ScopesOf(b) : verStatus[b][s] # "rejected"

Restorable(b) == \A s \in ScopesOf(b) : verStatus[b][s] \notin {"draft", "rejected"}

\* switchHistoricalVersions, mode "restore"
Restore(b) ==
  LET S == ScopesOf(b) \ ActiveScopes(b)
      t == [s \in S |-> b]
  IN  /\ S # {}
      /\ Restorable(b)
      /\ active' = PointersAfter(S, t)
      /\ verStatus' = StatusesAfter(S, t, "rolled_back")
      /\ batchStatus' = [c \in Batches |->
           CASE c = b -> Visibility(c, "superseded")
             [] c # b /\ (\E s \in S : active[s] = c) -> Visibility(c, "rolled_back")
             [] OTHER -> batchStatus[c]]
      /\ UNCHANGED <<verNumber, verPrev>>

-----------------------------------------------------------------------------
(* Taking an active batch out of the dashboards: selectReplacementVersions *)
(* and resolveActiveImportWithinTransaction                                *)

Candidates(b, s) == {c \in Batches \ {b} : verStatus[c][s] \in ValidFallback}

\* The candidate with the highest number below that of b's version.
PreviousVersion(b, s) ==
  {c \in Candidates(b, s) :
     /\ verNumber[c][s] < verNumber[b][s]
     /\ \A d \in Candidates(b, s) :
          verNumber[d][s] < verNumber[b][s] => verNumber[d][s] <= verNumber[c][s]}

\* Replacements, one per scope where b is active, by mode of resolution.
NoReplacement(b) == [ActiveScopes(b) -> {NoBatch}]

PreviousReplacement(b) ==
  {r \in [ActiveScopes(b) -> Batches] :
     \A s \in ActiveScopes(b) : r[s] \in PreviousVersion(b, s)}

SelectedReplacement(b) ==
  {r \in [ActiveScopes(b) -> Batches] : \E f \in Batches :
     \A s \in ActiveScopes(b) : r[s] = f /\ f \in Candidates(b, s)}

AutomaticReplacement(b) ==
  {r \in [ActiveScopes(b) -> Batches \cup {NoBatch}] :
     \A s \in ActiveScopes(b) :
        \/ r[s] \in PreviousVersion(b, s)
        \/ r[s] = NoBatch /\ PreviousVersion(b, s) = {}}

\* deactivateDialerImportBatch
Deactivate(b) ==
  \E r \in NoReplacement(b) \cup PreviousReplacement(b) \cup SelectedReplacement(b) :
    /\ Exists(b)
    /\ ActiveScopes(b) # {}
    /\ active' = PointersAfter(ActiveScopes(b), r)
    /\ verStatus' = StatusesAfter(ActiveScopes(b), r, "deactivated")
    /\ batchStatus' = [c \in Batches |->
         CASE c = b -> "deactivated"
           [] c # b /\ (\E s \in ActiveScopes(b) : r[s] = c) -> "active"
           [] OTHER -> batchStatus[c]]
    /\ UNCHANGED <<verNumber, verPrev>>

\* Deliberately wrong: the foreign key alone clears the successors' references.
SuccessorsCut(b, c, s) == IF verPrev[c][s] = b THEN NoBatch ELSE verPrev[c][s]

\* Versions that replaced b's now replace what b's had replaced.
SuccessorsRewired(b, c, s) ==
  IF verPrev[c][s] = b THEN verPrev[b][s] ELSE verPrev[c][s]

\* evaluateImportDeletion
MayDelete(b) ==
  /\ Exists(b)
  /\ batchStatus[b] \notin {"uploaded", "processing"}
  /\ ActiveScopes(b) # {} \/ batchStatus[b] \in DeletableStates

\* deleteDialerImportBatch
Delete(b) ==
  \E r \in AutomaticReplacement(b) :
    /\ MayDelete(b)
    /\ active' = PointersAfter(ActiveScopes(b), r)
    /\ verStatus' = [StatusesAfter(ActiveScopes(b), r, "deactivated")
                       EXCEPT ![b] = [s \in Scopes |-> "none"]]
    /\ verNumber' = [verNumber EXCEPT ![b] = [s \in Scopes |-> 0]]
    /\ verPrev' = [c \in Batches |-> [s \in Scopes |->
         IF c = b THEN NoBatch ELSE SuccessorsRewired(b, c, s)]]
    /\ batchStatus' = [c \in Batches |->
         CASE c = b -> "deleted"
           [] c # b /\ (\E s \in ActiveScopes(b) : r[s] = c) -> "active"
           [] OTHER -> batchStatus[c]]

-----------------------------------------------------------------------------
(* Specification *)

ProcessingStep(b) ==
  \/ Upload(b)
  \/ MarkProcessing(b)
  \/ FailProcessing(b)
  \/ Requeue(b)
  \/ FailExhausted(b)
  \/ \E S \in SUBSET Scopes, valid \in BOOLEAN : PersistPreview(b, S, valid)

LifecycleStep(b) ==
  \/ Publish(b)
  \/ Reject(b)
  \/ Rollback(b)
  \/ Restore(b)
  \/ Deactivate(b)
  \/ Delete(b)

CatalogNext == \E b \in Batches : ProcessingStep(b) \/ LifecycleStep(b)

CatalogSpec == CatalogInit /\ [][CatalogNext]_catalogVars

-----------------------------------------------------------------------------
(* Properties *)

\* The pointer of a scope and the "active" status of a version are written by
\* five different transactions.  They always agree: a pointer leads to an
\* existing version that says "active", and no other version says so.
PointerConsistent ==
  \A b \in Batches, s \in Scopes : active[s] = b <=> verStatus[b][s] = "active"

\* Following previousVersionId, as an undo of an undo of an undo does, only
\* ever leads to an existing version that has been visible before and that is
\* older: whatever was published, rolled back, restored, reprocessed and
\* deleted in between, an undo can neither loop nor show an unreviewed draft.
RollbackChainSound ==
  \A b \in Batches, s \in Scopes :
    verPrev[b][s] # NoBatch =>
      /\ verStatus[b][s] # "none"
      /\ verStatus[verPrev[b][s]][s] \in Published
      /\ verNumber[verPrev[b][s]][s] < verNumber[b][s]

\* Publication is all or nothing over the scopes of a file: a batch never has
\* drafts in some scopes and reviewed versions in others, and a batch that may
\* be edited or rejected has drafts only.
DraftsTogether ==
  \A b \in Batches :
    /\ \/ \A s \in ScopesOf(b) : verStatus[b][s] = "draft"
       \/ \A s \in ScopesOf(b) : verStatus[b][s] # "draft"
    /\ batchStatus[b] \in Reprocessable =>
         \A s \in ScopesOf(b) : verStatus[b][s] = "draft"

\* The numbers taken under the scope lock satisfy the unique index on
\* (scopeKey, versionNumber), with reprocessing and deletion freeing numbers.
VersionNumbersUnique ==
  \A b, c \in Batches, s \in Scopes :
    s \in ScopesOf(b) \cap ScopesOf(c) /\ b # c => verNumber[b][s] # verNumber[c][s]

\* The history of a scope is one line, whatever was reprocessed, undone and
\* deleted: its versions are numbered apart, and references lead back along it.
HistoryInLine == VersionNumbersUnique /\ RollbackChainSound

\* None of rollback, restore, deactivation's fallbacks and deletion's automatic
\* fallback makes a draft or a rejected version visible: a version that was
\* never visible becomes so by publication of a batch that is ready, in place
\* of the version it was staged against.
OnlyPublicationReveals ==
  [][\A b \in Batches, s \in Scopes :
       verStatus[b][s] \in {"none", "draft", "rejected"} /\ active'[s] = b =>
         /\ batchStatus[b] = "ready_to_publish"
         /\ verStatus[b][s] = "draft"
         /\ active[s] = verPrev[b][s]]_catalogVars

\* Deleting an upload from the middle of a scope's history does not shorten
\* what the others can undo to: a version that could be rolled back still can
\* be, unless its last predecessor is gone.
DeletionKeepsHistory ==
  [][\A b, c \in Batches, s \in Scopes :
       /\ batchStatus[b] # "deleted" /\ batchStatus'[b] = "deleted"
       /\ verPrev[c][s] = b /\ verPrev[b][s] # NoBatch
       => verPrev'[c][s] # NoBatch]_catalogVars

=============================================================================
