------------------------------ MODULE UserImport ------------------------------
(***************************************************************************)
(* Bulk import of users: one previewed CSV file, the requests that confirm *)
(* it (at the same time, again after an answer was lost, or to resume one  *)
(* that died) and the retention cleanup.  A request creates one user at a  *)
(* time, each in a transaction of its own, and checkpoints the outcome of  *)
(* every row in the batch.                                                 *)
(*                                                                         *)
(* The set of rows that are selected, with a role and an active team,      *)
(* stands for the assignments of a confirmation and for their hash.        *)
(***************************************************************************)
EXTENDS Naturals

CONSTANTS
  RowCount,  \* rows of the file that are valid by themselves
  Requests   \* confirmation requests that may be under way

ASSUME UserRowCount == RowCount \in Nat \ {0}

Rows == 1..RowCount
Selections == SUBSET Rows \ {{}}
Outcomes == {"none", "created", "skipped", "failed"}

VARIABLES
  phase,    \* user_import_batches.status; "deleted" after the row
  choice,   \* confirmationHash
  quiet,    \* processingStartedAt is more than ten minutes ago
  lapsed,   \* expiresAt is not after the current time
  summary,  \* resultSummary, by row
  request,  \* what each request is doing
  created,  \* rows whose user this import created
  taken,    \* rows whose e-mail or American name belongs to someone else
  marked    \* a cleanup has selected the batch and not yet deleted it

importBatch == <<phase, choice, quiet, lapsed, summary>>
importUsers == <<created, taken>>
importVars == <<phase, choice, quiet, lapsed, summary, request, created, taken, marked>>

NoOutcomes == [r \in Rows |-> "none"]
Resting ==
  [at |-> "rest", rows |-> {}, valid |-> {}, next |-> 1, known |-> NoOutcomes, outcome |-> "none"]

\* createUserImportPreview stored the batch.
ImportInit ==
  /\ phase = "previewed"
  /\ choice = {}
  /\ quiet = FALSE
  /\ lapsed = FALSE
  /\ summary = NoOutcomes
  /\ request = [q \in Requests |-> Resting]
  /\ created = {}
  /\ taken = {}
  /\ marked = FALSE

-----------------------------------------------------------------------------
(* confirmUserImport *)

\* Deliberately wrong: a stale claim may be resumed with other assignments.
RecoverableByAnyone(rows) == phase = "processing" /\ quiet

Recoverable(rows) == phase = "processing" /\ choice = rows /\ quiet

\* The claiming transaction, under a lock of the batch.  A confirmed batch is
\* replayed and changes nothing.
ClaimBatch(q, rows) ==
  /\ request[q].at = "rest"
  /\ ~lapsed
  /\ phase = "previewed" \/ Recoverable(rows)
  /\ phase' = "processing"
  /\ choice' = rows
  /\ quiet' = FALSE
  /\ request' = [request EXCEPT ![q] =
       [Resting EXCEPT !.at = "claimed", !.rows = rows, !.known = summary]]
  /\ UNCHANGED <<lapsed, summary, importUsers, marked>>

\* validationContext and parseUserImportCsv: a row whose user exists, also one
\* that this import created, is not valid for assignment.
ReadContext(q) ==
  /\ request[q].at = "claimed"
  /\ request' = [request EXCEPT ![q].at = "rows",
                                ![q].valid = Rows \ (created \cup taken)]
  /\ UNCHANGED <<importBatch, importUsers, marked>>

Row(q) == request[q].next

AtRow(q) == request[q].at = "rows" /\ Row(q) <= RowCount

\* checkpoint writes the outcomes this request knows of, while the batch is
\* still being processed for its assignments.
Checkpoint(q, outcome) ==
  LET known == [request[q].known EXCEPT ![Row(q)] = outcome]
  IN  /\ request' = [request EXCEPT ![q].at = "rows", ![q].next = @ + 1, ![q].known = known]
      /\ summary' = IF phase = "processing" /\ choice = request[q].rows THEN known ELSE summary

\* The row has an outcome from an earlier claim.
PassRow(q) ==
  /\ AtRow(q)
  /\ request[q].known[Row(q)] # "none"
  /\ request' = [request EXCEPT ![q].next = @ + 1]
  /\ UNCHANGED <<importBatch, importUsers, marked>>

Wanted(q) == Row(q) \in request[q].rows /\ Row(q) \in request[q].valid

\* Not selected, not valid, or without a role or an active team.
SkipRow(q) ==
  /\ AtRow(q)
  /\ request[q].known[Row(q)] = "none"
  /\ ~Wanted(q)
  /\ Checkpoint(q, "skipped")
  /\ UNCHANGED <<phase, choice, quiet, lapsed, importUsers, marked>>

\* createAdminUser commits; e-mail addresses and dialer names are unique.
CreateUser(q) ==
  /\ AtRow(q)
  /\ request[q].known[Row(q)] = "none"
  /\ Wanted(q)
  /\ Row(q) \notin created \cup taken
  /\ created' = created \cup {Row(q)}
  /\ request' = [request EXCEPT ![q].at = "save", ![q].outcome = "created"]
  /\ UNCHANGED <<importBatch, taken, marked>>

\* Deliberately wrong: whoever owns the e-mail, the row counts as created.
RecoveredByEmail(r) == IF r \in created \cup taken THEN "created" ELSE "failed"

\* The audit log tells whether this import created the user.
Recovered(r) == IF r \in created THEN "created" ELSE "failed"

\* createAdminUser throws: the user exists by now, or the database failed.
CreateUserFails(q) ==
  /\ AtRow(q)
  /\ request[q].known[Row(q)] = "none"
  /\ Wanted(q)
  /\ request' = [request EXCEPT ![q].at = "save", ![q].outcome = Recovered(Row(q))]
  /\ UNCHANGED <<importBatch, importUsers, marked>>

SaveRow(q) ==
  /\ request[q].at = "save"
  /\ Checkpoint(q, request[q].outcome)
  /\ UNCHANGED <<phase, choice, quiet, lapsed, importUsers, marked>>

\* The last transaction updates the batch by its id alone.
Confirm(q) ==
  /\ request[q].at = "rows"
  /\ Row(q) > RowCount
  /\ IF phase = "deleted"
     THEN UNCHANGED <<phase, quiet, summary>>
     ELSE phase' = "confirmed" /\ quiet' = FALSE /\ summary' = request[q].known
  /\ request' = [request EXCEPT ![q] = Resting]
  /\ UNCHANGED <<choice, lapsed, importUsers, marked>>

\* The process dies, or a statement outside the try block throws.
RequestDies(q) ==
  /\ request[q].at # "rest"
  /\ request' = [request EXCEPT ![q] = Resting]
  /\ UNCHANGED <<importBatch, importUsers, marked>>

-----------------------------------------------------------------------------
(* The clock, other administrators and the retention cleanup *)

GoQuiet ==
  /\ phase = "processing" /\ ~quiet
  /\ quiet' = TRUE
  /\ UNCHANGED <<phase, choice, lapsed, summary, request, importUsers, marked>>

\* Thirty minutes are over, and so are the ten of any earlier claim.
Lapse ==
  /\ ~lapsed
  /\ lapsed' = TRUE
  /\ UNCHANGED <<phase, choice, quiet, summary, request, importUsers, marked>>

TakeName(r) ==
  /\ r \notin created \cup taken
  /\ taken' = taken \cup {r}
  /\ UNCHANGED <<importBatch, request, created, marked>>

\* cleanupExpiredData selects an expired batch that is not confirmed ...
MarkBatch ==
  /\ lapsed /\ phase \in {"previewed", "processing"}
  /\ ~marked
  /\ marked' = TRUE
  /\ UNCHANGED <<importBatch, request, importUsers>>

\* ... and deletes it by its id, whatever has become of it.
DeleteBatch ==
  /\ marked
  /\ phase' = "deleted"
  /\ marked' = FALSE
  /\ UNCHANGED <<choice, quiet, lapsed, summary, request, importUsers>>

ImportNext ==
  \/ \E q \in Requests, rows \in Selections : ClaimBatch(q, rows)
  \/ \E q \in Requests :
       \/ ReadContext(q)
       \/ PassRow(q)
       \/ SkipRow(q)
       \/ CreateUser(q)
       \/ CreateUserFails(q)
       \/ SaveRow(q)
       \/ Confirm(q)
       \/ RequestDies(q)
  \/ GoQuiet
  \/ Lapse
  \/ \E r \in Rows : TakeName(r)
  \/ MarkBatch
  \/ DeleteBatch

ImportSpec == ImportInit /\ [][ImportNext]_importVars

-----------------------------------------------------------------------------
(* Properties *)

\* The requests at work on a batch were all given the assignments that the
\* batch records, so however claims are resumed, users are created for the rows
\* of one confirmation alone; and a row of the summary counts as created only
\* when this import created its user (the claiming transaction and the recovery
\* by the audit log, confirmUserImport).
OneConfirmation ==
  /\ \A q \in Requests : request[q].at # "rest" => request[q].rows = choice
  /\ created \subseteq choice
  /\ \A r \in Rows : summary[r] = "created" => r \in created

=============================================================================
