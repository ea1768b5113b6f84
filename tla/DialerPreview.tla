---------------------------- MODULE DialerPreview ----------------------------
(***************************************************************************)
(* From the rows of a dialer file to what is stored of it: previewDialerCsv *)
(* classifies the rows one by one against the owners of dialer names,      *)
(* validateImport decides whether the upload can be published, and         *)
(* persistProcessedBatch stores a version with its totals and its metrics. *)
(*                                                                         *)
(* The file is about one reporting date and one team: one dataset scope.   *)
(* Of a row only the calls are kept of its eleven numbers, and whether its *)
(* fields can be parsed.                                                   *)
(***************************************************************************)
EXTENDS Directory, Sums, Sequences

CONSTANTS
  Hours,    \* hours of the reporting date that the file may name
  Calls,    \* numbers of calls
  MaxRows   \* bound on the rows of a file

ASSUME PreviewCalls == Calls \subseteq Nat
ASSUME PreviewRows == MaxRows \in Nat

CsvRows == [name : DialerNames, hour : Hours, calls : Calls, bad : BOOLEAN]

VARIABLES
  upload,   \* "none", "reading", and the status that the batch ends with
  owners,   \* getMappings: the users that own each dialer name
  admin,    \* the uploader is an administrator
  csv,      \* the rows read so far
  classes,  \* rows by classification
  agents,   \* what the preview adds up for each name in the file
  stagedCalls, \* totalCalls of the stored version
  metrics   \* rows of dialer_agent_hourly_metrics

previewVars == <<upload, owners, admin, csv, classes, agents, stagedCalls, metrics>>

Classes == {"importable", "invalid", "unknown", "out_of_scope"}
NoAgent == [csv |-> 0, valid |-> 0, invalid |-> 0, calls |-> 0]

PreviewInit ==
  /\ upload = "none"
  /\ owners = [n \in DialerNames |-> {}]
  /\ admin = FALSE
  /\ csv = <<>>
  /\ classes = [c \in Classes |-> 0]
  /\ agents = [n \in DialerNames |-> NoAgent]
  /\ stagedCalls = 0
  /\ metrics = {}

\* A file is read against the owners of this moment.
BeginPreview(mapping, isAdmin) ==
  /\ upload = "none"
  /\ upload' = "reading"
  /\ owners' = mapping
  /\ admin' = isAdmin
  /\ UNCHANGED <<csv, classes, agents, stagedCalls, metrics>>

-----------------------------------------------------------------------------
(* previewDialerCsv *)

Unmapped(n) == owners[n] = {}
Ambiguous(n) == Cardinality(owners[n]) > 1

\* canImportForProfile: only administrators import.
MappingStatus(n) ==
  IF Unmapped(n) THEN "unmapped"
  ELSE IF Ambiguous(n) THEN "invalid_mapping"
  ELSE IF admin THEN "mapped" ELSE "out_of_scope"

\* The number of calls is kept of rows that are not invalid only.
Classified(row) ==
  IF row.bad \/ Ambiguous(row.name) THEN "invalid"
  ELSE IF Unmapped(row.name) THEN "unknown"
  ELSE IF admin THEN "importable" ELSE "out_of_scope"

\* The agent builder, with addValidMetric
Counted(agent, row) ==
  IF Classified(row) # "invalid"
  THEN [agent EXCEPT !.csv = @ + 1, !.valid = @ + 1, !.calls = @ + row.calls]
  ELSE [agent EXCEPT !.csv = @ + 1, !.invalid = @ + 1]

ReadRow(row) ==
  /\ upload = "reading"
  /\ Len(csv) < MaxRows
  /\ csv' = Append(csv, row)
  /\ classes' = [classes EXCEPT ![Classified(row)] = @ + 1]
  /\ agents' = [agents EXCEPT ![row.name] = Counted(@, row)]
  /\ UNCHANGED <<upload, owners, admin, stagedCalls, metrics>>

-----------------------------------------------------------------------------
(* validateImport *)

\* Deliberately wrong: only rows that repeat another one in full.
DuplicateLines ==
  {i \in DOMAIN csv : \E j \in DOMAIN csv \ {i} : csv[j] = csv[i]}

\* duplicateRows: rows of one dialer name and hour, parsed or not
DuplicateRows ==
  {i \in DOMAIN csv :
     \E j \in DOMAIN csv \ {i} : csv[j].name = csv[i].name /\ csv[j].hour = csv[i].hour}

InvalidMappedRows ==
  {n \in DialerNames : MappingStatus(n) = "mapped" /\ agents[n].invalid > 0}

\* A malformed file, or one that lacks a header, has no rows.
Publishable ==
  /\ classes["importable"] > 0
  /\ DuplicateRows = {}
  /\ \A n \in DialerNames : agents[n].csv > 0 => ~Ambiguous(n)
  /\ InvalidMappedRows = {}

-----------------------------------------------------------------------------
(* persistProcessedBatch *)

Importable == {i \in DOMAIN csv : Classified(csv[i]) = "importable"}

Owner(i) == CHOOSE u \in Users : owners[csv[i].name] = {u}

SameKey(i, j) == Owner(i) = Owner(j) /\ csv[i].hour = csv[j].hour

CallsOf(is) == Total([i \in is |-> csv[i].calls], is)

MetricOf(i) == [user |-> Owner(i), hour |-> csv[i].hour, calls |-> csv[i].calls]

\* Of rows with the same user and hour the first is stored.
Stored == {i \in Importable : ~\E j \in Importable : j < i /\ SameKey(j, i)}

PersistUpload ==
  /\ upload = "reading"
  /\ upload' = IF Publishable THEN "ready_to_publish" ELSE "validation_failed"
  /\ stagedCalls' = CallsOf(Importable)
  /\ metrics' = {MetricOf(i) : i \in Stored}
  /\ UNCHANGED <<owners, admin, csv, classes, agents>>

PreviewNext ==
  \/ \E mapping \in [DialerNames -> SUBSET Users], isAdmin \in BOOLEAN :
       BeginPreview(mapping, isAdmin)
  \/ \E row \in CsvRows : ReadRow(row)
  \/ PersistUpload

PreviewSpec == PreviewInit /\ [][PreviewNext]_previewVars

-----------------------------------------------------------------------------
(* Properties *)

CallsIn(M) == Total([m \in M |-> m.calls], M)

\* Nothing is lost between review and storage: the totals of a version that can
\* be published, which the reviewer compares with the active one, are the totals
\* of its metrics, which the dashboards add up (validateImport rejects what
\* persistProcessedBatch would drop).
StoredAsReviewed == upload = "ready_to_publish" => CallsIn(metrics) = stagedCalls

\* The same for files in which no user appears under two of their dialer names.
NoAliases ==
  \A i, j \in Importable : Owner(i) = Owner(j) => csv[i].name = csv[j].name

\* Every row of the file is in one class and in the counts of its agent, so the
\* totals of the file that decide about publication are those of its agents
\* (previewDialerCsv counts both side by side in six branches).
RowsAccounted ==
  LET all == [n \in DialerNames |-> agents[n].csv]
      valid == [n \in DialerNames |-> agents[n].valid]
      invalid == [n \in DialerNames |-> agents[n].invalid]
  IN  /\ Total(all, DialerNames) = Len(csv)
      /\ Total(invalid, DialerNames) = classes["invalid"]
      /\ Total(valid, DialerNames) = classes["importable"] + classes["unknown"] + classes["out_of_scope"]

=============================================================================
