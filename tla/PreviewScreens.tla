---------------------------- MODULE PreviewScreens ----------------------------
(***************************************************************************)
(* The page on which an administrator reviews a processed upload before it *)
(* is published: the rows and agents of the preview compared with the      *)
(* active version, the figures and filters over them, the warnings, and    *)
(* the button.                                                             *)
(*                                                                         *)
(* The active version of the scope is chosen freely (current).  The upload *)
(* was not uploaded before, is about the date of its rows, and no row is   *)
(* longer than a day.                                                      *)
(***************************************************************************)
EXTENDS DialerPreview

CONSTANTS
  MaxActive,     \* bound on the metrics of the active version
  TablePageSize  \* agents on a page of the table

ASSUME ActiveBound == MaxActive \in Nat
ASSUME PageSizes == TablePageSize \in Nat \ {0}

Processed == upload \in {"ready_to_publish", "validation_failed"}

\* A version has one metric of each user and hour.  Bound: MaxActive.
ActiveVersions ==
  {M \in SUBSET [user : Users, hour : Hours, calls : Calls] :
     /\ \A x, y \in M : x.user = y.user /\ x.hour = y.hour => x = y
     /\ IsFiniteSet(M) /\ Cardinality(M) <= MaxActive}

InFile == {n \in DialerNames : agents[n].csv > 0}
RowsNamed(n) == {i \in DOMAIN csv : csv[i].name = n}

-----------------------------------------------------------------------------
(* Rows and agents of the preview *)

\* Deliberately wrong: what the active version has for the agent.
MetricsOfAgent(i, current) == {m \in current : m.user = Owner(i)}

\* hourlyKey: what the active version has for the row.
ExistingMetrics(i, current) == {m \in current : m.user = Owner(i) /\ m.hour = csv[i].hour}

RowStatus(i, current) ==
  IF Classified(csv[i]) # "importable" THEN Classified(csv[i])
  ELSE IF ExistingMetrics(i, current) = {} THEN "new"
  ELSE IF \E m \in ExistingMetrics(i, current) : m.calls = csv[i].calls
  THEN "unchanged" ELSE "changed"

WithStatus(S, current) == {i \in DOMAIN csv : RowStatus(i, current) \in S}

\* buildAgentSummary: counts of the agent's builder, and of its rows by status.
AgentSummary(n, current) ==
  LET Rows(S) == Cardinality(RowsNamed(n) \cap WithStatus(S, current))
  IN  [csvRowCount   |-> agents[n].csv,
       validRowCount |-> agents[n].valid,
       invalid       |-> Rows({"invalid"}),
       included      |-> Rows({"new", "changed", "unchanged"}),
       toImport      |-> Rows({"new", "changed"})]

\* importStatusForAgent
ImportStatus(n, current) ==
  IF MappingStatus(n) # "mapped" THEN "Blocked: mapping"
  ELSE IF agents[n].invalid > 0 THEN "Blocked: invalid rows"
  ELSE IF AgentSummary(n, current).toImport > 0 THEN "Ready"
  ELSE "No changes"

\* buildFileSummary
FileSummary(current) ==
  LET rows == [s \in {"new", "changed", "unchanged"} |-> Cardinality(WithStatus({s}, current))]
      Agents(s) == Cardinality({n \in InFile : MappingStatus(n) = s})
  IN  [totalCsvRows         |-> Len(csv),
       uniqueAgents         |-> Cardinality(InFile),
       mappedAgents         |-> Agents("mapped"),
       unmappedAgents       |-> Agents("unmapped"),
       outOfScopeAgents     |-> Agents("out_of_scope"),
       mappedRowsToImport   |-> rows["new"] + rows["changed"],
       mappedValidRows      |-> rows["new"] + rows["changed"] + rows["unchanged"],
       unchangedRowsToSkip  |-> rows["unchanged"],
       unresolvedRowsToSkip |-> classes["unknown"] + classes["out_of_scope"],
       invalidRows          |-> classes["invalid"]]

-----------------------------------------------------------------------------
(* compareMetrics, and the warnings of validateImport *)

Before(u, current) == CallsIn({m \in current : m.user = u})
After(u) == CallsOf({i \in Importable : Owner(i) = u})

AgentsBefore(current) == {m.user : m \in current}
MatchedAgents == {Owner(i) : i \in Importable}

Comparison(current) ==
  [currentAgentCount |-> Cardinality(AgentsBefore(current)),
   matchedAgentCount |-> Cardinality(MatchedAgents),
   newAgents         |-> MatchedAgents \ AgentsBefore(current),
   missingAgents     |-> AgentsBefore(current) \ MatchedAgents,
   before            |-> CallsIn(current),
   after             |-> CallsOf(Importable),
   agents            |-> [u \in AgentsBefore(current) \cup MatchedAgents |->
                            [before |-> Before(u, current), after |-> After(u)]]]

\* percentDecreaseWarning, percentIncreaseWarning
FellBy(percent, before, after) ==
  before > 0 /\ after < before /\ (before - after) * 100 >= percent * before
RoseBy(percent, before, after) ==
  before > 0 /\ after > before /\ (after - before) * 100 >= percent * before

Warnings(current) ==
  LET c == Comparison(current)
      file == FileSummary(current)
      others == file.uniqueAgents - file.mappedAgents
      When(warning, test) == IF test THEN {warning} ELSE {}
  IN  When("unmatched", file.unmappedAgents > 0)
        \cup When("unauthorized", file.outOfScopeAgents > 0)
        \cup When("threshold", others > 0 /\ others * 100 >= 10 * file.uniqueAgents)
        \cup When("agents", FellBy(20, c.currentAgentCount, c.matchedAgentCount))
        \cup When("calls", FellBy(30, c.before, c.after))
        \cup When("increase", RoseBy(200, c.before, c.after))
        \cup When("missing", c.missingAgents # {})

-----------------------------------------------------------------------------
(* The page *)

\* The figures above the table and what they point out.
Figures(current) ==
  LET file == FileSummary(current)
  IN  {<<file.mappedRowsToImport, "mapped">>,
       <<file.mappedAgents, "mapped">>,
       <<classes["unknown"], "unmapped">>,
       <<classes["out_of_scope"], "out_of_scope">>,
       <<file.invalidRows, "invalid_rows">>}

\* rowMatchesHighlight
PointedOut(highlight, current) ==
  {n \in InFile :
     \/ highlight = "invalid_rows" /\ agents[n].invalid > 0
     \/ highlight = "excluded" /\ ImportStatus(n, current) # "Ready"
     \/ MappingStatus(n) = highlight}

\* filterPreviewAgents
Filtered(status, include, current) ==
  {n \in InFile :
     /\ \/ include = "all"
        \/ include = "included" /\ ImportStatus(n, current) = "Ready"
        \/ include = "excluded" /\ ImportStatus(n, current) # "Ready"
     /\ \/ status = "all"
        \/ status = "invalid_rows" /\ agents[n].invalid > 0
        \/ MappingStatus(n) = status}

TablePages(count) == IF count = 0 THEN 1 ELSE (count + TablePageSize - 1) \div TablePageSize

\* paginatePreviewAgents: positions on the page that is shown.
TablePage(count, requested) ==
  LET page == IF requested < 1 THEN 1
              ELSE IF requested > TablePages(count) THEN TablePages(count) ELSE requested
  IN  {i \in 1..count : (page - 1) * TablePageSize < i /\ i <= page * TablePageSize}

\* PreviewDataPanel: the choices of the toolbar, and a page.
Table(status, include, requested, current) ==
  TablePage(Cardinality(Filtered(status, include, current)), requested)

\* The badge of an agent says that it is included, and the table of mappings does.
SaidIncluded(n) == MappingStatus(n) = "mapped"
ListedIncluded(n, current) == ImportStatus(n, current) = "Ready"

SkippedRows(current) ==
  LET file == FileSummary(current)
  IN  file.unresolvedRowsToSkip + file.unchangedRowsToSkip + file.invalidRows

\* Rows that the publisher has to agree to lose, if there are any to publish.
ExcludedRows(current) ==
  LET file == FileSummary(current)
  IN  file.unresolvedRowsToSkip + file.invalidRows

\* The page is an administrator's, whom warnings do not stop.
PublishBlocked(current) == ~Publishable \/ FileSummary(current).mappedRowsToImport = 0

\* persistProcessedBatch: validationStatus of a staged row.
StagedStatus(i) ==
  LET status == MappingStatus(csv[i].name)
  IN  IF Classified(csv[i]) = "importable" THEN "valid"
      ELSE IF Classified(csv[i]) = "invalid" /\ status \in {"mapped", "invalid_mapping"} THEN "error"
      ELSE "warning"

-----------------------------------------------------------------------------
(* Properties *)

\* Rows, agents, totals and figures of one preview tell the same of the file,
\* and a figure that is not zero points at somebody.
PreviewAddsUp(current) ==
  LET file == FileSummary(current)
      c == Comparison(current)
      everyone == DOMAIN c.agents
  IN  /\ file.totalCsvRows = file.mappedRowsToImport + SkippedRows(current)
      /\ file.mappedValidRows = Cardinality(Importable)
      /\ \A n \in InFile : LET row == AgentSummary(n, current) IN
           /\ row.csvRowCount = row.validRowCount + row.invalid
           /\ row.included = (IF MappingStatus(n) = "mapped" THEN row.validRowCount ELSE 0)
      /\ \A f \in Figures(current) : f[1] > 0 => PointedOut(f[2], current) # {}
      /\ file.mappedAgents = Cardinality(PointedOut("mapped", current))
      /\ PointedOut("excluded", current) = Filtered("all", "excluded", current)
      /\ PointedOut("invalid_rows", current) = Filtered("invalid_rows", "all", current)
      /\ Filtered("mapped", "included", current) = {n \in InFile : ListedIncluded(n, current)}
      /\ c.currentAgentCount + Cardinality(c.newAgents)
           = c.matchedAgentCount + Cardinality(c.missingAgents)
      /\ Total([u \in everyone |-> c.agents[u].after], everyone) = c.after
      /\ Total([u \in everyone |-> c.agents[u].before], everyone) = c.before
      /\ c.after = stagedCalls

\* Whoever publishes knows what is lost.  Without a warning every row of the
\* file is in the version, every agent of the active version is in the file and
\* the calls did not fall by three tenths; rows that are left out are counted for
\* the publisher to agree; whoever is said to be included has rows in the version.
\* The page refuses what the server would publish only if nothing would change.
NothingLostUnseen(current) ==
  /\ Warnings(current) = {} /\ Publishable =>
       /\ Importable = DOMAIN csv
       /\ AgentsBefore(current) \subseteq MatchedAgents
       /\ 100 * CallsOf(Importable) > 70 * CallsIn(current) \/ CallsIn(current) = 0
  /\ Publishable =>
       /\ ExcludedRows(current) = Cardinality(DOMAIN csv \ Importable)
       /\ ExcludedRows(current) > 0 => Warnings(current) # {}
       /\ \A n \in InFile : SaidIncluded(n) <=> RowsNamed(n) \cap Importable # {}
       /\ \A n \in InFile : ListedIncluded(n, current) => SaidIncluded(n)
       /\ PublishBlocked(current) <=> Importable = WithStatus({"unchanged"}, current)

\* The rows said to be new and unchanged are those whose metrics the publication
\* adds and keeps.
StatusesHold(current) ==
  NoAliases /\ Publishable =>
    /\ Cardinality(WithStatus({"unchanged"}, current)) = Cardinality(metrics \cap current)
    /\ Cardinality(WithStatus({"new"}, current)) =
         Cardinality({m \in metrics : ~\E x \in current : x.user = m.user /\ x.hour = m.hour})

\* Staged rows are errors if and only if the validation blocks them.
ErrorsBlock ==
  (\E i \in DOMAIN csv : StagedStatus(i) = "error") <=>
    \/ InvalidMappedRows # {}
    \/ \E n \in InFile : MappingStatus(n) = "invalid_mapping"

\* No page of the table is empty that could show somebody, and all of them show
\* every agent that was asked for once.
TableIsWhole ==
  \A include \in {"all", "included", "excluded"} :
    LET found == Cardinality(Filtered("all", include, {}))
        Shown(requested) == Table("all", include, requested, {})
    IN  /\ \A requested \in 0..(found + 1) : found > 0 => Shown(requested) # {}
        /\ UNION {Shown(p) : p \in 1..TablePages(found)} = 1..found

\* A file that has just been published is known again when it is uploaded once
\* more: no row is new, nobody is missing, and there is nothing to publish.
KnownAgain ==
  NoAliases /\ Publishable =>
    /\ WithStatus({"unchanged"}, metrics) = Importable
    /\ PublishBlocked(metrics)
    /\ Warnings(metrics) \cap {"agents", "calls", "increase", "missing"} = {}

\* The page of a processed upload tells the truth about what its publication
\* does, whatever version is active (previewDialerCsv, compareMetrics,
\* validateImport, persistProcessedBatch and the page count the same rows along
\* five paths).  Versions are those of the scopes of the file: a file without
\* importable rows has none.
PreviewTellsTruth ==
  Processed =>
    /\ RowsAccounted
    /\ NoAliases => StoredAsReviewed
    /\ \A current \in IF Importable = {} THEN {{}} ELSE ActiveVersions :
         PreviewAddsUp(current) /\ NothingLostUnseen(current) /\ StatusesHold(current)
    /\ ErrorsBlock
    /\ TableIsWhole
    /\ KnownAgain

=============================================================================
