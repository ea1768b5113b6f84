---------------------------- MODULE DialerReports ----------------------------
(***************************************************************************)
(* The figures of dialer files on the dashboards: sums over the rows of    *)
(* the active versions, of which everybody sees those of a scope.          *)
(*                                                                         *)
(* A version belongs to a date and to the team in which its agents were    *)
(* when the file was processed.  A row stands for the hour of an agent on  *)
(* that date, or for the whole date, so a figure is the number of rows it  *)
(* is the sum of.  Versions come and go as in DatasetVersions; here one    *)
(* file has one date, and it is published or deactivated as a whole.       *)
(***************************************************************************)
EXTENDS OutcomeReports

CONSTANTS
  MaxFiles  \* bound on the files

VARIABLES
  shown,  \* the active version of each team and date
  files   \* files so far

metricVars == <<shown, files>>

Company == "company"   \* the scope of rows from before teams were recorded
ASSUME CompanyIsNoTeam == Company \notin Teams

NoVersion == [file |-> 0, agents |-> {}, hourly |-> FALSE, net |-> FALSE]

\* Formats of a file: by the hour or by the day; older ones lack the net time.
Formats == {[hourly |-> TRUE, net |-> TRUE], [hourly |-> TRUE, net |-> FALSE], [hourly |-> FALSE, net |-> TRUE]}

Version(file, agents, format) ==
  [file |-> file, agents |-> agents, hourly |-> format.hourly, net |-> format.net]

NoVersions == [scope \in (Teams \cup {Company}) \X Dates |-> NoVersion]

\* Rows that were imported before teams were recorded may be there.
MetricInit ==
  /\ files \in 0..1
  /\ shown = [NoVersions EXCEPT ![<<Company, 1>>] =
                IF files = 0 THEN NoVersion ELSE Version(1, Users, [hourly |-> TRUE, net |-> FALSE])]

\* getMappings: agents without an active team have no mapping.
Mapped == {u \in Users : openers[u].active /\ openers[u].team \in openTeams}

\* A file is processed and published: a version for the team of each agent.
PublishFile(d, agents, format) ==
  /\ files < MaxFiles
  /\ files' = files + 1
  /\ shown' = [scope \in DOMAIN shown |->
       LET members == {u \in agents : <<openers[u].team, d>> = scope}
       IN  IF members = {} THEN shown[scope] ELSE Version(files', members, format)]

\* The versions that a file still shows are deactivated.
DeactivateFile(f) ==
  /\ \E scope \in DOMAIN shown : shown[scope].file = f
  /\ shown' = [scope \in DOMAIN shown |-> IF shown[scope].file = f THEN NoVersion ELSE shown[scope]]
  /\ UNCHANGED files

MetricNext ==
  \/ /\ \/ \E d \in Dates, agents \in SUBSET Mapped \ {{}}, format \in Formats :
             PublishFile(d, agents, format)
        \/ \E f \in 1..files : DeactivateFile(f)
     /\ UNCHANGED outcomeVars
  \/ ReassignAgents /\ UNCHANGED metricVars

-----------------------------------------------------------------------------
(* Who sees which rows *)

MetricRow(u, scope) ==
  [agent |-> u, team |-> scope[1], date |-> scope[2],
   hourly |-> shown[scope].hourly, net |-> shown[scope].net]

\* Rows of active versions, of agents whose account is active.
ActiveRows ==
  UNION {{MetricRow(u, scope) : u \in {v \in shown[scope].agents : openers[v].active}} : scope \in DOMAIN shown}

\* currentManagerAgentProfileIds
CurrentAgents(viewer) ==
  {u \in Users : openers[u].active /\ openers[u].team \in viewer.teams \cap openTeams}

\* Deliberately wrong: the current agents' rows, whichever team they carry.
SeesCurrentToo(viewer, row) ==
  \/ viewer.role = "admin"
  \/ viewer.role = "agent" /\ row.agent = viewer.user
  \/ viewer.role = "manager" /\ (row.team \in viewer.teams \/ row.agent \in CurrentAgents(viewer))

\* buildDashboardScope: the team of the row, and the agent's for rows without one.
Sees(viewer, row) ==
  \/ viewer.role = "admin"
  \/ viewer.role = "agent" /\ row.agent = viewer.user
  \/ /\ viewer.role = "manager"
     /\ \/ row.team \in viewer.teams
        \/ row.team = Company /\ row.agent \in CurrentAgents(viewer)

\* scopeForDateWindow
RowsOf(viewer, dates) == {row \in ActiveRows : row.date \in dates /\ Sees(viewer, row)}

-----------------------------------------------------------------------------
(* The figures *)

Unavailable == -1

\* normalizeTotals: an optional figure is known if no row lacks it.
Totals(rows) ==
  [calls |-> Cardinality(rows),
   net |-> IF rows # {} /\ \A row \in rows : row.net THEN Cardinality(rows) ELSE Unavailable]

\* getDashboardTotals
DashboardTotals(viewer, dates) == Totals(RowsOf(viewer, dates))

\* getAgentPerformanceRows: whoever has rows, and the agents of today without any.
AgentFigures(viewer, dates) ==
  LET rows == RowsOf(viewer, dates)
      present == {u \in Users : /\ openers[u].active
                                /\ \/ viewer.role = "admin"
                                   \/ viewer.role = "manager" /\ u \in CurrentAgents(viewer)
                                   \/ viewer.role = "agent" /\ u = viewer.user}
  IN  [u \in present \cup {row.agent : row \in rows} |-> Totals({row \in rows : row.agent = u})]

\* getDialerDailyAggregates
DailyFigures(viewer, dates) ==
  [d \in {row.date : row \in RowsOf(viewer, dates)} |-> Totals(RowsOf(viewer, {d}))]

\* getHourlyBreakdown, and hourlyDetailUnavailable
HourlyCalls(viewer, dates) == Cardinality({row \in RowsOf(viewer, dates) : row.hourly})
HourlyDetailUnavailable(viewer, dates) == \E row \in RowsOf(viewer, dates) : ~row.hourly

\* queryPerformanceMetrics: all rows of the agents of the roster.
FlagFigures(viewer, u, dates) ==
  Totals({row \in ActiveRows : row.agent = u /\ u \in ScopedActiveAgents(viewer) /\ row.date \in dates})

-----------------------------------------------------------------------------
(* Properties *)

MetricSpec == OutcomeInit /\ MetricInit /\ [][MetricNext]_<<outcomeVars, metricVars>>

\* The figures by agent, or by date, sum up to the totals; an optional one that
\* the totals do not know is missing in some row, too.
SumsUp(figures, totals) ==
  LET parts == {p \in DOMAIN figures : figures[p].calls > 0}
  IN  /\ Total([p \in parts |-> figures[p].calls], parts) = totals.calls
      /\ (totals.net = Unavailable) <=> (parts = {} \/ \E p \in parts : figures[p].net = Unavailable)
      /\ totals.net # Unavailable => Total([p \in parts |-> figures[p].net], parts) = totals.net

\* Every screen is a sum of its own over rows that its viewer may see: figures
\* by agent and by date sum up to the totals, managers' totals to the admin's
\* but for rows of closed teams, every row in one manager's only, and an agent
\* whose rows are all of her present team has the same figures for everyone who
\* may see her
\* (buildDashboardScope, getDashboardTotals, getAgentPerformanceRows,
\* getDialerDailyAggregates, queryPerformanceMetrics).
MetricsAddUp ==
  files > 0 =>
    \A dates \in SUBSET Dates \ {{}} :
      /\ \A viewer \in {Admin} \cup {Manager(t) : t \in openTeams} \cup {Agent(u) : u \in Users} :
           LET totals == DashboardTotals(viewer, dates)
           IN  /\ SumsUp(AgentFigures(viewer, dates), totals)
               /\ SumsUp(DailyFigures(viewer, dates), totals)
               /\ HourlyCalls(viewer, dates) = totals.calls \/ HourlyDetailUnavailable(viewer, dates)
      /\ Total([t \in openTeams |-> DashboardTotals(Manager(t), dates).calls], openTeams)
           + Cardinality({row \in RowsOf(Admin, dates) :
                            IF row.team = Company THEN openers[row.agent].team \notin openTeams
                            ELSE row.team \notin openTeams})
         = DashboardTotals(Admin, dates).calls
      /\ \A u \in Mapped :
           LET rows == {row \in ActiveRows : row.agent = u /\ row.date \in dates}
           IN  (\A row \in rows : row.team \in {openers[u].team, Company}) =>
                 \A viewer \in ViewersOf(u) :
                   /\ AgentFigures(viewer, dates)[u] = Totals(rows)
                   /\ FlagFigures(viewer, u, dates) = Totals(rows)

\* "Dialer rows are absolute hourly snapshots, not additive deltas"
\* (docs/csv-import.md:44): once its team is recorded, an agent's hour of a date
\* counts once, however often that date is imported (scopeForMetric).
CountedOnce ==
  \A u \in Users, d \in Dates :
    Cardinality({row \in ActiveRows : row.agent = u /\ row.date = d /\ row.team \in Teams}) <= 1

=============================================================================
