------------------------------ MODULE Dashboards ------------------------------
(***************************************************************************)
(* The pages on which outcomes and the figures of dialer files meet: the   *)
(* dashboards of the three roles, the directory of agents, the page about  *)
(* teams and the page about performance.  Each reads its own agents and    *)
(* sums by itself.                                                         *)
(*                                                                         *)
(* The worksheets can be read, or Xfers only ("partial"), or neither.      *)
(* Targets, tenure and coaching are left out; what is flagged is one case  *)
(* against everybody, raised on the first date.                            *)
(***************************************************************************)
EXTENDS DialerReports

Statuses == {"ready", "partial", "unavailable"}
OutcomeKinds == {"transfers", "deals"}

Known(status, f) == IF f = "deals" THEN status = "ready" ELSE status # "unavailable"

\* sourceValue
Shown(status, outcomes) ==
  [f \in OutcomeKinds |-> IF Known(status, f) THEN outcomes[f] ELSE Unavailable]

SumOutcomes(of, agents) == [f \in OutcomeKinds |-> Total([u \in agents |-> of[u][f]], agents)]

NoneCounted == [f \in OutcomeKinds |-> 0]

Matches(rows, agents) == {m \in rows \X agents : MatchedTo(m[1], agents, m[2])}

\* loadRoleDashboardOutcomeSource: the rows, matched with agents the viewer may see.
OutcomeSource(viewer, status) ==
  [status |-> status,
   deals |-> Matches(ValidDeals, MatchableUsers(viewer)),
   transfers |-> Matches(DatedTransfers, MatchableUsers(viewer))]

\* outcomeSnapshot, of some agents: what cannot be read counts as nothing.
Snapshot(source, allowed, dates) ==
  LET RowsFor(f, u) == {r \in {m[1] : m \in source[f]} : r.date \in dates /\ <<r, u>> \in source[f]}
      Counted(f, u) == IF f = "deals" THEN CopiesOf(RowsFor(f, u)) ELSE Cardinality(RowsFor(f, u))
  IN  [u \in allowed |-> [f \in OutcomeKinds |-> IF Known(source.status, f) THEN Counted(f, u) ELSE 0]]

\* The outcomes of some agents by day, on the days on which there are any.
ByDay(source, agents, dates) ==
  LET of == [d \in dates |-> Snapshot(source, agents, {d})]
  IN  [d \in {d \in dates : \E u \in agents, f \in OutcomeKinds : of[d][u][f] > 0} |->
         SumOutcomes(of[d], agents)]

MembersOf(t, agents) == {u \in agents : openers[u].team = t}

-----------------------------------------------------------------------------
(* What the dashboards of all roles share: outcomes are of the company *)

CompanyAgents == ScopedActiveAgents(Admin)

\* rankedRows: equal numbers of deals are in the order of the names, which is
\* left out; these are the ranks the agent may have.
Ranks(status, of) ==
  LET Before(Test(_)) == Cardinality({u \in CompanyAgents \cap Named : Test(of[u].deals)})
  IN  IF status # "ready" THEN <<>>
      ELSE [u \in CompanyAgents \cap Named |->
              1 + Before(LAMBDA n : n > of[u].deals) .. Before(LAMBDA n : n >= of[u].deals)]

\* teamCompetition: the teams somebody is in.
Competition(status, of) ==
  [t \in {openers[u].team : u \in CompanyAgents} \cap openTeams |->
     [agents |-> Cardinality(MembersOf(t, CompanyAgents)),
      outcomes |-> Shown(status, SumOutcomes(of, MembersOf(t, CompanyAgents)))]]

\* sharedInputs
SharedInputs(source, dates) ==
  LET of == Snapshot(source, Users, dates)
  IN  [source |-> source, status |-> source.status, dates |-> dates, of |-> of,
       total |-> Shown(source.status, SumOutcomes(of, Users)),
       ranks |-> Ranks(source.status, of), competition |-> Competition(source.status, of)]

\* shiftDialerRows, of a shift on the date: whatever team the rows carry.
ShiftRows(agents, d) == {row \in ActiveRows : row.agent \in agents /\ row.date = d /\ row.hourly}

ShiftCalls(agents, d) == Cardinality(ShiftRows(agents, d))

\* getCommissionReport, of this month, of the agents in some teams
Commission(viewer, status, teams) ==
  IF status # "ready" THEN Unavailable
  ELSE CommissionOf(viewer, {u \in CommissionEmployees(viewer, LastDate) :
                               CommissionTeam(viewer, u, LastDate) \in teams}, LastDate)

\* The cases carry the team of that time.
Cases == {[agent |-> u, team |-> openers[u].last[1]] : u \in Users}

\* listManualFlagCasesForCurrentActor
CasesSeen(viewer) ==
  CASE viewer.role = "admin"   -> Cases
    [] viewer.role = "agent"   -> {c \in Cases : c.agent = viewer.user}
    [] viewer.role = "manager" -> {c \in Cases : /\ c.team \in viewer.teams
                                                 /\ c.agent \in ScopedActiveAgents(viewer)}

-----------------------------------------------------------------------------
(* The dashboard of each role *)

\* buildAgentOverviewMetrics
AgentOverview(u, source, dates) ==
  [outcomes |-> Shown(source.status, Snapshot(source, {u}, dates)[u]),
   calls |-> DashboardTotals(Agent(u), dates).calls]

\* agentDashboardData
AgentDashboard(u, shared) ==
  [overview |-> AgentOverview(u, shared.source, shared.dates),
   standing |-> Shown(shared.status, shared.of[u]),
   rank |-> IF u \in DOMAIN shared.ranks THEN shared.ranks[u] ELSE {},
   cases |-> CasesSeen(Agent(u)),
   teams |-> shared.competition]

\* scopeManagerTeamCompetition
ScopedCompetition(rows, teams) == [t \in DOMAIN rows \cap teams |-> rows[t]]

\* managerDashboardData: the rows are of the manager's agents, the totals are not.
ManagerDashboard(t, shared) ==
  LET agents == ScopedActiveAgents(Manager(t))
  IN  [rows |-> [u \in agents |-> Shown(shared.status, shared.of[u])],
       totals |-> shared.total,
       cases |-> CasesSeen(Manager(t)),
       commission |-> Commission(Manager(t), shared.status, Teams \cup {Teamless}),
       teams |-> ScopedCompetition(shared.competition, {t})]

\* adminDashboardData (company)
CompanyRow(shared) ==
  [outcomes |-> shared.total,
   commission |-> Commission(Admin, shared.status, Teams \cup {Teamless}),
   cases |-> CasesSeen(Admin)]

\* adminDashboardData (teamComparison): cases by the team they carry.
ComparedTeam(t, shared) ==
  [outcomes |-> shared.competition[t].outcomes,
   commission |-> Commission(Admin, shared.status, {t}),
   cases |-> {c \in CasesSeen(Admin) : c.team = t}]

\* adminDashboardData (leaderPerformance): cases by the team of the agent; whoever
\* leads nobody has zero outcomes, known or not.
LeaderRow(led, shared) ==
  LET rows == ScopedCompetition(shared.competition, led)
      Sum(f) == IF \A t \in DOMAIN rows : rows[t].outcomes[f] # Unavailable
                  THEN Total([t \in DOMAIN rows |-> rows[t].outcomes[f]], DOMAIN rows) ELSE Unavailable
  IN  [agents |-> Total([t \in DOMAIN rows |-> rows[t].agents], DOMAIN rows),
       outcomes |-> [f \in OutcomeKinds |-> Sum(f)],
       commission |-> Commission(Admin, shared.status, led),
       cases |-> {c \in CasesSeen(Admin) :
                    c.agent \in CompanyAgents /\ openers[c.agent].team \in led \cap openTeams}]

\* getRoleDashboardData: the outcomes of an agent as the viewer is told.
ToldOutcomes(viewer, u, shared) ==
  CASE viewer.role = "admin"   -> Shown(shared.status, shared.of[u])
    [] viewer.role = "manager" ->
         ManagerDashboard(CHOOSE t \in viewer.teams : TRUE, shared).rows[u]
    [] viewer.role = "agent"   -> AgentDashboard(u, shared).overview.outcomes

-----------------------------------------------------------------------------
(* The directory of agents *)

\* dialerTrends: points of the days on which the viewer sees rows of the agent.
DialerTrend(viewer, u, dates) ==
  LET rows == {row \in RowsOf(viewer, dates) : row.agent = u}
  IN  [d \in {row.date : row \in rows} |-> Cardinality({row \in rows : row.date = d})]

\* hasActiveMetrics, on whatever date
HasImport(viewer) == RowsOf(viewer, Dates) # {}

\* What the queries about dialer files say to a page: getDashboardAgentRowsData,
\* dialerTrends, getDialerDailyAggregates and getDashboardSummaryData.
DialerInputs(viewer, dates) ==
  [figures |-> AgentFigures(viewer, dates),
   trends |-> [u \in ScopedActiveAgents(viewer) |-> DialerTrend(viewer, u, dates)],
   daily |-> DailyFigures(viewer, dates),
   totals |-> DashboardTotals(viewer, dates),
   import |-> HasImport(viewer)]

\* loadBaseRows
Directory(viewer, source, dialer, dates) ==
  LET of == Snapshot(source, ScopedActiveAgents(viewer), dates)
      calls == [u \in DOMAIN of |-> dialer.figures[u].calls]
  IN  [u \in DOMAIN of |->
         [outcomes |-> Shown(source.status, of[u]), calls |-> IF calls[u] > 0 THEN calls[u] ELSE Unavailable]]

\* outcomeTrends and mergeTrends, of the last 30 days at most: what nobody counted
\* on a day with calls is unknown.
Trend(source, calls, u, dates) ==
  LET outcomes == ByDay(source, {u}, dates)
  IN  [d \in DOMAIN outcomes \cup DOMAIN calls |->
         [outcomes |-> Shown(IF d \in DOMAIN outcomes THEN source.status ELSE "unavailable",
                              IF d \in DOMAIN outcomes THEN outcomes[d] ELSE NoneCounted),
          calls |-> IF d \in DOMAIN calls THEN calls[d] ELSE Unavailable]]

-----------------------------------------------------------------------------
(* The page about teams, which agents do not have *)

\* listVisibleTeams
VisibleTeams(viewer) == IF viewer.role = "manager" THEN viewer.teams \cap openTeams ELSE openTeams

\* outcomeTrendByAgent, teamTrends: of the last 60 days at most; here what nobody
\* counted on a day with calls is nothing.
TeamTrend(source, dialer, members, dates) ==
  LET outcomes == ByDay(source, members, dates)
  IN  [d \in DOMAIN outcomes \cup UNION {DOMAIN dialer.trends[u] : u \in members} |->
         Shown(source.status, IF d \in DOMAIN outcomes THEN outcomes[d] ELSE NoneCounted)]

\* loadBaseRows, with the trend of each team
TeamPage(viewer, source, dialer, dates) ==
  LET agents == ScopedActiveAgents(viewer)
      of == Snapshot(source, agents, dates)
  IN  [t \in VisibleTeams(viewer) |->
         LET members == MembersOf(t, agents)
         IN  [agents |-> Cardinality(members),
              withCalls |-> Cardinality({u \in members : dialer.figures[u].calls > 0}),
              outcomes |-> Shown(source.status, SumOutcomes(of, members)),
              trend |-> TeamTrend(source, dialer, members, dates)]]

-----------------------------------------------------------------------------
(* The page about performance *)

\* Deliberately wrong: rows are matched with the agents of the whole company.
EventsOfCompany(viewer, status) == OutcomeSource(Admin, status)

\* loadOutcomeData, which reads and matches the rows by itself, in the same way
Events(viewer, status) == OutcomeSource(viewer, status)

\* scopeOutcomeEvents, actorCanViewOutcome
EventAgents(viewer) == {u \in Users : InScope(viewer, u)}

\* aggregatePerformanceSeries, by day
Series(viewer, events, dialer, dates) ==
  LET outcomes == ByDay(events, EventAgents(viewer), dates)
      On(d) == IF d \in DOMAIN outcomes THEN outcomes[d] ELSE NoneCounted
      calls(d) == IF d \in DOMAIN dialer.daily THEN dialer.daily[d].calls ELSE 0
  IN  [d \in DOMAIN outcomes \cup DOMAIN dialer.daily |->
         [outcomes |-> Shown(events.status, On(d)), rows |-> On(d).transfers + On(d).deals + calls(d)]]

\* getPerformancePageData and createTotals
PerformancePage(viewer, events, dialer, dates) ==
  LET series == Series(viewer, events, dialer, dates)
  IN  [outcomes |-> Shown(events.status, SumOutcomes(Snapshot(events, EventAgents(viewer), dates), EventAgents(viewer))),
       calls |-> IF dialer.import THEN dialer.totals.calls ELSE Unavailable,
       series |-> series,
       rows |-> Total([d \in DOMAIN series |-> series[d].rows], DOMAIN series)]

-----------------------------------------------------------------------------
(* Rows are typed, files come and go, and agents move *)

DashboardNext ==
  \/ OutcomeNext /\ UNCHANGED metricVars
  \/ MetricNext

DashboardSpec == OutcomeInit /\ MetricInit /\ [][DashboardNext]_<<outcomeVars, metricVars>>

-----------------------------------------------------------------------------
(* Properties *)

\* Parts of what is known sum up to the total; of what is not, each part says so.
AddsUp(parts, total, status) ==
  \A f \in OutcomeKinds :
    IF Known(status, f) THEN total[f] = Total([p \in DOMAIN parts |-> parts[p][f]], DOMAIN parts)
    ELSE \A p \in DOMAIN parts : parts[p][f] = Unavailable /\ total[f] = Unavailable

OutcomeColumns(rows) == [p \in DOMAIN rows |-> rows[p].outcomes]

\* Of the dashboards: teams make up the company, a manager's agents the team, and
\* an agent is told the same as her managers; whoever has deals has the rank of
\* the leaderboard; commissions are someone's; and of the cases by team and by
\* agent, a manager sees what is in both.
RolesAgree(shared) ==
  LET company == CompanyRow(shared)
      teams == shared.competition
      board == [u \in LeaderboardUsers(Admin) |-> LeaderboardRow(Admin, u, shared.dates).deals]
  IN  /\ AddsUp(OutcomeColumns(teams), company.outcomes, shared.status)
      /\ \A u \in CompanyAgents : \A viewer \in ViewersOf(u) :
           ToldOutcomes(viewer, u, shared) = AgentDashboard(u, shared).standing
      /\ \A u \in DOMAIN shared.ranks \cap DOMAIN board : board[u] > 0 =>
           AgentDashboard(u, shared).rank
             = 1 + Cardinality({v \in DOMAIN board : board[v] > board[u]})
                 .. Cardinality({v \in DOMAIN board : board[v] >= board[u]})
      /\ \A t \in openTeams :
           LET manager == ManagerDashboard(t, shared)
               leader == LeaderRow({t}, shared)
           IN  /\ DOMAIN manager.teams = IF leader.agents > 0 THEN {t} ELSE {}
               /\ IF leader.agents > 0
                  THEN /\ AddsUp(manager.rows, manager.teams[t].outcomes, shared.status)
                       /\ leader.outcomes = ComparedTeam(t, shared).outcomes
                       /\ leader.commission = ComparedTeam(t, shared).commission
                       /\ manager.cases = ComparedTeam(t, shared).cases \cap leader.cases
                  ELSE manager.rows = <<>> /\ manager.cases = {}
      /\ shared.status = "ready" =>
           company.commission
             = Total([t \in openTeams |-> LeaderRow({t}, shared).commission], openTeams)
               + Commission(Admin, shared.status, (Teams \ openTeams) \cup {Teamless})

\* Of the other pages: for every viewer the directory, the teams and the series
\* make up the totals of the page about performance, and the points of a trend
\* what its row says.
PagesAgree(viewer, directory, page, trends, teams, status) ==
  LET known(n) == IF n = Unavailable THEN 0 ELSE n
      Points(trend, row) ==
        \A f \in OutcomeKinds : Known(status, f) =>
          row[f] = Total([d \in DOMAIN trend |-> known(trend[d][f])], DOMAIN trend)
  IN  /\ AddsUp(OutcomeColumns(directory), page.outcomes, status)
      /\ AddsUp(OutcomeColumns(page.series), page.outcomes, status)
      /\ page.rows = known(page.outcomes.transfers) + known(page.outcomes.deals) + known(page.calls)
      /\ \A u \in DOMAIN directory :
           /\ Points(OutcomeColumns(trends[u]), directory[u].outcomes)
           /\ known(directory[u].calls) = Total([d \in DOMAIN trends[u] |-> known(trends[u][d].calls)], DOMAIN trends[u])
      /\ \/ viewer.role = "agent"
         \/ /\ AddsUp(OutcomeColumns(teams), page.outcomes, status)
            /\ \A t \in DOMAIN teams :
                 /\ Points(teams[t].trend, teams[t].outcomes)
                 /\ teams[t].withCalls =
                      Cardinality({u \in MembersOf(t, DOMAIN directory) : directory[u].calls # Unavailable})

\* The last shift, although its query asks for the agents and not for the team of
\* the rows: the company's calls are those of the hours, and so are an agent's, of
\* which her manager's page lacks the rows of another team only.
ShiftsAgree(d) ==
  /\ ShiftCalls(CompanyAgents, d) = HourlyCalls(Admin, {d})
  /\ \A u \in CompanyAgents : ShiftCalls({u}, d) = HourlyCalls(Agent(u), {d})
  /\ \A t \in openTeams : \A u \in ScopedActiveAgents(Manager(t)) :
       ShiftCalls({u}, d)
         = Cardinality({row \in RowsOf(Manager(t), {d}) : row.agent = u /\ row.hourly})
             + Cardinality({row \in ShiftRows({u}, d) : row.team \notin {t, Company}})

\* The agents of the company, the managers of open teams, and the administrators.
Viewers == {Admin} \cup {Manager(t) : t \in openTeams} \cup {Agent(u) : u \in CompanyAgents}

\* Every page tells the same as the others, whoever looks and whether the worksheets
\* can be read or not; what the page about performance says to an admin is the
\* dashboard's company.
EveryPageAgrees ==
  /\ \A status \in Statuses :
       LET shared == SharedInputs(OutcomeSource(Admin, status), Dates)
       IN  /\ RolesAgree(shared)
           /\ PerformancePage(Admin, Events(Admin, status), DialerInputs(Admin, Dates), Dates).outcomes = shared.total
  /\ \A d \in Dates : ShiftsAgree(d)
  /\ \A viewer \in Viewers :
       LET dialer == DialerInputs(viewer, Dates)
           Agree(source, events) ==
             PagesAgree(viewer, Directory(viewer, source, dialer, Dates),
                        PerformancePage(viewer, events, dialer, Dates),
                        [u \in ScopedActiveAgents(viewer) |-> Trend(source, dialer.trends[u], u, Dates)],
                        TeamPage(viewer, source, dialer, Dates), source.status)
       IN  \A status \in Statuses : Agree(OutcomeSource(viewer, status), Events(viewer, status))

\* All pages tell the same of the same rows, as soon as there are any
\* (getRoleDashboardData, getAgentDirectoryData, getTeamPerformanceData,
\* getPerformancePageData).
DashboardsAgree == files > 0 \/ closed # EmptyBag \/ xfers # EmptyBag => EveryPageAgrees

=============================================================================
