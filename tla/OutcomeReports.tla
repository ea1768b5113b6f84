---------------------------- MODULE OutcomeReports ----------------------------
(***************************************************************************)
(* Transfers and closed deals: rows that people type into two worksheets,  *)
(* attributed to agents by the name in the row, and counted by the         *)
(* leaderboard, the agent directory, the teams, the performance page, the  *)
(* transfer flags and the commissions, each from candidates of its own.    *)
(*                                                                         *)
(* A date stands for the Monday of a week in a month of its own, so that   *)
(* days, weeks and months are told apart by the same number.  Rows are     *)
(* bags: their order only numbers the diagnostics.  Names are as the       *)
(* worksheets are normalized, which lets two agents share one although     *)
(* their names in dialer files differ.                                     *)
(***************************************************************************)
EXTENDS Directory, Sums, Bags

CONSTANTS
  AmericanNames,  \* normalized names of openers
  Customers,      \* in what else two transfers may differ
  LastDate,       \* dates are 1..LastDate, and the last one is today's
  MaxOutcomes,    \* bound on the rows of both worksheets
  MaxMoves        \* bound on the changes of the roster

VARIABLES
  openers,    \* of each agent: primary name, account, team, and last team by date
  openTeams,  \* teams that are active
  closed,     \* rows of the worksheet Closed
  xfers,      \* rows of the worksheet Xfers
  moves       \* changes of the roster so far

outcomeVars == <<openers, openTeams, closed, xfers, moves>>

Dates == 1..LastDate
Unnamed == "unnamed"      \* no primary dialer name
Teamless == "teamless"
Illegible == "illegible"  \* an opener that cannot be read
Undated == 0

ASSUME TeamlessIsNoTeam == Teamless \notin Teams
ASSUME TodayIsADate == LastDate \in Nat \ {0}

ClosedCells == [opener : AmericanNames \cup {Illegible}, date : Dates \cup {Undated}]
XferCells == [opener : AmericanNames \cup {Illegible}, date : Dates \cup {Undated}, customer : Customers]

OutcomeInit ==
  /\ \E name \in [Users -> AmericanNames], team \in [Users -> Teams] :
       openers = [u \in Users |-> [name |-> name[u], active |-> TRUE, team |-> team[u],
                                  last |-> [d \in Dates |-> team[u]]]]
  /\ openTeams = Teams
  /\ closed = EmptyBag
  /\ xfers = EmptyBag
  /\ moves = 0

-----------------------------------------------------------------------------
(* What people do *)

RoomForRow == BagCardinality(closed) + BagCardinality(xfers) < MaxOutcomes

TypeClosed(cells) ==
  /\ RoomForRow
  /\ closed' = closed (+) SetToBag({cells})
  /\ UNCHANGED <<openers, openTeams, xfers, moves>>

TypeXfer(cells) ==
  /\ RoomForRow
  /\ xfers' = xfers (+) SetToBag({cells})
  /\ UNCHANGED <<openers, openTeams, closed, moves>>

Change ==
  /\ moves < MaxMoves
  /\ moves' = moves + 1
  /\ UNCHANGED <<closed, xfers>>

\* updateUserPrimaryDialerName, or the primary name is deactivated.
RenameAgent(u, name) ==
  /\ Change
  /\ openers' = [openers EXCEPT ![u].name = name]
  /\ UNCHANGED openTeams

\* setUserAccountStatus leaves the membership as it is.
SetActive(u, active) ==
  /\ Change
  /\ openers' = [openers EXCEPT ![u].active = active]
  /\ UNCHANGED openTeams

\* moveUserToTeamAsAdmin ends one membership and begins another.
MoveAgent(u, t) ==
  /\ Change
  /\ t \in openTeams
  /\ openers' = [openers EXCEPT ![u].team = t, ![u].last[LastDate] = t]
  /\ UNCHANGED openTeams

\* removeTeamMembership: the membership has ended, within this month.
LeaveTeam(u) ==
  /\ Change
  /\ openers' = [openers EXCEPT ![u].team = Teamless]
  /\ UNCHANGED openTeams

\* setTeamStatus leaves the memberships as they are.
SetOpen(t, open) ==
  /\ Change
  /\ openTeams' = IF open THEN openTeams \cup {t} ELSE openTeams \ {t}
  /\ UNCHANGED openers

ReassignAgents ==
  \/ \E u \in Users :
       \/ SetActive(u, ~openers[u].active)
       \/ \E t \in Teams \ {openers[u].team} : MoveAgent(u, t)
       \/ openers[u].team # Teamless /\ LeaveTeam(u)
  \/ \E t \in Teams : SetOpen(t, t \notin openTeams)

OutcomeNext ==
  \/ \E cells \in ClosedCells : TypeClosed(cells)
  \/ \E cells \in XferCells : TypeXfer(cells)
  \/ \E u \in Users, name \in AmericanNames \cup {Unnamed} :
       openers[u].name # name /\ RenameAgent(u, name)
  \/ ReassignAgents

-----------------------------------------------------------------------------
(* Who looks, and the candidates a row is matched with *)

Admin == [role |-> "admin"]
Manager(t) == [role |-> "manager", teams |-> {t}]
Agent(u) == [role |-> "agent", user |-> u]

\* Viewers of agent u: a session lists no team that is not active.
ViewersOf(u) ==
  {Admin, Agent(u)} \cup {Manager(t) : t \in openTeams \cap {openers[u].team}}

InScope(viewer, u) ==
  \/ viewer.role = "admin"
  \/ viewer.role = "manager" /\ openers[u].team \in viewer.teams
  \/ viewer.role = "agent" /\ u = viewer.user

Named == {u \in Users : openers[u].name # Unnamed}

\* listMatchableUsersForScope: the team is joined on the left, but tested in
\* the WHERE, so an agent without an active team is no candidate.
MatchableUsers(viewer) ==
  {u \in Named : openers[u].active /\ openers[u].team \in openTeams /\ InScope(viewer, u)}

\* Agents see the whole leaderboard.
LeaderboardUsers(viewer) ==
  MatchableUsers(IF viewer.role = "agent" THEN Admin ELSE viewer)

\* listScopedActiveAgents: the same, but here an admin sees agents without a team.
ScopedActiveAgents(viewer) == {u \in Users : openers[u].active /\ InScope(viewer, u)}

\* Deliberately wrong: a manager also sees who was in the team in some month.
RosterOfAllMonths(viewer) ==
  {u \in Users : \/ InScope(viewer, u)
                 \/ viewer.role = "manager" /\ \E d \in Dates : openers[u].last[d] \in viewer.teams}

\* resolveCommissionRoster: inactive agents too.
CommissionRoster(viewer) == {u \in Users : InScope(viewer, u)}

-----------------------------------------------------------------------------
(* Rows of the worksheets, and matching *)

\* parseClosedRows: a row without an opener or a date is kept, as invalid.
ValidDeals == {r \in BagToSet(closed) : r.opener # Illegible /\ r.date # Undated}

\* parseTransferRows: repeated rows count once, one without a date does not count.
DatedTransfers == {r \in BagToSet(xfers) : r.opener # Illegible /\ r.date # Undated}

\* A row is matched if exactly one candidate has the name.
MatchedTo(r, candidates, u) == {v \in candidates : openers[v].name = r.opener} = {u}

CopiesOf(deals) == Total(closed, deals)

DealsOf(u, candidates, dates) ==
  CopiesOf({r \in ValidDeals : r.date \in dates /\ MatchedTo(r, candidates, u)})

OutcomesOf(u, candidates, dates) ==
  [deals |-> DealsOf(u, candidates, dates),
   transfers |-> Cardinality({r \in DatedTransfers : r.date \in dates /\ MatchedTo(r, candidates, u)})]

-----------------------------------------------------------------------------
(* The screens *)

LeaderboardRow(viewer, u, dates) == OutcomesOf(u, LeaderboardUsers(viewer), dates)

\* buildOverallLeaderboardTotals counts rows nobody could be matched with, too.
OverallDeals(dates) == CopiesOf({r \in ValidDeals : r.date \in dates})

\* outcomeSnapshot with the agents of the directory.
DirectoryRow(viewer, u, dates) == OutcomesOf(u, MatchableUsers(viewer), dates)

\* The same by team: only agents whose team is listed.
TeamDeals(viewer, t, dates) ==
  LET agents == {u \in ScopedActiveAgents(viewer) : openers[u].team = t}
  IN  Total([u \in agents |-> DirectoryRow(viewer, u, dates).deals], agents)

\* scopeOutcomeEvents
PerformanceDeals(viewer, dates) ==
  LET agents == MatchableUsers(viewer)
  IN  Total([u \in agents |-> DealsOf(u, agents, dates)], agents)

\* getTransferFlagsData, of the week that begins on date d.
FlagDeals(viewer, u, d) == DealsOf(u, ScopedActiveAgents(viewer) \cap Named, {d})

-----------------------------------------------------------------------------
(* Commissions *)

\* Deliberately wrong: those who left are no candidates.
ActiveCandidates(viewer) == {u \in CommissionRoster(viewer) \cap Named : openers[u].active}

CommissionCandidates(viewer) == CommissionRoster(viewer) \cap Named

\* Deliberately wrong: everything that has been closed until the end of the month.
PaidUpTo(viewer, u, d) == DealsOf(u, CommissionCandidates(viewer), 1..d)

PaidDeals(viewer, u, d) == DealsOf(u, CommissionCandidates(viewer), {d})

\* The last month in which the agent closed something.
IsFinalMonth(viewer, u, d) ==
  /\ PaidDeals(viewer, u, d) > 0
  /\ \A later \in d+1..LastDate : PaidDeals(viewer, u, later) = 0

\* Who left is listed for that month only.
CommissionEmployees(viewer, d) ==
  {u \in CommissionRoster(viewer) : openers[u].active \/ IsFinalMonth(viewer, u, d)}

\* The last team of the month, unless a manager looks whose team it was not.
CommissionTeam(viewer, u, d) ==
  LET historical == openers[u].last[d]
  IN  IF historical # Teamless /\ (viewer.role = "manager" => historical \in viewer.teams) THEN historical
      ELSE IF openers[u].team \in openTeams THEN openers[u].team
      ELSE Teamless

CommissionOf(viewer, employees, d) ==
  Total([u \in employees |-> PaidDeals(viewer, u, d)], employees)

\* buildCommissionAnalytics
TeamCommission(viewer, t, d) ==
  CommissionOf(viewer, {u \in CommissionEmployees(viewer, d) : CommissionTeam(viewer, u, d) = t}, d)

-----------------------------------------------------------------------------
(* Properties *)

OutcomeSpec == OutcomeInit /\ [][OutcomeNext]_outcomeVars

\* No other account goes by the agent's name.
OwnName(u) == \A v \in Users \ {u} : openers[v].name # openers[u].name

\* An agent with an active team and a name of her own has the same outcomes on
\* every screen and for everybody who may see her, although each screen matches
\* the rows with candidates of its own (leaderboard, directory, transfer flags,
\* commissions).
ScreensAgree ==
  \A u \in MatchableUsers(Admin), d \in Dates : OwnName(u) =>
    LET row == LeaderboardRow(Admin, u, {d})
    IN  \A viewer \in ViewersOf(u) :
          /\ LeaderboardRow(viewer, u, {d}) = row
          /\ DirectoryRow(viewer, u, {d}) = row
          /\ FlagDeals(viewer, u, d) = row.deals
          /\ PaidDeals(viewer, u, d) = row.deals

\* What managers see adds up to what the admin sees: in the totals of the
\* performance page and of the teams, and in the commissions, where only agents
\* without an active team have no manager who sees them.  A name that agents of
\* two teams share is matched by their managers, and by nobody for the admin.
ManagersAddUp ==
  \A d \in {r.date : r \in ValidDeals} :
    LET performance == [t \in openTeams |-> PerformanceDeals(Manager(t), {d})]
        teams == [t \in openTeams |-> TeamDeals(Admin, t, {d})]
        commission(viewer) == CommissionOf(viewer, CommissionEmployees(viewer, d), d)
        commissions == [t \in openTeams |-> commission(Manager(t))]
        unseen == {u \in CommissionEmployees(Admin, d) : openers[u].team \notin openTeams}
    IN  IF \A u \in Named : OwnName(u)
        THEN /\ Total(performance, openTeams) = PerformanceDeals(Admin, {d})
             /\ Total(performance, openTeams) = Total(teams, openTeams)
             /\ Total(commissions, openTeams) + CommissionOf(Admin, unseen, d) = commission(Admin)
        ELSE /\ Total(performance, openTeams) >= PerformanceDeals(Admin, {d})
             /\ PerformanceDeals(Admin, {d}) <= OverallDeals({d})

\* What the agent is paid for in the month.
Pay(u, d) == IF u \in CommissionEmployees(Admin, d) THEN PaidDeals(Admin, u, d) ELSE 0

\* Moves between teams, the closing of teams and the departure of others change
\* nobody's commission; who leaves is still paid for the last month with deals;
\* and in past months the commissions stay with the teams of that time
\* (resolveCommissionRoster, buildCommissionReport, buildCommissionAnalytics).
PayUnaffected ==
  [][moves' > moves /\ (\A v \in Users : openers'[v].name = openers[v].name) =>
       /\ \A u \in Users, d \in Dates :
            \/ Pay(u, d)' = Pay(u, d)
            \/ openers'[u].active # openers[u].active /\ ~IsFinalMonth(Admin, u, d)
       /\ (\A v \in Users : openers'[v].active = openers[v].active) =>
            \A t \in Teams, d \in 1..LastDate-1 :
              TeamCommission(Admin, t, d)' = TeamCommission(Admin, t, d)]_outcomeVars

=============================================================================
