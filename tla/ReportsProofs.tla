----------------------------- MODULE ReportsProofs -----------------------------
(***************************************************************************)
(* What screens show of outcomes, of dialer figures, of both and of an     *)
(* upload under review: theorems about OutcomeReports, DialerReports,      *)
(* Dashboards and PreviewScreens, for any agents, teams, dates, rows and   *)
(* files.                                                                  *)
(***************************************************************************)
EXTENDS Dashboards, PreviewScreens, SumsProofs, Integers

-----------------------------------------------------------------------------
(* OutcomeReports: who is credited with a row *)

\* Of any candidates, a row goes to the one who alone has the name.
LEMMA MatchedByName ==
  ASSUME NEW u \in Users, OwnName(u), NEW some \in SUBSET Users, u \in some, NEW r
  PROVE  MatchedTo(r, some, u) <=> r.opener = openers[u].name
BY DEF MatchedTo, OwnName

LEMMA CandidatesDoNotMatter ==
  ASSUME NEW u \in Users, OwnName(u), NEW dates,
         NEW some \in SUBSET Users, u \in some, NEW others \in SUBSET Users, u \in others
  PROVE  OutcomesOf(u, some, dates) = OutcomesOf(u, others, dates)
<1>1. {r \in ValidDeals : r.date \in dates /\ MatchedTo(r, some, u)}
        = {r \in ValidDeals : r.date \in dates /\ MatchedTo(r, others, u)}
  BY MatchedByName
<1>2. {r \in DatedTransfers : r.date \in dates /\ MatchedTo(r, some, u)}
        = {r \in DatedTransfers : r.date \in dates /\ MatchedTo(r, others, u)}
  BY MatchedByName
<1>. QED  BY <1>1, <1>2 DEF OutcomesOf, DealsOf

\* Every screen that shows an agent matches with candidates who include the agent.
LEMMA OfferedAsCandidate ==
  ASSUME NEW u \in MatchableUsers(Admin), NEW viewer \in ViewersOf(u)
  PROVE  /\ u \in Users
         /\ u \in LeaderboardUsers(viewer) /\ LeaderboardUsers(viewer) \subseteq Users
         /\ u \in MatchableUsers(viewer) /\ MatchableUsers(viewer) \subseteq Users
         /\ u \in ScopedActiveAgents(viewer) \cap Named /\ Named \subseteq Users
         /\ u \in CommissionCandidates(viewer) /\ CommissionCandidates(viewer) \subseteq Users
<1>1. u \in Named /\ openers[u].active /\ openers[u].team \in openTeams /\ Named \subseteq Users
  BY DEF MatchableUsers, Named
<1>2. InScope(viewer, u) /\ InScope(Admin, u)
  BY <1>1 DEF ViewersOf, InScope, Admin, Agent, Manager
<1>. QED
  BY <1>1, <1>2 DEF LeaderboardUsers, MatchableUsers, ScopedActiveAgents, CommissionCandidates, CommissionRoster

LEMMA SameOnAllScreens == ScreensAgree
<1>. SUFFICES ASSUME NEW u \in MatchableUsers(Admin), NEW d \in Dates, OwnName(u),
                     NEW viewer \in ViewersOf(u)
              PROVE  LET row == LeaderboardRow(Admin, u, {d})
                     IN  /\ LeaderboardRow(viewer, u, {d}) = row
                         /\ DirectoryRow(viewer, u, {d}) = row
                         /\ FlagDeals(viewer, u, d) = row.deals
                         /\ PaidDeals(viewer, u, d) = row.deals
  BY DEF ScreensAgree
<1>1. \A some, others \in SUBSET Users : u \in some /\ u \in others =>
        OutcomesOf(u, some, {d}) = OutcomesOf(u, others, {d})
  BY CandidatesDoNotMatter DEF MatchableUsers, Named
<1>2. \A some \in SUBSET Users : DealsOf(u, some, {d}) = OutcomesOf(u, some, {d}).deals
  BY DEF OutcomesOf
<1>3. LeaderboardUsers(Admin) \in SUBSET Users /\ u \in LeaderboardUsers(Admin)
  BY OfferedAsCandidate DEF ViewersOf
<1>4. LeaderboardRow(viewer, u, {d}) = LeaderboardRow(Admin, u, {d})
  BY <1>1, <1>3, OfferedAsCandidate DEF LeaderboardRow
<1>5. DirectoryRow(viewer, u, {d}) = LeaderboardRow(Admin, u, {d})
  BY <1>1, <1>3, OfferedAsCandidate DEF LeaderboardRow, DirectoryRow
<1>6. FlagDeals(viewer, u, d) = LeaderboardRow(Admin, u, {d}).deals
  <2>. DEFINE scoped == ScopedActiveAgents(viewer) \cap Named
  <2>1. scoped \in SUBSET Users /\ u \in scoped
    BY OfferedAsCandidate
  <2>2. FlagDeals(viewer, u, d) = DealsOf(u, scoped, {d})
    BY DEF FlagDeals
  <2>. HIDE DEF scoped
  <2>. QED  BY <1>1, <1>2, <1>3, <2>1, <2>2 DEF LeaderboardRow
<1>7. PaidDeals(viewer, u, d) = LeaderboardRow(Admin, u, {d}).deals
  <2>1. CommissionCandidates(viewer) \in SUBSET Users /\ u \in CommissionCandidates(viewer)
    BY OfferedAsCandidate
  <2>. QED  BY <1>1, <1>2, <1>3, <2>1 DEF LeaderboardRow, PaidDeals
<1>. QED  BY <1>4, <1>5, <1>6, <1>7

\* Whatever is typed into the sheets and however the roster changes, an agent with
\* a name of her own has one number of deals and transfers on all screens.
THEOREM OneNumberPerAgent == OutcomeSpec => []ScreensAgree
BY SameOnAllScreens, PTL

-----------------------------------------------------------------------------
(* OutcomeReports: who is paid for what *)

Openers ==
  [name : AmericanNames \cup {Unnamed}, active : BOOLEAN, team : Teams \cup {Teamless},
   last : [Dates -> Teams]]

\* Agents have a team in every month, and teams that are active are teams.
OpenersInv ==
  /\ openers \in [Users -> Openers]
  /\ openTeams \subseteq Teams
  /\ moves \in Nat

LEMMA OpenersInvInit == OutcomeInit => OpenersInv
BY DEF OutcomeInit, OpenersInv, Openers

LEMMA OpenersInvStep == OpenersInv /\ [OutcomeNext]_outcomeVars => OpenersInv'
<1>. SUFFICES ASSUME OpenersInv, [OutcomeNext]_outcomeVars PROVE OpenersInv'
  OBVIOUS
<1>. USE DEF OpenersInv
<1>1. ASSUME UNCHANGED <<openers, openTeams, moves>>
      PROVE  OpenersInv'
  BY <1>1
<1>2. CASE UNCHANGED outcomeVars
  BY <1>1, <1>2 DEF outcomeVars
<1>3. ASSUME \/ \E cells \in ClosedCells : TypeClosed(cells)
             \/ \E cells \in XferCells : TypeXfer(cells)
      PROVE  OpenersInv'
  BY <1>1, <1>3 DEF TypeClosed, TypeXfer
<1>4. ASSUME NEW u \in Users, NEW new \in Openers, openers' = [openers EXCEPT ![u] = new],
             Change, UNCHANGED openTeams
      PROVE  OpenersInv'
  BY <1>4 DEF Change
<1>5. ASSUME NEW u \in Users, NEW name \in AmericanNames \cup {Unnamed}, RenameAgent(u, name)
      PROVE  OpenersInv'
  <2>. DEFINE new == [openers[u] EXCEPT !.name = name]
  <2>1. new \in Openers
    BY DEF Openers
  <2>2. openers' = [openers EXCEPT ![u] = new]
    BY <1>5 DEF RenameAgent
  <2>. QED  BY <1>4, <1>5, <2>1, <2>2 DEF RenameAgent
<1>6. ASSUME NEW u \in Users, SetActive(u, ~openers[u].active)
      PROVE  OpenersInv'
  <2>. DEFINE new == [openers[u] EXCEPT !.active = ~openers[u].active]
  <2>1. new \in Openers
    BY DEF Openers
  <2>2. openers' = [openers EXCEPT ![u] = new]
    BY <1>6 DEF SetActive
  <2>. QED  BY <1>4, <1>6, <2>1, <2>2 DEF SetActive
<1>7. ASSUME NEW u \in Users, NEW t \in Teams, MoveAgent(u, t)
      PROVE  OpenersInv'
  <2>. DEFINE last == [openers[u].last EXCEPT ![LastDate] = t]
              new == [openers[u] EXCEPT !.team = t, !.last = last]
  <2>1. last \in [Dates -> Teams]
    BY TodayIsADate DEF Dates, Openers
  <2>2. new \in Openers
    BY <2>1 DEF Openers
  <2>3. openers' = [openers EXCEPT ![u] = new]
    BY <1>7 DEF MoveAgent
  <2>. QED  BY <1>4, <1>7, <2>2, <2>3 DEF MoveAgent
<1>9. ASSUME NEW u \in Users, LeaveTeam(u)
      PROVE  OpenersInv'
  <2>. DEFINE new == [openers[u] EXCEPT !.team = Teamless]
  <2>1. new \in Openers
    BY DEF Openers
  <2>2. openers' = [openers EXCEPT ![u] = new]
    BY <1>9 DEF LeaveTeam
  <2>. QED  BY <1>4, <1>9, <2>1, <2>2 DEF LeaveTeam
<1>8. ASSUME NEW t \in Teams, SetOpen(t, t \notin openTeams)
      PROVE  OpenersInv'
  BY <1>8 DEF SetOpen, Change
<1>. QED
  BY <1>2, <1>3, <1>5, <1>6, <1>7, <1>8, <1>9 DEF OutcomeNext, ReassignAgents

\* Deals are credited by names alone, of those who left as well.
LEMMA PayGoesByNames ==
  ASSUME UNCHANGED closed, \A v \in Users : openers'[v].name = openers[v].name
  PROVE  \A u \in Users, d \in Int :
           /\ PaidDeals(Admin, u, d)' = PaidDeals(Admin, u, d)
           /\ IsFinalMonth(Admin, u, d)' = IsFinalMonth(Admin, u, d)
<1>1. /\ CommissionCandidates(Admin) = {u \in Users : openers[u].name # Unnamed}
      /\ CommissionCandidates(Admin)' = {u \in Users : openers'[u].name # Unnamed}
  BY DEF CommissionCandidates, CommissionRoster, Named, InScope, Admin
<1>2. CommissionCandidates(Admin)' = CommissionCandidates(Admin)
  BY <1>1
<1>3. CommissionCandidates(Admin) \subseteq Users
  BY <1>1
<1>4. ValidDeals' = ValidDeals
  BY DEF ValidDeals
<1>5. ASSUME NEW u \in Users, NEW d
      PROVE  PaidDeals(Admin, u, d)' = PaidDeals(Admin, u, d)
  <2>1. \A r : MatchedTo(r, CommissionCandidates(Admin), u)' <=> MatchedTo(r, CommissionCandidates(Admin), u)
    BY <1>2, <1>3 DEF MatchedTo
  <2>2. {r \in ValidDeals : r.date \in {d} /\ MatchedTo(r, CommissionCandidates(Admin), u)}'
          = {r \in ValidDeals : r.date \in {d} /\ MatchedTo(r, CommissionCandidates(Admin), u)}
    BY <1>4, <2>1
  <2>. QED  BY <2>2 DEF PaidDeals, DealsOf, CopiesOf
<1>6. ASSUME NEW u \in Users, NEW d \in Int
      PROVE  IsFinalMonth(Admin, u, d)' = IsFinalMonth(Admin, u, d)
  BY <1>5 DEF IsFinalMonth
<1>. QED  BY <1>5, <1>6

\* What changes the roster leaves the deals and the teams of past months.
LEMMA PastMonthsStay ==
  ASSUME OpenersInv, OutcomeNext, moves' > moves
  PROVE  /\ UNCHANGED closed
         /\ \A u \in Users, d \in 1..LastDate-1 : openers'[u].last[d] = openers[u].last[d]
<1>. DEFINE Stays ==
       UNCHANGED closed /\ \A u \in Users, d \in 1..LastDate-1 : openers'[u].last[d] = openers[u].last[d]
<1>1. moves \in Nat /\ openers \in [Users -> Openers]
  BY DEF OpenersInv
<1>2. ASSUME NEW v \in Users, NEW new, openers' = [openers EXCEPT ![v] = new],
             \A d \in 1..LastDate-1 : new.last[d] = openers[v].last[d]
      PROVE  \A u \in Users, d \in 1..LastDate-1 : openers'[u].last[d] = openers[u].last[d]
  BY <1>1, <1>2
<1>3. ASSUME \/ \E cells \in ClosedCells : TypeClosed(cells)
             \/ \E cells \in XferCells : TypeXfer(cells)
      PROVE  moves' = moves
  BY <1>3 DEF TypeClosed, TypeXfer
<1>4. ASSUME NEW v \in Users, NEW name \in AmericanNames \cup {Unnamed}, RenameAgent(v, name)
      PROVE  Stays
  <2>. DEFINE new == [openers[v] EXCEPT !.name = name]
  <2>1. new.last = openers[v].last
    BY <1>1 DEF Openers
  <2>2. openers' = [openers EXCEPT ![v] = new]
    BY <1>4 DEF RenameAgent
  <2>. HIDE DEF new
  <2>. QED  BY <1>2, <1>4, <2>1, <2>2 DEF RenameAgent, Change
<1>5. ASSUME NEW v \in Users, SetActive(v, ~openers[v].active)
      PROVE  Stays
  <2>. DEFINE new == [openers[v] EXCEPT !.active = ~openers[v].active]
  <2>1. new.last = openers[v].last
    BY <1>1 DEF Openers
  <2>2. openers' = [openers EXCEPT ![v] = new]
    BY <1>5 DEF SetActive
  <2>. HIDE DEF new
  <2>. QED  BY <1>2, <1>5, <2>1, <2>2 DEF SetActive, Change
<1>6. ASSUME NEW v \in Users, NEW t \in Teams, MoveAgent(v, t)
      PROVE  Stays
  <2>. DEFINE last == [openers[v].last EXCEPT ![LastDate] = t]
              new == [openers[v] EXCEPT !.team = t, !.last = last]
  <2>1. \A d \in 1..LastDate-1 : last[d] = openers[v].last[d]
    BY <1>1, TodayIsADate DEF Openers, Dates
  <2>2. new.last = last
    BY <1>1 DEF Openers
  <2>3. openers' = [openers EXCEPT ![v] = new]
    BY <1>6 DEF MoveAgent
  <2>4. UNCHANGED closed
    BY <1>6 DEF MoveAgent, Change
  <2>. HIDE DEF last, new
  <2>. QED  BY <1>2, <2>1, <2>2, <2>3, <2>4
<1>7. ASSUME NEW v \in Users, LeaveTeam(v)
      PROVE  Stays
  <2>. DEFINE new == [openers[v] EXCEPT !.team = Teamless]
  <2>1. new.last = openers[v].last
    BY <1>1 DEF Openers
  <2>2. openers' = [openers EXCEPT ![v] = new]
    BY <1>7 DEF LeaveTeam
  <2>. HIDE DEF new
  <2>. QED  BY <1>2, <1>7, <2>1, <2>2 DEF LeaveTeam, Change
<1>8. ASSUME NEW t \in Teams, SetOpen(t, t \notin openTeams)
      PROVE  Stays
  BY <1>8 DEF SetOpen, Change
<1>9. ~(moves' = moves)
  BY <1>1
<1>. HIDE DEF Stays
<1>10. Stays
  <2>1. CASE ReassignAgents
    BY <1>5, <1>6, <1>7, <1>8, <2>1 DEF ReassignAgents
  <2>. QED  BY <1>3, <1>4, <1>9, <2>1 DEF OutcomeNext
<1>. QED  BY <1>10 DEF Stays

\* In past months the administrator sees agents in the team they had.
LEMMA TeamOfThePast ==
  ASSUME OpenersInv, NEW u \in Users, NEW d \in 1..LastDate-1
  PROVE  CommissionTeam(Admin, u, d) = openers[u].last[d]
<1>1. openers[u].last[d] \in Teams
  BY TodayIsADate DEF OpenersInv, Openers, Dates
<1>. QED  BY <1>1, TeamlessIsNoTeam DEF CommissionTeam, Admin

LEMMA PayStep ==
  ASSUME OpenersInv, OpenersInv', OutcomeNext, moves' > moves,
         \A v \in Users : openers'[v].name = openers[v].name
  PROVE  /\ \A u \in Users, d \in Dates :
              \/ Pay(u, d)' = Pay(u, d)
              \/ openers'[u].active # openers[u].active /\ ~IsFinalMonth(Admin, u, d)
         /\ (\A v \in Users : openers'[v].active = openers[v].active) =>
              \A t \in Teams, d \in 1..LastDate-1 :
                TeamCommission(Admin, t, d)' = TeamCommission(Admin, t, d)
<1>1. UNCHANGED closed
  BY PastMonthsStay
<1>2. \A u \in Users, d \in Int :
        /\ PaidDeals(Admin, u, d)' = PaidDeals(Admin, u, d)
        /\ IsFinalMonth(Admin, u, d)' = IsFinalMonth(Admin, u, d)
  BY <1>1, PayGoesByNames
<1>3. \A u \in Users, d \in Int :
        /\ u \in CommissionEmployees(Admin, d) <=> openers[u].active \/ IsFinalMonth(Admin, u, d)
        /\ u \in CommissionEmployees(Admin, d)' <=> openers'[u].active \/ IsFinalMonth(Admin, u, d)'
  BY DEF CommissionEmployees, CommissionRoster, InScope, Admin
<1>4. \A d : CommissionEmployees(Admin, d) \subseteq Users /\ CommissionEmployees(Admin, d)' \subseteq Users
  BY DEF CommissionEmployees, CommissionRoster
<1>5. ASSUME NEW u \in Users, NEW d \in Dates
      PROVE  \/ Pay(u, d)' = Pay(u, d)
             \/ openers'[u].active # openers[u].active /\ ~IsFinalMonth(Admin, u, d)
  <2>1. d \in Int
    BY TodayIsADate DEF Dates
  <2>. QED  BY <1>2, <1>3, <2>1 DEF Pay
<1>6. ASSUME \A v \in Users : openers'[v].active = openers[v].active, NEW t \in Teams, NEW d \in 1..LastDate-1
      PROVE  TeamCommission(Admin, t, d)' = TeamCommission(Admin, t, d)
  <2>1. d \in Int
    BY TodayIsADate
  <2>2. CommissionEmployees(Admin, d)' = CommissionEmployees(Admin, d)
    <3>1. \A u \in Users : u \in CommissionEmployees(Admin, d)' <=> u \in CommissionEmployees(Admin, d)
      BY <1>2, <1>3, <1>6, <2>1
    <3>. QED  BY <1>4, <3>1
  <2>3. \A u \in Users : CommissionTeam(Admin, u, d)' = CommissionTeam(Admin, u, d)
    <3>1. ASSUME NEW u \in Users
          PROVE  CommissionTeam(Admin, u, d)' = openers'[u].last[d]
      <4>1. openers'[u].last[d] \in Teams
        BY TodayIsADate DEF OpenersInv, Openers, Dates
      <4>. QED  BY <4>1, TeamlessIsNoTeam DEF CommissionTeam, Admin
    <3>. QED  BY <3>1, TeamOfThePast, PastMonthsStay
  <2>. DEFINE team == {u \in CommissionEmployees(Admin, d) : CommissionTeam(Admin, u, d) = t}
  <2>3a. team \subseteq Users
    BY <1>4
  <2>4. team' = team
    BY <1>4, <2>2, <2>3
  <2>5. [u \in team |-> PaidDeals(Admin, u, d)]' = [u \in team |-> PaidDeals(Admin, u, d)]
    BY <1>2, <2>1, <2>3a, <2>4
  <2>6. TeamCommission(Admin, t, d) = Total([u \in team |-> PaidDeals(Admin, u, d)], team)
    BY DEF TeamCommission, CommissionOf
  <2>7. TeamCommission(Admin, t, d)' = Total([u \in team |-> PaidDeals(Admin, u, d)]', team')
    BY DEF TeamCommission, CommissionOf
  <2>. QED  BY <2>4, <2>5, <2>6, <2>7
<1>. QED  BY <1>5, <1>6

\* Nobody is paid differently because somebody was moved, a team was closed or
\* others left; and months that are over stay with the teams of that time.
THEOREM PayIsStable == OutcomeSpec => PayUnaffected
<1>2. OpenersInv /\ OpenersInv' /\ [OutcomeNext]_outcomeVars =>
        [moves' > moves /\ (\A v \in Users : openers'[v].name = openers[v].name) =>
           /\ \A u \in Users, d \in Dates :
                \/ Pay(u, d)' = Pay(u, d)
                \/ openers'[u].active # openers[u].active /\ ~IsFinalMonth(Admin, u, d)
           /\ (\A v \in Users : openers'[v].active = openers[v].active) =>
                \A t \in Teams, d \in 1..LastDate-1 :
                  TeamCommission(Admin, t, d)' = TeamCommission(Admin, t, d)]_outcomeVars
  BY PayStep
<1>. QED  BY <1>2, OpenersInvInit, OpenersInvStep, PTL DEF OutcomeSpec, PayUnaffected

-----------------------------------------------------------------------------
(* OutcomeReports: sums *)

\* The worksheet Closed has finitely many rows.
RowsInv ==
  /\ OpenersInv
  /\ IsFiniteSet(BagToSet(closed))
  /\ \A r \in BagToSet(closed) : closed[r] \in Nat

LEMMA RowsInvInit == OutcomeInit => RowsInv
<1>. SUFFICES ASSUME OutcomeInit PROVE RowsInv
  OBVIOUS
<1>1. OpenersInv
  BY OpenersInvInit
<1>2. BagToSet(closed) = {}
  BY DEF OutcomeInit, BagToSet, EmptyBag, SetToBag
<1>. QED  BY <1>1, <1>2, FS_EmptySet DEF RowsInv

LEMMA RowsInvStep == RowsInv /\ [OutcomeNext]_outcomeVars => RowsInv'
<1>. SUFFICES ASSUME RowsInv, [OutcomeNext]_outcomeVars PROVE RowsInv'
  OBVIOUS
<1>1. OpenersInv'
  BY OpenersInvStep DEF RowsInv
<1>2. ASSUME UNCHANGED closed
      PROVE  RowsInv'
  BY <1>1, <1>2 DEF RowsInv
<1>3. ASSUME NEW cells, TypeClosed(cells)
      PROVE  RowsInv'
  <2>1. closed' = [r \in DOMAIN closed \cup {cells} |->
                     (IF r \in DOMAIN closed THEN closed[r] ELSE 0) + (IF r \in {cells} THEN 1 ELSE 0)]
    BY <1>3 DEF TypeClosed, SetToBag, (+)
  <2>2. IsFiniteSet(DOMAIN closed \cup {cells})
    BY FS_AddElement DEF RowsInv, BagToSet
  <2>. QED  BY <1>1, <2>1, <2>2 DEF RowsInv, BagToSet
<1>4. ASSUME Change
      PROVE  UNCHANGED closed
  BY <1>4 DEF Change
<1>. QED
  BY <1>2, <1>3, <1>4 DEF OutcomeNext, ReassignAgents, outcomeVars, TypeXfer, RenameAgent, SetActive,
     MoveAgent, LeaveTeam, SetOpen

\* Numbers of deals are numbers.
LEMMA CopiesNat ==
  ASSUME RowsInv, NEW rows \in SUBSET ValidDeals
  PROVE  CopiesOf(rows) \in Nat /\ IsFiniteSet(rows) /\ \A r \in rows : closed[r] \in Nat
<1>1. rows \subseteq BagToSet(closed)
  BY DEF ValidDeals
<1>2. IsFiniteSet(rows) /\ \A r \in rows : closed[r] \in Nat
  BY <1>1, FS_Subset DEF RowsInv
<1>. QED  BY <1>2, TotalNat DEF CopiesOf

LEMMA DealsNat ==
  ASSUME RowsInv, NEW u, NEW some, NEW dates
  PROVE  DealsOf(u, some, dates) \in Nat
BY CopiesNat DEF DealsOf

\* Who is no candidate has no deals.
LEMMA NoCandidateNoDeals ==
  ASSUME NEW some, NEW u, u \notin some, NEW dates
  PROVE  DealsOf(u, some, dates) = 0
<1>1. {r \in ValidDeals : r.date \in dates /\ MatchedTo(r, some, u)} = {}
  BY DEF MatchedTo
<1>. QED  BY <1>1, TotalNothing DEF DealsOf, CopiesOf

\* Fewer candidates match no fewer rows with one of them.
LEMMA FewerMatchMore ==
  ASSUME RowsInv, NEW others, NEW some \in SUBSET others, NEW u \in some, NEW dates
  PROVE  DealsOf(u, others, dates) <= DealsOf(u, some, dates)
<1>. DEFINE of(set) == {r \in ValidDeals : r.date \in dates /\ MatchedTo(r, set, u)}
<1>1. of(others) \in SUBSET of(some)
  BY DEF MatchedTo
<1>2. IsFiniteSet(of(some)) /\ \A r \in of(some) : closed[r] \in Nat
  BY CopiesNat
<1>3. CopiesOf(of(others)) <= CopiesOf(of(some))
  <2>. HIDE DEF of
  <2>. QED  BY <1>1, <1>2, TotalSubset DEF CopiesOf
<1>. QED  BY <1>3 DEF DealsOf

\* A manager's candidates are those of the team.
LEMMA CandidatesByTeam ==
  ASSUME RowsInv
  PROVE  /\ IsFiniteSet(MatchableUsers(Admin)) /\ MatchableUsers(Admin) \subseteq Named
         /\ IsFiniteSet(openTeams) /\ Named \subseteq Users
         /\ \A u \in MatchableUsers(Admin) : openers[u].team \in openTeams
         /\ \A t \in openTeams :
              MatchableUsers(Manager(t)) = {u \in MatchableUsers(Admin) : openers[u].team = t}
<1>1. MatchableUsers(Admin) \subseteq Named /\ Named \subseteq Users
  BY DEF MatchableUsers, Named
<1>2. IsFiniteSet(openTeams) /\ IsFiniteSet(MatchableUsers(Admin))
  BY <1>1, FiniteDirectory, FS_Subset DEF RowsInv, OpenersInv
<1>. QED  BY <1>1, <1>2 DEF MatchableUsers, InScope, Admin, Manager

\* Where no two agents share a name, every deal of the performance page is one
\* manager's.
LEMMA PerformanceByTeam ==
  ASSUME RowsInv, \A u \in Named : OwnName(u), NEW dates
  PROVE  /\ Total([t \in openTeams |-> PerformanceDeals(Manager(t), dates)], openTeams)
             = PerformanceDeals(Admin, dates)
         /\ Total([t \in openTeams |-> TeamDeals(Admin, t, dates)], openTeams)
             = PerformanceDeals(Admin, dates)
<1>. DEFINE all == MatchableUsers(Admin)
            deals == [u \in all |-> DealsOf(u, all, dates)]
            part == [u \in all |-> openers[u].team]
            Of(t) == {u \in all : part[u] = t}
<1>1. IsFiniteSet(all) /\ all \subseteq Named /\ Named \subseteq Users /\ IsFiniteSet(openTeams)
  BY CandidatesByTeam
<1>2. \A t \in openTeams : MatchableUsers(Manager(t)) = Of(t)
  BY CandidatesByTeam
<1>3. \A u \in all : deals[u] \in Nat /\ part[u] \in openTeams
  BY DealsNat, CandidatesByTeam
<1>4. \A t : IsFiniteSet(Of(t)) /\ Of(t) \subseteq all
  BY <1>1, FS_Subset
<1>5. Total(deals, all) = Total([t \in openTeams |-> Total(deals, Of(t))], openTeams)
  <2>. HIDE DEF all, deals, part
  <2>. QED  BY <1>1, <1>3, TotalByParts
<1>6. ASSUME NEW t \in openTeams
      PROVE  PerformanceDeals(Manager(t), dates) = Total(deals, Of(t))
  <2>. DEFINE own == [u \in Of(t) |-> DealsOf(u, Of(t), dates)]
  <2>1. PerformanceDeals(Manager(t), dates) = Total(own, Of(t))
    <3>. HIDE DEF Of
    <3>. QED  BY <1>2 DEF PerformanceDeals
  <2>2. ASSUME NEW u \in Of(t)
        PROVE  own[u] \in Nat /\ own[u] = deals[u]
    <3>1. u \in all /\ u \in Users /\ OwnName(u) /\ Of(t) \in SUBSET Users /\ all \in SUBSET Users
      BY <1>1, <1>4
    <3>2. OutcomesOf(u, Of(t), dates) = OutcomesOf(u, all, dates)
      <4>. HIDE DEF Of, all
      <4>. QED  BY <2>2, <3>1, CandidatesDoNotMatter
    <3>3. DealsOf(u, Of(t), dates) = DealsOf(u, all, dates)
      <4>. HIDE DEF Of, all
      <4>. QED  BY <3>2 DEF OutcomesOf
    <3>. HIDE DEF Of, all
    <3>. QED  BY <2>2, <3>1, <3>3, DealsNat
  <2>3. Total(own, Of(t)) = Total(deals, Of(t))
    <3>. HIDE DEF own, deals, Of
    <3>. QED  BY <1>4, <2>2, TotalSame
  <2>. QED  BY <2>1, <2>3
<1>7. ASSUME NEW t \in openTeams
      PROVE  TeamDeals(Admin, t, dates) = Total(deals, Of(t))
  <2>. DEFINE scoped == {u \in ScopedActiveAgents(Admin) : openers[u].team = t}
              rows == [u \in scoped |-> DirectoryRow(Admin, u, dates).deals]
  <2>1. TeamDeals(Admin, t, dates) = Total(rows, scoped)
    BY DEF TeamDeals
  <2>2. \A u \in scoped : rows[u] = DealsOf(u, all, dates)
    BY DEF DirectoryRow, OutcomesOf
  <2>3. scoped \subseteq Users /\ Of(t) \subseteq scoped
    BY DEF ScopedActiveAgents, MatchableUsers, Named
  <2>4. \A u \in scoped \ Of(t) : u \notin all
    OBVIOUS
  <2>5. IsFiniteSet(scoped)
    BY <2>3, FiniteDirectory, FS_Subset
  <2>6. \A u \in scoped : rows[u] \in Nat
    BY <2>2, DealsNat
  <2>7. \A u \in scoped \ Of(t) : rows[u] = 0
    <3>. HIDE DEF rows, scoped, Of, all
    <3>. QED  BY <2>2, <2>4, NoCandidateNoDeals
  <2>8. Total(rows, scoped) = Total(rows, Of(t))
    <3>. HIDE DEF rows, scoped, Of
    <3>. QED  BY <2>3, <2>5, <2>6, <2>7, TotalWhere
  <2>9. \A u \in Of(t) : rows[u] \in Nat /\ rows[u] = deals[u]
    <3>. HIDE DEF rows, scoped
    <3>. QED  BY <2>2, <2>3, <2>6
  <2>10. Total(rows, Of(t)) = Total(deals, Of(t))
    <3>. HIDE DEF rows, deals, Of
    <3>. QED  BY <1>4, <2>9, TotalSame
  <2>. QED  BY <2>1, <2>8, <2>10
<1>8. PerformanceDeals(Admin, dates) = Total(deals, all)
  BY DEF PerformanceDeals
<1>. HIDE DEF deals, all, Of
<1>9. [t \in openTeams |-> PerformanceDeals(Manager(t), dates)] = [t \in openTeams |-> Total(deals, Of(t))]
  BY <1>6
<1>10. [t \in openTeams |-> TeamDeals(Admin, t, dates)] = [t \in openTeams |-> Total(deals, Of(t))]
  BY <1>7
<1>. QED  BY <1>5, <1>8, <1>9, <1>10

\* Names that agents share are matched for the managers, and never twice for
\* the admin.
LEMMA PerformanceIsBounded ==
  ASSUME RowsInv, NEW dates
  PROVE  /\ Total([t \in openTeams |-> PerformanceDeals(Manager(t), dates)], openTeams)
             >= PerformanceDeals(Admin, dates)
         /\ PerformanceDeals(Admin, dates) <= OverallDeals(dates)
<1>. DEFINE all == MatchableUsers(Admin)
            deals == [u \in all |-> DealsOf(u, all, dates)]
            team == [u \in all |-> openers[u].team]
            Of(t) == {u \in all : team[u] = t}
            performance == [t \in openTeams |-> PerformanceDeals(Manager(t), dates)]
            sums == [t \in openTeams |-> Total(deals, Of(t))]
<1>1. IsFiniteSet(all) /\ IsFiniteSet(openTeams)
  BY CandidatesByTeam
<1>2. \A u \in all : deals[u] \in Nat /\ team[u] \in openTeams
  BY DealsNat, CandidatesByTeam
<1>3. PerformanceDeals(Admin, dates) = Total(deals, all)
  BY DEF PerformanceDeals
<1>4. Total(deals, all) = Total(sums, openTeams)
  <2>. HIDE DEF all, deals, team
  <2>. QED  BY <1>1, <1>2, TotalByParts
<1>5. ASSUME NEW t \in openTeams
      PROVE  sums[t] \in Nat /\ performance[t] \in Nat /\ sums[t] <= performance[t]
  <2>. DEFINE own == [u \in Of(t) |-> DealsOf(u, Of(t), dates)]
  <2>1. IsFiniteSet(Of(t)) /\ Of(t) \in SUBSET all
    BY <1>1, FS_Subset
  <2>2. performance[t] = Total(own, Of(t))
    <3>1. MatchableUsers(Manager(t)) = Of(t)
      BY CandidatesByTeam
    <3>. HIDE DEF Of
    <3>. QED  BY <3>1 DEF PerformanceDeals
  <2>3. \A u \in Of(t) : deals[u] \in Nat /\ own[u] \in Nat /\ deals[u] <= own[u]
    <3>1. \A u \in Of(t) : DealsOf(u, all, dates) <= DealsOf(u, Of(t), dates)
      <4>. HIDE DEF Of, all
      <4>. QED  BY <2>1, FewerMatchMore
    <3>2. \A u \in Of(t) : u \in all
      BY <2>1
    <3>. HIDE DEF Of, all
    <3>. QED  BY <3>1, <3>2, DealsNat
  <2>4. sums[t] = Total(deals, Of(t))
    OBVIOUS
  <2>. HIDE DEF sums, performance, own, deals, Of
  <2>. QED  BY <2>1, <2>2, <2>3, <2>4, TotalMore, TotalNat
<1>6. Total(sums, openTeams) <= Total(performance, openTeams)
  <2>. HIDE DEF sums, performance
  <2>. QED  BY <1>1, <1>5, TotalMore
<1>7. Total(sums, openTeams) \in Nat /\ Total(performance, openTeams) \in Nat
  <2>. HIDE DEF sums, performance
  <2>. QED  BY <1>1, <1>5, TotalNat
<1>8. Total(deals, all) <= OverallDeals(dates)
  <2>. DEFINE rows == {r \in ValidDeals : r.date \in dates}
              matched == {r \in rows : \E u \in all : MatchedTo(r, all, u)}
              agent == [r \in matched |-> CHOOSE u \in all : MatchedTo(r, all, u)]
              By(u) == {r \in matched : agent[r] = u}
  <2>1. ASSUME NEW r \in matched
        PROVE  agent[r] \in all /\ \A u : MatchedTo(r, all, u) <=> agent[r] = u
    <3>1. agent[r] \in all /\ MatchedTo(r, all, agent[r])
      OBVIOUS
    <3>2. \A u, v : MatchedTo(r, all, u) /\ MatchedTo(r, all, v) => u = v
      BY DEF MatchedTo
    <3>. QED  BY <3>1, <3>2
  <2>2. matched \in SUBSET ValidDeals /\ matched \in SUBSET rows /\ rows \in SUBSET ValidDeals
    OBVIOUS
  <2>3. IsFiniteSet(matched) /\ \A r \in matched : closed[r] \in Nat
    BY <2>2, CopiesNat
  <2>4. \A u \in all : deals[u] = Total(closed, By(u))
    <3>1. ASSUME NEW u \in all
          PROVE  {r \in ValidDeals : r.date \in dates /\ MatchedTo(r, all, u)} = By(u)
      BY <2>1
    <3>. HIDE DEF By, matched
    <3>. QED  BY <3>1 DEF DealsOf, CopiesOf
  <2>5. Total(closed, matched) = Total([u \in all |-> Total(closed, By(u))], all)
    <3>1. \A r \in matched : closed[r] \in Nat /\ agent[r] \in all
      BY <2>1, <2>3
    <3>. HIDE DEF matched, agent, all
    <3>. QED  BY <1>1, <2>3, <3>1, TotalByParts
  <2>6. [u \in all |-> Total(closed, By(u))] = deals
    <3>1. \A u \in all : deals[u] = Total(closed, By(u))
      BY <2>4
    <3>2. deals = [u \in all |-> deals[u]]
      OBVIOUS
    <3>. HIDE DEF By, deals, all
    <3>. QED  BY <3>1, <3>2
  <2>7. Total(closed, matched) <= Total(closed, rows)
    <3>1. IsFiniteSet(rows) /\ \A r \in rows : closed[r] \in Nat
      BY <2>2, CopiesNat
    <3>. HIDE DEF matched, rows
    <3>. QED  BY <2>2, <3>1, TotalSubset
  <2>8. OverallDeals(dates) = Total(closed, rows)
    BY DEF OverallDeals, CopiesOf
  <2>. HIDE DEF deals, all, matched, rows, By
  <2>. QED  BY <2>5, <2>6, <2>7, <2>8
<1>. HIDE DEF sums, deals, all
<1>. QED  BY <1>3, <1>4, <1>6, <1>7, <1>8

\* Where no two agents share a name, whoever sees an agent sees the same pay.
LEMMA SamePay ==
  ASSUME \A u \in Named : OwnName(u), NEW t \in openTeams, NEW u \in Users, openers[u].team = t
  PROVE  /\ \A d : PaidDeals(Manager(t), u, d) = PaidDeals(Admin, u, d)
         /\ \A d : IsFinalMonth(Manager(t), u, d) <=> IsFinalMonth(Admin, u, d)
<1>. DEFINE some == CommissionCandidates(Manager(t))
            all == CommissionCandidates(Admin)
<1>1. some \in SUBSET Users /\ all \in SUBSET Users
  BY DEF CommissionCandidates, CommissionRoster
<1>2. (u \in some <=> u \in Named) /\ (u \in all <=> u \in Named)
  BY DEF CommissionCandidates, CommissionRoster, InScope, Admin, Manager
<1>3. ASSUME NEW d
      PROVE  PaidDeals(Manager(t), u, d) = PaidDeals(Admin, u, d)
  <2>1. DealsOf(u, some, {d}) = DealsOf(u, all, {d})
    <3>1. CASE u \in Named
      <4>1. OutcomesOf(u, some, {d}) = OutcomesOf(u, all, {d})
        <5>. HIDE DEF some, all
        <5>. QED  BY <1>1, <1>2, <3>1, CandidatesDoNotMatter
      <4>. HIDE DEF some, all
      <4>. QED  BY <4>1 DEF OutcomesOf
    <3>2. CASE u \notin Named
      <4>. HIDE DEF some, all
      <4>. QED  BY <1>2, <3>2, NoCandidateNoDeals
    <3>. QED  BY <3>1, <3>2
  <2>. QED  BY <2>1 DEF PaidDeals
<1>. QED  BY <1>3 DEF IsFinalMonth

\* The commissions that managers see and those of agents without an active team
\* are all there are.
LEMMA CommissionByTeam ==
  ASSUME RowsInv, \A u \in Named : OwnName(u), NEW d
  PROVE  LET commission(viewer) == CommissionOf(viewer, CommissionEmployees(viewer, d), d)
             unseen == {u \in CommissionEmployees(Admin, d) : openers[u].team \notin openTeams}
         IN  Total([t \in openTeams |-> commission(Manager(t))], openTeams)
               + CommissionOf(Admin, unseen, d)
             = commission(Admin)
<1>. DEFINE all == CommissionEmployees(Admin, d)
            unseen == {u \in all : openers[u].team \notin openTeams}
            seen == {u \in all : openers[u].team \in openTeams}
            pay == [u \in Users |-> PaidDeals(Admin, u, d)]
            team == [u \in seen |-> openers[u].team]
            Of(t) == {u \in seen : team[u] = t}
            commission == [t \in openTeams |-> CommissionOf(Manager(t), CommissionEmployees(Manager(t), d), d)]
<1>1. all \subseteq Users /\ seen \subseteq Users /\ unseen \subseteq Users
  BY DEF CommissionEmployees, CommissionRoster
<1>2. IsFiniteSet(all) /\ IsFiniteSet(seen) /\ IsFiniteSet(unseen) /\ IsFiniteSet(openTeams)
  BY <1>1, FiniteDirectory, CandidatesByTeam, FS_Subset
<1>3. \A u \in Users : pay[u] \in Nat
  BY DealsNat DEF PaidDeals
<1>4. ASSUME NEW some \in SUBSET Users
      PROVE  CommissionOf(Admin, some, d) = Total(pay, some)
  <2>. DEFINE own == [u \in some |-> PaidDeals(Admin, u, d)]
  <2>1. \A u \in some : own[u] \in Nat /\ own[u] = pay[u]
    BY <1>3
  <2>2. IsFiniteSet(some)
    BY FiniteDirectory, FS_Subset
  <2>3. Total(own, some) = Total(pay, some)
    <3>. HIDE DEF own, pay
    <3>. QED  BY <2>1, <2>2, TotalSame
  <2>. QED  BY <2>3 DEF CommissionOf
<1>5. ASSUME NEW t \in openTeams
      PROVE  commission[t] = Total(pay, Of(t))
  <2>1. CommissionEmployees(Manager(t), d) = Of(t)
    <3>1. CommissionRoster(Manager(t)) = {u \in Users : openers[u].team = t} /\ CommissionRoster(Admin) = Users
      BY DEF CommissionRoster, InScope, Manager, Admin
    <3>. QED  BY <3>1, SamePay DEF CommissionEmployees
  <2>. DEFINE own == [u \in Of(t) |-> PaidDeals(Manager(t), u, d)]
  <2>2. \A u \in Of(t) : own[u] \in Nat /\ own[u] = pay[u]
    <3>1. \A u \in Of(t) : u \in Users /\ openers[u].team = t
      BY <1>1
    <3>. HIDE DEF Of
    <3>. QED  BY <1>3, <3>1, SamePay
  <2>3. IsFiniteSet(Of(t))
    BY <1>2, FS_Subset
  <2>4. Total(own, Of(t)) = Total(pay, Of(t))
    <3>. HIDE DEF own, pay, Of
    <3>. QED  BY <2>2, <2>3, TotalSame
  <2>5. CommissionOf(Manager(t), Of(t), d) = Total(own, Of(t))
    <3>. HIDE DEF Of
    <3>. QED  BY DEF CommissionOf
  <2>. HIDE DEF Of, own, pay
  <2>. QED  BY <2>1, <2>4, <2>5
<1>6. Total(pay, seen) = Total(commission, openTeams)
  <2>1. \A u \in seen : pay[u] \in Nat /\ team[u] \in openTeams
    BY <1>1, <1>3
  <2>2. Total(pay, seen) = Total([t \in openTeams |-> Total(pay, Of(t))], openTeams)
    <3>. HIDE DEF pay, seen, team
    <3>. QED  BY <1>2, <2>1, TotalByParts
  <2>3. [t \in openTeams |-> Total(pay, Of(t))] = commission
    <3>1. commission = [t \in openTeams |-> commission[t]]
      OBVIOUS
    <3>. HIDE DEF pay, Of, commission
    <3>. QED  BY <1>5, <3>1
  <2>. HIDE DEF pay, seen, team, commission, Of
  <2>. QED  BY <2>2, <2>3
<1>7. Total(pay, all) = Total(pay, seen) + Total(pay, unseen)
  <2>1. all = seen \cup unseen /\ seen \cap unseen = {}
    OBVIOUS
  <2>2. \A u \in seen \cup unseen : pay[u] \in Nat
    BY <1>1, <1>3
  <2>. HIDE DEF pay, all, seen, unseen
  <2>. QED  BY <1>2, <2>1, <2>2, TotalUnion
<1>8. CommissionOf(Admin, all, d) = Total(pay, all) /\ CommissionOf(Admin, unseen, d) = Total(pay, unseen)
  BY <1>1, <1>4
<1>9. Total(commission, openTeams) + CommissionOf(Admin, unseen, d) = CommissionOf(Admin, all, d)
  <2>. HIDE DEF commission, all, seen, unseen, pay
  <2>. QED  BY <1>6, <1>7, <1>8
<1>. QED  BY <1>9

\* Whatever the worksheets hold and however the roster changes, what managers see
\* adds up to what the admin sees.
THEOREM SharesAddUp == OutcomeSpec => []ManagersAddUp
<1>1. RowsInv => ManagersAddUp
  <2>. SUFFICES ASSUME RowsInv, NEW d PROVE ManagersAddUp!(d)
    BY DEF ManagersAddUp
  <2>. QED  BY PerformanceByTeam, PerformanceIsBounded, CommissionByTeam
<1>. QED  BY <1>1, RowsInvInit, RowsInvStep, PTL DEF OutcomeSpec

-----------------------------------------------------------------------------
(* DialerReports: figures and their sums *)

VersionsShown == [file : Nat, agents : SUBSET Users, hourly : BOOLEAN, net : BOOLEAN]

Scopes == (Teams \cup {Company}) \X Dates

\* Versions are of agents, and scopes of teams and dates.
MetricInv ==
  /\ OpenersInv
  /\ shown \in [Scopes -> VersionsShown]
  /\ files \in Nat

LEMMA MetricInvInit == OutcomeInit /\ MetricInit => MetricInv
<1>. SUFFICES ASSUME OutcomeInit, MetricInit PROVE MetricInv
  OBVIOUS
<1>1. OpenersInv
  BY OpenersInvInit
<1>2. NoVersion \in VersionsShown /\ \A f \in Nat : Version(f, Users, [hourly |-> TRUE, net |-> FALSE]) \in VersionsShown
  BY DEF NoVersion, Version, VersionsShown
<1>3. NoVersions \in [Scopes -> VersionsShown]
  BY <1>2 DEF NoVersions, Scopes
<1>4. PICK v \in VersionsShown : shown = [NoVersions EXCEPT ![<<Company, 1>>] = v]
  BY <1>2 DEF MetricInit
<1>5. shown \in [Scopes -> VersionsShown]
  BY <1>3, <1>4
<1>. QED  BY <1>1, <1>5 DEF MetricInv, MetricInit

LEMMA MetricInvStep == MetricInv /\ [MetricNext]_<<outcomeVars, metricVars>> => MetricInv'
<1>. SUFFICES ASSUME MetricInv, [MetricNext]_<<outcomeVars, metricVars>> PROVE MetricInv'
  OBVIOUS
<1>1. ASSUME ReassignAgents \/ UNCHANGED outcomeVars
      PROVE  OpenersInv'
  BY <1>1, OpenersInvStep DEF MetricInv, OutcomeNext
<1>2. ASSUME NEW d \in Dates, NEW some \in SUBSET Mapped, NEW format \in Formats,
             PublishFile(d, some, format)
      PROVE  shown' \in [Scopes -> VersionsShown] /\ files' \in Nat
  <2>1. files' \in Nat /\ some \subseteq Users
    BY <1>2 DEF MetricInv, PublishFile, Mapped
  <2>0. format.hourly \in BOOLEAN /\ format.net \in BOOLEAN
    <3>1. \/ format = [hourly |-> TRUE, net |-> TRUE]
          \/ format = [hourly |-> TRUE, net |-> FALSE]
          \/ format = [hourly |-> FALSE, net |-> TRUE]
      BY DEF Formats
    <3>2. CASE format = [hourly |-> TRUE, net |-> TRUE]
      BY <3>2, Zenon
    <3>3. CASE format = [hourly |-> TRUE, net |-> FALSE]
      BY <3>3, Zenon
    <3>4. CASE format = [hourly |-> FALSE, net |-> TRUE]
      BY <3>4, Zenon
    <3>. QED  BY <3>1, <3>2, <3>3, <3>4
  <2>2. \A members \in SUBSET some : Version(files', members, format) \in VersionsShown
    BY <2>0, <2>1 DEF Version, VersionsShown
  <2>3. DOMAIN shown = Scopes /\ \A scope \in Scopes : shown[scope] \in VersionsShown
    BY DEF MetricInv
  <2>4. shown' = [scope \in Scopes |->
           IF {u \in some : <<openers[u].team, d>> = scope} = {} THEN shown[scope]
           ELSE Version(files', {u \in some : <<openers[u].team, d>> = scope}, format)]
    BY <1>2, <2>3 DEF PublishFile
  <2>. QED  BY <2>1, <2>2, <2>3, <2>4
<1>3. ASSUME NEW f, DeactivateFile(f)
      PROVE  shown' \in [Scopes -> VersionsShown] /\ files' \in Nat
  <2>1. NoVersion \in VersionsShown
    BY DEF NoVersion, VersionsShown
  <2>. QED  BY <1>3, <2>1 DEF DeactivateFile, MetricInv
<1>4. ASSUME UNCHANGED metricVars
      PROVE  shown' \in [Scopes -> VersionsShown] /\ files' \in Nat
  BY <1>4 DEF MetricInv, metricVars
<1>. QED  BY <1>1, <1>2, <1>3, <1>4 DEF MetricInv, MetricNext

\* A row is of an agent whose account is active.
LEMMA RowTyped ==
  ASSUME MetricInv, NEW row \in ActiveRows
  PROVE  /\ row.agent \in Users /\ openers[row.agent].active
         /\ row.team \in Teams \cup {Company} /\ row.date \in Dates
         /\ row.hourly \in BOOLEAN /\ row.net \in BOOLEAN
<1>0. PICK scope \in Scopes : \E u \in shown[scope].agents :
        row = MetricRow(u, scope) /\ openers[u].active
  BY DEF ActiveRows, MetricInv
<1>1. PICK u \in shown[scope].agents : row = MetricRow(u, scope) /\ openers[u].active
  BY <1>0
<1>2. /\ row.agent = u /\ row.team = scope[1] /\ row.date = scope[2]
      /\ row.hourly = shown[scope].hourly /\ row.net = shown[scope].net
  BY <1>1 DEF MetricRow
<1>3. shown[scope] \in VersionsShown /\ scope[1] \in Teams \cup {Company} /\ scope[2] \in Dates
  BY DEF MetricInv, Scopes
<1>. QED  BY <1>1, <1>2, <1>3 DEF VersionsShown

LEMMA RowsFinite ==
  ASSUME MetricInv, NEW rows \in SUBSET ActiveRows
  PROVE  IsFiniteSet(rows) /\ Cardinality(rows) \in Nat /\ (Cardinality(rows) = 0 <=> rows = {})
<1>. DEFINE P == Users \X Scopes
            f == [p \in P |-> MetricRow(p[1], p[2])]
<1>1. IsFiniteSet(Scopes)
  <2>1. IsFiniteSet(Teams \cup {Company})
    BY FiniteDirectory, FS_Singleton, FS_Union
  <2>2. IsFiniteSet(Dates)
    BY TodayIsADate, FS_Interval DEF Dates
  <2>. QED  BY <2>1, <2>2, FS_Product DEF Scopes
<1>2. IsFiniteSet(P)
  BY <1>1, FiniteDirectory, FS_Product
<1>3. IsFiniteSet({f[p] : p \in P})
  <2>. HIDE DEF f, P
  <2>. QED  BY <1>2, ImageFinite
<1>4. ASSUME NEW row \in ActiveRows
      PROVE  row \in {f[p] : p \in P}
  <2>0. PICK scope \in Scopes : \E u \in shown[scope].agents : row = MetricRow(u, scope)
    BY DEF ActiveRows, MetricInv
  <2>1. PICK u \in shown[scope].agents : row = MetricRow(u, scope)
    BY <2>0
  <2>2. <<u, scope>> \in P
    BY DEF MetricInv, VersionsShown
  <2>3. f[<<u, scope>>] = row
    BY <2>1, <2>2
  <2>. HIDE DEF f, P
  <2>. QED  BY <2>2, <2>3
<1>5. IsFiniteSet(rows)
  BY <1>3, <1>4, FS_Subset
<1>. QED  BY <1>5, FS_CardinalityType, FS_EmptySet

\* Figures by parts sum up to the totals.
LEMMA PartsSumUp ==
  ASSUME MetricInv, NEW rows \in SUBSET ActiveRows, NEW K, NEW part,
         \A row \in rows : part[row] \in K
  PROVE  SumsUp([k \in K |-> Totals({row \in rows : part[row] = k})], Totals(rows))
<1>. DEFINE Of(k) == {row \in rows : part[row] = k}
            figures == [k \in K |-> Totals(Of(k))]
            parts == {p \in DOMAIN figures : figures[p].calls > 0}
            counts == [k \in parts |-> Cardinality(Of(k))]
            calls == [p \in parts |-> figures[p].calls]
            net == [p \in parts |-> figures[p].net]
            totals == Totals(rows)
<1>1. \A k \in K : /\ figures[k].calls = Cardinality(Of(k))
                   /\ figures[k].net = IF Of(k) # {} /\ \A row \in Of(k) : row.net
                                       THEN Cardinality(Of(k)) ELSE Unavailable
  BY DEF Totals
<1>2. /\ totals.calls = Cardinality(rows)
      /\ totals.net = IF rows # {} /\ \A row \in rows : row.net THEN Cardinality(rows) ELSE Unavailable
  BY DEF Totals
<1>3. \A k : Cardinality(Of(k)) \in Nat /\ (Cardinality(Of(k)) = 0 <=> Of(k) = {})
  BY RowsFinite
<1>4. IsFiniteSet(rows) /\ Cardinality(rows) \in Nat
  BY RowsFinite
<1>. HIDE DEF totals
<1>5. \A k : k \in parts <=> k \in K /\ Of(k) # {}
  BY <1>1, <1>3
<1>6. \A row \in rows : part[row] \in parts /\ row \in Of(part[row])
  BY <1>5
<1>7. parts = {part[row] : row \in rows}
  BY <1>5, <1>6
<1>8. IsFiniteSet(parts)
  <2>. HIDE DEF parts
  <2>. QED  BY <1>4, <1>7, ImageFinite
<1>9. Cardinality(rows) = Total(counts, parts)
  <2>. HIDE DEF parts
  <2>. QED  BY <1>4, <1>6, <1>8, CountByParts
<1>10. Total(calls, parts) = totals.calls
  <2>1. calls = counts
    BY <1>1
  <2>. QED  BY <1>2, <1>9, <2>1
<1>11. (totals.net = Unavailable) <=> (parts = {} \/ \E p \in parts : figures[p].net = Unavailable)
  <2>1. parts = {} <=> rows = {}
    BY <1>7
  <2>2. totals.net = Unavailable <=> rows = {} \/ \E row \in rows : ~row.net
    BY <1>2, <1>4 DEF Unavailable
  <2>3. \A p \in parts : figures[p].net = Unavailable <=> \E row \in Of(p) : ~row.net
    <3>. HIDE DEF figures, Of, parts
    <3>. QED  BY <1>1, <1>3, <1>5 DEF Unavailable
  <2>4. (\E row \in rows : ~row.net) <=> \E p \in parts : \E row \in Of(p) : ~row.net
    <3>. HIDE DEF figures, parts
    <3>. QED  BY <1>6
  <2>. HIDE DEF figures, Of, parts
  <2>. QED  BY <2>1, <2>2, <2>3, <2>4
<1>12. ASSUME totals.net # Unavailable
       PROVE  Total(net, parts) = totals.net
  <2>1. rows # {} /\ (\A row \in rows : row.net) /\ totals.net = Cardinality(rows)
    BY <1>2, <1>12
  <2>2. \A p \in parts : figures[p].net = Cardinality(Of(p))
    <3>. HIDE DEF figures, Of, parts
    <3>1. \A p \in parts : Of(p) # {} /\ p \in K
      BY <1>5
    <3>2. \A p \in parts : \A row \in Of(p) : row.net
      BY <2>1 DEF Of
    <3>. QED  BY <1>1, <3>1, <3>2
  <2>3. net = counts
    <3>. HIDE DEF figures, Of, parts
    <3>. QED  BY <2>2
  <2>. HIDE DEF net, counts
  <2>. QED  BY <1>9, <2>1, <2>3
<1>. HIDE DEF figures
<1>13. SumsUp(figures, totals)
  BY <1>10, <1>11, <1>12 DEF SumsUp
<1>. QED  BY <1>13 DEF figures, totals

\* What the dashboard of one viewer shows sums up.
LEMMA DashboardSumsUp ==
  ASSUME MetricInv, NEW viewer, NEW dates
  PROVE  LET totals == DashboardTotals(viewer, dates)
         IN  /\ SumsUp(AgentFigures(viewer, dates), totals)
             /\ SumsUp(DailyFigures(viewer, dates), totals)
             /\ HourlyCalls(viewer, dates) = totals.calls \/ HourlyDetailUnavailable(viewer, dates)
<1>. DEFINE rows == RowsOf(viewer, dates)
<1>1. rows \in SUBSET ActiveRows
  BY DEF RowsOf
<1>2. DashboardTotals(viewer, dates) = Totals(rows)
  BY DEF DashboardTotals
<1>3. SumsUp(AgentFigures(viewer, dates), Totals(rows))
  <2>. DEFINE part == [row \in rows |-> row.agent]
              K == DOMAIN AgentFigures(viewer, dates)
  <2>1. /\ AgentFigures(viewer, dates) = [u \in K |-> Totals({row \in rows : row.agent = u})]
        /\ \A row \in rows : row.agent \in K
    BY DEF AgentFigures
  <2>2. \A u : {row \in rows : row.agent = u} = {row \in rows : part[row] = u}
    OBVIOUS
  <2>3. \A row \in rows : part[row] \in K
    BY <2>1
  <2>4. AgentFigures(viewer, dates) = [u \in K |-> Totals({row \in rows : part[row] = u})]
    <3>. HIDE DEF part, rows, K
    <3>. QED  BY <2>1, <2>2
  <2>. HIDE DEF part, rows, K
  <2>. QED  BY <1>1, <2>3, <2>4, PartsSumUp
<1>4. SumsUp(DailyFigures(viewer, dates), Totals(rows))
  <2>. DEFINE part == [row \in rows |-> row.date]
              K == {row.date : row \in rows}
  <2>1. DailyFigures(viewer, dates) = [d \in K |-> Totals(RowsOf(viewer, {d}))]
    BY DEF DailyFigures
  <2>2. \A d \in K : RowsOf(viewer, {d}) = {row \in rows : part[row] = d}
    BY DEF RowsOf
  <2>3. \A row \in rows : part[row] \in K
    OBVIOUS
  <2>4. DailyFigures(viewer, dates) = [d \in K |-> Totals({row \in rows : part[row] = d})]
    <3>. HIDE DEF part, rows, K
    <3>. QED  BY <2>1, <2>2
  <2>. HIDE DEF part, rows, K
  <2>. QED  BY <1>1, <2>3, <2>4, PartsSumUp
<1>5. HourlyCalls(viewer, dates) = Totals(rows).calls \/ HourlyDetailUnavailable(viewer, dates)
  <2>1. CASE \A row \in rows : row.hourly
    <3>1. {row \in rows : row.hourly} = rows
      BY <2>1
    <3>. QED  BY <3>1 DEF HourlyCalls, Totals
  <2>2. CASE \E row \in rows : ~row.hourly
    BY <2>2 DEF HourlyDetailUnavailable
  <2>. QED  BY <2>1, <2>2
<1>. QED  BY <1>2, <1>3, <1>4, <1>5

\* Every row of an open team is in the total of one manager.
LEMMA ManagersSumUp ==
  ASSUME MetricInv, NEW dates
  PROVE  Total([t \in openTeams |-> DashboardTotals(Manager(t), dates).calls], openTeams)
           + Cardinality({row \in RowsOf(Admin, dates) :
                            IF row.team = Company THEN openers[row.agent].team \notin openTeams
                            ELSE row.team \notin openTeams})
         = DashboardTotals(Admin, dates).calls
<1>. DEFINE all == RowsOf(Admin, dates)
            home == [row \in all |-> IF row.team = Company THEN openers[row.agent].team ELSE row.team]
            seen == {row \in all : home[row] \in openTeams}
            rest == {row \in all : IF row.team = Company THEN openers[row.agent].team \notin openTeams
                                   ELSE row.team \notin openTeams}
            Of(t) == {row \in seen : home[row] = t}
            totals == [t \in openTeams |-> DashboardTotals(Manager(t), dates).calls]
<1>1. all \in SUBSET ActiveRows /\ seen \in SUBSET ActiveRows
  BY DEF RowsOf
<1>2. IsFiniteSet(openTeams) /\ openTeams \subseteq Teams
  BY FiniteDirectory, FS_Subset DEF MetricInv, OpenersInv
<1>3. Cardinality(seen) = Total([t \in openTeams |-> Cardinality(Of(t))], openTeams)
  <2>1. IsFiniteSet(seen)
    BY <1>1, RowsFinite
  <2>2. \A row \in seen : home[row] \in openTeams
    OBVIOUS
  <2>. HIDE DEF seen, home
  <2>. QED  BY <1>2, <2>1, <2>2, CountByParts
<1>4. ASSUME NEW t \in openTeams
      PROVE  DashboardTotals(Manager(t), dates).calls = Cardinality(Of(t))
  <2>1. DashboardTotals(Manager(t), dates).calls = Cardinality(RowsOf(Manager(t), dates))
    BY DEF DashboardTotals, Totals
  <2>2. ASSUME NEW row \in ActiveRows
        PROVE  Sees(Manager(t), row) <=>
                 (IF row.team = Company THEN openers[row.agent].team ELSE row.team) = t
    <3>1. row.agent \in Users /\ openers[row.agent].active
      BY RowTyped
    <3>2. t # Company
      BY <1>2, CompanyIsNoTeam
    <3>. QED  BY <3>1, <3>2 DEF Sees, Manager, CurrentAgents
  <2>3. \A row \in ActiveRows : Sees(Admin, row)
    BY DEF Sees, Admin
  <2>4. RowsOf(Manager(t), dates) = Of(t)
    BY <2>2, <2>3 DEF RowsOf
  <2>. QED  BY <2>1, <2>4
<1>5. Total(totals, openTeams) = Cardinality(seen)
  <2>1. totals = [t \in openTeams |-> Cardinality(Of(t))]
    <3>. HIDE DEF Of
    <3>. QED  BY <1>4
  <2>. HIDE DEF totals, Of, seen
  <2>. QED  BY <1>3, <2>1
<1>6. Cardinality(seen) + Cardinality(rest) = Cardinality(all)
  <2>1. rest = all \ seen /\ all \cap seen = seen
    OBVIOUS
  <2>2. IsFiniteSet(all) /\ Cardinality(all) \in Nat /\ Cardinality(seen) \in Nat
    BY <1>1, RowsFinite
  <2>3. Cardinality(rest) = Cardinality(all) - Cardinality(seen)
    <3>. HIDE DEF all, seen, rest
    <3>1. Cardinality(all \ seen) = Cardinality(all) - Cardinality(all \cap seen)
      BY <2>2, FS_Difference
    <3>. QED  BY <2>1, <3>1
  <2>. HIDE DEF all, seen, rest
  <2>. QED  BY <2>2, <2>3
<1>7. DashboardTotals(Admin, dates).calls = Cardinality(all)
  BY DEF DashboardTotals, Totals
<1>. HIDE DEF totals, seen
<1>. QED  BY <1>5, <1>6, <1>7 DEF totals

\* An agent whose rows are all of her team has them on every screen.
LEMMA AgentsAgree ==
  ASSUME MetricInv, NEW dates, NEW u \in Mapped, NEW rows,
         rows = {row \in ActiveRows : row.agent = u /\ row.date \in dates},
         \A row \in rows : row.team \in {openers[u].team, Company},
         NEW viewer \in ViewersOf(u)
  PROVE  /\ AgentFigures(viewer, dates)[u] = Totals(rows)
         /\ FlagFigures(viewer, u, dates) = Totals(rows)
<1>1. u \in Users /\ openers[u].active /\ openers[u].team \in openTeams
  BY DEF Mapped
<1>2. \/ viewer.role = "admin"
      \/ viewer.role = "agent" /\ viewer.user = u
      \/ viewer.role = "manager" /\ viewer.teams = {openers[u].team} /\ u \in CurrentAgents(viewer)
  BY <1>1 DEF ViewersOf, Admin, Agent, Manager, CurrentAgents
<1>3. \A row \in rows : Sees(viewer, row)
  BY <1>2 DEF Sees
<1>4. {row \in RowsOf(viewer, dates) : row.agent = u} = rows
  BY <1>3 DEF RowsOf
<1>5. u \in DOMAIN AgentFigures(viewer, dates)
  BY <1>1, <1>2 DEF AgentFigures
<1>6. AgentFigures(viewer, dates)[u] = Totals({row \in RowsOf(viewer, dates) : row.agent = u})
  BY <1>5 DEF AgentFigures
<1>7. u \in ScopedActiveAgents(viewer)
  BY <1>1, <1>2 DEF ScopedActiveAgents, InScope
<1>8. {row \in ActiveRows : row.agent = u /\ u \in ScopedActiveAgents(viewer) /\ row.date \in dates} = rows
  BY <1>7
<1>. QED  BY <1>4, <1>6, <1>8 DEF FlagFigures

\* Whatever agents, teams, dates and files there are: what the dashboards show
\* sums up, for everyone who looks.
THEOREM FiguresAddUp == MetricSpec => []MetricsAddUp
<1>1. MetricInv => MetricsAddUp
  <2>. SUFFICES ASSUME MetricInv, NEW dates \in SUBSET Dates \ {{}}
                PROVE  MetricsAddUp!2!(dates)
    BY DEF MetricsAddUp
  <2>1. \A viewer \in {Admin} \cup {Manager(t) : t \in openTeams} \cup {Agent(u) : u \in Users} :
          LET totals == DashboardTotals(viewer, dates)
          IN  /\ SumsUp(AgentFigures(viewer, dates), totals)
              /\ SumsUp(DailyFigures(viewer, dates), totals)
              /\ HourlyCalls(viewer, dates) = totals.calls \/ HourlyDetailUnavailable(viewer, dates)
    BY DashboardSumsUp
  <2>2. ASSUME NEW u \in Mapped
        PROVE  LET rows == {row \in ActiveRows : row.agent = u /\ row.date \in dates}
               IN  (\A row \in rows : row.team \in {openers[u].team, Company}) =>
                     \A viewer \in ViewersOf(u) :
                       /\ AgentFigures(viewer, dates)[u] = Totals(rows)
                       /\ FlagFigures(viewer, u, dates) = Totals(rows)
    BY AgentsAgree
  <2>. QED  BY <2>1, <2>2, ManagersSumUp
<1>. QED  BY <1>1, MetricInvInit, MetricInvStep, PTL DEF MetricSpec

-----------------------------------------------------------------------------
(* The preview of a dialer file *)

\* Positions of the rows among P, in a file.
At(file, P) == {i \in DOMAIN file : file[i] \in P}

OfClass(c) == At(csv, {row \in CsvRows : Classified(row) = c})

AgentCounts == [csv : Nat, valid : Nat, invalid : Nat, calls : Nat]

\* What the preview counts, and what the stored version has of the rows.
PreviewInv ==
  /\ upload \in {"none", "reading", "ready_to_publish", "validation_failed"}
  /\ owners \in [DialerNames -> SUBSET Users]
  /\ admin \in BOOLEAN
  /\ csv \in Seq(CsvRows)
  /\ upload = "none" => csv = <<>>
  /\ classes = [c \in Classes |-> Cardinality(OfClass(c))]
  /\ agents \in [DialerNames -> AgentCounts]
  /\ \A n \in DialerNames :
       /\ agents[n].csv = Cardinality(RowsNamed(n))
       /\ agents[n].valid = Cardinality(RowsNamed(n) \ OfClass("invalid"))
       /\ agents[n].invalid = Cardinality(RowsNamed(n) \cap OfClass("invalid"))
  /\ Processed =>
       /\ stagedCalls = CallsOf(Importable)
       /\ metrics = {MetricOf(i) : i \in Stored}
       /\ upload = "ready_to_publish" <=> Publishable

\* A further row is at the end of the file, where no row was.
LEMMA AtAppended ==
  ASSUME NEW R, NEW file \in Seq(R), NEW row \in R, NEW P
  PROVE  /\ IsFiniteSet(At(file, P)) /\ Cardinality(At(file, P)) \in Nat
         /\ At(Append(file, row), P) = At(file, P) \cup (IF row \in P THEN {Len(file) + 1} ELSE {})
         /\ Cardinality(At(Append(file, row), P)) = Cardinality(At(file, P)) + (IF row \in P THEN 1 ELSE 0)
<1>1. DOMAIN file = 1..Len(file) /\ Len(file) \in Nat
  OBVIOUS
<1>2. IsFiniteSet(At(file, P)) /\ Cardinality(At(file, P)) \in Nat
  <2>1. IsFiniteSet(1..Len(file))
    BY <1>1, FS_Interval
  <2>. QED  BY <1>1, <2>1, FS_Subset, FS_CardinalityType DEF At
<1>3. DOMAIN Append(file, row) = 1..(Len(file) + 1)
  OBVIOUS
<1>4. \A i \in 1..(Len(file) + 1) : Append(file, row)[i] = IF i \in 1..Len(file) THEN file[i] ELSE row
  OBVIOUS
<1>5. At(Append(file, row), P) = At(file, P) \cup (IF row \in P THEN {Len(file) + 1} ELSE {})
  BY <1>1, <1>3, <1>4 DEF At
<1>6. Len(file) + 1 \notin At(file, P)
  BY <1>1 DEF At
<1>7. Cardinality(At(file, P) \cup {Len(file) + 1}) = Cardinality(At(file, P)) + 1
  BY <1>2, <1>6, FS_AddElement
<1>8. CASE row \in P
  BY <1>2, <1>5, <1>7, <1>8
<1>9. CASE row \notin P
  BY <1>2, <1>5, <1>9
<1>. QED  BY <1>8, <1>9

LEMMA ClassOf ==
  ASSUME NEW row
  PROVE  Classified(row) \in Classes
BY DEF Classified, Classes

LEMMA PreviewInvInit == PreviewInit => PreviewInv
<1>. SUFFICES ASSUME PreviewInit PROVE PreviewInv
  OBVIOUS
<1>1. DOMAIN csv = {}
  BY DEF PreviewInit
<1>2. \A n \in DialerNames : RowsNamed(n) = {}
  BY <1>1 DEF RowsNamed
<1>3. \A c \in Classes : OfClass(c) = {}
  BY <1>1 DEF OfClass, At
<1>4. Cardinality({}) = 0
  BY FS_EmptySet
<1>5. classes = [c \in Classes |-> Cardinality(OfClass(c))]
  BY <1>3, <1>4 DEF PreviewInit
<1>6. \A n \in DialerNames :
        /\ agents[n].csv = Cardinality(RowsNamed(n))
        /\ agents[n].valid = Cardinality(RowsNamed(n) \ OfClass("invalid"))
        /\ agents[n].invalid = Cardinality(RowsNamed(n) \cap OfClass("invalid"))
  BY <1>2, <1>4 DEF PreviewInit, NoAgent
<1>7. agents \in [DialerNames -> AgentCounts]
  BY DEF PreviewInit, NoAgent, AgentCounts
<1>8. ~Processed
  BY DEF PreviewInit, Processed
<1>9. /\ upload \in {"none", "reading", "ready_to_publish", "validation_failed"}
      /\ owners \in [DialerNames -> SUBSET Users]
      /\ admin \in BOOLEAN
      /\ csv = <<>>
  BY DEF PreviewInit
<1>10. csv \in Seq(CsvRows)
  <2>1. <<>> \in Seq(CsvRows)
    OBVIOUS
  <2>. QED  BY <1>9, <2>1
<1>. QED  BY <1>5, <1>6, <1>7, <1>8, <1>9, <1>10 DEF PreviewInv

LEMMA PreviewInvNext == PreviewInv /\ [PreviewNext]_previewVars => PreviewInv'
<1>. SUFFICES ASSUME PreviewInv, [PreviewNext]_previewVars PROVE PreviewInv'
  OBVIOUS
<1>1. ASSUME NEW mapping \in [DialerNames -> SUBSET Users], NEW isAdmin \in BOOLEAN,
             BeginPreview(mapping, isAdmin)
      PROVE  PreviewInv'
  <2>1. csv = <<>> /\ csv' = <<>> /\ DOMAIN csv = {} /\ DOMAIN csv' = {}
    BY <1>1 DEF PreviewInv, BeginPreview
  <2>2. \A n \in DialerNames : RowsNamed(n) = {} /\ RowsNamed(n)' = {}
    BY <2>1 DEF RowsNamed
  <2>3. \A c \in Classes : OfClass(c) = {} /\ OfClass(c)' = {}
    BY <2>1 DEF OfClass, At
  <2>4. classes' = [c \in Classes |-> Cardinality(OfClass(c))']
    BY <1>1, <2>3 DEF PreviewInv, BeginPreview
  <2>5. \A n \in DialerNames :
          /\ agents'[n].csv = Cardinality(RowsNamed(n)')
          /\ agents'[n].valid = Cardinality(RowsNamed(n)' \ OfClass("invalid")')
          /\ agents'[n].invalid = Cardinality(RowsNamed(n)' \cap OfClass("invalid")')
    <3>1. "invalid" \in Classes
      BY DEF Classes
    <3>. QED  BY <1>1, <2>2, <2>3, <3>1 DEF PreviewInv, BeginPreview
  <2>6. ~Processed'
    BY <1>1 DEF BeginPreview, Processed
  <2>. QED  BY <1>1, <2>1, <2>4, <2>5, <2>6 DEF PreviewInv, BeginPreview
<1>2. ASSUME NEW row \in CsvRows, ReadRow(row)
      PROVE  PreviewInv'
  <2>. DEFINE P(c) == {x \in CsvRows : Classified(x) = c}
              N(n) == {x \in CsvRows : x.name = n}
              c0 == Classified(row)
  <2>1. csv \in Seq(CsvRows) /\ csv' = Append(csv, row) /\ csv' \in Seq(CsvRows)
    BY <1>2 DEF PreviewInv, ReadRow
  <2>2. \A x : Classified(x)' = Classified(x)
    BY <1>2 DEF ReadRow, Classified, Ambiguous, Unmapped
  <2>3. \A c : OfClass(c) = At(csv, P(c)) /\ OfClass(c)' = At(csv', P(c))
    BY <2>2 DEF OfClass, At
  <2>4. \A n : RowsNamed(n) = At(csv, N(n)) /\ RowsNamed(n)' = At(csv', N(n))
    BY <2>1 DEF RowsNamed, At
  <2>5. \A c : Cardinality(OfClass(c)') = Cardinality(OfClass(c)) + (IF c0 = c THEN 1 ELSE 0)
    <3>. SUFFICES ASSUME NEW c
                  PROVE Cardinality(OfClass(c)') = Cardinality(OfClass(c)) + (IF c0 = c THEN 1 ELSE 0)
      OBVIOUS
    <3>1. row \in P(c) <=> c0 = c
      OBVIOUS
    <3>2. Cardinality(At(Append(csv, row), P(c))) = Cardinality(At(csv, P(c))) + (IF row \in P(c) THEN 1 ELSE 0)
      <4>. HIDE DEF P
      <4>. QED  BY <2>1, AtAppended
    <3>. QED  BY <2>1, <2>3, <3>1, <3>2
  <2>6. c0 \in Classes /\ classes' = [classes EXCEPT ![c0] = @ + 1]
    BY <1>2, ClassOf DEF ReadRow
  <2>7. classes' = [c \in Classes |-> Cardinality(OfClass(c)')]
    <3>1. classes = [c \in Classes |-> Cardinality(OfClass(c))]
      BY DEF PreviewInv
    <3>2. \A c \in Classes : Cardinality(OfClass(c)) \in Nat
      <4>. HIDE DEF P
      <4>. QED  BY <2>1, <2>3, AtAppended
    <3>3. \A c \in Classes : classes'[c] = Cardinality(OfClass(c)')
      <4>. HIDE DEF c0
      <4>. QED  BY <2>5, <2>6, <3>1, <3>2
    <3>. HIDE DEF c0
    <3>. QED  BY <2>6, <3>1, <3>3
  <2>. DEFINE n0 == row.name
              a == agents[n0]
  <2>8. n0 \in DialerNames /\ row.calls \in Nat /\ a \in AgentCounts
    BY PreviewCalls DEF CsvRows, PreviewInv
  <2>9. agents' = [agents EXCEPT ![n0] = Counted(a, row)] /\ agents \in [DialerNames -> AgentCounts]
    BY <1>2 DEF ReadRow, PreviewInv
  <2>10. /\ Counted(a, row) \in AgentCounts
         /\ Counted(a, row).csv = a.csv + 1
         /\ Counted(a, row).valid = a.valid + (IF c0 = "invalid" THEN 0 ELSE 1)
         /\ Counted(a, row).invalid = a.invalid + (IF c0 = "invalid" THEN 1 ELSE 0)
    <3>0. a = [csv |-> a.csv, valid |-> a.valid, invalid |-> a.invalid, calls |-> a.calls]
      <4>. HIDE DEF a
      <4>. QED  BY <2>8 DEF AgentCounts
    <3>00. a.csv \in Nat /\ a.valid \in Nat /\ a.invalid \in Nat /\ a.calls \in Nat
      <4>. HIDE DEF a
      <4>. QED  BY <2>8 DEF AgentCounts
    <3>1. CASE c0 = "invalid"
      <4>1. Counted(a, row) = [a EXCEPT !.csv = @ + 1, !.invalid = @ + 1]
        BY <3>1 DEF Counted
      <4>2. Counted(a, row) = [csv |-> a.csv + 1, valid |-> a.valid, invalid |-> a.invalid + 1,
                               calls |-> a.calls]
        <5>. HIDE DEF a
        <5>. QED  BY <3>0, <4>1
      <4>. HIDE DEF a, n0, c0
      <4>. QED  BY <3>00, <3>1, <4>2 DEF AgentCounts
    <3>2. CASE c0 # "invalid"
      <4>1. Counted(a, row) = [a EXCEPT !.csv = @ + 1, !.valid = @ + 1, !.calls = @ + row.calls]
        BY <3>2 DEF Counted
      <4>2. Counted(a, row) = [csv |-> a.csv + 1, valid |-> a.valid + 1, invalid |-> a.invalid,
                               calls |-> a.calls + row.calls]
        <5>. HIDE DEF a
        <5>. QED  BY <3>0, <4>1
      <4>. HIDE DEF a, n0, c0
      <4>. QED  BY <2>8, <3>00, <3>2, <4>2 DEF AgentCounts
    <3>. QED  BY <3>1, <3>2
  <2>11. \A n \in DialerNames :
          /\ agents'[n].csv = Cardinality(RowsNamed(n)')
          /\ agents'[n].valid = Cardinality(RowsNamed(n)' \ OfClass("invalid")')
          /\ agents'[n].invalid = Cardinality(RowsNamed(n)' \cap OfClass("invalid")')
    <3>. SUFFICES ASSUME NEW n \in DialerNames
                  PROVE  /\ agents'[n].csv = Cardinality(RowsNamed(n)')
                         /\ agents'[n].valid = Cardinality(RowsNamed(n)' \ OfClass("invalid")')
                         /\ agents'[n].invalid = Cardinality(RowsNamed(n)' \cap OfClass("invalid")')
      OBVIOUS
    <3>. DEFINE I == P("invalid")
    <3>1. /\ RowsNamed(n) \ OfClass("invalid") = At(csv, N(n) \ I)
          /\ RowsNamed(n)' \ OfClass("invalid")' = At(csv', N(n) \ I)
          /\ RowsNamed(n) \cap OfClass("invalid") = At(csv, N(n) \cap I)
          /\ RowsNamed(n)' \cap OfClass("invalid")' = At(csv', N(n) \cap I)
      <4>. HIDE DEF N, P
      <4>. QED  BY <2>3, <2>4 DEF At
    <3>2. /\ row \in N(n) <=> n0 = n
          /\ row \in N(n) \ I <=> n0 = n /\ c0 # "invalid"
          /\ row \in N(n) \cap I <=> n0 = n /\ c0 = "invalid"
      OBVIOUS
    <3>3. \A Q : /\ Cardinality(At(csv', Q)) = Cardinality(At(csv, Q)) + (IF row \in Q THEN 1 ELSE 0)
                 /\ Cardinality(At(csv, Q)) \in Nat
      <4>. HIDE DEF P, N
      <4>. QED  BY <2>1, AtAppended
    <3>4. /\ agents[n].csv = Cardinality(At(csv, N(n)))
          /\ agents[n].valid = Cardinality(At(csv, N(n) \ I))
          /\ agents[n].invalid = Cardinality(At(csv, N(n) \cap I))
      <4>. HIDE DEF P, N
      <4>. QED  BY <2>4, <3>1 DEF PreviewInv
    <3>5. agents'[n] = IF n = n0 THEN Counted(a, row) ELSE agents[n]
      <4>. HIDE DEF n0
      <4>. QED  BY <2>9
    <3>6. /\ agents'[n].csv = Cardinality(At(csv', N(n)))
          /\ agents'[n].valid = Cardinality(At(csv', N(n) \ I))
          /\ agents'[n].invalid = Cardinality(At(csv', N(n) \cap I))
      <4>1. CASE n = n0
        <5>1. agents'[n] = Counted(a, row) /\ a = agents[n]
          BY <3>5, <4>1
        <5>. HIDE DEF P, N, n0, c0, a
        <5>. QED  BY <2>10, <3>2, <3>3, <3>4, <4>1, <5>1
      <4>2. CASE n # n0
        <5>. HIDE DEF P, N, n0, c0, a
        <5>. QED  BY <3>2, <3>3, <3>4, <3>5, <4>2
      <4>. QED  BY <4>1, <4>2
    <3>. HIDE DEF P, N
    <3>. QED  BY <2>4, <3>1, <3>6
  <2>12. agents' \in [DialerNames -> AgentCounts]
    <3>. HIDE DEF n0, a
    <3>. QED  BY <2>8, <2>9, <2>10
  <2>13. ~Processed' /\ upload' # "none"
    BY <1>2 DEF ReadRow, Processed
  <2>. HIDE DEF P, N, n0, a, c0
  <2>. QED  BY <1>2, <2>1, <2>7, <2>11, <2>12, <2>13 DEF PreviewInv, ReadRow
<1>3. ASSUME UNCHANGED <<csv, owners, admin, agents, classes>>
      PROVE  /\ \A c : OfClass(c)' = OfClass(c)
             /\ \A n : RowsNamed(n)' = RowsNamed(n)
             /\ Publishable' = Publishable
             /\ CallsOf(Importable)' = CallsOf(Importable)
             /\ {MetricOf(i) : i \in Stored}' = {MetricOf(i) : i \in Stored}
  <2>1. \A x : Classified(x)' = Classified(x)
    BY <1>3 DEF Classified, Ambiguous, Unmapped
  <2>2. Importable' = Importable
    BY <1>3, <2>1 DEF Importable
  <2>3. \A i : Owner(i)' = Owner(i)
    BY <1>3 DEF Owner
  <2>4. \A n : MappingStatus(n)' = MappingStatus(n) /\ Ambiguous(n)' = Ambiguous(n)
    BY <1>3 DEF MappingStatus, Ambiguous, Unmapped
  <2>5. CallsOf(Importable)' = CallsOf(Importable)
    BY <1>3, <2>2 DEF CallsOf
  <2>6. \A i, j : SameKey(i, j)' = SameKey(i, j)
    BY <1>3, <2>3 DEF SameKey
  <2>7. Stored' = Stored
    BY <2>2, <2>6 DEF Stored
  <2>8. \A i : MetricOf(i)' = MetricOf(i)
    BY <1>3, <2>3 DEF MetricOf
  <2>9. DuplicateRows' = DuplicateRows /\ InvalidMappedRows' = InvalidMappedRows
    BY <1>3, <2>4 DEF DuplicateRows, InvalidMappedRows
  <2>10. Publishable' = Publishable
    BY <1>3, <2>4, <2>9 DEF Publishable
  <2>11. \A c : OfClass(c)' = OfClass(c)
    BY <1>3, <2>1 DEF OfClass, At
  <2>12. \A n : RowsNamed(n)' = RowsNamed(n)
    BY <1>3 DEF RowsNamed
  <2>. QED  BY <2>5, <2>7, <2>8, <2>10, <2>11, <2>12
<1>4. ASSUME PersistUpload
      PROVE  PreviewInv'
  <2>1. UNCHANGED <<csv, owners, admin, agents, classes>>
    BY <1>4 DEF PersistUpload
  <2>2. upload' = (IF Publishable THEN "ready_to_publish" ELSE "validation_failed")
    BY <1>4 DEF PersistUpload
  <2>3. stagedCalls' = CallsOf(Importable) /\ metrics' = {MetricOf(i) : i \in Stored}
    BY <1>4 DEF PersistUpload
  <2>4. stagedCalls' = CallsOf(Importable)' /\ metrics' = {MetricOf(i) : i \in Stored}'
    BY <1>3, <2>1, <2>3
  <2>5. upload' = "ready_to_publish" <=> Publishable'
    BY <1>3, <2>1, <2>2
  <2>6. upload' # "none" /\ upload' \in {"none", "reading", "ready_to_publish", "validation_failed"}
    BY <2>2
  <2>7. classes' = [c \in Classes |-> Cardinality(OfClass(c)')]
    BY <1>3, <2>1 DEF PreviewInv
  <2>8. \A n \in DialerNames :
          /\ agents'[n].csv = Cardinality(RowsNamed(n)')
          /\ agents'[n].valid = Cardinality(RowsNamed(n)' \ OfClass("invalid")')
          /\ agents'[n].invalid = Cardinality(RowsNamed(n)' \cap OfClass("invalid")')
    BY <1>3, <2>1 DEF PreviewInv
  <2>. QED  BY <2>1, <2>4, <2>5, <2>6, <2>7, <2>8 DEF PreviewInv
<1>5. ASSUME UNCHANGED previewVars
      PROVE  PreviewInv'
  <2>1. UNCHANGED <<csv, owners, admin, agents, classes, upload, metrics, stagedCalls>>
    BY <1>5 DEF previewVars
  <2>2. Processed' = Processed
    BY <2>1 DEF Processed
  <2>3. classes' = [c \in Classes |-> Cardinality(OfClass(c)')]
    BY <1>3, <2>1 DEF PreviewInv
  <2>4. \A n \in DialerNames :
          /\ agents'[n].csv = Cardinality(RowsNamed(n)')
          /\ agents'[n].valid = Cardinality(RowsNamed(n)' \ OfClass("invalid")')
          /\ agents'[n].invalid = Cardinality(RowsNamed(n)' \cap OfClass("invalid")')
    BY <1>3, <2>1 DEF PreviewInv
  <2>5. ASSUME Processed'
        PROVE  /\ stagedCalls' = CallsOf(Importable)'
               /\ metrics' = {MetricOf(i) : i \in Stored}'
               /\ upload' = "ready_to_publish" <=> Publishable'
    <3>1. /\ stagedCalls = CallsOf(Importable)
          /\ metrics = {MetricOf(i) : i \in Stored}
          /\ upload = "ready_to_publish" <=> Publishable
      BY <2>2, <2>5 DEF PreviewInv
    <3>. QED  BY <1>3, <2>1, <3>1
  <2>. QED  BY <2>1, <2>3, <2>4, <2>5 DEF PreviewInv
<1>. QED  BY <1>1, <1>2, <1>4, <1>5 DEF PreviewNext

\* The rows of the file, and the sets of them that are counted.
LEMMA FileRows ==
  ASSUME PreviewInv
  PROVE  /\ IsFiniteSet(DOMAIN csv) /\ Cardinality(DOMAIN csv) = Len(csv) /\ Len(csv) \in Nat
         /\ \A i \in DOMAIN csv : /\ csv[i].name \in DialerNames
                                  /\ csv[i].calls \in Nat /\ csv[i].bad \in BOOLEAN
                                  /\ Classified(csv[i]) \in Classes
         /\ \A c : OfClass(c) = {i \in DOMAIN csv : Classified(csv[i]) = c}
         /\ Importable = OfClass("importable")
         /\ \A c \in Classes : classes[c] = Cardinality(OfClass(c))
<1>1. csv \in Seq(CsvRows) /\ Len(csv) \in Nat /\ DOMAIN csv = 1..Len(csv)
  BY DEF PreviewInv
<1>2. IsFiniteSet(1..Len(csv)) /\ Cardinality(1..Len(csv)) = Len(csv)
  BY <1>1, FS_Interval
<1>3. \A i \in DOMAIN csv : csv[i] \in CsvRows
  BY <1>1
<1>4. \A i \in DOMAIN csv : /\ csv[i].name \in DialerNames
                            /\ csv[i].calls \in Nat /\ csv[i].bad \in BOOLEAN
  BY <1>3, PreviewCalls DEF CsvRows
<1>5. \A c : OfClass(c) = {i \in DOMAIN csv : Classified(csv[i]) = c}
  BY <1>3 DEF OfClass, At
<1>6. \A c \in Classes : classes[c] = Cardinality(OfClass(c))
  BY DEF PreviewInv
<1>7. Importable = OfClass("importable")
  BY <1>5 DEF Importable
<1>. QED  BY <1>1, <1>2, <1>4, <1>5, <1>6, <1>7, ClassOf

LEMMA SomeOrNone ==
  ASSUME NEW S, IsFiniteSet(S)
  PROVE  /\ Cardinality(S) \in Nat
         /\ Cardinality(S) > 0 <=> S # {}
         /\ Cardinality(S) = 0 <=> S = {}
BY FS_CardinalityType, FS_EmptySet

\* The names of the file are those of its rows.
LEMMA NamesInFile ==
  ASSUME PreviewInv
  PROVE  /\ \A n \in DialerNames : n \in InFile <=> RowsNamed(n) # {}
         /\ \A i \in DOMAIN csv : csv[i].name \in InFile /\ i \in RowsNamed(csv[i].name)
         /\ \A n \in DialerNames : agents[n].invalid > 0 <=> RowsNamed(n) \cap OfClass("invalid") # {}
         /\ IsFiniteSet(InFile)
<1>1. \A n \in DialerNames : IsFiniteSet(RowsNamed(n)) /\ IsFiniteSet(RowsNamed(n) \cap OfClass("invalid"))
  BY FileRows, FS_Subset DEF RowsNamed
<1>2. \A n \in DialerNames : agents[n].csv > 0 <=> RowsNamed(n) # {}
  BY <1>1, SomeOrNone DEF PreviewInv
<1>3. \A n \in DialerNames : agents[n].invalid > 0 <=> RowsNamed(n) \cap OfClass("invalid") # {}
  BY <1>1, SomeOrNone DEF PreviewInv
<1>4. \A i \in DOMAIN csv : i \in RowsNamed(csv[i].name) /\ csv[i].name \in DialerNames
  BY FileRows DEF RowsNamed
<1>5. IsFiniteSet(InFile)
  BY FiniteDirectory, FS_Subset DEF InFile
<1>. QED  BY <1>2, <1>3, <1>4, <1>5 DEF InFile

\* Numbers of three parts.
LEMMA CountThree ==
  ASSUME NEW S, IsFiniteSet(S), NEW A, NEW B, NEW C, S = A \cup B \cup C,
         A \cap B = {}, A \cap C = {}, B \cap C = {}
  PROVE  /\ Cardinality(S) = Cardinality(A) + Cardinality(B) + Cardinality(C)
         /\ Cardinality(A) \in Nat /\ Cardinality(B) \in Nat /\ Cardinality(C) \in Nat
<1>1. /\ Cardinality(S) = Cardinality(A \cup B) + Cardinality(C)
      /\ Cardinality(A \cup B) \in Nat /\ Cardinality(C) \in Nat
  <2>1. S = (A \cup B) \cup C /\ (A \cup B) \cap C = {}
    OBVIOUS
  <2>. QED  BY <2>1, CountTwo
<1>2. /\ Cardinality(A \cup B) = Cardinality(A) + Cardinality(B)
      /\ Cardinality(A) \in Nat /\ Cardinality(B) \in Nat
  <2>1. IsFiniteSet(A \cup B)
    BY FS_Subset
  <2>. QED  BY <2>1, CountTwo
<1>. QED  BY <1>1, <1>2

\* Rows are counted once in the classes and once with their agents.
LEMMA RowsAreAccounted == PreviewInv => RowsAccounted
<1>. SUFFICES ASSUME PreviewInv PROVE RowsAccounted
  OBVIOUS
<1>. DEFINE S == DOMAIN csv
            bad == OfClass("invalid")
            name == [i \in S |-> csv[i].name]
<1>1. IsFiniteSet(S) /\ IsFiniteSet(bad) /\ IsFiniteSet(S \ bad) /\ bad \in SUBSET S
  BY FileRows, FS_Subset
<1>2. \A i \in S : name[i] \in DialerNames
  BY FileRows
<1>3. \A n \in DialerNames : RowsNamed(n) = {i \in S : name[i] = n}
  BY DEF RowsNamed
<1>4. ASSUME NEW T \in SUBSET S
      PROVE  Cardinality(T) = Total([n \in DialerNames |-> Cardinality(RowsNamed(n) \cap T)], DialerNames)
  <2>1. IsFiniteSet(T) /\ \A i \in T : name[i] \in DialerNames
    BY <1>1, <1>2, FS_Subset
  <2>2. Cardinality(T) = Total([n \in DialerNames |-> Cardinality({i \in T : name[i] = n})], DialerNames)
    <3>. HIDE DEF name, S
    <3>. QED  BY <2>1, FiniteDirectory, CountByParts
  <2>3. \A n \in DialerNames : RowsNamed(n) \cap T = {i \in T : name[i] = n}
    BY <1>3
  <2>4. [n \in DialerNames |-> Cardinality({i \in T : name[i] = n})]
          = [n \in DialerNames |-> Cardinality(RowsNamed(n) \cap T)]
    <3>. HIDE DEF name, S
    <3>. QED  BY <2>3
  <2>. QED  BY <2>2, <2>4
<1>. DEFINE all == [n \in DialerNames |-> agents[n].csv]
            valid == [n \in DialerNames |-> agents[n].valid]
            invalid == [n \in DialerNames |-> agents[n].invalid]
<1>5. Total(all, DialerNames) = Len(csv)
  <2>1. all = [n \in DialerNames |-> Cardinality(RowsNamed(n) \cap S)]
    <3>1. \A n \in DialerNames : agents[n].csv = Cardinality(RowsNamed(n) \cap S)
      <4>1. \A n \in DialerNames : RowsNamed(n) \cap S = RowsNamed(n)
        BY DEF RowsNamed
      <4>. HIDE DEF S
      <4>. QED  BY <4>1 DEF PreviewInv
    <3>. HIDE DEF S
    <3>. QED  BY <3>1
  <2>2. Cardinality(S) = Total(all, DialerNames)
    <3>. HIDE DEF all, S
    <3>. QED  BY <1>4, <2>1
  <2>. HIDE DEF all
  <2>. QED  BY <2>2, FileRows
<1>6. Total(invalid, DialerNames) = classes["invalid"]
  <2>1. invalid = [n \in DialerNames |-> Cardinality(RowsNamed(n) \cap bad)]
    BY DEF PreviewInv
  <2>2. Cardinality(bad) = Total(invalid, DialerNames)
    <3>. HIDE DEF invalid, bad, S
    <3>. QED  BY <1>1, <1>4, <2>1
  <2>3. "invalid" \in Classes
    BY DEF Classes
  <2>. HIDE DEF invalid
  <2>. QED  BY <2>2, <2>3, FileRows
<1>7. Total(valid, DialerNames) = classes["importable"] + classes["unknown"] + classes["out_of_scope"]
  <2>1. \A n \in DialerNames : agents[n].valid = Cardinality(RowsNamed(n) \cap (S \ bad))
    <3>1. \A n \in DialerNames : RowsNamed(n) \cap (S \ bad) = RowsNamed(n) \ bad
      BY DEF RowsNamed
    <3>. HIDE DEF S
    <3>. QED  BY <3>1 DEF PreviewInv
  <2>2. valid = [n \in DialerNames |-> Cardinality(RowsNamed(n) \cap (S \ bad))]
    <3>. HIDE DEF S, bad
    <3>. QED  BY <2>1
  <2>3. Cardinality(S \ bad) = Total(valid, DialerNames)
    <3>1. S \ bad \in SUBSET S
      OBVIOUS
    <3>. HIDE DEF valid, bad, S
    <3>. QED  BY <1>4, <2>2, <3>1
  <2>. DEFINE A == OfClass("importable")
              B == OfClass("unknown")
              C == OfClass("out_of_scope")
              Good == S \ bad
  <2>4. Good = A \cup B \cup C /\ A \cap B = {} /\ A \cap C = {} /\ B \cap C = {} /\ IsFiniteSet(Good)
    BY <1>1, FileRows DEF Classes
  <2>5. Cardinality(Good) = Cardinality(A) + Cardinality(B) + Cardinality(C)
    <3>. HIDE DEF Good, A, B, C
    <3>. QED  BY <2>4, CountThree
  <2>6. {"importable", "unknown", "out_of_scope"} \subseteq Classes
    BY DEF Classes
  <2>. HIDE DEF valid
  <2>. QED  BY <2>3, <2>5, <2>6, FileRows
<1>. HIDE DEF all, valid, invalid
<1>. QED  BY <1>5, <1>6, <1>7 DEF RowsAccounted, all, valid, invalid

-----------------------------------------------------------------------------
(* The page of a processed upload *)

\* Status of the rows of a name, and of the name.
LEMMA RowsAndNames ==
  ASSUME NEW i \in DOMAIN csv
  PROVE  /\ i \in Importable => MappingStatus(csv[i].name) = "mapped"
         /\ Classified(csv[i]) = "unknown" => MappingStatus(csv[i].name) = "unmapped"
         /\ Classified(csv[i]) = "out_of_scope" => MappingStatus(csv[i].name) = "out_of_scope"
         /\ MappingStatus(csv[i].name) = "mapped" => Classified(csv[i]) \in {"importable", "invalid"}
         /\ MappingStatus(csv[i].name) = "invalid_mapping" => Classified(csv[i]) = "invalid"
BY DEF Importable, Classified, MappingStatus

\* Rows by what becomes of them.
LEMMA StatusesMean ==
  ASSUME PreviewInv, NEW current
  PROVE  /\ \A c \in {"invalid", "unknown", "out_of_scope"} : WithStatus({c}, current) = OfClass(c)
         /\ WithStatus({"new", "changed", "unchanged"}, current) = Importable
         /\ Importable = WithStatus({"new"}, current) \cup WithStatus({"changed"}, current)
                           \cup WithStatus({"unchanged"}, current)
         /\ WithStatus({"new"}, current) \cap WithStatus({"changed"}, current) = {}
         /\ WithStatus({"new"}, current) \cap WithStatus({"unchanged"}, current) = {}
         /\ WithStatus({"changed"}, current) \cap WithStatus({"unchanged"}, current) = {}
<1>1. \A i \in DOMAIN csv :
        IF i \in Importable THEN RowStatus(i, current) \in {"new", "changed", "unchanged"}
        ELSE RowStatus(i, current) = Classified(csv[i])
  BY DEF RowStatus, Importable
<1>2. /\ Importable \in SUBSET DOMAIN csv
      /\ \A i \in DOMAIN csv : i \in Importable <=> Classified(csv[i]) = "importable"
  BY DEF Importable
<1>3. \A i \in DOMAIN csv : Classified(csv[i]) \notin {"new", "changed", "unchanged"}
  BY FileRows DEF Classes
<1>4. \A c \in {"invalid", "unknown", "out_of_scope"} : WithStatus({c}, current) = OfClass(c)
  BY <1>1, <1>2, FileRows DEF WithStatus
<1>5. WithStatus({"new", "changed", "unchanged"}, current) = Importable
  BY <1>1, <1>2, <1>3 DEF WithStatus
<1>. QED  BY <1>4, <1>5 DEF WithStatus

\* An importable row has one owner.
LEMMA Owned ==
  ASSUME PreviewInv, NEW i \in Importable
  PROVE  Owner(i) \in Users /\ owners[csv[i].name] = {Owner(i)}
<1>. DEFINE some == owners[csv[i].name]
<1>1. i \in DOMAIN csv /\ csv[i].name \in DialerNames
  BY FileRows DEF Importable
<1>2. some \in SUBSET Users /\ IsFiniteSet(some)
  BY <1>1, FiniteDirectory, FS_Subset DEF PreviewInv
<1>3. some # {} /\ ~(Cardinality(some) > 1)
  BY DEF Importable, Classified, Ambiguous, Unmapped
<1>4. Cardinality(some) = 1
  <2>. HIDE DEF some
  <2>. QED  BY <1>2, <1>3, SomeOrNone
<1>5. \E u : some = {u}
  <2>. HIDE DEF some
  <2>. QED  BY <1>2, <1>4, FS_Singleton
<1>6. PICK u \in Users : some = {u}
  BY <1>2, <1>5
<1>. QED  BY <1>6 DEF Owner

LEMMA Figured ==
  ASSUME PreviewInv, NEW current
  PROVE  LET file == FileSummary(current) IN
         /\ file.totalCsvRows = file.mappedRowsToImport + SkippedRows(current)
         /\ file.mappedValidRows = Cardinality(Importable)
         /\ file.mappedRowsToImport \in Nat
         /\ file.mappedRowsToImport = 0 <=> Importable = WithStatus({"unchanged"}, current)
         /\ ExcludedRows(current) = Cardinality(DOMAIN csv \ Importable)
<1>. DEFINE file == FileSummary(current)
            S == DOMAIN csv
            I == Importable
            new == WithStatus({"new"}, current)
            changed == WithStatus({"changed"}, current)
            same == WithStatus({"unchanged"}, current)
            inv == OfClass("invalid")
            unk == OfClass("unknown")
            oos == OfClass("out_of_scope")
<1>1. /\ file.totalCsvRows = Len(csv)
      /\ file.mappedRowsToImport = Cardinality(new) + Cardinality(changed)
      /\ file.mappedValidRows = Cardinality(new) + Cardinality(changed) + Cardinality(same)
      /\ file.unchangedRowsToSkip = Cardinality(same)
      /\ file.unresolvedRowsToSkip = classes["unknown"] + classes["out_of_scope"]
      /\ file.invalidRows = classes["invalid"]
  BY DEF FileSummary
<1>2. IsFiniteSet(S) /\ Cardinality(S) = Len(csv) /\ I \in SUBSET S /\ IsFiniteSet(I) /\ IsFiniteSet(S \ I)
  BY FileRows, FS_Subset DEF Importable
<1>3. /\ classes["unknown"] = Cardinality(unk)
      /\ classes["out_of_scope"] = Cardinality(oos)
      /\ classes["invalid"] = Cardinality(inv)
  BY FileRows DEF Classes
<1>4. /\ I = new \cup changed \cup same
      /\ new \cap changed = {} /\ new \cap same = {} /\ changed \cap same = {}
  BY StatusesMean
<1>5. /\ S \ I = unk \cup oos \cup inv
      /\ unk \cap oos = {} /\ unk \cap inv = {} /\ oos \cap inv = {}
  BY FileRows DEF Classes, Importable
<1>. HIDE DEF S, I, new, changed, same, inv, unk, oos, file
<1>6. /\ Cardinality(I) = Cardinality(new) + Cardinality(changed) + Cardinality(same)
      /\ Cardinality(new) \in Nat /\ Cardinality(changed) \in Nat /\ Cardinality(same) \in Nat
  BY <1>2, <1>4, CountThree
<1>. DEFINE rest == S \ I
<1>7. /\ Cardinality(rest) = Cardinality(unk) + Cardinality(oos) + Cardinality(inv)
      /\ Cardinality(unk) \in Nat /\ Cardinality(oos) \in Nat /\ Cardinality(inv) \in Nat
  <2>1. /\ IsFiniteSet(rest) /\ rest = unk \cup oos \cup inv
        /\ unk \cap oos = {} /\ unk \cap inv = {} /\ oos \cap inv = {}
    BY <1>2, <1>5
  <2>. HIDE DEF rest
  <2>. QED  BY <2>1, CountThree
<1>8. Cardinality(S) = Cardinality(I) + Cardinality(rest)
  <2>1. S = I \cup rest /\ I \cap rest = {}
    BY <1>2
  <2>. HIDE DEF rest
  <2>. QED  BY <1>2, <2>1, CountTwo
<1>9. /\ SkippedRows(current) = file.unresolvedRowsToSkip + file.unchangedRowsToSkip + file.invalidRows
      /\ ExcludedRows(current) = file.unresolvedRowsToSkip + file.invalidRows
  BY DEF SkippedRows, ExcludedRows, file
<1>10. Cardinality(new) + Cardinality(changed) = 0 <=> I = same
  <2>1. IsFiniteSet(new) /\ IsFiniteSet(changed)
    BY <1>2, <1>4, FS_Subset
  <2>2. Cardinality(new) = 0 <=> new = {}
    BY <2>1, SomeOrNone
  <2>3. Cardinality(changed) = 0 <=> changed = {}
    BY <2>1, SomeOrNone
  <2>4. Cardinality(new) + Cardinality(changed) = 0 <=> new = {} /\ changed = {}
    BY <1>6, <2>2, <2>3
  <2>5. I = same <=> new = {} /\ changed = {}
    BY <1>4
  <2>. QED  BY <2>4, <2>5
<1>11. /\ file.totalCsvRows = file.mappedRowsToImport + SkippedRows(current)
       /\ file.mappedValidRows = Cardinality(I)
       /\ file.mappedRowsToImport \in Nat
       /\ file.mappedRowsToImport = 0 <=> I = same
       /\ ExcludedRows(current) = Cardinality(rest)
  <2>. HIDE DEF rest
  <2>. QED  BY <1>1, <1>2, <1>3, <1>6, <1>7, <1>8, <1>9, <1>10
<1>. QED  BY <1>11 DEF S, I, same, file

\* The versions that a preview is compared with.
IsVersion(current) ==
  /\ current \in SUBSET [user : Users, hour : Hours, calls : Calls]
  /\ IsFiniteSet(current)
  /\ \A x, y \in current : x.user = y.user /\ x.hour = y.hour => x = y

\* Figures point at somebody, and say how many are pointed out.
LEMMA Pointed ==
  ASSUME PreviewInv, NEW current
  PROVE  \A f \in Figures(current) : f[1] > 0 => PointedOut(f[2], current) # {}
<1>1. \A n \in InFile, status \in {"mapped", "unmapped", "out_of_scope"} :
        MappingStatus(n) = status => n \in PointedOut(status, current)
  BY DEF PointedOut
<1>2. \A n \in InFile : agents[n].invalid > 0 => n \in PointedOut("invalid_rows", current)
  BY DEF PointedOut
<1>3. \A i \in DOMAIN csv : csv[i].name \in InFile
  BY NamesInFile
<1>4. ASSUME FileSummary(current).mappedRowsToImport > 0
      PROVE  PointedOut("mapped", current) # {}
  <2>1. FileSummary(current).mappedRowsToImport # 0
    BY <1>4, Figured
  <2>2. Importable # WithStatus({"unchanged"}, current)
    BY <2>1, Figured
  <2>3. PICK i \in DOMAIN csv : i \in Importable
    BY <2>2, StatusesMean DEF Importable
  <2>. QED  BY <1>1, <1>3, <2>3, RowsAndNames
<1>5. ASSUME FileSummary(current).mappedAgents > 0
      PROVE  PointedOut("mapped", current) # {}
  <2>1. Cardinality({n \in InFile : MappingStatus(n) = "mapped"}) > 0
    BY <1>5 DEF FileSummary
  <2>2. IsFiniteSet({n \in InFile : MappingStatus(n) = "mapped"})
    BY NamesInFile, FS_Subset
  <2>3. {n \in InFile : MappingStatus(n) = "mapped"} # {}
    BY <2>1, <2>2, SomeOrNone
  <2>. QED  BY <1>1, <2>3
<1>6. \A c \in Classes : classes[c] > 0 => \E i \in DOMAIN csv : Classified(csv[i]) = c
  <2>. SUFFICES ASSUME NEW c \in Classes, classes[c] > 0
                PROVE  \E i \in DOMAIN csv : Classified(csv[i]) = c
    OBVIOUS
  <2>1. IsFiniteSet(OfClass(c)) /\ Cardinality(OfClass(c)) > 0
    BY FileRows, FS_Subset
  <2>2. OfClass(c) # {}
    BY <2>1, SomeOrNone
  <2>. QED  BY <2>2, FileRows
<1>7. {"unknown", "out_of_scope", "invalid"} \subseteq Classes
  BY DEF Classes
<1>8. classes["unknown"] > 0 => PointedOut("unmapped", current) # {}
  BY <1>1, <1>3, <1>6, <1>7, RowsAndNames
<1>9. classes["out_of_scope"] > 0 => PointedOut("out_of_scope", current) # {}
  BY <1>1, <1>3, <1>6, <1>7, RowsAndNames
<1>10. ASSUME classes["invalid"] > 0
       PROVE  PointedOut("invalid_rows", current) # {}
  <2>1. PICK i \in DOMAIN csv : Classified(csv[i]) = "invalid"
    BY <1>6, <1>7, <1>10
  <2>2. i \in RowsNamed(csv[i].name) \cap OfClass("invalid")
    BY <2>1, FileRows, NamesInFile
  <2>3. csv[i].name \in InFile /\ csv[i].name \in DialerNames
    BY <1>3, FileRows
  <2>4. agents[csv[i].name].invalid > 0
    BY <2>2, <2>3, NamesInFile
  <2>. QED  BY <1>2, <2>3, <2>4
<1>. DEFINE file == FileSummary(current)
<1>11. file.invalidRows = classes["invalid"]
  BY DEF FileSummary
<1>12. Figures(current) =
         {<<file.mappedRowsToImport, "mapped">>, <<file.mappedAgents, "mapped">>,
          <<classes["unknown"], "unmapped">>, <<classes["out_of_scope"], "out_of_scope">>,
          <<classes["invalid"], "invalid_rows">>}
  BY <1>11 DEF Figures
<1>. HIDE DEF file
<1>. SUFFICES ASSUME NEW f \in Figures(current), f[1] > 0
              PROVE  PointedOut(f[2], current) # {}
  OBVIOUS
<1>13. CASE f = <<file.mappedRowsToImport, "mapped">>
  BY <1>4, <1>13 DEF file
<1>14. CASE f = <<file.mappedAgents, "mapped">>
  BY <1>5, <1>14 DEF file
<1>15. CASE f = <<classes["unknown"], "unmapped">>
  BY <1>8, <1>15
<1>16. CASE f = <<classes["out_of_scope"], "out_of_scope">>
  BY <1>9, <1>16
<1>17. CASE f = <<classes["invalid"], "invalid_rows">>
  BY <1>10, <1>17
<1>. QED  BY <1>12, <1>13, <1>14, <1>15, <1>16, <1>17

LEMMA Summed ==
  ASSUME PreviewInv, NEW current, NEW n \in InFile
  PROVE  LET row == AgentSummary(n, current) IN
         /\ row.csvRowCount = row.validRowCount + row.invalid
         /\ row.included = (IF MappingStatus(n) = "mapped" THEN row.validRowCount ELSE 0)
<1>. DEFINE R == RowsNamed(n)
            bad == OfClass("invalid")
            row == AgentSummary(n, current)
<1>0. n \in DialerNames
  BY DEF InFile
<1>1. /\ row.csvRowCount = Cardinality(R) /\ row.validRowCount = Cardinality(R \ bad)
      /\ row.invalid = Cardinality(R \cap bad) /\ row.included = Cardinality(R \cap Importable)
  <2>1. /\ row.csvRowCount = agents[n].csv /\ row.validRowCount = agents[n].valid
        /\ row.invalid = Cardinality(R \cap WithStatus({"invalid"}, current))
        /\ row.included = Cardinality(R \cap WithStatus({"new", "changed", "unchanged"}, current))
    BY DEF AgentSummary
  <2>2. /\ WithStatus({"invalid"}, current) = bad
        /\ WithStatus({"new", "changed", "unchanged"}, current) = Importable
    BY StatusesMean
  <2>. HIDE DEF row, R, bad
  <2>. QED  BY <1>0, <2>1, <2>2 DEF PreviewInv, R, bad
<1>2. IsFiniteSet(R)
  BY FileRows, FS_Subset DEF RowsNamed
<1>3. Cardinality(R) = Cardinality(R \ bad) + Cardinality(R \cap bad)
  <2>1. R = (R \ bad) \cup (R \cap bad) /\ (R \ bad) \cap (R \cap bad) = {}
    OBVIOUS
  <2>. HIDE DEF R, bad
  <2>. QED  BY <1>2, <2>1, CountTwo
<1>4. R \cap Importable = IF MappingStatus(n) = "mapped" THEN R \ bad ELSE {}
  <2>1. \A i \in R : i \in DOMAIN csv /\ csv[i].name = n
    BY DEF RowsNamed
  <2>2. \A i \in R : /\ i \in Importable <=> Classified(csv[i]) = "importable"
                     /\ i \in bad <=> Classified(csv[i]) = "invalid"
                     /\ i \in Importable => MappingStatus(n) = "mapped"
                     /\ MappingStatus(n) = "mapped" => Classified(csv[i]) \in {"importable", "invalid"}
    <3>. HIDE DEF R
    <3>. QED  BY <2>1, FileRows, RowsAndNames
  <2>. HIDE DEF R, bad
  <2>. QED  BY <2>2
<1>5. row.included = IF MappingStatus(n) = "mapped" THEN Cardinality(R \ bad) ELSE 0
  <2>. HIDE DEF R, bad, row
  <2>. QED  BY <1>1, <1>4, FS_EmptySet
<1>. HIDE DEF R, bad, row
<1>. QED  BY <1>1, <1>3, <1>5 DEF row

\* Calls of rows and of metrics, and the agents that have them.
LEMMA Numbers ==
  ASSUME PreviewInv, NEW current, IsVersion(current)
  PROVE  /\ IsFiniteSet(MatchedAgents) /\ IsFiniteSet(AgentsBefore(current))
         /\ IsFiniteSet(Importable)
         /\ CallsOf(Importable) \in Nat /\ CallsIn(current) \in Nat
<1>1. IsFiniteSet(Importable)
  BY FileRows, FS_Subset
<1>2. IsFiniteSet(MatchedAgents)
  <2>. DEFINE f == [i \in Importable |-> Owner(i)]
  <2>1. MatchedAgents = {f[i] : i \in Importable}
    BY DEF MatchedAgents
  <2>. HIDE DEF f
  <2>. QED  BY <1>1, <2>1, ImageFinite
<1>3. IsFiniteSet(AgentsBefore(current))
  <2>. DEFINE f == [m \in current |-> m.user]
  <2>1. AgentsBefore(current) = {f[m] : m \in current}
    BY DEF AgentsBefore
  <2>. HIDE DEF f
  <2>. QED  BY <2>1, ImageFinite DEF IsVersion
<1>4. CallsOf(Importable) \in Nat
  <2>. DEFINE f == [i \in Importable |-> csv[i].calls]
  <2>1. \A i \in Importable : f[i] \in Nat
    BY FileRows DEF Importable
  <2>2. CallsOf(Importable) = Total(f, Importable)
    BY DEF CallsOf
  <2>. HIDE DEF f
  <2>. QED  BY <1>1, <2>1, <2>2, TotalNat
<1>5. CallsIn(current) \in Nat
  <2>. DEFINE f == [m \in current |-> m.calls]
  <2>1. \A m \in current : f[m] \in Nat
    BY PreviewCalls DEF IsVersion
  <2>2. CallsIn(current) = Total(f, current)
    BY DEF CallsIn
  <2>. HIDE DEF f
  <2>. QED  BY <2>1, <2>2, TotalNat DEF IsVersion
<1>. QED  BY <1>1, <1>2, <1>3, <1>4, <1>5

\* What is compared by agent adds up to what is compared in all.
LEMMA Compared ==
  ASSUME PreviewInv, NEW current, IsVersion(current)
  PROVE  LET c == Comparison(current)
             everyone == DOMAIN c.agents
         IN  /\ c.currentAgentCount + Cardinality(c.newAgents)
                  = c.matchedAgentCount + Cardinality(c.missingAgents)
             /\ Total([u \in everyone |-> c.agents[u].after], everyone) = c.after
             /\ Total([u \in everyone |-> c.agents[u].before], everyone) = c.before
<1>. DEFINE c == Comparison(current)
            old == AgentsBefore(current)
            new == MatchedAgents
            all == old \cup new
            before == [u \in all |-> Before(u, current)]
            after == [u \in all |-> After(u)]
<1>1. /\ c.currentAgentCount = Cardinality(old) /\ c.matchedAgentCount = Cardinality(new)
      /\ c.newAgents = new \ old /\ c.missingAgents = old \ new
      /\ c.before = CallsIn(current) /\ c.after = CallsOf(Importable)
      /\ c.agents = [u \in all |-> [before |-> Before(u, current), after |-> After(u)]]
  BY DEF Comparison
<1>2. IsFiniteSet(old) /\ IsFiniteSet(new) /\ IsFiniteSet(all)
  BY Numbers, FS_Union
<1>3. Cardinality(old) + Cardinality(new \ old) = Cardinality(new) + Cardinality(old \ new)
  <2>. HIDE DEF old, new
  <2>1. Cardinality(all) = Cardinality(old) + Cardinality(new \ old)
    <3>1. all = old \cup (new \ old) /\ old \cap (new \ old) = {}
      OBVIOUS
    <3>. HIDE DEF all
    <3>. QED  BY <1>2, <3>1, CountTwo
  <2>2. Cardinality(all) = Cardinality(new) + Cardinality(old \ new)
    <3>1. all = new \cup (old \ new) /\ new \cap (old \ new) = {}
      OBVIOUS
    <3>. HIDE DEF all
    <3>. QED  BY <1>2, <3>1, CountTwo
  <2>. QED  BY <2>1, <2>2
<1>4. /\ DOMAIN c.agents = all
      /\ [u \in all |-> c.agents[u].after] = after
      /\ [u \in all |-> c.agents[u].before] = before
  BY <1>1
<1>5. Total(after, all) = CallsOf(Importable)
  <2>. DEFINE calls == [i \in Importable |-> csv[i].calls]
              owner == [i \in Importable |-> Owner(i)]
              Of(u) == {i \in Importable : owner[i] = u}
  <2>1. \A i \in Importable : calls[i] \in Nat /\ owner[i] \in all
    BY FileRows DEF Importable, MatchedAgents
  <2>2. CallsOf(Importable) = Total(calls, Importable)
    BY DEF CallsOf
  <2>3. Total(calls, Importable) = Total([u \in all |-> Total(calls, Of(u))], all)
    <3>. HIDE DEF calls, owner, all
    <3>. QED  BY <1>2, <2>1, Numbers, TotalByParts
  <2>4. ASSUME NEW u \in all
        PROVE  Total(calls, Of(u)) = After(u)
    <3>. DEFINE mine == [i \in Of(u) |-> csv[i].calls]
    <3>1. Of(u) = {i \in Importable : Owner(i) = u}
      OBVIOUS
    <3>2. After(u) = Total(mine, Of(u))
      <4>1. After(u) = CallsOf(Of(u))
        <5>. HIDE DEF Of
        <5>. QED  BY <3>1 DEF After
      <4>. HIDE DEF Of
      <4>. QED  BY <4>1 DEF CallsOf
    <3>3. IsFiniteSet(Of(u)) /\ \A i \in Of(u) : calls[i] \in Nat /\ calls[i] = mine[i]
      <4>1. IsFiniteSet(Of(u)) /\ Of(u) \in SUBSET Importable
        BY Numbers, FS_Subset
      <4>2. \A i \in Of(u) : calls[i] \in Nat
        <5>. HIDE DEF calls, Of
        <5>. QED  BY <2>1, <4>1
      <4>. HIDE DEF Of
      <4>. QED  BY <4>1, <4>2
    <3>. HIDE DEF mine, calls, Of
    <3>. QED  BY <3>2, <3>3, TotalSame
  <2>5. [u \in all |-> Total(calls, Of(u))] = after
    <3>. HIDE DEF all, calls, Of
    <3>. QED  BY <2>4
  <2>. HIDE DEF after, all, calls, Of
  <2>. QED  BY <2>2, <2>3, <2>5
<1>6. Total(before, all) = CallsIn(current)
  <2>. DEFINE calls == [m \in current |-> m.calls]
              user == [m \in current |-> m.user]
              Of(u) == {m \in current : user[m] = u}
  <2>1. \A m \in current : calls[m] \in Nat /\ user[m] \in all
    BY PreviewCalls DEF IsVersion, AgentsBefore
  <2>2. CallsIn(current) = Total(calls, current)
    BY DEF CallsIn
  <2>3. Total(calls, current) = Total([u \in all |-> Total(calls, Of(u))], all)
    <3>1. IsFiniteSet(current)
      BY DEF IsVersion
    <3>. HIDE DEF calls, user, all
    <3>. QED  BY <1>2, <2>1, <3>1, TotalByParts
  <2>4. ASSUME NEW u \in all
        PROVE  Total(calls, Of(u)) = Before(u, current)
    <3>. DEFINE mine == [m \in Of(u) |-> m.calls]
    <3>1. Of(u) = {m \in current : m.user = u}
      OBVIOUS
    <3>2. Before(u, current) = Total(mine, Of(u))
      <4>1. Before(u, current) = CallsIn(Of(u))
        <5>. HIDE DEF Of
        <5>. QED  BY <3>1 DEF Before
      <4>. HIDE DEF Of
      <4>. QED  BY <4>1 DEF CallsIn
    <3>3. IsFiniteSet(Of(u)) /\ \A m \in Of(u) : calls[m] \in Nat /\ calls[m] = mine[m]
      <4>1. IsFiniteSet(Of(u)) /\ Of(u) \in SUBSET current
        BY FS_Subset DEF IsVersion
      <4>2. \A m \in Of(u) : calls[m] \in Nat
        <5>. HIDE DEF calls, Of
        <5>. QED  BY <2>1, <4>1
      <4>. HIDE DEF Of
      <4>. QED  BY <4>1, <4>2
    <3>. HIDE DEF mine, calls, Of
    <3>. QED  BY <3>2, <3>3, TotalSame
  <2>5. [u \in all |-> Total(calls, Of(u))] = before
    <3>. HIDE DEF all, calls, Of
    <3>. QED  BY <2>4
  <2>. HIDE DEF before, all, calls, Of
  <2>. QED  BY <2>2, <2>3, <2>5
<1>. HIDE DEF c, old, new, all, before, after
<1>7. /\ c.currentAgentCount + Cardinality(c.newAgents) = c.matchedAgentCount + Cardinality(c.missingAgents)
      /\ Total([u \in all |-> c.agents[u].after], all) = c.after
      /\ Total([u \in all |-> c.agents[u].before], all) = c.before
  BY <1>1, <1>3, <1>4, <1>5, <1>6
<1>. QED  BY <1>4, <1>7 DEF c

LEMMA PreviewDoesAddUp ==
  ASSUME PreviewInv, Processed, NEW current, IsVersion(current)
  PROVE  PreviewAddsUp(current)
<1>. DEFINE file == FileSummary(current)
            c == Comparison(current)
            everyone == DOMAIN c.agents
<1>1. file.totalCsvRows = file.mappedRowsToImport + SkippedRows(current)
      /\ file.mappedValidRows = Cardinality(Importable)
  BY Figured
<1>2. \A n \in InFile :
        /\ AgentSummary(n, current).csvRowCount
             = AgentSummary(n, current).validRowCount + AgentSummary(n, current).invalid
        /\ AgentSummary(n, current).included
             = (IF MappingStatus(n) = "mapped" THEN AgentSummary(n, current).validRowCount ELSE 0)
  BY Summed
<1>3. \A f \in Figures(current) : f[1] > 0 => PointedOut(f[2], current) # {}
  BY Pointed
<1>4. file.mappedAgents = Cardinality(PointedOut("mapped", current))
  <2>1. PointedOut("mapped", current) = {n \in InFile : MappingStatus(n) = "mapped"}
    BY DEF PointedOut
  <2>. QED  BY <2>1 DEF FileSummary
<1>5. \A n \in InFile : MappingStatus(n) \in {"mapped", "unmapped", "invalid_mapping", "out_of_scope"}
  BY DEF MappingStatus
<1>6. /\ PointedOut("excluded", current) = Filtered("all", "excluded", current)
      /\ PointedOut("invalid_rows", current) = Filtered("invalid_rows", "all", current)
      /\ Filtered("mapped", "included", current) = {n \in InFile : ListedIncluded(n, current)}
  <2>1. PointedOut("excluded", current) = Filtered("all", "excluded", current)
    BY <1>5 DEF PointedOut, Filtered
  <2>2. PointedOut("invalid_rows", current) = Filtered("invalid_rows", "all", current)
    BY <1>5 DEF PointedOut, Filtered
  <2>3. Filtered("mapped", "included", current) = {n \in InFile : ListedIncluded(n, current)}
    BY DEF Filtered, ListedIncluded, ImportStatus
  <2>. QED  BY <2>1, <2>2, <2>3
<1>7. /\ c.currentAgentCount + Cardinality(c.newAgents)
           = c.matchedAgentCount + Cardinality(c.missingAgents)
      /\ Total([u \in everyone |-> c.agents[u].after], everyone) = c.after
      /\ Total([u \in everyone |-> c.agents[u].before], everyone) = c.before
  BY Compared
<1>8. c.after = stagedCalls
  BY DEF Comparison, PreviewInv
<1>. HIDE DEF file, c
<1>. QED  BY <1>1, <1>2, <1>3, <1>4, <1>6, <1>7, <1>8 DEF PreviewAddsUp, file, c

\* What each warning says.
LEMMA Warned ==
  ASSUME NEW current
  PROVE  LET c == Comparison(current) IN
         /\ "unmatched" \in Warnings(current) <=> FileSummary(current).unmappedAgents > 0
         /\ "unauthorized" \in Warnings(current) <=> FileSummary(current).outOfScopeAgents > 0
         /\ "agents" \in Warnings(current) <=> FellBy(20, c.currentAgentCount, c.matchedAgentCount)
         /\ "calls" \in Warnings(current) <=> FellBy(30, c.before, c.after)
         /\ "increase" \in Warnings(current) <=> RoseBy(200, c.before, c.after)
         /\ "missing" \in Warnings(current) <=> c.missingAgents # {}
<1>. DEFINE c == Comparison(current)
            file == FileSummary(current)
            others == file.uniqueAgents - file.mappedAgents
            When(warning, test) == IF test THEN {warning} ELSE {}
            t1 == file.unmappedAgents > 0
            t2 == file.outOfScopeAgents > 0
            t3 == others > 0 /\ others * 100 >= 10 * file.uniqueAgents
            t4 == FellBy(20, c.currentAgentCount, c.matchedAgentCount)
            t5 == FellBy(30, c.before, c.after)
            t6 == RoseBy(200, c.before, c.after)
            t7 == c.missingAgents # {}
<1>1. Warnings(current) = When("unmatched", t1) \cup When("unauthorized", t2) \cup When("threshold", t3)
                            \cup When("agents", t4) \cup When("calls", t5) \cup When("increase", t6)
                            \cup When("missing", t7)
  BY DEF Warnings
<1>. HIDE DEF t1, t2, t3, t4, t5, t6, t7
<1>2. /\ "unmatched" \in Warnings(current) <=> t1
      /\ "unauthorized" \in Warnings(current) <=> t2
      /\ "agents" \in Warnings(current) <=> t4
      /\ "calls" \in Warnings(current) <=> t5
      /\ "increase" \in Warnings(current) <=> t6
      /\ "missing" \in Warnings(current) <=> t7
  BY <1>1
<1>. QED  BY <1>2 DEF t1, t2, t4, t5, t6, t7

\* Of a file that can be published, the names of rows that are left out are unmapped
\* or out of scope.
LEMMA LeftOut ==
  ASSUME PreviewInv, Publishable, NEW i \in DOMAIN csv
  PROVE  /\ MappingStatus(csv[i].name) = "mapped" <=> i \in Importable
         /\ i \notin Importable => MappingStatus(csv[i].name) \in {"unmapped", "out_of_scope"}
<1>. DEFINE n == csv[i].name
<1>1. n \in DialerNames /\ n \in InFile /\ i \in RowsNamed(n)
  BY FileRows, NamesInFile
<1>2. n \notin InvalidMappedRows /\ ~Ambiguous(n)
  BY <1>1 DEF Publishable, InFile
<1>3. MappingStatus(n) = "mapped" => ~(agents[n].invalid > 0)
  BY <1>1, <1>2 DEF InvalidMappedRows
<1>4. MappingStatus(n) = "mapped" => i \notin OfClass("invalid")
  <2>. HIDE DEF n
  <2>. QED  BY <1>1, <1>3, NamesInFile
<1>5. MappingStatus(n) = "mapped" => i \in Importable
  BY <1>4, FileRows, RowsAndNames
<1>6. MappingStatus(n) \in {"mapped", "unmapped", "out_of_scope"}
  BY <1>2 DEF MappingStatus
<1>. QED  BY <1>5, <1>6, RowsAndNames

\* Names that are unmapped or out of scope raise a warning.
LEMMA StrangersWarn ==
  ASSUME PreviewInv, NEW current, NEW n \in InFile, MappingStatus(n) \in {"unmapped", "out_of_scope"}
  PROVE  Warnings(current) # {}
<1>. DEFINE Of(s) == {m \in InFile : MappingStatus(m) = s}
<1>1. \A s : IsFiniteSet(Of(s))
  BY NamesInFile, FS_Subset
<1>2. \A s : Of(s) # {} => Cardinality(Of(s)) > 0
  <2>. HIDE DEF Of
  <2>. QED  BY <1>1, SomeOrNone
<1>3. /\ FileSummary(current).unmappedAgents = Cardinality(Of("unmapped"))
      /\ FileSummary(current).outOfScopeAgents = Cardinality(Of("out_of_scope"))
  BY DEF FileSummary
<1>4. n \in Of("unmapped") \/ n \in Of("out_of_scope")
  OBVIOUS
<1>5. FileSummary(current).unmappedAgents > 0 \/ FileSummary(current).outOfScopeAgents > 0
  <2>. HIDE DEF Of
  <2>. QED  BY <1>2, <1>3, <1>4
<1>. QED  BY <1>5, Warned

LEMMA NothingIsLostUnseen ==
  ASSUME PreviewInv, NEW current, IsVersion(current)
  PROVE  NothingLostUnseen(current)
<1>0. Importable \in SUBSET DOMAIN csv
  BY DEF Importable
<1>1. ASSUME Warnings(current) = {}, Publishable
      PROVE  /\ Importable = DOMAIN csv
             /\ AgentsBefore(current) \subseteq MatchedAgents
             /\ 100 * CallsOf(Importable) > 70 * CallsIn(current) \/ CallsIn(current) = 0
  <2>1. Importable = DOMAIN csv
    <3>1. \A i \in DOMAIN csv : i \in Importable
      BY <1>1, LeftOut, NamesInFile, StrangersWarn
    <3>. QED  BY <1>0, <3>1
  <2>2. AgentsBefore(current) \subseteq MatchedAgents
    <3>1. Comparison(current).missingAgents = AgentsBefore(current) \ MatchedAgents
      BY DEF Comparison
    <3>2. Comparison(current).missingAgents = {}
      BY <1>1, Warned
    <3>. QED  BY <3>1, <3>2
  <2>3. 100 * CallsOf(Importable) > 70 * CallsIn(current) \/ CallsIn(current) = 0
    <3>1. ~FellBy(30, Comparison(current).before, Comparison(current).after)
      BY <1>1, Warned
    <3>2. Comparison(current).before = CallsIn(current) /\ Comparison(current).after = CallsOf(Importable)
      BY DEF Comparison
    <3>3. \A b, a \in Nat : ~FellBy(30, b, a) => 100 * a > 70 * b \/ b = 0
      BY DEF FellBy
    <3>. QED  BY <3>1, <3>2, <3>3, Numbers
  <2>. QED  BY <2>1, <2>2, <2>3
<1>2. ASSUME Publishable
      PROVE  /\ ExcludedRows(current) = Cardinality(DOMAIN csv \ Importable)
             /\ ExcludedRows(current) > 0 => Warnings(current) # {}
             /\ \A n \in InFile : SaidIncluded(n) <=> RowsNamed(n) \cap Importable # {}
             /\ \A n \in InFile : ListedIncluded(n, current) => SaidIncluded(n)
             /\ PublishBlocked(current) <=> Importable = WithStatus({"unchanged"}, current)
  <2>1. ExcludedRows(current) = Cardinality(DOMAIN csv \ Importable)
    BY Figured
  <2>2. ASSUME ExcludedRows(current) > 0
        PROVE  Warnings(current) # {}
    <3>1. DOMAIN csv \ Importable # {}
      <4>1. IsFiniteSet(DOMAIN csv \ Importable)
        BY FileRows, FS_Subset
      <4>. QED  BY <2>1, <2>2, <4>1, SomeOrNone
    <3>2. PICK i \in DOMAIN csv : i \notin Importable
      BY <3>1
    <3>3. csv[i].name \in InFile /\ MappingStatus(csv[i].name) \in {"unmapped", "out_of_scope"}
      BY <1>2, <3>2, LeftOut, NamesInFile
    <3>. QED  BY <3>3, StrangersWarn
  <2>3. ASSUME NEW n \in InFile
        PROVE  SaidIncluded(n) <=> RowsNamed(n) \cap Importable # {}
    <3>1. n \in DialerNames /\ RowsNamed(n) # {}
      BY NamesInFile DEF InFile
    <3>2. \A i \in RowsNamed(n) : i \in DOMAIN csv /\ csv[i].name = n
      BY DEF RowsNamed
    <3>3. \A i \in RowsNamed(n) : MappingStatus(n) = "mapped" <=> i \in Importable
      BY <1>2, <3>2, LeftOut
    <3>. QED  BY <3>1, <3>3 DEF SaidIncluded
  <2>4. \A n \in InFile : ListedIncluded(n, current) => SaidIncluded(n)
    BY DEF ListedIncluded, SaidIncluded, ImportStatus
  <2>5. PublishBlocked(current) <=> Importable = WithStatus({"unchanged"}, current)
    BY <1>2, Figured DEF PublishBlocked
  <2>. QED  BY <2>1, <2>2, <2>3, <2>4, <2>5
<1>. QED  BY <1>1, <1>2 DEF NothingLostUnseen

-----------------------------------------------------------------------------
(* Pages of the table *)

LEMMA Division ==
  ASSUME NEW a \in Nat, NEW s \in Nat \ {0}
  PROVE  /\ a \div s \in Nat
         /\ s * (a \div s) <= a
         /\ a < s * (a \div s) + s
OBVIOUS

LEMMA MoreTimes ==
  ASSUME NEW p \in Nat, NEW q \in Nat, NEW s \in Nat, p <= q
  PROVE  p * s <= q * s
<1>1. q * s = p * s + (q - p) * s
  OBVIOUS
<1>2. (q - p) * s \in Nat /\ p * s \in Nat
  <2>1. q - p \in Nat
    OBVIOUS
  <2>. QED  BY <2>1
<1>. QED  BY <1>1, <1>2

LEMMA Paged ==
  ASSUME NEW count \in Nat
  PROVE  /\ \A requested \in Int : count > 0 => TablePage(count, requested) # {}
         /\ UNION {TablePage(count, p) : p \in 1..TablePages(count)} = 1..count
<1>. DEFINE s == TablePageSize
            last == TablePages(count)
<1>1. s \in Nat \ {0}
  BY PageSizes
<1>2. last \in Nat \ {0} /\ count <= last * s /\ (count > 0 => (last - 1) * s < count)
  <2>1. CASE count = 0
    <3>1. last = 1
      BY <2>1 DEF TablePages
    <3>. HIDE DEF s, last
    <3>. QED  BY <1>1, <2>1, <3>1
  <2>2. CASE count # 0
    <3>. DEFINE a == count + s - 1
                q == a \div s
    <3>1. last = q
      BY <2>2 DEF TablePages
    <3>2. a \in Nat /\ a >= s
      <4>. HIDE DEF s
      <4>. QED  BY <1>1, <2>2
    <3>3. q \in Nat /\ s * q <= a /\ a < s * q + s
      <4>. HIDE DEF s, a
      <4>. QED  BY <1>1, <3>2, Division
    <3>4. q # 0
      <4>. HIDE DEF s, a, q
      <4>. QED  BY <1>1, <3>2, <3>3
    <3>5. q * s = s * q /\ (q - 1) * s = s * q - s
      <4>. HIDE DEF s, q
      <4>. QED  BY <1>1, <3>3
    <3>6. s * q \in Nat
      <4>. HIDE DEF s, q
      <4>. QED  BY <1>1, <3>3
    <3>7. \A x \in Nat : x <= count + s - 1 /\ count + s - 1 < x + s => count <= x /\ x - s < count
      <4>. HIDE DEF s
      <4>. QED  BY <1>1
    <3>8. count <= s * q /\ s * q - s < count
      <4>. HIDE DEF s, q
      <4>. QED  BY <3>3, <3>6, <3>7
    <3>. HIDE DEF s, q, last, a
    <3>. QED  BY <3>1, <3>3, <3>4, <3>5, <3>8
  <2>. QED  BY <2>1, <2>2
<1>. DEFINE Page(p) == {i \in 1..count : (p - 1) * s < i /\ i <= p * s}
            page(requested) == IF requested < 1 THEN 1
                               ELSE IF requested > last THEN last ELSE requested
<1>3. \A requested : TablePage(count, requested) = Page(page(requested))
  BY DEF TablePage
<1>4. \A p \in 1..last : page(p) = p
  <2>. HIDE DEF last
  <2>. QED  BY <1>2
<1>5. \A requested \in Int : page(requested) \in 1..last
  <2>. HIDE DEF last
  <2>. QED  BY <1>2
<1>6. ASSUME count > 0, NEW p \in 1..last
      PROVE  Page(p) # {}
  <2>. DEFINE i == (p - 1) * s + 1
  <2>1. p - 1 \in Nat /\ last - 1 \in Nat /\ p - 1 <= last - 1
    <3>. HIDE DEF last
    <3>. QED  BY <1>2
  <2>2. (p - 1) * s <= (last - 1) * s
    <3>. HIDE DEF last, s
    <3>. QED  BY <1>1, <2>1, MoreTimes
  <2>3. (p - 1) * s \in Nat /\ (last - 1) * s \in Nat /\ p * s = (p - 1) * s + s
    <3>. HIDE DEF last, s
    <3>. QED  BY <1>1, <1>2, <2>1
  <2>4. \A x, y \in Nat : x <= y /\ y < count => x + 1 \in 1..count
    OBVIOUS
  <2>5. i \in 1..count
    <3>. HIDE DEF last, s
    <3>. QED  BY <1>2, <1>6, <2>2, <2>3, <2>4
  <2>6. \A x \in Nat : x < x + 1 /\ x + 1 <= x + s
    <3>. HIDE DEF s
    <3>. QED  BY <1>1
  <2>7. i \in Page(p)
    <3>. HIDE DEF s, last
    <3>. QED  BY <2>3, <2>5, <2>6
  <2>. QED  BY <2>7
<1>7. ASSUME NEW i \in 1..count
      PROVE  \E p \in 1..last : i \in Page(p)
  <2>. DEFINE q == (i - 1) \div s
  <2>1. q \in Nat /\ s * q <= i - 1 /\ i - 1 < s * q + s
    <3>1. i - 1 \in Nat
      OBVIOUS
    <3>. HIDE DEF s
    <3>. QED  BY <1>1, <3>1, Division
  <2>. HIDE DEF q
  <2>2. ((q + 1) - 1) * s = s * q /\ (q + 1) * s = s * q + s /\ q * s = s * q
    <3>. HIDE DEF s
    <3>. QED  BY <1>1, <2>1
  <2>3. s * q \in Nat
    <3>. HIDE DEF s
    <3>. QED  BY <1>1, <2>1
  <2>4. i \in Page(q + 1)
    <3>1. \A x \in Nat : x <= i - 1 /\ i - 1 < x + s => x < i /\ i <= x + s
      <4>. HIDE DEF s
      <4>. QED  BY <1>1
    <3>. HIDE DEF s
    <3>. QED  BY <2>1, <2>2, <2>3, <3>1
  <2>5. q < last
    <3>1. SUFFICES ASSUME last <= q PROVE FALSE
      <4>. HIDE DEF last
      <4>. QED  BY <1>2, <2>1
    <3>2. last * s <= q * s
      <4>. HIDE DEF last, s
      <4>. QED  BY <1>1, <1>2, <2>1, <3>1, MoreTimes
    <3>3. last * s \in Nat
      <4>. HIDE DEF last, s
      <4>. QED  BY <1>1, <1>2
    <3>4. \A x, y \in Nat : ~(count <= x /\ x <= y /\ y <= i - 1)
      OBVIOUS
    <3>. HIDE DEF last, s
    <3>. QED  BY <1>2, <2>1, <2>2, <2>3, <3>2, <3>3, <3>4
  <2>6. q + 1 \in 1..last
    <3>. HIDE DEF last
    <3>. QED  BY <1>2, <2>1, <2>5
  <2>. HIDE DEF last, Page
  <2>. QED  BY <2>4, <2>6
<1>8. \A p : Page(p) \subseteq 1..count
  OBVIOUS
<1>9. \A requested \in Int : count > 0 => TablePage(count, requested) # {}
  <2>. HIDE DEF page, Page, last
  <2>. QED  BY <1>3, <1>5, <1>6
<1>10. {TablePage(count, p) : p \in 1..last} = {Page(p) : p \in 1..last}
  <2>. HIDE DEF page, Page, last
  <2>. QED  BY <1>3, <1>4
<1>11. UNION {Page(p) : p \in 1..last} = 1..count
  <2>. HIDE DEF Page, last
  <2>. QED  BY <1>7, <1>8
<1>. HIDE DEF Page
<1>. QED  BY <1>9, <1>10, <1>11

LEMMA TableShowsAll == PreviewInv => TableIsWhole
<1>. SUFFICES ASSUME PreviewInv, NEW include \in {"all", "included", "excluded"}
              PROVE  LET found == Cardinality(Filtered("all", include, {}))
                         OnPage(requested) == Table("all", include, requested, {})
                     IN  /\ \A requested \in 0..(found + 1) : found > 0 => OnPage(requested) # {}
                         /\ UNION {OnPage(p) : p \in 1..TablePages(found)} = 1..found
  BY DEF TableIsWhole
<1>. DEFINE found == Cardinality(Filtered("all", include, {}))
<1>1. found \in Nat
  <2>1. Filtered("all", include, {}) \in SUBSET InFile
    BY DEF Filtered
  <2>. QED  BY <2>1, NamesInFile, FS_Subset, FS_CardinalityType
<1>2. \A requested : Table("all", include, requested, {}) = TablePage(found, requested)
  BY DEF Table
<1>. HIDE DEF found
<1>3. \A requested \in 0..(found + 1) : requested \in Int
  BY <1>1
<1>4. \A requested \in 0..(found + 1) : found > 0 => Table("all", include, requested, {}) # {}
  BY <1>1, <1>2, <1>3, Paged
<1>5. UNION {Table("all", include, p, {}) : p \in 1..TablePages(found)} = 1..found
  BY <1>1, <1>2, Paged
<1>. QED  BY <1>4, <1>5 DEF found

-----------------------------------------------------------------------------
(* What is stored of a file that can be published *)

\* Staged rows that are errors stop the publication, and nothing else of the rows does.
LEMMA ErrorsDoBlock == PreviewInv => ErrorsBlock
<1>. SUFFICES ASSUME PreviewInv PROVE ErrorsBlock
  OBVIOUS
<1>1. \A i \in DOMAIN csv :
        StagedStatus(i) = "error" <=>
          i \in OfClass("invalid") /\ MappingStatus(csv[i].name) \in {"mapped", "invalid_mapping"}
  BY FileRows DEF StagedStatus
<1>2. ASSUME NEW i \in DOMAIN csv, StagedStatus(i) = "error"
      PROVE  \/ InvalidMappedRows # {}
             \/ \E n \in InFile : MappingStatus(n) = "invalid_mapping"
  <2>1. csv[i].name \in InFile /\ csv[i].name \in DialerNames /\ i \in RowsNamed(csv[i].name)
    BY FileRows, NamesInFile
  <2>2. CASE MappingStatus(csv[i].name) = "mapped"
    <3>1. agents[csv[i].name].invalid > 0
      BY <1>1, <1>2, <2>1, NamesInFile
    <3>. QED  BY <2>1, <2>2, <3>1 DEF InvalidMappedRows
  <2>. QED  BY <1>1, <1>2, <2>1, <2>2
<1>3. ASSUME NEW n \in InvalidMappedRows
      PROVE  \E i \in DOMAIN csv : StagedStatus(i) = "error"
  <2>1. n \in DialerNames /\ MappingStatus(n) = "mapped" /\ agents[n].invalid > 0
    BY DEF InvalidMappedRows
  <2>2. PICK i \in RowsNamed(n) : i \in OfClass("invalid")
    BY <2>1, NamesInFile
  <2>3. i \in DOMAIN csv /\ csv[i].name = n
    BY DEF RowsNamed
  <2>. QED  BY <1>1, <2>1, <2>2, <2>3
<1>4. ASSUME NEW n \in InFile, MappingStatus(n) = "invalid_mapping"
      PROVE  \E i \in DOMAIN csv : StagedStatus(i) = "error"
  <2>1. PICK i \in RowsNamed(n) : TRUE
    BY NamesInFile DEF InFile
  <2>2. i \in DOMAIN csv /\ csv[i].name = n
    BY DEF RowsNamed
  <2>3. i \in OfClass("invalid")
    BY <1>4, <2>2, FileRows, RowsAndNames
  <2>. QED  BY <1>1, <1>4, <2>2, <2>3
<1>. QED  BY <1>2, <1>3, <1>4 DEF ErrorsBlock

\* Without aliases a file that can be published is stored in full, each row as a
\* metric of its own.
LEMMA StoredInFull ==
  ASSUME PreviewInv, Processed, Publishable, NoAliases
  PROVE  /\ metrics = {MetricOf(i) : i \in Importable}
         /\ \A i, j \in Importable : Owner(i) = Owner(j) /\ csv[i].hour = csv[j].hour => i = j
<1>1. Importable \in SUBSET DOMAIN csv
  BY DEF Importable
<1>2. ASSUME NEW i \in Importable, NEW j \in Importable, Owner(i) = Owner(j), csv[i].hour = csv[j].hour
      PROVE  i = j
  <2>1. csv[i].name = csv[j].name
    BY <1>2 DEF NoAliases
  <2>2. i \notin DuplicateRows
    BY DEF Publishable
  <2>. QED  BY <1>1, <1>2, <2>1, <2>2 DEF DuplicateRows
<1>3. Stored = Importable
  <2>1. ASSUME NEW i \in Importable, NEW j \in Importable, j < i, SameKey(j, i)
        PROVE  FALSE
    <3>1. i = j
      BY <1>2, <2>1 DEF SameKey
    <3>2. i \in Nat
      BY <1>1 DEF PreviewInv
    <3>. QED  BY <2>1, <3>1, <3>2
  <2>. QED  BY <2>1 DEF Stored
<1>4. metrics = {MetricOf(i) : i \in Importable}
  BY <1>3 DEF PreviewInv
<1>. QED  BY <1>2, <1>4

LEMMA StoredIsReviewed ==
  ASSUME PreviewInv, Processed, Publishable, NoAliases
  PROVE  CallsIn(metrics) = CallsOf(Importable)
<1>. DEFINE f == [i \in Importable |-> csv[i].calls]
            g == [i \in Importable |-> MetricOf(i)]
            h == [m \in metrics |-> m.calls]
<1>1. metrics = {g[i] : i \in Importable}
  BY StoredInFull
<1>2. \A i, j \in Importable : g[i] = g[j] => i = j
  <2>1. \A i, j \in Importable : MetricOf(i) = MetricOf(j) => Owner(i) = Owner(j) /\ csv[i].hour = csv[j].hour
    BY DEF MetricOf
  <2>. QED  BY <2>1, StoredInFull
<1>3. \A i \in Importable : f[i] \in Nat /\ h[g[i]] = f[i]
  <2>1. \A i \in Importable : f[i] \in Nat
    BY FileRows DEF Importable
  <2>2. \A i \in Importable : g[i] \in metrics /\ g[i].calls = csv[i].calls
    BY StoredInFull DEF MetricOf
  <2>. HIDE DEF g
  <2>. QED  BY <2>1, <2>2
<1>4. IsFiniteSet(Importable)
  BY FileRows, FS_Subset
<1>5. CallsIn(metrics) = Total(h, metrics) /\ CallsOf(Importable) = Total(f, Importable)
  BY DEF CallsIn, CallsOf
<1>6. Total(h, {g[i] : i \in Importable}) = Total(f, Importable)
  <2>. HIDE DEF f, g, h
  <2>. QED  BY <1>2, <1>3, <1>4, TotalImage
<1>. HIDE DEF f, g, h
<1>. QED  BY <1>1, <1>5, <1>6

\* A row is unchanged where the version has its metric, and new where it has none of
\* its user and hour.
LEMMA StatusOfRow ==
  ASSUME PreviewInv, NEW current, NEW i \in Importable,
         \A m \in current : m = [user |-> m.user, hour |-> m.hour, calls |-> m.calls]
  PROVE  /\ i \in WithStatus({"unchanged"}, current) <=> MetricOf(i) \in current
         /\ i \in WithStatus({"new"}, current) <=>
              ~\E x \in current : x.user = MetricOf(i).user /\ x.hour = MetricOf(i).hour
<1>. DEFINE old == ExistingMetrics(i, current)
<1>1. i \in DOMAIN csv /\ Classified(csv[i]) = "importable"
  BY DEF Importable
<1>2. /\ RowStatus(i, current) = "new" <=> old = {}
      /\ RowStatus(i, current) = "unchanged" <=> \E m \in old : m.calls = csv[i].calls
  BY <1>1 DEF RowStatus
<1>3. \A s : i \in WithStatus({s}, current) <=> RowStatus(i, current) = s
  BY <1>1 DEF WithStatus
<1>4. \A m : m \in old <=> m \in current /\ m.user = Owner(i) /\ m.hour = csv[i].hour
  BY DEF ExistingMetrics
<1>5. /\ MetricOf(i).user = Owner(i) /\ MetricOf(i).hour = csv[i].hour
      /\ MetricOf(i).calls = csv[i].calls
      /\ MetricOf(i) = [user |-> Owner(i), hour |-> csv[i].hour, calls |-> csv[i].calls]
  BY DEF MetricOf
<1>6. (\E m \in old : m.calls = csv[i].calls) <=> MetricOf(i) \in current
  <2>. HIDE DEF old
  <2>1. MetricOf(i) \in current => MetricOf(i) \in old /\ MetricOf(i).calls = csv[i].calls
    BY <1>4, <1>5
  <2>2. ASSUME NEW m \in old, m.calls = csv[i].calls
        PROVE  MetricOf(i) \in current
    <3>1. m \in current /\ m = [user |-> Owner(i), hour |-> csv[i].hour, calls |-> csv[i].calls]
      BY <1>4, <2>2
    <3>. QED  BY <1>5, <3>1
  <2>. QED  BY <2>1, <2>2
<1>7. old = {} <=> ~\E x \in current : x.user = MetricOf(i).user /\ x.hour = MetricOf(i).hour
  <2>. HIDE DEF old
  <2>. QED  BY <1>4, <1>5
<1>. HIDE DEF old
<1>. QED  BY <1>2, <1>3, <1>6, <1>7

LEMMA StatusesDoHold ==
  ASSUME PreviewInv, Processed, NEW current, IsVersion(current)
  PROVE  StatusesHold(current)
<1>. SUFFICES ASSUME NoAliases, Publishable
              PROVE  /\ Cardinality(WithStatus({"unchanged"}, current)) = Cardinality(metrics \cap current)
                     /\ Cardinality(WithStatus({"new"}, current)) =
                          Cardinality({m \in metrics : ~\E x \in current : x.user = m.user /\ x.hour = m.hour})
  BY DEF StatusesHold
<1>. DEFINE g == [i \in Importable |-> MetricOf(i)]
            same == WithStatus({"unchanged"}, current)
            new == WithStatus({"new"}, current)
            Fresh(m) == ~\E x \in current : x.user = m.user /\ x.hour = m.hour
<1>1. metrics = {g[i] : i \in Importable}
  BY StoredInFull
<1>2. \A i, j \in Importable : g[i] = g[j] => i = j
  <2>1. \A i, j \in Importable : MetricOf(i) = MetricOf(j) => Owner(i) = Owner(j) /\ csv[i].hour = csv[j].hour
    BY DEF MetricOf
  <2>. QED  BY <2>1, StoredInFull
<1>3. /\ IsFiniteSet(Importable) /\ same \in SUBSET Importable /\ new \in SUBSET Importable
      /\ IsFiniteSet(same) /\ IsFiniteSet(new)
  BY FileRows, FS_Subset, StatusesMean
<1>4. \A m \in current : m = [user |-> m.user, hour |-> m.hour, calls |-> m.calls]
  BY DEF IsVersion
<1>5. \A i \in Importable : (i \in same <=> g[i] \in current) /\ (i \in new <=> Fresh(g[i]))
  BY <1>4, StatusOfRow
<1>. HIDE DEF g, same, new, Fresh
<1>6. metrics \cap current = {g[i] : i \in same}
  BY <1>1, <1>3, <1>5
<1>7. {m \in metrics : Fresh(m)} = {g[i] : i \in new}
  BY <1>1, <1>3, <1>5
<1>8. Cardinality({g[i] : i \in same}) = Cardinality(same)
  BY <1>2, <1>3, CountImage
<1>9. Cardinality({g[i] : i \in new}) = Cardinality(new)
  BY <1>2, <1>3, CountImage
<1>. QED  BY <1>6, <1>7, <1>8, <1>9 DEF same, new, Fresh

LEMMA KnownOnceMore ==
  ASSUME PreviewInv, Processed
  PROVE  KnownAgain
<1>. SUFFICES ASSUME NoAliases, Publishable
              PROVE  /\ WithStatus({"unchanged"}, metrics) = Importable
                     /\ PublishBlocked(metrics)
                     /\ Warnings(metrics) \cap {"agents", "calls", "increase", "missing"} = {}
  BY DEF KnownAgain
<1>1. metrics = {MetricOf(i) : i \in Importable}
  BY StoredInFull
<1>2. \A m \in metrics : m = [user |-> m.user, hour |-> m.hour, calls |-> m.calls]
  BY <1>1 DEF MetricOf
<1>3. WithStatus({"unchanged"}, metrics) = Importable
  <2>1. \A i \in Importable : i \in WithStatus({"unchanged"}, metrics)
    BY <1>1, <1>2, StatusOfRow
  <2>. QED  BY <2>1, StatusesMean
<1>4. PublishBlocked(metrics)
  BY <1>3, Figured DEF PublishBlocked
<1>5. AgentsBefore(metrics) = MatchedAgents
  <2>1. \A i \in Importable : MetricOf(i) \in metrics /\ MetricOf(i).user = Owner(i)
    BY <1>1 DEF MetricOf
  <2>2. \A m \in metrics : \E i \in Importable : m = MetricOf(i)
    BY <1>1
  <2>3. \A m \in metrics : m.user \in MatchedAgents
    BY <2>1, <2>2 DEF MatchedAgents
  <2>4. \A u \in MatchedAgents : \E m \in metrics : u = m.user
    BY <2>1 DEF MatchedAgents
  <2>. QED  BY <2>3, <2>4 DEF AgentsBefore
<1>6. CallsIn(metrics) = CallsOf(Importable)
  BY StoredIsReviewed
<1>7. /\ Comparison(metrics).currentAgentCount = Comparison(metrics).matchedAgentCount
      /\ Comparison(metrics).before = Comparison(metrics).after
      /\ Comparison(metrics).missingAgents = {}
      /\ Comparison(metrics).currentAgentCount \in Nat /\ Comparison(metrics).before \in Nat
  <2>1. Cardinality(MatchedAgents) \in Nat /\ CallsOf(Importable) \in Nat
    <3>1. IsVersion({})
      BY FS_EmptySet DEF IsVersion
    <3>. QED  BY <3>1, Numbers, FS_CardinalityType
  <2>. QED  BY <1>5, <1>6, <2>1 DEF Comparison
<1>8. \A p, n \in Nat : ~FellBy(p, n, n) /\ ~RoseBy(p, n, n)
  BY DEF FellBy, RoseBy
<1>9. \A w \in {"agents", "calls", "increase", "missing"} : w \notin Warnings(metrics)
  BY <1>7, <1>8, Warned
<1>. QED  BY <1>3, <1>4, <1>9

\* Whatever version is active, the review page of a processed upload adds up, hides no
\* loss, and says of each row what its publication does (PreviewTellsTruth).
THEOREM ReviewTellsTheTruth == PreviewSpec => []PreviewTellsTruth
<1>1. ASSUME PreviewInv
      PROVE  PreviewTellsTruth
  <2>. SUFFICES ASSUME Processed PROVE PreviewTellsTruth!2
    BY DEF PreviewTellsTruth
  <2>1. RowsAccounted
    BY <1>1, RowsAreAccounted
  <2>2. NoAliases => StoredAsReviewed
    BY <1>1, StoredIsReviewed DEF StoredAsReviewed, PreviewInv
  <2>3. ASSUME NEW current \in IF Importable = {} THEN {{}} ELSE ActiveVersions
        PROVE  PreviewAddsUp(current) /\ NothingLostUnseen(current) /\ StatusesHold(current)
    <3>1. IsVersion(current)
      BY <2>3, FS_EmptySet DEF IsVersion, ActiveVersions
    <3>. QED  BY <1>1, <3>1, PreviewDoesAddUp, NothingIsLostUnseen, StatusesDoHold
  <2>4. ErrorsBlock /\ TableIsWhole /\ KnownAgain
    BY <1>1, ErrorsDoBlock, TableShowsAll, KnownOnceMore
  <2>. QED  BY <2>1, <2>2, <2>3, <2>4
<1>. QED  BY <1>1, PreviewInvInit, PreviewInvNext, PTL DEF PreviewSpec

-----------------------------------------------------------------------------
(* Dashboards: what agents are credited with, and what is made of it *)

\* Rows are as they are typed, and there are finitely many.
DashboardInv ==
  /\ RowsInv /\ MetricInv
  /\ BagToSet(closed) \subseteq ClosedCells
  /\ BagToSet(xfers) \subseteq XferCells /\ IsFiniteSet(BagToSet(xfers))

\* The rows of a worksheet that can be attributed, those credited to an agent, and
\* what each counts.
Sheet(f) == IF f = "deals" THEN ValidDeals ELSE DatedTransfers

Credited(viewer, f, u, dates) ==
  {r \in Sheet(f) : r.date \in dates /\ MatchedTo(r, MatchableUsers(viewer), u)}

Weight(status, f) ==
  [r \in Sheet(f) |-> IF ~Known(status, f) THEN 0 ELSE IF f = "deals" THEN closed[r] ELSE 1]

Credit(viewer, status, f, u, dates) == Total(Weight(status, f), Credited(viewer, f, u, dates))

DailyCredit(viewer, status, f, u) == [d \in Dates |-> Credit(viewer, status, f, u, {d})]

\* What some agents are credited with, and its sum.
CreditOf(viewer, status, f, crew, dates) == [u \in crew |-> Credit(viewer, status, f, u, dates)]

Credits(viewer, status, f, crew, dates) == Total(CreditOf(viewer, status, f, crew, dates), crew)

DailyCredits(viewer, status, f, crew) == [d \in Dates |-> Credits(viewer, status, f, crew, {d})]

\* By agent and kind of outcome, and the sums of some agents by kind.
Told(viewer, status, allowed, dates) ==
  [u \in allowed |-> [f \in OutcomeKinds |-> Credit(viewer, status, f, u, dates)]]

Sums(viewer, status, crew, dates) == [f \in OutcomeKinds |-> Credits(viewer, status, f, crew, dates)]

TeamCredits(viewer, status, f, crew, teams, dates) ==
  [t \in teams |-> Credits(viewer, status, f, MembersOf(t, crew), dates)]

LEMMA DatesFinite == IsFiniteSet(Dates)
BY TodayIsADate, FS_Interval DEF Dates

LEMMA SheetFinite ==
  ASSUME DashboardInv, NEW f, NEW status
  PROVE  /\ IsFiniteSet(Sheet(f))
         /\ \A r \in Sheet(f) : r.date \in Dates /\ Weight(status, f)[r] \in Nat
<1>1. ValidDeals \subseteq BagToSet(closed) /\ DatedTransfers \subseteq BagToSet(xfers)
  BY DEF ValidDeals, DatedTransfers
<1>2. IsFiniteSet(Sheet(f))
  BY <1>1, FS_Subset DEF DashboardInv, RowsInv, Sheet
<1>3. \A r \in Sheet(f) : r.date \in Dates
  <2>1. \A r \in ValidDeals : r.date \in Dates
    BY DEF ValidDeals, DashboardInv, ClosedCells
  <2>2. \A r \in DatedTransfers : r.date \in Dates
    BY DEF DatedTransfers, DashboardInv, XferCells
  <2>. QED  BY <2>1, <2>2 DEF Sheet
<1>4. \A r \in Sheet(f) : Weight(status, f)[r] \in Nat
  <2>1. \A r \in ValidDeals : closed[r] \in Nat
    BY <1>1 DEF DashboardInv, RowsInv
  <2>. QED  BY <2>1 DEF Weight, Sheet
<1>. QED  BY <1>2, <1>3, <1>4

LEMMA CreditNat ==
  ASSUME DashboardInv, NEW viewer, NEW status, NEW f, NEW u, NEW dates
  PROVE  Credit(viewer, status, f, u, dates) \in Nat
<1>1. Credited(viewer, f, u, dates) \subseteq Sheet(f)
  BY DEF Credited
<1>2. IsFiniteSet(Credited(viewer, f, u, dates))
  BY <1>1, SheetFinite, FS_Subset
<1>. QED  BY <1>1, <1>2, SheetFinite, TotalNat DEF Credit

\* What a snapshot says is what each agent is credited with.
LEMMA SnapshotIs ==
  ASSUME DashboardInv, NEW viewer, NEW status, NEW allowed, NEW dates
  PROVE  Snapshot(OutcomeSource(viewer, status), allowed, dates) = Told(viewer, status, allowed, dates)
<1>. DEFINE source == OutcomeSource(viewer, status)
            RowsFor(f, u) == {r \in {m[1] : m \in source[f]} : r.date \in dates /\ <<r, u>> \in source[f]}
            Amount(f, u) == IF f = "deals" THEN CopiesOf(RowsFor(f, u)) ELSE Cardinality(RowsFor(f, u))
<1>1. Snapshot(source, allowed, dates)
        = [u \in allowed |-> [f \in OutcomeKinds |-> IF Known(source.status, f) THEN Amount(f, u) ELSE 0]]
  BY Zenon DEF Snapshot
<1>2. /\ source.status = status
      /\ source["deals"] = Matches(Sheet("deals"), MatchableUsers(viewer))
      /\ source["transfers"] = Matches(Sheet("transfers"), MatchableUsers(viewer))
  BY DEF OutcomeSource, Sheet
<1>3. ASSUME NEW f \in OutcomeKinds, NEW u
      PROVE  RowsFor(f, u) = Credited(viewer, f, u, dates)
  <2>1. source[f] = Matches(Sheet(f), MatchableUsers(viewer))
    BY <1>2 DEF OutcomeKinds
  <2>2. \A m : m \in source[f] <=>
           /\ m \in Sheet(f) \X MatchableUsers(viewer)
           /\ MatchedTo(m[1], MatchableUsers(viewer), m[2])
    BY <2>1 DEF Matches
  <2>3. \A r : <<r, u>> \in source[f] <=> r \in Sheet(f) /\ MatchedTo(r, MatchableUsers(viewer), u)
    BY <2>2 DEF MatchedTo
  <2>4. \A r : <<r, u>> \in source[f] => r \in {m[1] : m \in source[f]}
    OBVIOUS
  <2>. HIDE DEF source
  <2>. QED  BY <2>3, <2>4 DEF Credited
<1>4. ASSUME NEW f \in OutcomeKinds, NEW u
      PROVE  (IF Known(status, f) THEN Amount(f, u) ELSE 0) = Credit(viewer, status, f, u, dates)
  <2>. DEFINE rows == Credited(viewer, f, u, dates)
              w == Weight(status, f)
  <2>1. rows \subseteq Sheet(f) /\ IsFiniteSet(rows)
    <3>1. rows \subseteq Sheet(f)
      BY DEF Credited
    <3>. QED  BY <3>1, SheetFinite, FS_Subset
  <2>2. CASE ~Known(status, f)
    <3>1. \A r \in rows : w[r] = 0
      BY <2>1, <2>2 DEF Weight
    <3>2. Total(w, rows) = 0
      <4>. HIDE DEF w, rows
      <4>. QED  BY <2>1, <3>1, TotalZero
    <3>. QED  BY <2>2, <3>2 DEF Credit
  <2>3. CASE Known(status, f) /\ f = "deals"
    <3>1. \A r \in rows : w[r] \in Nat /\ w[r] = closed[r]
      BY <2>1, <2>3, SheetFinite DEF Weight
    <3>2. Total(w, rows) = Total(closed, rows)
      <4>. HIDE DEF w, rows
      <4>. QED  BY <2>1, <3>1, TotalSame
    <3>. QED  BY <1>3, <2>3, <3>2 DEF Credit, CopiesOf
  <2>4. CASE Known(status, f) /\ f # "deals"
    <3>1. \A r \in rows : w[r] = 1
      BY <2>1, <2>4 DEF Weight
    <3>2. Total(w, rows) = Cardinality(rows)
      <4>. HIDE DEF w, rows
      <4>. QED  BY <2>1, <3>1, CountAsTotal
    <3>. QED  BY <1>3, <2>4, <3>2 DEF Credit
  <2>. QED  BY <2>2, <2>3, <2>4
<1>5. Snapshot(source, allowed, dates)
        = [u \in allowed |-> [f \in OutcomeKinds |-> IF Known(status, f) THEN Amount(f, u) ELSE 0]]
  <2>. HIDE DEF source, Amount
  <2>. QED  BY <1>1, <1>2
<1>. HIDE DEF Amount
<1>. QED  BY <1>4, <1>5 DEF Told

\* Only candidates are credited with anything.
LEMMA NoCredit ==
  ASSUME NEW viewer, NEW status, NEW f, NEW u, u \notin MatchableUsers(viewer), NEW dates
  PROVE  Credit(viewer, status, f, u, dates) = 0
<1>1. Credited(viewer, f, u, dates) = {}
  BY DEF Credited, MatchedTo
<1>. QED  BY <1>1, TotalNothing DEF Credit

LEMMA CreditByDay ==
  ASSUME DashboardInv, NEW viewer, NEW status, NEW f, NEW u
  PROVE  Credit(viewer, status, f, u, Dates)
           = Total(DailyCredit(viewer, status, f, u), Dates)
<1>. DEFINE rows == Credited(viewer, f, u, Dates)
            w == Weight(status, f)
            date == [r \in rows |-> r.date]
<1>1. rows \subseteq Sheet(f) /\ IsFiniteSet(rows)
  <2>1. rows \subseteq Sheet(f)
    BY DEF Credited
  <2>. QED  BY <2>1, SheetFinite, FS_Subset
<1>2. \A r \in rows : w[r] \in Nat /\ date[r] \in Dates
  BY <1>1, SheetFinite
<1>3. IsFiniteSet(Dates)
  BY TodayIsADate, FS_Interval DEF Dates
<1>4. \A d \in Dates : {r \in rows : date[r] = d} = Credited(viewer, f, u, {d})
  BY DEF Credited
<1>5. Total(w, rows) = Total([d \in Dates |-> Total(w, {r \in rows : date[r] = d})], Dates)
  <2>. HIDE DEF rows, w, date
  <2>. QED  BY <1>1, <1>2, <1>3, TotalByParts
<1>6. [d \in Dates |-> Total(w, {r \in rows : date[r] = d})]
        = DailyCredit(viewer, status, f, u)
  <2>. HIDE DEF rows, date
  <2>. QED  BY <1>4 DEF Credit, DailyCredit
<1>. HIDE DEF date
<1>. QED  BY <1>5, <1>6 DEF Credit

LEMMA CreditsNat ==
  ASSUME DashboardInv, NEW viewer, NEW status, NEW f, NEW crew \in SUBSET Users, NEW dates
  PROVE  Credits(viewer, status, f, crew, dates) \in Nat /\ IsFiniteSet(crew)
<1>1. IsFiniteSet(crew)
  BY FiniteDirectory, FS_Subset
<1>2. \A u \in crew : CreditOf(viewer, status, f, crew, dates)[u] \in Nat
  BY CreditNat DEF CreditOf
<1>. QED  BY <1>1, <1>2, TotalNat DEF Credits

LEMMA CreditsByDay ==
  ASSUME DashboardInv, NEW viewer, NEW status, NEW f, NEW crew \in SUBSET Users
  PROVE  Credits(viewer, status, f, crew, Dates)
           = Total(DailyCredits(viewer, status, f, crew), Dates)
<1>. DEFINE row == [u \in crew |-> DailyCredit(viewer, status, f, u)]
            column == [d \in Dates |-> CreditOf(viewer, status, f, crew, {d})]
            rows == CreditOf(viewer, status, f, crew, Dates)
            columns == DailyCredits(viewer, status, f, crew)
<1>1. IsFiniteSet(Dates) /\ IsFiniteSet(crew)
  BY TodayIsADate, FS_Interval, CreditsNat DEF Dates
<1>2. Transposed(row, column, crew, Dates)
  BY CreditNat DEF DailyCredit, CreditOf, Transposed
<1>3. SumEach(rows, row, crew, Dates)
  BY CreditByDay DEF CreditOf, SumEach
<1>4. SumEach(columns, column, Dates, crew)
  BY DEF DailyCredits, Credits, SumEach
<1>. HIDE DEF row, column, rows, columns
<1>5. Total(rows, crew) = Total(columns, Dates)
  BY <1>1, <1>2, <1>3, <1>4, TotalSwap
<1>. QED  BY <1>5 DEF Credits, rows, columns

\* It only matters which candidates are among the crew.
LEMMA CreditsOfAll ==
  ASSUME DashboardInv, NEW viewer, NEW status, NEW f, NEW dates,
         NEW crew \in SUBSET Users, MatchableUsers(viewer) \subseteq crew
  PROVE  Credits(viewer, status, f, crew, dates)
           = Credits(viewer, status, f, MatchableUsers(viewer), dates)
<1>. DEFINE of == CreditOf(viewer, status, f, crew, dates)
            some == MatchableUsers(viewer)
            ofSome == CreditOf(viewer, status, f, some, dates)
<1>1. IsFiniteSet(crew) /\ IsFiniteSet(some)
  BY FiniteDirectory, FS_Subset
<1>2. (\A u \in crew : of[u] \in Nat) /\ (\A u \in crew \ some : of[u] = 0)
  BY CreditNat, NoCredit DEF CreditOf
<1>3. \A u \in some : of[u] \in Nat /\ of[u] = ofSome[u]
  BY <1>2 DEF CreditOf
<1>. HIDE DEF of, ofSome, some
<1>4. Total(of, crew) = Total(of, some)
  BY <1>1, <1>2, TotalWhere DEF some
<1>5. Total(of, some) = Total(ofSome, some)
  BY <1>1, <1>3, TotalSame
<1>. QED  BY <1>4, <1>5 DEF Credits, of, ofSome, some

\* By team, if the teams of all candidates are among them.
LEMMA CreditsByTeam ==
  ASSUME DashboardInv, NEW viewer, NEW status, NEW f, NEW dates, NEW crew \in SUBSET Users,
         NEW teams, IsFiniteSet(teams),
         \A u \in MatchableUsers(viewer) : u \in crew /\ openers[u].team \in teams
  PROVE  Total(TeamCredits(viewer, status, f, crew, teams, dates), teams)
           = Credits(viewer, status, f, Users, dates)
<1>. DEFINE some == {u \in crew : openers[u].team \in teams}
            of == CreditOf(viewer, status, f, some, dates)
            team == [u \in some |-> openers[u].team]
<1>1. some \in SUBSET Users /\ IsFiniteSet(some) /\ MatchableUsers(viewer) \subseteq some
  BY FiniteDirectory, FS_Subset
<1>2. \A u \in some : of[u] \in Nat /\ team[u] \in teams
  BY CreditNat DEF CreditOf
<1>3. Total(of, some) = Total([t \in teams |-> Total(of, {u \in some : team[u] = t})], teams)
  <2>. HIDE DEF some, of, team
  <2>. QED  BY <1>1, <1>2, TotalByParts
<1>4. ASSUME NEW t \in teams
      PROVE  Total(of, {u \in some : team[u] = t})
               = Credits(viewer, status, f, MembersOf(t, crew), dates)
  <2>. DEFINE members == MembersOf(t, crew)
              ofMembers == CreditOf(viewer, status, f, members, dates)
  <2>1. {u \in some : team[u] = t} = members
    BY DEF MembersOf
  <2>2. IsFiniteSet(members) /\ members \subseteq some
    BY <1>1, <2>1, FS_Subset
  <2>3. \A u \in members : of[u] \in Nat /\ of[u] = ofMembers[u]
    BY <1>2, <2>2 DEF CreditOf
  <2>4. Total(of, members) = Total(ofMembers, members)
    <3>. HIDE DEF of, members, ofMembers
    <3>. QED  BY <2>2, <2>3, TotalSame
  <2>. HIDE DEF some, of, team
  <2>. QED  BY <2>1, <2>4 DEF Credits
<1>5. Credits(viewer, status, f, some, dates) = Credits(viewer, status, f, Users, dates)
  <2>1. MatchableUsers(viewer) \subseteq Users
    BY <1>1
  <2>. HIDE DEF some
  <2>. QED  BY <1>1, <2>1, CreditsOfAll
<1>6. [t \in teams |-> Total(of, {u \in some : team[u] = t})]
        = TeamCredits(viewer, status, f, crew, teams, dates)
  <2>. HIDE DEF some, of, team
  <2>. QED  BY <1>4 DEF TeamCredits
<1>7. Total(of, some) = Credits(viewer, status, f, some, dates)
  BY DEF Credits
<1>. HIDE DEF some, of, team
<1>. QED  BY <1>3, <1>5, <1>6, <1>7

LEMMA CreditsOfOne ==
  ASSUME DashboardInv, NEW viewer, NEW status, NEW f, NEW u, NEW dates
  PROVE  Credits(viewer, status, f, {u}, dates) = Credit(viewer, status, f, u, dates)
<1>. DEFINE of == CreditOf(viewer, status, f, {u}, dates)
<1>1. of[u] = Credit(viewer, status, f, u, dates) /\ of[u] \in Nat
  BY CreditNat DEF CreditOf
<1>. HIDE DEF of
<1>2. Total(of, {} \cup {u}) = of[u] + Total(of, {})
  BY <1>1, FS_EmptySet, TotalPut
<1>3. {} \cup {u} = {u} /\ Total(of, {}) = 0
  BY TotalNothing
<1>4. Total(of, {u}) = of[u]
  BY <1>1, <1>2, <1>3
<1>. QED  BY <1>1, <1>4 DEF Credits, of

LEMMA SumOutcomesIs ==
  ASSUME DashboardInv, NEW viewer, NEW status, NEW allowed, NEW crew \in SUBSET allowed, NEW dates
  PROVE  SumOutcomes(Snapshot(OutcomeSource(viewer, status), allowed, dates), crew)
           = Sums(viewer, status, crew, dates)
<1>. DEFINE of == Snapshot(OutcomeSource(viewer, status), allowed, dates)
<1>1. of = Told(viewer, status, allowed, dates)
  BY SnapshotIs
<1>. HIDE DEF of
<1>2. ASSUME NEW f \in OutcomeKinds
      PROVE  Total([u \in crew |-> of[u][f]], crew) = Credits(viewer, status, f, crew, dates)
  <2>1. [u \in crew |-> of[u][f]] = CreditOf(viewer, status, f, crew, dates)
    BY <1>1 DEF CreditOf, Told
  <2>. QED  BY <2>1 DEF Credits
<1>3. SumOutcomes(of, crew) = Sums(viewer, status, crew, dates)
  BY <1>2 DEF SumOutcomes, Sums
<1>. QED  BY <1>3 DEF of

\* What some agents are credited with by day, on the days on which there is anything.
AreByDay(outcomes, viewer, status, crew) ==
  /\ DOMAIN outcomes \subseteq Dates
  /\ \A d \in DOMAIN outcomes : outcomes[d] = Sums(viewer, status, crew, {d})
  /\ \A d \in Dates \ DOMAIN outcomes, f \in OutcomeKinds :
       Credits(viewer, status, f, crew, {d}) = 0

LEMMA ByDayIs ==
  ASSUME DashboardInv, NEW viewer, NEW status, NEW crew \in SUBSET Users
  PROVE  AreByDay(ByDay(OutcomeSource(viewer, status), crew, Dates), viewer, status, crew)
<1>. DEFINE of == [d \in Dates |-> Snapshot(OutcomeSource(viewer, status), crew, {d})]
            outcomes == ByDay(OutcomeSource(viewer, status), crew, Dates)
            days == {d \in Dates : \E u \in crew, f \in OutcomeKinds : of[d][u][f] > 0}
<1>1. outcomes = [d \in days |-> SumOutcomes(of[d], crew)]
  BY Zenon DEF ByDay
<1>2. \A d \in Dates :
        SumOutcomes(of[d], crew) = Sums(viewer, status, crew, {d})
  BY SumOutcomesIs
<1>3. ASSUME NEW d \in Dates \ days, NEW g \in OutcomeKinds
      PROVE  Credits(viewer, status, g, crew, {d}) = 0
  <2>1. of[d] = Told(viewer, status, crew, {d})
    BY <1>3, SnapshotIs
  <2>2. \A u \in crew : Credit(viewer, status, g, u, {d}) = 0
    <3>1. \A u \in crew : ~(of[d][u][g] > 0)
      <4>. HIDE DEF of
      <4>1. d \in Dates /\ d \notin days
        BY <1>3
      <4>. QED  BY <4>1, Zenon
    <3>. HIDE DEF of
    <3>2. \A u \in crew : of[d][u][g] = Credit(viewer, status, g, u, {d})
      BY <2>1 DEF Told
    <3>3. \A u \in crew : Credit(viewer, status, g, u, {d}) \in Nat
      BY CreditNat
    <3>. QED  BY <3>1, <3>2, <3>3
  <2>3. \A u \in crew : CreditOf(viewer, status, g, crew, {d})[u] = 0
    BY <2>2 DEF CreditOf
  <2>. QED  BY <2>3, CreditsNat, TotalZero DEF Credits
<1>. HIDE DEF of, outcomes
<1>4. DOMAIN outcomes = days
  BY <1>1
<1>5. \A d \in days : outcomes[d] = SumOutcomes(of[d], crew)
  BY <1>1
<1>6. days \subseteq Dates
  OBVIOUS
<1>. HIDE DEF days
<1>7. AreByDay(outcomes, viewer, status, crew)
  BY <1>2, <1>3, <1>4, <1>5, <1>6 DEF AreByDay
<1>. QED  BY <1>7 DEF outcomes

\* What is counted by day sums up to what is counted at once.
LEMMA DaysAddUp ==
  ASSUME DashboardInv, NEW viewer, NEW status, NEW crew \in SUBSET Users, NEW outcomes,
         AreByDay(outcomes, viewer, status, crew),
         NEW days \in SUBSET Dates, DOMAIN outcomes \subseteq days, NEW f \in OutcomeKinds, NEW amounts,
         \A d \in days : amounts[d] = IF d \in DOMAIN outcomes THEN outcomes[d][f] ELSE 0
  PROVE  /\ Total(amounts, days) = Credits(viewer, status, f, crew, Dates)
         /\ \A d \in days : amounts[d] \in Nat
         /\ IsFiniteSet(days)
<1>. DEFINE of == DailyCredits(viewer, status, f, crew)
<1>1. IsFiniteSet(Dates) /\ IsFiniteSet(days)
  BY DatesFinite, FS_Subset
<1>2. \A d \in Dates : of[d] = Credits(viewer, status, f, crew, {d}) /\ of[d] \in Nat
  <2>1. \A d \in Dates : of[d] = Credits(viewer, status, f, crew, {d})
    BY DEF DailyCredits
  <2>2. \A d : Credits(viewer, status, f, crew, {d}) \in Nat
    BY CreditsNat
  <2>. HIDE DEF of
  <2>. QED  BY <2>1, <2>2
<1>3. \A d \in Dates \ days : of[d] = 0
  <2>1. \A d \in Dates \ DOMAIN outcomes : Credits(viewer, status, f, crew, {d}) = 0
    BY DEF AreByDay
  <2>. HIDE DEF of
  <2>. QED  BY <1>2, <2>1
<1>4. \A d \in days : of[d] = amounts[d] /\ amounts[d] \in Nat
  <2>1. \A d \in DOMAIN outcomes : outcomes[d][f] = Credits(viewer, status, f, crew, {d})
    BY DEF AreByDay, Sums
  <2>2. \A d \in Dates \ DOMAIN outcomes : Credits(viewer, status, f, crew, {d}) = 0
    BY DEF AreByDay
  <2>. HIDE DEF of
  <2>. QED  BY <1>2, <2>1, <2>2
<1>. HIDE DEF of
<1>5. Total(of, Dates) = Total(of, days)
  BY <1>1, <1>2, <1>3, TotalWhere
<1>6. Total(of, days) = Total(amounts, days)
  BY <1>1, <1>4, TotalSame
<1>7. Total(of, Dates) = Credits(viewer, status, f, crew, Dates)
  BY CreditsByDay DEF of
<1>. QED  BY <1>1, <1>4, <1>5, <1>6, <1>7

LEMMA InView ==
  ASSUME NEW viewer
  PROVE  /\ MatchableUsers(viewer) \subseteq ScopedActiveAgents(viewer)
         /\ ScopedActiveAgents(viewer) \subseteq EventAgents(viewer)
         /\ EventAgents(viewer) \subseteq Users
BY DEF MatchableUsers, Named, ScopedActiveAgents, EventAgents

LEMMA SumsOfAll ==
  ASSUME DashboardInv, NEW viewer, NEW status, NEW dates,
         NEW crew \in SUBSET Users, MatchableUsers(viewer) \subseteq crew
  PROVE  /\ Sums(viewer, status, crew, dates) = Sums(viewer, status, Users, dates)
         /\ \A f : Credits(viewer, status, f, crew, dates) = Credits(viewer, status, f, Users, dates)
<1>1. \A f : Credits(viewer, status, f, crew, dates) = Credits(viewer, status, f, Users, dates)
  <2>1. MatchableUsers(viewer) \subseteq Users
    BY InView
  <2>. QED  BY <2>1, CreditsOfAll
<1>. QED  BY <1>1 DEF Sums

\* One column of some rows.
Column(rows, some, f) == [p \in some |-> rows[p][f]]

LEMMA ShownAddUp ==
  ASSUME NEW status, NEW some, NEW rows, NEW all,
         \A f \in OutcomeKinds : Known(status, f) => all[f] = Total(Column(rows, some, f), some)
  PROVE  AddsUp([p \in some |-> Shown(status, rows[p])], Shown(status, all), status)
<1>. DEFINE parts == [p \in some |-> Shown(status, rows[p])]
            total == Shown(status, all)
<1>1. DOMAIN parts = some
  OBVIOUS
<1>2. ASSUME NEW f \in OutcomeKinds, Known(status, f)
      PROVE  total[f] = Total([p \in DOMAIN parts |-> parts[p][f]], DOMAIN parts)
  <2>1. total[f] = all[f]
    BY <1>2 DEF Shown
  <2>2. \A p \in some : parts[p][f] = rows[p][f]
    BY <1>2 DEF Shown
  <2>3. [p \in DOMAIN parts |-> parts[p][f]] = Column(rows, some, f)
    <3>. HIDE DEF parts
    <3>. QED  BY <1>1, <2>2 DEF Column
  <2>. HIDE DEF parts, total
  <2>. QED  BY <1>1, <1>2, <2>1, <2>3
<1>3. ASSUME NEW f \in OutcomeKinds, ~Known(status, f)
      PROVE  \A p \in DOMAIN parts : parts[p][f] = Unavailable /\ total[f] = Unavailable
  BY <1>3 DEF Shown
<1>. HIDE DEF parts, total
<1>4. AddsUp(parts, total, status)
  BY <1>2, <1>3 DEF AddsUp
<1>. QED  BY <1>4 DEF parts, total

-----------------------------------------------------------------------------
(* The pages *)

LEMMA PageIs ==
  ASSUME DashboardInv, NEW viewer, NEW status, NEW dialer
  PROVE  PerformancePage(viewer, OutcomeSource(viewer, status), dialer, Dates).outcomes
           = Shown(status, Sums(viewer, status, Users, Dates))
<1>. DEFINE source == OutcomeSource(viewer, status)
            seen == EventAgents(viewer)
<1>1. PerformancePage(viewer, source, dialer, Dates).outcomes
        = Shown(source.status, SumOutcomes(Snapshot(source, seen, Dates), seen))
  BY DEF PerformancePage
<1>2. source.status = status
  BY DEF OutcomeSource
<1>3. SumOutcomes(Snapshot(source, seen, Dates), seen) = Sums(viewer, status, seen, Dates)
  BY SumOutcomesIs
<1>4. seen \subseteq Users /\ MatchableUsers(viewer) \subseteq seen
  BY InView
<1>5. Sums(viewer, status, seen, Dates) = Sums(viewer, status, Users, Dates)
  <2>. HIDE DEF seen
  <2>. QED  BY <1>4, SumsOfAll
<1>. HIDE DEF source, seen
<1>. QED  BY <1>1, <1>2, <1>3, <1>5 DEF source

LEMMA DirectoryIs ==
  ASSUME DashboardInv, NEW viewer, NEW status, NEW dialer, NEW u \in ScopedActiveAgents(viewer)
  PROVE  LET row == Directory(viewer, OutcomeSource(viewer, status), dialer, Dates)[u]
             calls == dialer.figures[u].calls
         IN  /\ row.outcomes = Shown(status, Told(viewer, status, ScopedActiveAgents(viewer), Dates)[u])
             /\ row.calls = IF calls > 0 THEN calls ELSE Unavailable
<1>. DEFINE source == OutcomeSource(viewer, status)
            some == ScopedActiveAgents(viewer)
<1>1. Snapshot(source, some, Dates) = Told(viewer, status, some, Dates)
  BY SnapshotIs
<1>2. source.status = status
  BY DEF OutcomeSource
<1>3. DOMAIN Told(viewer, status, some, Dates) = some
  BY DEF Told
<1>. HIDE DEF source, some
<1>. QED  BY <1>1, <1>2, <1>3 DEF Directory, source, some

LEMMA DirectoryAddsUp ==
  ASSUME DashboardInv, NEW viewer, NEW status, NEW dialer
  PROVE  LET directory == Directory(viewer, OutcomeSource(viewer, status), dialer, Dates)
         IN  /\ DOMAIN directory = ScopedActiveAgents(viewer)
             /\ AddsUp(OutcomeColumns(directory), Shown(status, Sums(viewer, status, Users, Dates)), status)
<1>. DEFINE directory == Directory(viewer, OutcomeSource(viewer, status), dialer, Dates)
            some == ScopedActiveAgents(viewer)
            of == Told(viewer, status, some, Dates)
            all == Sums(viewer, status, Users, Dates)
<1>1. DOMAIN directory = some
  <2>1. Snapshot(OutcomeSource(viewer, status), some, Dates) = of
    BY SnapshotIs
  <2>2. DOMAIN of = some
    BY DEF Told
  <2>. HIDE DEF of, some
  <2>. QED  BY <2>1, <2>2 DEF Directory, some
<1>2. \A u \in some : directory[u].outcomes = Shown(status, of[u])
  BY DirectoryIs
<1>3. some \subseteq Users /\ MatchableUsers(viewer) \subseteq some
  BY InView
<1>4. ASSUME NEW f \in OutcomeKinds
      PROVE  all[f] = Total(Column(of, some, f), some)
  <2>1. Column(of, some, f) = CreditOf(viewer, status, f, some, Dates)
    BY DEF Column, Told, CreditOf
  <2>2. all[f] = Credits(viewer, status, f, Users, Dates)
    BY DEF Sums
  <2>. HIDE DEF of, some, all
  <2>3. Credits(viewer, status, f, some, Dates) = Credits(viewer, status, f, Users, Dates)
    BY <1>3, SumsOfAll
  <2>. QED  BY <2>1, <2>2, <2>3 DEF Credits
<1>. HIDE DEF directory, of, some, all
<1>5. OutcomeColumns(directory) = [u \in some |-> Shown(status, of[u])]
  BY <1>1, <1>2 DEF OutcomeColumns
<1>6. AddsUp([u \in some |-> Shown(status, of[u])], Shown(status, all), status)
  BY <1>4, ShownAddUp
<1>7. AddsUp(OutcomeColumns(directory), Shown(status, all), status)
  BY <1>5, <1>6
<1>. QED  BY <1>1, <1>7 DEF directory, some, all

\* The series of the page about performance: outcomes, and rows of all kinds.
LEMMA SeriesAddsUp ==
  ASSUME DashboardInv, NEW viewer, NEW status, NEW dialer,
         DOMAIN dialer.daily \subseteq Dates,
         \A d \in DOMAIN dialer.daily : dialer.daily[d].calls \in Nat,
         NEW calls, \A d \in Dates : calls[d] = IF d \in DOMAIN dialer.daily THEN dialer.daily[d].calls ELSE 0
  PROVE  LET page == PerformancePage(viewer, OutcomeSource(viewer, status), dialer, Dates)
         IN  /\ AddsUp(OutcomeColumns(page.series), Shown(status, Sums(viewer, status, Users, Dates)), status)
             /\ page.rows = Credits(viewer, status, "transfers", Users, Dates)
                              + Credits(viewer, status, "deals", Users, Dates) + Total(calls, Dates)
<1>. DEFINE source == OutcomeSource(viewer, status)
            seen == EventAgents(viewer)
            outcomes == ByDay(source, seen, Dates)
            page == PerformancePage(viewer, source, dialer, Dates)
            days == DOMAIN outcomes \cup DOMAIN dialer.daily
            on == [d \in days |-> IF d \in DOMAIN outcomes THEN outcomes[d] ELSE NoneCounted]
            all == Sums(viewer, status, Users, Dates)
            transfers == Column(on, days, "transfers")
            deals == Column(on, days, "deals")
            series == Series(viewer, source, dialer, Dates)
            rows == [d \in days |-> series[d].rows]
<1>1. source.status = status
  BY DEF OutcomeSource
<1>2. seen \in SUBSET Users /\ MatchableUsers(viewer) \subseteq seen
  BY InView
<1>3. AreByDay(outcomes, viewer, status, seen)
  BY <1>2, ByDayIs
<1>4. \A d \in days : calls[d] = IF d \in DOMAIN dialer.daily THEN dialer.daily[d].calls ELSE 0
  BY <1>3 DEF AreByDay
<1>. HIDE DEF source, seen, outcomes
<1>5. series = [d \in days |->
                  [outcomes |-> Shown(status, on[d]), rows |-> on[d].transfers + on[d].deals + calls[d]]]
  BY <1>1, <1>4 DEF Series, outcomes, seen
<1>6. page.series = series /\ page.rows = Total([d \in DOMAIN series |-> series[d].rows], DOMAIN series)
  BY DEF PerformancePage
<1>. HIDE DEF days, series, page
<1>7. days \subseteq Dates /\ DOMAIN outcomes \subseteq days
  BY <1>3 DEF AreByDay, days
<1>8. ASSUME NEW f \in OutcomeKinds
      PROVE  /\ Total(Column(on, days, f), days) = Credits(viewer, status, f, Users, Dates)
             /\ \A d \in days : Column(on, days, f)[d] \in Nat
             /\ IsFiniteSet(days)
  <2>. DEFINE amounts == Column(on, days, f)
  <2>1. \A d \in days : amounts[d] = IF d \in DOMAIN outcomes THEN outcomes[d][f] ELSE 0
    BY DEF Column, NoneCounted
  <2>. HIDE DEF amounts, on
  <2>2. /\ Total(amounts, days) = Credits(viewer, status, f, seen, Dates)
        /\ \A d \in days : amounts[d] \in Nat
        /\ IsFiniteSet(days)
    <3>1. seen \in SUBSET Users /\ days \in SUBSET Dates
      BY <1>2, <1>7
    <3>2. Total(amounts, days) = Credits(viewer, status, f, seen, Dates)
      BY <1>3, <1>7, <2>1, <3>1, DaysAddUp, SMTT(60)
    <3>3. \A d \in days : amounts[d] \in Nat
      BY <1>3, <1>7, <2>1, <3>1, DaysAddUp, SMTT(60)
    <3>4. IsFiniteSet(days)
      BY <1>7, DatesFinite, FS_Subset
    <3>. QED  BY <3>2, <3>3, <3>4
  <2>3. Credits(viewer, status, f, seen, Dates) = Credits(viewer, status, f, Users, Dates)
    BY <1>2, SumsOfAll
  <2>. QED  BY <2>2, <2>3 DEF amounts
<1>9. AddsUp(OutcomeColumns(page.series), Shown(status, all), status)
  <2>1. OutcomeColumns(series) = [d \in days |-> Shown(status, on[d])]
    <3>. HIDE DEF on
    <3>. QED  BY <1>5 DEF OutcomeColumns
  <2>2. \A f \in OutcomeKinds : all[f] = Total(Column(on, days, f), days)
    <3>. HIDE DEF on
    <3>. QED  BY <1>8 DEF Sums
  <2>. HIDE DEF on, all
  <2>3. AddsUp([d \in days |-> Shown(status, on[d])], Shown(status, all), status)
    BY <2>2, ShownAddUp
  <2>. QED  BY <1>6, <2>1, <2>3
<1>10. \A d \in days : rows[d] = on[d].transfers + on[d].deals + calls[d]
  <2>. HIDE DEF on
  <2>. QED  BY <1>5
<1>11. \A d \in days : transfers[d] = on[d].transfers /\ deals[d] = on[d].deals
  <2>. HIDE DEF on
  <2>. QED  BY DEF Column
<1>12. /\ Total(transfers, days) = Credits(viewer, status, "transfers", Users, Dates)
       /\ Total(deals, days) = Credits(viewer, status, "deals", Users, Dates)
       /\ IsFiniteSet(days)
       /\ \A d \in days : transfers[d] \in Nat /\ deals[d] \in Nat
  <2>. HIDE DEF on
  <2>1. "transfers" \in OutcomeKinds /\ "deals" \in OutcomeKinds
    BY DEF OutcomeKinds
  <2>. QED  BY <1>8, <2>1
<1>13. \A d \in Dates : calls[d] \in Nat
  OBVIOUS
<1>14. Total(calls, Dates) = Total(calls, days)
  <2>1. \A d \in Dates \ days : calls[d] = 0
    BY DEF days
  <2>. QED  BY <1>7, <1>13, <2>1, DatesFinite, TotalWhere
<1>15. DOMAIN series = days
  BY <1>5
<1>16. page.rows = Total(rows, days)
  BY <1>6, <1>15
<1>17. Total(rows, days) = Total(transfers, days) + Total(deals, days) + Total(calls, days)
  <2>. DEFINE both == [d \in days |-> transfers[d] + deals[d]]
  <2>. HIDE DEF on, transfers, deals, rows
  <2>1. \A d \in days : both[d] = transfers[d] + deals[d] /\ both[d] \in Nat
    BY <1>12
  <2>. HIDE DEF both
  <2>2. Total(both, days) = Total(transfers, days) + Total(deals, days)
    BY <1>12, <2>1, TotalPlus
  <2>3. \A d \in days : calls[d] \in Nat /\ rows[d] = both[d] + calls[d]
    <3>1. \A d \in days : rows[d] = transfers[d] + deals[d] + calls[d]
      BY <1>10, <1>11
    <3>2. \A d \in days : calls[d] \in Nat
      BY <1>7, <1>13
    <3>. QED  BY <2>1, <3>1, <3>2
  <2>4. Total(rows, days) = Total(both, days) + Total(calls, days)
    BY <1>12, <2>1, <2>3, TotalPlus
  <2>. QED  BY <2>2, <2>4
<1>. HIDE DEF rows, transfers, deals, on, all
<1>18. page.rows = Credits(viewer, status, "transfers", Users, Dates)
                     + Credits(viewer, status, "deals", Users, Dates) + Total(calls, Dates)
  BY <1>12, <1>14, <1>16, <1>17
<1>. QED  BY <1>9, <1>18 DEF page, source, all

-----------------------------------------------------------------------------
(* Trends *)

\* What is unknown counts as nothing.
Counting(n) == IF n = Unavailable THEN 0 ELSE n

LEMMA PointsAddUp ==
  ASSUME DashboardInv, NEW viewer, NEW status, NEW crew \in SUBSET Users, NEW outcomes,
         AreByDay(outcomes, viewer, status, crew),
         NEW trend, DOMAIN trend \subseteq Dates, DOMAIN outcomes \subseteq DOMAIN trend,
         NEW f \in OutcomeKinds,
         \A d \in DOMAIN trend :
           IF d \in DOMAIN outcomes THEN trend[d][f] = outcomes[d][f] ELSE trend[d][f] \in {0, Unavailable}
  PROVE  Total([d \in DOMAIN trend |-> Counting(trend[d][f])], DOMAIN trend)
           = Credits(viewer, status, f, crew, Dates)
<1>. DEFINE days == DOMAIN trend
            amounts == [d \in days |-> Counting(trend[d][f])]
<1>1. \A d \in DOMAIN outcomes : outcomes[d][f] \in Nat
  <2>1. \A d \in DOMAIN outcomes : outcomes[d][f] = Credits(viewer, status, f, crew, {d})
    BY DEF AreByDay, Sums
  <2>2. \A d : Credits(viewer, status, f, crew, {d}) \in Nat
    BY CreditsNat
  <2>. QED  BY <2>1, <2>2
<1>2. \A d \in days : amounts[d] = IF d \in DOMAIN outcomes THEN outcomes[d][f] ELSE 0
  BY <1>1 DEF Counting, Unavailable
<1>3. days \in SUBSET Dates /\ DOMAIN outcomes \subseteq days
  OBVIOUS
<1>. HIDE DEF days, amounts
<1>4. Total(amounts, days) = Credits(viewer, status, f, crew, Dates)
  BY <1>2, <1>3, DaysAddUp
<1>. QED  BY <1>4 DEF days, amounts

LEMMA TrendAddsUp ==
  ASSUME DashboardInv, NEW viewer, NEW status, NEW u \in Users,
         NEW calls, DOMAIN calls \subseteq Dates, \A d \in DOMAIN calls : calls[d] \in Nat
  PROVE  LET trend == Trend(OutcomeSource(viewer, status), calls, u, Dates)
             points == OutcomeColumns(trend)
         IN  /\ \A f \in OutcomeKinds : Known(status, f) =>
                  Total([d \in DOMAIN points |-> Counting(points[d][f])], DOMAIN points)
                    = Credit(viewer, status, f, u, Dates)
             /\ Total([d \in DOMAIN trend |-> Counting(trend[d].calls)], DOMAIN trend)
                  = Total(calls, DOMAIN calls)
<1>. DEFINE source == OutcomeSource(viewer, status)
            outcomes == ByDay(source, {u}, Dates)
            trend == Trend(source, calls, u, Dates)
            points == OutcomeColumns(trend)
            days == DOMAIN outcomes \cup DOMAIN calls
            amounts == [d \in days |-> Counting(trend[d].calls)]
<1>1. source.status = status
  BY DEF OutcomeSource
<1>2. AreByDay(outcomes, viewer, status, {u})
  BY ByDayIs
<1>. HIDE DEF source, outcomes
<1>3. trend = [d \in days |->
         [outcomes |-> Shown(IF d \in DOMAIN outcomes THEN status ELSE "unavailable",
                              IF d \in DOMAIN outcomes THEN outcomes[d] ELSE NoneCounted),
          calls |-> IF d \in DOMAIN calls THEN calls[d] ELSE Unavailable]]
  BY <1>1 DEF Trend, outcomes
<1>4. days \subseteq Dates /\ DOMAIN outcomes \subseteq days /\ DOMAIN calls \subseteq days
  BY <1>2 DEF AreByDay
<1>. HIDE DEF days, trend
<1>5. DOMAIN trend = days /\ DOMAIN points = days /\ \A d \in days :
         /\ points[d] = Shown(IF d \in DOMAIN outcomes THEN status ELSE "unavailable",
                              IF d \in DOMAIN outcomes THEN outcomes[d] ELSE NoneCounted)
         /\ trend[d].calls = IF d \in DOMAIN calls THEN calls[d] ELSE Unavailable
  BY <1>3 DEF OutcomeColumns
<1>. HIDE DEF points
<1>6. ASSUME NEW f \in OutcomeKinds, Known(status, f)
      PROVE  Total([d \in DOMAIN points |-> Counting(points[d][f])], DOMAIN points)
               = Credit(viewer, status, f, u, Dates)
  <2>1. ~Known("unavailable", f)
    BY DEF Known
  <2>2. \A d \in days :
          IF d \in DOMAIN outcomes THEN points[d][f] = outcomes[d][f] ELSE points[d][f] \in {0, Unavailable}
    BY <1>5, <1>6, <2>1 DEF Shown
  <2>3. Total([d \in DOMAIN points |-> Counting(points[d][f])], DOMAIN points)
          = Credits(viewer, status, f, {u}, Dates)
    <3>1. DOMAIN points \subseteq Dates /\ DOMAIN outcomes \subseteq DOMAIN points /\ {u} \in SUBSET Users
      BY <1>4, <1>5
    <3>2. \A d \in DOMAIN points :
            IF d \in DOMAIN outcomes THEN points[d][f] = outcomes[d][f] ELSE points[d][f] \in {0, Unavailable}
      BY <1>5, <2>2
    <3>. QED  BY <1>2, <1>6, <3>1, <3>2, PointsAddUp
  <2>. QED  BY <2>3, CreditsOfOne
<1>7. Total(amounts, days) = Total(calls, DOMAIN calls)
  <2>1. \A d \in DOMAIN calls : amounts[d] = calls[d]
    BY <1>4, <1>5 DEF Counting, Unavailable
  <2>2. \A d \in days \ DOMAIN calls : amounts[d] = 0
    BY <1>5 DEF Counting
  <2>3. IsFiniteSet(days) /\ IsFiniteSet(DOMAIN calls)
    BY <1>4, DatesFinite, FS_Subset
  <2>4. \A d \in days : amounts[d] \in Nat
    <3>. HIDE DEF amounts
    <3>. QED  BY <2>1, <2>2
  <2>. HIDE DEF amounts
  <2>5. Total(amounts, days) = Total(amounts, DOMAIN calls)
    BY <1>4, <2>2, <2>3, <2>4, TotalWhere
  <2>6. Total(amounts, DOMAIN calls) = Total(calls, DOMAIN calls)
    BY <2>1, <2>3, TotalSame
  <2>. QED  BY <2>5, <2>6
<1>8. Total([d \in DOMAIN trend |-> Counting(trend[d].calls)], DOMAIN trend)
        = Total(calls, DOMAIN calls)
  <2>1. [d \in DOMAIN trend |-> Counting(trend[d].calls)] = amounts
    BY <1>5
  <2>. HIDE DEF amounts
  <2>. QED  BY <1>5, <1>7, <2>1
<1>. QED  BY <1>6, <1>8, Zenon DEF trend, points, source

-----------------------------------------------------------------------------
(* The page about teams *)

\* Whoever sees teams sees the teams of all candidates.
LEMMA TeamsInView ==
  ASSUME DashboardInv, NEW viewer \in {Admin} \cup {Manager(t) : t \in openTeams}
  PROVE  /\ IsFiniteSet(VisibleTeams(viewer))
         /\ \A u \in MatchableUsers(viewer) :
              u \in ScopedActiveAgents(viewer) /\ openers[u].team \in VisibleTeams(viewer)
<1>1. IsFiniteSet(openTeams)
  BY FiniteDirectory, FS_Subset DEF DashboardInv, RowsInv, OpenersInv
<1>2. VisibleTeams(viewer) \subseteq openTeams
  BY DEF VisibleTeams
<1>3. IsFiniteSet(VisibleTeams(viewer))
  BY <1>1, <1>2, FS_Subset
<1>4. ASSUME NEW u \in MatchableUsers(viewer)
      PROVE  openers[u].team \in VisibleTeams(viewer)
  <2>1. openers[u].team \in openTeams /\ InScope(viewer, u)
    BY DEF MatchableUsers
  <2>2. CASE viewer = Admin
    BY <2>1, <2>2 DEF VisibleTeams, Admin
  <2>3. CASE \E t \in openTeams : viewer = Manager(t)
    BY <2>1, <2>3 DEF VisibleTeams, Manager, InScope
  <2>. QED  BY <2>2, <2>3
<1>. QED  BY <1>3, <1>4, InView

\* The row of one team, its trend included.
LEMMA TeamRowIs ==
  ASSUME DashboardInv, NEW viewer, NEW status, NEW dialer,
         \A u \in ScopedActiveAgents(viewer) : DOMAIN dialer.trends[u] \subseteq Dates,
         NEW t \in VisibleTeams(viewer)
  PROVE  LET row == TeamPage(viewer, OutcomeSource(viewer, status), dialer, Dates)[t]
             members == MembersOf(t, ScopedActiveAgents(viewer))
         IN  /\ row.withCalls = Cardinality({u \in members : dialer.figures[u].calls > 0})
             /\ row.outcomes = Shown(status, Sums(viewer, status, members, Dates))
             /\ \A f \in OutcomeKinds : Known(status, f) =>
                  Total([d \in DOMAIN row.trend |-> Counting(row.trend[d][f])], DOMAIN row.trend)
                    = Credits(viewer, status, f, members, Dates)
<1>. DEFINE source == OutcomeSource(viewer, status)
            some == ScopedActiveAgents(viewer)
            members == MembersOf(t, some)
            row == TeamPage(viewer, source, dialer, Dates)[t]
            outcomes == ByDay(source, members, Dates)
            trend == TeamTrend(source, dialer, members, Dates)
            days == DOMAIN outcomes \cup UNION {DOMAIN dialer.trends[u] : u \in members}
<1>1. members \subseteq some /\ members \in SUBSET Users
  BY InView DEF MembersOf
<1>2. source.status = status
  BY DEF OutcomeSource
<1>3. SumOutcomes(Snapshot(source, some, Dates), members) = Sums(viewer, status, members, Dates)
  BY <1>1, SumOutcomesIs
<1>4. AreByDay(outcomes, viewer, status, members)
  BY <1>1, ByDayIs
<1>. HIDE DEF source, outcomes
<1>5. row = [agents |-> Cardinality(members),
             withCalls |-> Cardinality({u \in members : dialer.figures[u].calls > 0}),
             outcomes |-> Shown(source.status, SumOutcomes(Snapshot(source, some, Dates), members)),
             trend |-> trend]
  BY DEF TeamPage
<1>6. trend = [d \in days |-> Shown(status, IF d \in DOMAIN outcomes THEN outcomes[d] ELSE NoneCounted)]
  BY <1>2 DEF TeamTrend, outcomes
<1>7. days \subseteq Dates /\ DOMAIN outcomes \subseteq days
  BY <1>1, <1>4 DEF AreByDay
<1>. HIDE DEF days, trend, some, row, members
<1>8. ASSUME NEW f \in OutcomeKinds, Known(status, f)
      PROVE  Total([d \in DOMAIN trend |-> Counting(trend[d][f])], DOMAIN trend)
               = Credits(viewer, status, f, members, Dates)
  <2>1. DOMAIN trend = days
    BY <1>6
  <2>2. \A d \in DOMAIN trend :
          IF d \in DOMAIN outcomes THEN trend[d][f] = outcomes[d][f] ELSE trend[d][f] \in {0, Unavailable}
    BY <1>6, <1>8 DEF Shown, NoneCounted
  <2>3. DOMAIN trend \subseteq Dates /\ DOMAIN outcomes \subseteq DOMAIN trend
    BY <1>7, <2>1
  <2>. QED  BY <1>1, <1>4, <1>8, <2>2, <2>3, PointsAddUp
<1>9. row.outcomes = Shown(status, Sums(viewer, status, members, Dates)) /\ row.trend = trend
  BY <1>2, <1>3, <1>5
<1>10. row.withCalls = Cardinality({u \in members : dialer.figures[u].calls > 0})
  BY <1>5
<1>. QED  BY <1>8, <1>9, <1>10 DEF row, source, members, some

LEMMA TeamsAddUp ==
  ASSUME DashboardInv, NEW viewer \in {Admin} \cup {Manager(t) : t \in openTeams}, NEW status, NEW dialer,
         \A u \in ScopedActiveAgents(viewer) : DOMAIN dialer.trends[u] \subseteq Dates
  PROVE  LET teams == TeamPage(viewer, OutcomeSource(viewer, status), dialer, Dates)
         IN  /\ DOMAIN teams = VisibleTeams(viewer)
             /\ AddsUp(OutcomeColumns(teams), Shown(status, Sums(viewer, status, Users, Dates)), status)
<1>. DEFINE teams == TeamPage(viewer, OutcomeSource(viewer, status), dialer, Dates)
            visible == VisibleTeams(viewer)
            some == ScopedActiveAgents(viewer)
            of == [t \in visible |-> Sums(viewer, status, MembersOf(t, some), Dates)]
            all == Sums(viewer, status, Users, Dates)
<1>1. DOMAIN teams = visible
  BY DEF TeamPage
<1>2. ASSUME NEW t \in visible
      PROVE  teams[t].outcomes = Shown(status, of[t])
  <2>1. teams[t].outcomes = Shown(status, Sums(viewer, status, MembersOf(t, some), Dates))
    BY TeamRowIs
  <2>. QED  BY <2>1
<1>3. ASSUME NEW f \in OutcomeKinds
      PROVE  all[f] = Total(Column(of, visible, f), visible)
  <2>1. Column(of, visible, f) = TeamCredits(viewer, status, f, some, visible, Dates)
    BY DEF Column, Sums, TeamCredits
  <2>2. all[f] = Credits(viewer, status, f, Users, Dates)
    BY DEF Sums
  <2>3. Total(TeamCredits(viewer, status, f, some, visible, Dates), visible)
          = Credits(viewer, status, f, Users, Dates)
    <3>1. some \in SUBSET Users /\ IsFiniteSet(visible)
      BY InView, TeamsInView
    <3>2. \A u \in MatchableUsers(viewer) : u \in some /\ openers[u].team \in visible
      BY TeamsInView
    <3>. HIDE DEF some, visible
    <3>. QED  BY <3>1, <3>2, CreditsByTeam
  <2>. QED  BY <2>1, <2>2, <2>3
<1>. HIDE DEF teams, of, visible, all
<1>4. OutcomeColumns(teams) = [t \in visible |-> Shown(status, of[t])]
  BY <1>1, <1>2 DEF OutcomeColumns
<1>5. AddsUp([t \in visible |-> Shown(status, of[t])], Shown(status, all), status)
  BY <1>3, ShownAddUp
<1>6. AddsUp(OutcomeColumns(teams), Shown(status, all), status)
  BY <1>4, <1>5
<1>. QED  BY <1>1, <1>6 DEF teams, visible, all

-----------------------------------------------------------------------------
(* What the queries about dialer files say to a page *)

RowsByDate(viewer) == [d \in Dates |-> Cardinality(RowsOf(viewer, {d}))]

LEMMA FiguresCount ==
  ASSUME MetricInv, NEW viewer \in {Admin} \cup {Manager(t) : t \in openTeams} \cup {Agent(u) : u \in Users},
         NEW u \in ScopedActiveAgents(viewer)
  PROVE  LET calls == DialerInputs(viewer, Dates).figures[u].calls
         IN  /\ calls = Cardinality({row \in RowsOf(viewer, Dates) : row.agent = u})
             /\ calls \in Nat
<1>. DEFINE rows == RowsOf(viewer, Dates)
            figures == AgentFigures(viewer, Dates)
<1>1. u \in Users /\ openers[u].active /\ InScope(viewer, u)
  BY DEF ScopedActiveAgents
<1>2. \/ viewer.role = "admin"
      \/ viewer.role = "manager" /\ u \in CurrentAgents(viewer)
      \/ viewer.role = "agent" /\ u = viewer.user
  <2>1. CASE viewer = Admin
    BY <2>1 DEF Admin
  <2>2. CASE \E t \in openTeams : viewer = Manager(t)
    BY <1>1, <2>2 DEF Manager, InScope, CurrentAgents
  <2>3. CASE \E v \in Users : viewer = Agent(v)
    BY <1>1, <2>3 DEF Agent, InScope
  <2>. QED  BY <2>1, <2>2, <2>3
<1>3. figures[u] = Totals({row \in rows : row.agent = u})
  BY <1>1, <1>2 DEF AgentFigures
<1>4. figures[u].calls = Cardinality({row \in rows : row.agent = u})
  BY <1>3 DEF Totals
<1>5. {row \in rows : row.agent = u} \subseteq ActiveRows
  BY DEF RowsOf
<1>6. Cardinality({row \in rows : row.agent = u}) \in Nat
  BY <1>5, RowsFinite
<1>. QED  BY <1>4, <1>6 DEF DialerInputs

LEMMA TrendsCount ==
  ASSUME MetricInv, NEW viewer, NEW u \in ScopedActiveAgents(viewer)
  PROVE  LET trend == DialerInputs(viewer, Dates).trends[u]
         IN  /\ DOMAIN trend \subseteq Dates
             /\ \A d \in DOMAIN trend : trend[d] \in Nat
             /\ Total(trend, DOMAIN trend) = Cardinality({row \in RowsOf(viewer, Dates) : row.agent = u})
<1>. DEFINE rows == {row \in RowsOf(viewer, Dates) : row.agent = u}
            days == {row.date : row \in rows}
            part == [row \in rows |-> row.date]
            trend == DialerTrend(viewer, u, Dates)
<1>1. rows \subseteq ActiveRows
  BY DEF RowsOf
<1>2. IsFiniteSet(rows)
  BY <1>1, RowsFinite
<1>3. days \subseteq Dates
  BY <1>1, RowTyped
<1>4. IsFiniteSet(days)
  BY <1>3, DatesFinite, FS_Subset
<1>5. \A row \in rows : part[row] \in days
  OBVIOUS
<1>6. trend = [d \in days |-> Cardinality({row \in rows : part[row] = d})]
  BY DEF DialerTrend
<1>7. \A d \in days : Cardinality({row \in rows : part[row] = d}) \in Nat
  <2>. HIDE DEF rows, days, part
  <2>. SUFFICES ASSUME NEW d \in days PROVE Cardinality({row \in rows : part[row] = d}) \in Nat
    OBVIOUS
  <2>1. {row \in rows : part[row] = d} \subseteq ActiveRows
    BY <1>1
  <2>. QED  BY <2>1, RowsFinite
<1>. HIDE DEF rows, days, part, trend
<1>8. Cardinality(rows) = Total([d \in days |-> Cardinality({row \in rows : part[row] = d})], days)
  BY <1>2, <1>4, <1>5, CountByParts
<1>9. DOMAIN trend = days /\ \A d \in days : trend[d] \in Nat
  BY <1>6, <1>7
<1>10. Total(trend, days) = Cardinality(rows)
  BY <1>6, <1>8
<1>11. DialerInputs(viewer, Dates).trends[u] = trend
  BY DEF DialerInputs, trend
<1>. QED  BY <1>3, <1>9, <1>10, <1>11 DEF rows

LEMMA DaysCount ==
  ASSUME MetricInv, NEW viewer
  PROVE  LET daily == DialerInputs(viewer, Dates).daily
         IN  /\ DOMAIN daily \subseteq Dates
             /\ \A d \in DOMAIN daily : daily[d].calls \in Nat
             /\ \A d \in Dates :
                  RowsByDate(viewer)[d] = IF d \in DOMAIN daily THEN daily[d].calls ELSE 0
             /\ Total(RowsByDate(viewer), Dates) = Cardinality(RowsOf(viewer, Dates))
<1>. DEFINE rows == RowsOf(viewer, Dates)
            days == {row.date : row \in rows}
            part == [row \in rows |-> row.date]
            daily == DailyFigures(viewer, Dates)
            on == RowsByDate(viewer)
<1>1. rows \subseteq ActiveRows /\ \A d : RowsOf(viewer, {d}) \subseteq ActiveRows
  BY DEF RowsOf
<1>2. IsFiniteSet(rows) /\ \A d : Cardinality(RowsOf(viewer, {d})) \in Nat
  BY <1>1, RowsFinite
<1>3. \A row \in rows : part[row] \in Dates
  BY <1>1, RowTyped
<1>4. days \subseteq Dates
  BY <1>3
<1>5. \A d \in Dates : RowsOf(viewer, {d}) = {row \in rows : part[row] = d}
  BY DEF RowsOf
<1>6. \A d \in Dates \ days : RowsOf(viewer, {d}) = {}
  BY <1>5
<1>7. DOMAIN daily = days /\ \A d \in days : daily[d] = Totals(RowsOf(viewer, {d}))
  BY DEF DailyFigures
<1>8. \A d \in days : daily[d].calls = Cardinality(RowsOf(viewer, {d})) /\ daily[d].calls \in Nat
  <2>. HIDE DEF days, daily
  <2>. SUFFICES ASSUME NEW d \in days
                PROVE  daily[d].calls = Cardinality(RowsOf(viewer, {d})) /\ daily[d].calls \in Nat
    OBVIOUS
  <2>. DEFINE some == RowsOf(viewer, {d})
  <2>1. daily[d] = Totals(some)
    BY <1>7
  <2>. HIDE DEF some
  <2>2. Totals(some).calls = Cardinality(some)
    BY DEF Totals
  <2>3. Cardinality(some) \in Nat
    BY <1>2 DEF some
  <2>. QED  BY <2>1, <2>2, <2>3 DEF some
<1>9. \A d \in Dates : on[d] = IF d \in days THEN daily[d].calls ELSE 0
  <2>. HIDE DEF days
  <2>1. \A d \in Dates : on[d] = Cardinality(RowsOf(viewer, {d}))
    BY DEF RowsByDate
  <2>. QED  BY <1>6, <1>8, <2>1, FS_EmptySet
<1>. HIDE DEF rows, days, part, daily
<1>10. on = [d \in Dates |-> Cardinality({row \in rows : part[row] = d})]
  BY <1>5 DEF RowsByDate
<1>11. Total(on, Dates) = Cardinality(rows)
  BY <1>2, <1>3, <1>10, DatesFinite, CountByParts
<1>12. DialerInputs(viewer, Dates).daily = daily
  BY DEF DialerInputs, daily
<1>. QED  BY <1>4, <1>7, <1>8, <1>9, <1>11, <1>12 DEF rows

LEMMA CallsOfPage ==
  ASSUME MetricInv, NEW viewer, NEW events
  PROVE  Counting(PerformancePage(viewer, events, DialerInputs(viewer, Dates), Dates).calls)
           = Cardinality(RowsOf(viewer, Dates))
<1>. DEFINE rows == RowsOf(viewer, Dates)
            dialer == DialerInputs(viewer, Dates)
            page == PerformancePage(viewer, events, dialer, Dates)
<1>1. rows \subseteq ActiveRows
  BY DEF RowsOf
<1>2. Cardinality(rows) \in Nat /\ (Cardinality(rows) = 0 <=> rows = {})
  BY <1>1, RowsFinite
<1>3. dialer.import = (rows # {}) /\ dialer.totals.calls = Cardinality(rows)
  BY DEF DialerInputs, HasImport, DashboardTotals, Totals
<1>. HIDE DEF rows, dialer
<1>4. page.calls = IF dialer.import THEN dialer.totals.calls ELSE Unavailable
  BY DEF PerformancePage
<1>. HIDE DEF page
<1>5. Counting(page.calls) = Cardinality(rows)
  <2>1. CASE rows = {}
    <3>1. page.calls = Unavailable
      BY <1>3, <1>4, <2>1
    <3>. QED  BY <1>2, <2>1, <3>1 DEF Counting
  <2>2. CASE rows # {}
    <3>1. page.calls = Cardinality(rows)
      BY <1>3, <1>4, <2>2
    <3>2. Cardinality(rows) # Unavailable
      BY <1>2 DEF Unavailable
    <3>. QED  BY <3>1, <3>2 DEF Counting
  <2>. QED  BY <2>1, <2>2
<1>. QED  BY <1>5 DEF page, dialer, rows

LEMMA UnknownIsNothing ==
  ASSUME DashboardInv, NEW viewer, NEW status, NEW f, ~Known(status, f), NEW crew \in SUBSET Users, NEW dates
  PROVE  Credits(viewer, status, f, crew, dates) = 0
<1>1. ASSUME NEW u
      PROVE  Credit(viewer, status, f, u, dates) = 0
  <2>. DEFINE rows == Credited(viewer, f, u, dates)
              w == Weight(status, f)
  <2>1. rows \subseteq Sheet(f)
    BY DEF Credited
  <2>2. IsFiniteSet(rows) /\ \A r \in rows : w[r] = 0
    BY <2>1, SheetFinite, FS_Subset DEF Weight
  <2>. HIDE DEF rows, w
  <2>3. Total(w, rows) = 0
    BY <2>2, TotalZero
  <2>. QED  BY <2>3 DEF Credit, rows, w
<1>2. \A u \in crew : CreditOf(viewer, status, f, crew, dates)[u] = 0
  BY <1>1 DEF CreditOf
<1>. QED  BY <1>2, CreditsNat, TotalZero DEF Credits

LEMMA ViewersAre ==
  ASSUME NEW viewer \in Viewers
  PROVE  /\ viewer \in {Admin} \cup {Manager(t) : t \in openTeams} \cup {Agent(u) : u \in Users}
         /\ viewer.role # "agent" => viewer \in {Admin} \cup {Manager(t) : t \in openTeams}
BY DEF Viewers, CompanyAgents, ScopedActiveAgents, Agent

LEMMA PagesDoAgree ==
  ASSUME DashboardInv, NEW viewer \in Viewers, NEW status
  PROVE  LET source == OutcomeSource(viewer, status)
             dialer == DialerInputs(viewer, Dates)
         IN  PagesAgree(viewer, Directory(viewer, source, dialer, Dates),
                        PerformancePage(viewer, source, dialer, Dates),
                        [u \in ScopedActiveAgents(viewer) |-> Trend(source, dialer.trends[u], u, Dates)],
                        TeamPage(viewer, source, dialer, Dates), status)
<1>. DEFINE source == OutcomeSource(viewer, status)
            dialer == DialerInputs(viewer, Dates)
            some == ScopedActiveAgents(viewer)
            directory == Directory(viewer, source, dialer, Dates)
            page == PerformancePage(viewer, source, dialer, Dates)
            trends == [u \in some |-> Trend(source, dialer.trends[u], u, Dates)]
            teams == TeamPage(viewer, source, dialer, Dates)
            all == Sums(viewer, status, Users, Dates)
<1>1. MetricInv
  BY DEF DashboardInv
<1>2. page.outcomes = Shown(status, all)
  BY PageIs
<1>3. DOMAIN directory = some /\ AddsUp(OutcomeColumns(directory), page.outcomes, status)
  <2>1. DOMAIN directory = some /\ AddsUp(OutcomeColumns(directory), Shown(status, all), status)
    BY DirectoryAddsUp
  <2>. QED  BY <1>2, <2>1
<1>4. /\ AddsUp(OutcomeColumns(page.series), page.outcomes, status)
      /\ page.rows = Credits(viewer, status, "transfers", Users, Dates)
                       + Credits(viewer, status, "deals", Users, Dates) + Cardinality(RowsOf(viewer, Dates))
  <2>. DEFINE calls == RowsByDate(viewer)
  <2>1. /\ DOMAIN dialer.daily \subseteq Dates
        /\ \A d \in DOMAIN dialer.daily : dialer.daily[d].calls \in Nat
        /\ \A d \in Dates : calls[d] = IF d \in DOMAIN dialer.daily THEN dialer.daily[d].calls ELSE 0
        /\ Total(calls, Dates) = Cardinality(RowsOf(viewer, Dates))
    BY <1>1, DaysCount
  <2>. HIDE DEF dialer, calls
  <2>2. /\ AddsUp(OutcomeColumns(page.series), Shown(status, all), status)
        /\ page.rows = Credits(viewer, status, "transfers", Users, Dates)
                         + Credits(viewer, status, "deals", Users, Dates) + Total(calls, Dates)
    BY <2>1, SeriesAddsUp
  <2>. QED  BY <1>2, <2>1, <2>2
<1>5. ASSUME NEW f \in OutcomeKinds
      PROVE  Counting(page.outcomes[f]) = Credits(viewer, status, f, Users, Dates)
  <2>1. Users \in SUBSET Users
    OBVIOUS
  <2>2. CASE Known(status, f)
    <3>1. page.outcomes[f] = Credits(viewer, status, f, Users, Dates)
      BY <1>2, <2>2 DEF Shown, Sums
    <3>2. Credits(viewer, status, f, Users, Dates) \in Nat
      BY <2>1, CreditsNat
    <3>. HIDE DEF page
    <3>. QED  BY <3>1, <3>2 DEF Counting, Unavailable
  <2>3. CASE ~Known(status, f)
    <3>1. page.outcomes[f] = Unavailable
      BY <1>2, <2>3 DEF Shown
    <3>2. Credits(viewer, status, f, Users, Dates) = 0
      BY <2>1, <2>3, UnknownIsNothing
    <3>. HIDE DEF page
    <3>. QED  BY <3>1, <3>2 DEF Counting
  <2>. QED  BY <2>2, <2>3
<1>6. page.rows = Counting(page.outcomes.transfers) + Counting(page.outcomes.deals) + Counting(page.calls)
  <2>1. "transfers" \in OutcomeKinds /\ "deals" \in OutcomeKinds
    BY DEF OutcomeKinds
  <2>2. Counting(page.calls) = Cardinality(RowsOf(viewer, Dates))
    BY <1>1, CallsOfPage
  <2>3. /\ Counting(page.outcomes.transfers) = Credits(viewer, status, "transfers", Users, Dates)
        /\ Counting(page.outcomes.deals) = Credits(viewer, status, "deals", Users, Dates)
    <3>. HIDE DEF page
    <3>. QED  BY <1>5, <2>1
  <2>. HIDE DEF page
  <2>. QED  BY <1>4, <2>2, <2>3
<1>7. ASSUME NEW u \in some
      PROVE  LET calls == dialer.figures[u].calls
             IN  /\ directory[u].outcomes = Shown(status, Told(viewer, status, some, Dates)[u])
                 /\ directory[u].calls = IF calls > 0 THEN calls ELSE Unavailable
                 /\ calls \in Nat
  <2>1. dialer.figures[u].calls \in Nat
    BY <1>1, ViewersAre, FiguresCount
  <2>. QED  BY <2>1, DirectoryIs
<1>8. ASSUME NEW u \in some
      PROVE  /\ \A f \in OutcomeKinds : Known(status, f) =>
                  directory[u].outcomes[f]
                    = Total([d \in DOMAIN OutcomeColumns(trends[u]) |-> Counting(OutcomeColumns(trends[u])[d][f])],
                            DOMAIN OutcomeColumns(trends[u]))
             /\ Counting(directory[u].calls)
                  = Total([d \in DOMAIN trends[u] |-> Counting(trends[u][d].calls)], DOMAIN trends[u])
  <2>. DEFINE calls == dialer.trends[u]
              count == dialer.figures[u].calls
              trend == Trend(source, calls, u, Dates)
  <2>1. u \in Users
    BY DEF ScopedActiveAgents
  <2>2. /\ DOMAIN calls \subseteq Dates /\ \A d \in DOMAIN calls : calls[d] \in Nat
        /\ Total(calls, DOMAIN calls) = Cardinality({row \in RowsOf(viewer, Dates) : row.agent = u})
    BY <1>1, TrendsCount
  <2>3. count = Cardinality({row \in RowsOf(viewer, Dates) : row.agent = u})
    BY <1>1, ViewersAre, FiguresCount
  <2>4. trends[u] = trend
    OBVIOUS
  <2>5. Counting(directory[u].calls) = count
    <3>. HIDE DEF directory, count
    <3>. QED  BY <1>7 DEF Counting, Unavailable, count
  <2>6. \A f \in OutcomeKinds : Known(status, f) =>
          directory[u].outcomes[f] = Credit(viewer, status, f, u, Dates)
    <3>. HIDE DEF directory
    <3>. QED  BY <1>7 DEF Shown, Told
  <2>. HIDE DEF calls
  <2>7. /\ \A f \in OutcomeKinds : Known(status, f) =>
             Total([d \in DOMAIN OutcomeColumns(trend) |-> Counting(OutcomeColumns(trend)[d][f])],
                   DOMAIN OutcomeColumns(trend)) = Credit(viewer, status, f, u, Dates)
        /\ Total([d \in DOMAIN trend |-> Counting(trend[d].calls)], DOMAIN trend) = Total(calls, DOMAIN calls)
    BY <2>1, <2>2, TrendAddsUp
  <2>. HIDE DEF trends, trend, directory, count
  <2>. QED  BY <2>2, <2>3, <2>4, <2>5, <2>6, <2>7
<1>9. ASSUME viewer.role # "agent"
      PROVE  /\ DOMAIN teams = VisibleTeams(viewer)
             /\ AddsUp(OutcomeColumns(teams), page.outcomes, status)
  <2>1. \A u \in some : DOMAIN dialer.trends[u] \subseteq Dates
    BY <1>1, TrendsCount
  <2>2. viewer \in {Admin} \cup {Manager(t) : t \in openTeams}
    BY <1>9, ViewersAre
  <2>. HIDE DEF dialer
  <2>3. DOMAIN teams = VisibleTeams(viewer) /\ AddsUp(OutcomeColumns(teams), Shown(status, all), status)
    BY <2>1, <2>2, TeamsAddUp
  <2>. QED  BY <1>2, <2>3
<1>10. ASSUME viewer.role # "agent", NEW t \in DOMAIN teams
       PROVE  /\ \A f \in OutcomeKinds : Known(status, f) =>
                   teams[t].outcomes[f]
                     = Total([d \in DOMAIN teams[t].trend |-> Counting(teams[t].trend[d][f])], DOMAIN teams[t].trend)
              /\ teams[t].withCalls
                   = Cardinality({u \in MembersOf(t, DOMAIN directory) : directory[u].calls # Unavailable})
  <2>. DEFINE members == MembersOf(t, some)
  <2>1. \A u \in some : DOMAIN dialer.trends[u] \subseteq Dates
    BY <1>1, TrendsCount
  <2>2. t \in VisibleTeams(viewer)
    BY <1>9, <1>10
  <2>. HIDE DEF dialer
  <2>3. /\ teams[t].withCalls = Cardinality({u \in members : dialer.figures[u].calls > 0})
        /\ teams[t].outcomes = Shown(status, Sums(viewer, status, members, Dates))
        /\ \A f \in OutcomeKinds : Known(status, f) =>
             Total([d \in DOMAIN teams[t].trend |-> Counting(teams[t].trend[d][f])], DOMAIN teams[t].trend)
               = Credits(viewer, status, f, members, Dates)
    BY <2>1, <2>2, TeamRowIs
  <2>4. \A f \in OutcomeKinds : Known(status, f) =>
          teams[t].outcomes[f] = Credits(viewer, status, f, members, Dates)
    <3>. HIDE DEF teams
    <3>. QED  BY <2>3 DEF Shown, Sums
  <2>5. members \subseteq some
    BY DEF MembersOf
  <2>. HIDE DEF directory, teams, some
  <2>6. {u \in members : dialer.figures[u].calls > 0} = {u \in members : directory[u].calls # Unavailable}
    <3>. HIDE DEF members
    <3>. QED  BY <1>7, <2>5 DEF Unavailable
  <2>. QED  BY <1>3, <2>3, <2>4, <2>6
<1>. HIDE DEF source, dialer, some, directory, page, trends, teams, all
<1>11. PagesAgree(viewer, directory, page, trends, teams, status)
  <2>1. \A u \in DOMAIN directory : u \in some
    BY <1>3
  <2>2. viewer.role = "agent" \/ viewer.role # "agent"
    OBVIOUS
  <2>. QED  BY <1>3, <1>4, <1>6, <1>8, <1>9, <1>10, <2>1, <2>2, Zenon DEF PagesAgree, Counting
<1>. QED  BY <1>11 DEF source, dialer, some, directory, page, trends, teams

-----------------------------------------------------------------------------
(* The dashboards of the roles *)

Competing == {openers[u].team : u \in CompanyAgents} \cap openTeams

\* What the dashboards share, in terms of credits.
Shares(shared, status) ==
  /\ shared.status = status /\ shared.dates = Dates
  /\ shared.source = OutcomeSource(Admin, status)
  /\ shared.of = Told(Admin, status, Users, Dates)
  /\ shared.total = Shown(status, Sums(Admin, status, Users, Dates))
  /\ shared.ranks = Ranks(status, shared.of)
  /\ DOMAIN shared.competition = Competing
  /\ \A t \in Competing :
       /\ shared.competition[t].agents = Cardinality(MembersOf(t, CompanyAgents))
       /\ shared.competition[t].outcomes
            = Shown(status, Sums(Admin, status, MembersOf(t, CompanyAgents), Dates))

LEMMA SharedIs ==
  ASSUME DashboardInv, NEW status
  PROVE  Shares(SharedInputs(OutcomeSource(Admin, status), Dates), status)
<1>. DEFINE source == OutcomeSource(Admin, status)
            shared == SharedInputs(source, Dates)
            of == Snapshot(source, Users, Dates)
<1>1. source.status = status
  BY DEF OutcomeSource
<1>2. of = Told(Admin, status, Users, Dates)
  BY SnapshotIs
<1>3. \A crew \in SUBSET Users : SumOutcomes(of, crew) = Sums(Admin, status, crew, Dates)
  BY SumOutcomesIs
<1>. HIDE DEF of
<1>4. shared = [source |-> source, status |-> source.status, dates |-> Dates, of |-> of,
                total |-> Shown(source.status, SumOutcomes(of, Users)),
                ranks |-> Ranks(source.status, of), competition |-> Competition(source.status, of)]
  BY Zenon DEF SharedInputs, of
<1>. HIDE DEF source, shared
<1>5. Competition(status, of)
        = [t \in Competing |->
             [agents |-> Cardinality(MembersOf(t, CompanyAgents)),
              outcomes |-> Shown(status, SumOutcomes(of, MembersOf(t, CompanyAgents)))]]
  BY Zenon DEF Competition, Competing
<1>6. \A t : MembersOf(t, CompanyAgents) \in SUBSET Users
  BY DEF MembersOf, CompanyAgents, ScopedActiveAgents
<1>7. /\ shared.status = status /\ shared.dates = Dates /\ shared.source = source /\ shared.of = of
      /\ shared.total = Shown(status, SumOutcomes(of, Users))
      /\ shared.ranks = Ranks(status, of) /\ shared.competition = Competition(status, of)
  BY <1>1, <1>4
<1>8. /\ DOMAIN shared.competition = Competing
      /\ \A t \in Competing :
           /\ shared.competition[t].agents = Cardinality(MembersOf(t, CompanyAgents))
           /\ shared.competition[t].outcomes
                = Shown(status, Sums(Admin, status, MembersOf(t, CompanyAgents), Dates))
  BY <1>3, <1>5, <1>6, <1>7
<1>9. shared.total = Shown(status, Sums(Admin, status, Users, Dates))
  BY <1>3, <1>7
<1>10. Shares(shared, status)
  BY <1>2, <1>7, <1>8, <1>9 DEF Shares, source
<1>. QED  BY <1>10 DEF shared, source

LEMMA CompanyAddsUp ==
  ASSUME DashboardInv, NEW status, NEW shared, Shares(shared, status)
  PROVE  AddsUp(OutcomeColumns(shared.competition), shared.total, status)
<1>. DEFINE of == [t \in Competing |-> Sums(Admin, status, MembersOf(t, CompanyAgents), Dates)]
            all == Sums(Admin, status, Users, Dates)
<1>1. OutcomeColumns(shared.competition) = [t \in Competing |-> Shown(status, of[t])]
  BY DEF OutcomeColumns, Shares
<1>2. IsFiniteSet(Competing)
  BY FiniteDirectory, FS_Subset DEF Competing, DashboardInv, RowsInv, OpenersInv
<1>3. ASSUME NEW f \in OutcomeKinds
      PROVE  all[f] = Total(Column(of, Competing, f), Competing)
  <2>1. Column(of, Competing, f) = TeamCredits(Admin, status, f, CompanyAgents, Competing, Dates)
    BY DEF Column, Sums, TeamCredits
  <2>2. all[f] = Credits(Admin, status, f, Users, Dates)
    BY DEF Sums
  <2>3. CompanyAgents \in SUBSET Users
    BY DEF CompanyAgents, ScopedActiveAgents
  <2>4. \A u \in MatchableUsers(Admin) : u \in CompanyAgents /\ openers[u].team \in Competing
    <3>1. \A u \in MatchableUsers(Admin) : u \in CompanyAgents /\ openers[u].team \in openTeams
      BY DEF MatchableUsers, CompanyAgents, ScopedActiveAgents, Named
    <3>. QED  BY <3>1 DEF Competing
  <2>5. Total(TeamCredits(Admin, status, f, CompanyAgents, Competing, Dates), Competing)
          = Credits(Admin, status, f, Users, Dates)
    BY <1>2, <2>3, <2>4, CreditsByTeam
  <2>. QED  BY <2>1, <2>2, <2>5
<1>. HIDE DEF of, all
<1>4. AddsUp([t \in Competing |-> Shown(status, of[t])], Shown(status, all), status)
  BY <1>3, ShownAddUp
<1>. QED  BY <1>1, <1>4 DEF Shares, all

\* Whoever may see an agent is told the same.
LEMMA AllAreToldTheSame ==
  ASSUME DashboardInv, NEW status, NEW shared, Shares(shared, status),
         NEW u \in CompanyAgents, NEW viewer \in ViewersOf(u)
  PROVE  ToldOutcomes(viewer, u, shared) = AgentDashboard(u, shared).standing
<1>1. u \in Users /\ openers[u].active
  BY DEF CompanyAgents, ScopedActiveAgents
<1>2. AgentDashboard(u, shared).standing = Shown(status, shared.of[u])
  BY DEF AgentDashboard, Shares
<1>3. CASE viewer = Admin
  <2>1. viewer.role = "admin"
    BY <1>3 DEF Admin
  <2>2. ToldOutcomes(viewer, u, shared) = Shown(shared.status, shared.of[u])
    BY <2>1 DEF ToldOutcomes
  <2>. QED  BY <1>2, <2>2 DEF Shares
<1>4. CASE viewer = Agent(u)
  <2>1. viewer.role = "agent"
    BY <1>4 DEF Agent
  <2>2. ToldOutcomes(viewer, u, shared) = AgentDashboard(u, shared).overview.outcomes
    BY <2>1 DEF ToldOutcomes
  <2>3. AgentDashboard(u, shared).overview.outcomes
          = Shown(shared.source.status, Snapshot(shared.source, {u}, shared.dates)[u])
    BY DEF AgentDashboard, AgentOverview
  <2>4. Snapshot(shared.source, {u}, shared.dates) = Told(Admin, status, {u}, Dates)
    BY SnapshotIs DEF Shares
  <2>5. Told(Admin, status, {u}, Dates)[u] = Told(Admin, status, Users, Dates)[u]
    BY <1>1 DEF Told
  <2>6. shared.source.status = status
    BY DEF OutcomeSource, Shares
  <2>. QED  BY <1>2, <2>2, <2>3, <2>4, <2>5, <2>6 DEF Shares
<1>5. ASSUME NEW t \in openTeams, t = openers[u].team, viewer = Manager(t)
      PROVE  ToldOutcomes(viewer, u, shared) = Shown(status, shared.of[u])
  <2>1. viewer.role = "manager" /\ viewer.teams = {t}
    BY <1>5 DEF Manager
  <2>2. (CHOOSE x \in {t} : TRUE) = t
    OBVIOUS
  <2>3. ToldOutcomes(viewer, u, shared) = ManagerDashboard(t, shared).rows[u]
    BY <2>1, <2>2 DEF ToldOutcomes
  <2>4. u \in ScopedActiveAgents(Manager(t))
    BY <1>1, <1>5 DEF ScopedActiveAgents, InScope, Manager
  <2>5. ManagerDashboard(t, shared).rows[u] = Shown(shared.status, shared.of[u])
    BY <2>4 DEF ManagerDashboard
  <2>. QED  BY <2>3, <2>5 DEF Shares
<1>6. viewer = Admin \/ viewer = Agent(u) \/ \E t \in openTeams : t = openers[u].team /\ viewer = Manager(t)
  BY DEF ViewersOf
<1>. QED  BY <1>2, <1>3, <1>4, <1>5, <1>6

\* Whoever has deals is no worse on the one list than on the other.
LEMMA RanksAgree ==
  ASSUME DashboardInv, NEW status, NEW shared, Shares(shared, status)
  PROVE  LET board == [u \in LeaderboardUsers(Admin) |-> LeaderboardRow(Admin, u, shared.dates).deals]
         IN  \A u \in DOMAIN shared.ranks \cap DOMAIN board : board[u] > 0 =>
               AgentDashboard(u, shared).rank
                 = 1 + Cardinality({v \in DOMAIN board : board[v] > board[u]})
                     .. Cardinality({v \in DOMAIN board : board[v] >= board[u]})
<1>. DEFINE board == [u \in LeaderboardUsers(Admin) |-> LeaderboardRow(Admin, u, shared.dates).deals]
            some == MatchableUsers(Admin)
            listed == CompanyAgents \cap Named
            deals == [u \in Users |-> shared.of[u].deals]
<1>. SUFFICES ASSUME NEW u \in DOMAIN shared.ranks \cap DOMAIN board, board[u] > 0
              PROVE  AgentDashboard(u, shared).rank
                       = 1 + Cardinality({v \in DOMAIN board : board[v] > board[u]})
                           .. Cardinality({v \in DOMAIN board : board[v] >= board[u]})
  OBVIOUS
<1>1. LeaderboardUsers(Admin) = some /\ some \subseteq listed /\ listed \subseteq Users
  BY DEF LeaderboardUsers, Admin, MatchableUsers, CompanyAgents, ScopedActiveAgents, Named
<1>2. status = "ready"
  <2>1. CASE status # "ready"
    <3>1. shared.ranks = <<>>
      BY <2>1 DEF Shares, Ranks
    <3>. QED  BY <3>1
  <2>. QED  BY <2>1
<1>3. shared.ranks[u] = 1 + Cardinality({v \in listed : shared.of[v].deals > shared.of[u].deals})
                          .. Cardinality({v \in listed : shared.of[v].deals >= shared.of[u].deals})
      /\ DOMAIN shared.ranks = listed
  BY <1>2 DEF Shares, Ranks
<1>4. AgentDashboard(u, shared).rank = shared.ranks[u]
  BY DEF AgentDashboard
<1>5. ASSUME NEW v \in Users
      PROVE  /\ shared.of[v].deals = DealsOf(v, some, Dates)
             /\ DealsOf(v, some, Dates) \in Nat
             /\ v \notin some => DealsOf(v, some, Dates) = 0
  <2>. DEFINE rows == Credited(Admin, "deals", v, Dates)
              w == Weight(status, "deals")
  <2>1. shared.of[v].deals = Credit(Admin, status, "deals", v, Dates)
    BY DEF Shares, Told, OutcomeKinds
  <2>2. rows = {r \in ValidDeals : r.date \in Dates /\ MatchedTo(r, some, v)}
    BY DEF Credited, Sheet
  <2>3. Total(w, rows) = Total(closed, rows)
    <3>1. \A r \in rows : w[r] = closed[r] /\ w[r] \in Nat /\ r \in Sheet("deals")
      BY <1>2, SheetFinite DEF Weight, Known, Credited, Sheet
    <3>2. IsFiniteSet(rows)
      BY SheetFinite, FS_Subset DEF Credited
    <3>. HIDE DEF rows, w
    <3>. QED  BY <3>1, <3>2, TotalSame
  <2>4. shared.of[v].deals = DealsOf(v, some, Dates)
    BY <2>1, <2>2, <2>3 DEF Credit, DealsOf, CopiesOf
  <2>5. DealsOf(v, some, Dates) \in Nat
    BY DealsNat DEF DashboardInv
  <2>6. v \notin some => DealsOf(v, some, Dates) = 0
    BY NoCandidateNoDeals
  <2>. QED  BY <2>4, <2>5, <2>6
<1>6. DOMAIN board = some /\ \A v \in some : board[v] = DealsOf(v, some, Dates)
  BY <1>1 DEF LeaderboardRow, OutcomesOf, Shares
<1>. HIDE DEF board, some, listed
<1>7. u \in some /\ u \in Users
  BY <1>1, <1>6
<1>8. {v \in listed : shared.of[v].deals > shared.of[u].deals} = {v \in DOMAIN board : board[v] > board[u]}
  BY <1>1, <1>5, <1>6, <1>7
<1>9. {v \in listed : shared.of[v].deals >= shared.of[u].deals} = {v \in DOMAIN board : board[v] >= board[u]}
  BY <1>1, <1>5, <1>6, <1>7
<1>. QED  BY <1>3, <1>4, <1>8, <1>9 DEF board

\* A team on its own: its manager's page, its leader's and the comparison of teams.
LEMMA TeamOnItsOwn ==
  ASSUME DashboardInv, NEW status, NEW shared, Shares(shared, status), NEW t \in openTeams
  PROVE  LET members == MembersOf(t, CompanyAgents)
             leader == LeaderRow({t}, shared)
         IN  /\ ScopedActiveAgents(Manager(t)) = members
             /\ t \in Competing <=> members # {}
             /\ leader.agents = Cardinality(members) /\ leader.agents \in Nat
             /\ leader.agents > 0 <=> t \in Competing
             /\ t \in Competing => leader.outcomes = shared.competition[t].outcomes
<1>. DEFINE members == MembersOf(t, CompanyAgents)
            rows == ScopedCompetition(shared.competition, {t})
            leader == LeaderRow({t}, shared)
            heads == [x \in DOMAIN rows |-> rows[x].agents]
            Amount(f) == [x \in DOMAIN rows |-> rows[x].outcomes[f]]
            all == Sums(Admin, status, members, Dates)
<1>1. ScopedActiveAgents(Manager(t)) = members
  BY DEF MembersOf, CompanyAgents, ScopedActiveAgents, InScope, Manager, Admin
<1>2. members \in SUBSET Users /\ (t \in Competing <=> members # {})
  BY DEF MembersOf, CompanyAgents, ScopedActiveAgents, Competing
<1>3. Cardinality(members) \in Nat /\ (Cardinality(members) = 0 <=> members = {})
  <2>1. IsFiniteSet(members)
    BY <1>2, FiniteDirectory, FS_Subset
  <2>. QED  BY <2>1, FS_CardinalityType, FS_EmptySet
<1>4. /\ leader.agents = Total(heads, DOMAIN rows)
      /\ leader.outcomes = [f \in OutcomeKinds |->
           IF \A x \in DOMAIN rows : rows[x].outcomes[f] # Unavailable
           THEN Total(Amount(f), DOMAIN rows) ELSE Unavailable]
  BY DEF LeaderRow
<1>5. DOMAIN rows = Competing \cap {t} /\ \A x \in DOMAIN rows : rows[x] = shared.competition[x]
  BY DEF ScopedCompetition, Shares
<1>6. CASE t \notin Competing
  <2>1. DOMAIN rows = {}
    BY <1>5, <1>6
  <2>2. leader.agents = 0
    <3>. HIDE DEF rows, heads, leader
    <3>. QED  BY <1>4, <2>1, TotalNothing
  <2>. HIDE DEF members, leader
  <2>. QED  BY <1>1, <1>2, <1>3, <1>6, <2>2 DEF members, leader
<1>7. CASE t \in Competing
  <2>1. DOMAIN rows = {t}
    BY <1>5, <1>7
  <2>2. ASSUME NEW g, g[t] \in Nat
        PROVE  Total(g, {t}) = g[t]
    <3>1. {} \cup {t} = {t} /\ Total(g, {}) = 0
      BY TotalNothing
    <3>2. Total(g, {} \cup {t}) = g[t] + Total(g, {})
      BY <2>2, FS_EmptySet, TotalPut
    <3>. QED  BY <2>2, <3>1, <3>2
  <2>3. /\ rows[t].agents = Cardinality(members)
        /\ rows[t].outcomes = Shown(status, all)
        /\ rows[t].outcomes = shared.competition[t].outcomes
    BY <1>5, <1>7 DEF Shares
  <2>4. leader.agents = Cardinality(members)
    <3>1. heads[t] = Cardinality(members)
      BY <2>1, <2>3
    <3>. HIDE DEF heads, rows, leader, members
    <3>. QED  BY <1>3, <1>4, <2>1, <2>2, <3>1
  <2>5. ASSUME NEW f \in OutcomeKinds
        PROVE  leader.outcomes[f] = rows[t].outcomes[f]
    <3>. DEFINE amount == Amount(f)
    <3>1. amount[t] = rows[t].outcomes[f]
      BY <2>1
    <3>2. leader.outcomes[f] = IF amount[t] # Unavailable THEN Total(amount, {t}) ELSE Unavailable
      <4>. HIDE DEF rows, leader
      <4>. QED  BY <1>4, <2>1, <3>1
    <3>3. CASE Known(status, f)
      <4>1. amount[t] \in Nat
        <5>1. rows[t].outcomes[f] = Credits(Admin, status, f, members, Dates)
          BY <2>3, <3>3 DEF Shown, Sums
        <5>2. Credits(Admin, status, f, members, Dates) \in Nat
          BY <1>2, CreditsNat
        <5>. HIDE DEF amount, rows, members
        <5>. QED  BY <3>1, <5>1, <5>2
      <4>. HIDE DEF amount, leader, rows
      <4>2. Total(amount, {t}) = amount[t] /\ amount[t] # Unavailable
        BY <2>2, <4>1 DEF Unavailable
      <4>. QED  BY <3>1, <3>2, <4>2
    <3>4. CASE ~Known(status, f)
      <4>1. rows[t].outcomes[f] = Unavailable
        BY <2>3, <3>4 DEF Shown
      <4>. HIDE DEF amount, leader, rows
      <4>. QED  BY <3>1, <3>2, <4>1
    <3>. QED  BY <3>3, <3>4
  <2>6. leader.outcomes = rows[t].outcomes
    <3>1. /\ rows[t].outcomes = [f \in OutcomeKinds |-> rows[t].outcomes[f]]
          /\ leader.outcomes = [f \in OutcomeKinds |-> leader.outcomes[f]]
      <4>1. rows[t].outcomes = [f \in OutcomeKinds |-> rows[t].outcomes[f]]
        <5>. HIDE DEF rows, all
        <5>. QED  BY <2>3 DEF Shown
      <4>2. leader.outcomes = [f \in OutcomeKinds |-> leader.outcomes[f]]
        <5>. HIDE DEF rows, leader, Amount
        <5>. QED  BY <1>4
      <4>. QED  BY <4>1, <4>2
    <3>. HIDE DEF rows, leader
    <3>. QED  BY <2>5, <3>1
  <2>. HIDE DEF members, leader, rows
  <2>. QED  BY <1>1, <1>2, <1>3, <1>7, <2>3, <2>4, <2>6 DEF members, leader
<1>. QED  BY <1>6, <1>7

LEMMA LeadersAgree ==
  ASSUME DashboardInv, NEW status, NEW shared, Shares(shared, status), NEW t \in openTeams
  PROVE  LET manager == ManagerDashboard(t, shared)
             leader == LeaderRow({t}, shared)
         IN  /\ DOMAIN manager.teams = IF leader.agents > 0 THEN {t} ELSE {}
             /\ IF leader.agents > 0
                THEN /\ AddsUp(manager.rows, manager.teams[t].outcomes, shared.status)
                     /\ leader.outcomes = ComparedTeam(t, shared).outcomes
                     /\ leader.commission = ComparedTeam(t, shared).commission
                     /\ manager.cases = ComparedTeam(t, shared).cases \cap leader.cases
                ELSE manager.rows = <<>> /\ manager.cases = {}
<1>. DEFINE manager == ManagerDashboard(t, shared)
            leader == LeaderRow({t}, shared)
            team == ComparedTeam(t, shared)
            members == MembersOf(t, CompanyAgents)
            all == Sums(Admin, status, members, Dates)
<1>1. /\ ScopedActiveAgents(Manager(t)) = members
      /\ t \in Competing <=> members # {}
      /\ leader.agents > 0 <=> t \in Competing
      /\ t \in Competing => leader.outcomes = shared.competition[t].outcomes
  BY TeamOnItsOwn
<1>2. manager.teams = [x \in Competing \cap {t} |-> shared.competition[x]]
  BY DEF ManagerDashboard, ScopedCompetition, Shares
<1>3. manager.rows = [u \in members |-> Shown(status, shared.of[u])]
  BY <1>1 DEF ManagerDashboard, Shares
<1>4. /\ manager.cases = {c \in Cases : c.team = t /\ c.agent \in members}
      /\ team.cases = {c \in Cases : c.team = t}
      /\ leader.cases = {c \in Cases : c.agent \in CompanyAgents /\ openers[c.agent].team \in {t} \cap openTeams}
  <2>1. manager.cases = {c \in Cases : c.team = t /\ c.agent \in members}
    BY <1>1 DEF ManagerDashboard, CasesSeen, Manager
  <2>2. CasesSeen(Admin) = Cases
    BY DEF CasesSeen, Admin
  <2>3. team.cases = {c \in Cases : c.team = t}
    BY <2>2 DEF ComparedTeam
  <2>4. leader.cases = {c \in Cases : c.agent \in CompanyAgents /\ openers[c.agent].team \in {t} \cap openTeams}
    BY <2>2 DEF LeaderRow
  <2>. QED  BY <2>1, <2>3, <2>4
<1>5. leader.commission = team.commission
  BY DEF LeaderRow, ComparedTeam
<1>6. team.outcomes = shared.competition[t].outcomes
  BY DEF ComparedTeam
<1>7. manager.cases = team.cases \cap leader.cases
  <2>1. \A u : u \in members <=> u \in CompanyAgents /\ openers[u].team = t
    BY DEF MembersOf
  <2>. HIDE DEF manager, leader, team, members
  <2>. QED  BY <1>4, <2>1
<1>8. t \in Competing => AddsUp(manager.rows, manager.teams[t].outcomes, status)
  <2>. SUFFICES ASSUME t \in Competing PROVE AddsUp(manager.rows, manager.teams[t].outcomes, status)
    OBVIOUS
  <2>. DEFINE of == shared.of
  <2>1. manager.teams[t].outcomes = Shown(status, all)
    <3>. HIDE DEF manager
    <3>. QED  BY <1>2 DEF Shares
  <2>2. ASSUME NEW f \in OutcomeKinds
        PROVE  all[f] = Total(Column(of, members, f), members)
    <3>1. members \subseteq Users
      BY DEF MembersOf, CompanyAgents, ScopedActiveAgents
    <3>2. Column(of, members, f) = CreditOf(Admin, status, f, members, Dates)
      <4>. HIDE DEF members
      <4>. QED  BY <3>1 DEF Column, CreditOf, Shares, Told
    <3>3. all[f] = Credits(Admin, status, f, members, Dates)
      BY DEF Sums
    <3>. QED  BY <3>2, <3>3 DEF Credits
  <2>. HIDE DEF of, members, all, manager
  <2>3. AddsUp([u \in members |-> Shown(status, of[u])], Shown(status, all), status)
    BY <2>2, ShownAddUp
  <2>. QED  BY <1>3, <2>1, <2>3 DEF of
<1>9. t \notin Competing => manager.rows = <<>> /\ manager.cases = {}
  <2>. SUFFICES ASSUME t \notin Competing PROVE manager.rows = <<>> /\ manager.cases = {}
    OBVIOUS
  <2>1. members = {}
    BY <1>1
  <2>2. manager.cases = {}
    <3>. HIDE DEF manager, members
    <3>. QED  BY <1>4, <2>1
  <2>3. manager.rows = <<>>
    <3>. HIDE DEF manager, members
    <3>. QED  BY <1>3, <2>1
  <2>. QED  BY <2>2, <2>3
<1>10. DOMAIN manager.teams = IF t \in Competing THEN {t} ELSE {}
  <2>. HIDE DEF manager
  <2>. QED  BY <1>2
<1>11. shared.status = status
  BY DEF Shares
<1>. HIDE DEF manager, leader, team, members, all
<1>. QED  BY <1>1, <1>5, <1>6, <1>7, <1>8, <1>9, <1>10, <1>11 DEF manager, leader, team

\* Whoever is paid is paid in one team, or in none that is active.
LEMMA CommissionsAddUp ==
  ASSUME DashboardInv, NEW shared, Shares(shared, "ready")
  PROVE  CompanyRow(shared).commission
           = Total([t \in openTeams |-> LeaderRow({t}, shared).commission], openTeams)
             + Commission(Admin, shared.status, (Teams \ openTeams) \cup {Teamless})
<1>. DEFINE d == LastDate
            all == CommissionEmployees(Admin, d)
            In(teams) == {u \in all : CommissionTeam(Admin, u, d) \in teams}
            rest == (Teams \ openTeams) \cup {Teamless}
            seen == In(openTeams)
            unseen == In(rest)
            everyone == In(Teams \cup {Teamless})
            pay == [u \in Users |-> PaidDeals(Admin, u, d)]
            team == [u \in seen |-> CommissionTeam(Admin, u, d)]
            Of(t) == {u \in seen : team[u] = t}
            commission == [t \in openTeams |-> LeaderRow({t}, shared).commission]
<1>1. openTeams \subseteq Teams /\ IsFiniteSet(openTeams) /\ Teamless \notin openTeams
  BY TeamlessIsNoTeam, FiniteDirectory, FS_Subset DEF DashboardInv, RowsInv, OpenersInv
<1>2. all \subseteq Users
  BY DEF CommissionEmployees, CommissionRoster
<1>3. IsFiniteSet(seen) /\ IsFiniteSet(unseen) /\ IsFiniteSet(everyone)
  BY <1>2, FiniteDirectory, FS_Subset
<1>4. \A u \in Users : pay[u] \in Nat
  BY DealsNat DEF PaidDeals, DashboardInv
<1>5. ASSUME NEW some \in SUBSET Users
      PROVE  CommissionOf(Admin, some, d) = Total(pay, some)
  <2>. DEFINE own == [u \in some |-> PaidDeals(Admin, u, d)]
  <2>1. \A u \in some : own[u] \in Nat /\ own[u] = pay[u]
    BY <1>4
  <2>2. IsFiniteSet(some)
    BY FiniteDirectory, FS_Subset
  <2>3. Total(own, some) = Total(pay, some)
    <3>. HIDE DEF own, pay
    <3>. QED  BY <2>1, <2>2, TotalSame
  <2>. QED  BY <2>3 DEF CommissionOf
<1>6. ASSUME NEW teams
      PROVE  Commission(Admin, shared.status, teams) = Total(pay, In(teams))
  <2>1. Commission(Admin, shared.status, teams) = CommissionOf(Admin, In(teams), d)
    BY DEF Commission, Shares
  <2>2. In(teams) \in SUBSET Users
    BY <1>2
  <2>. HIDE DEF pay, In
  <2>. QED  BY <1>5, <2>1, <2>2
<1>7. ASSUME NEW t \in openTeams
      PROVE  commission[t] = Total(pay, Of(t))
  <2>1. Of(t) = In({t})
    OBVIOUS
  <2>2. commission[t] = Commission(Admin, shared.status, {t})
    BY DEF LeaderRow
  <2>. HIDE DEF Of, In, commission, pay
  <2>. QED  BY <1>6, <2>1, <2>2
<1>8. Total(pay, seen) = Total(commission, openTeams)
  <2>1. \A u \in seen : pay[u] \in Nat /\ team[u] \in openTeams
    BY <1>2, <1>4
  <2>2. Total(pay, seen) = Total([t \in openTeams |-> Total(pay, Of(t))], openTeams)
    <3>. HIDE DEF pay, seen, team
    <3>. QED  BY <1>1, <1>3, <2>1, TotalByParts
  <2>3. [t \in openTeams |-> Total(pay, Of(t))] = commission
    <3>1. commission = [t \in openTeams |-> commission[t]]
      OBVIOUS
    <3>. HIDE DEF pay, Of, commission
    <3>. QED  BY <1>7, <3>1
  <2>. HIDE DEF pay, seen, team, commission, Of
  <2>. QED  BY <2>2, <2>3
<1>9. Total(pay, everyone) = Total(pay, seen) + Total(pay, unseen)
  <2>1. everyone = seen \cup unseen /\ seen \cap unseen = {}
    BY <1>1
  <2>2. \A u \in seen \cup unseen : pay[u] \in Nat
    BY <1>2, <1>4
  <2>. HIDE DEF pay, everyone, seen, unseen
  <2>. QED  BY <1>3, <2>1, <2>2, TotalUnion
<1>10. CompanyRow(shared).commission = Total(pay, everyone)
  <2>1. CompanyRow(shared).commission = Commission(Admin, shared.status, Teams \cup {Teamless})
    BY DEF CompanyRow
  <2>. HIDE DEF pay, In
  <2>. QED  BY <1>6, <2>1
<1>11. Commission(Admin, shared.status, rest) = Total(pay, unseen)
  <2>. HIDE DEF pay, In, rest
  <2>. QED  BY <1>6
<1>. HIDE DEF pay, seen, unseen, everyone, commission, rest
<1>. QED  BY <1>8, <1>9, <1>10, <1>11 DEF commission, rest

LEMMA RolesDoAgree ==
  ASSUME DashboardInv, NEW status
  PROVE  LET shared == SharedInputs(OutcomeSource(Admin, status), Dates)
         IN  /\ RolesAgree(shared)
             /\ PerformancePage(Admin, Events(Admin, status), DialerInputs(Admin, Dates), Dates).outcomes = shared.total
<1>. DEFINE shared == SharedInputs(OutcomeSource(Admin, status), Dates)
<1>1. Shares(shared, status)
  BY SharedIs
<1>2. PerformancePage(Admin, Events(Admin, status), DialerInputs(Admin, Dates), Dates).outcomes
        = Shown(status, Sums(Admin, status, Users, Dates))
  BY PageIs DEF Events
<1>. HIDE DEF shared
<1>3. shared.status = status /\ shared.total = Shown(status, Sums(Admin, status, Users, Dates))
  BY <1>1 DEF Shares
<1>4. CompanyRow(shared).outcomes = shared.total
  BY DEF CompanyRow
<1>5. AddsUp(OutcomeColumns(shared.competition), CompanyRow(shared).outcomes, shared.status)
  BY <1>1, <1>3, <1>4, CompanyAddsUp
<1>6. \A u \in CompanyAgents : \A viewer \in ViewersOf(u) :
         ToldOutcomes(viewer, u, shared) = AgentDashboard(u, shared).standing
  BY <1>1, AllAreToldTheSame
<1>7. LET board == [u \in LeaderboardUsers(Admin) |-> LeaderboardRow(Admin, u, shared.dates).deals]
      IN  \A u \in DOMAIN shared.ranks \cap DOMAIN board : board[u] > 0 =>
            AgentDashboard(u, shared).rank
              = 1 + Cardinality({v \in DOMAIN board : board[v] > board[u]})
                  .. Cardinality({v \in DOMAIN board : board[v] >= board[u]})
  BY <1>1, RanksAgree, Zenon
<1>8. \A t \in openTeams :
         LET manager == ManagerDashboard(t, shared)
             leader == LeaderRow({t}, shared)
         IN  /\ DOMAIN manager.teams = IF leader.agents > 0 THEN {t} ELSE {}
             /\ IF leader.agents > 0
                THEN /\ AddsUp(manager.rows, manager.teams[t].outcomes, shared.status)
                     /\ leader.outcomes = ComparedTeam(t, shared).outcomes
                     /\ leader.commission = ComparedTeam(t, shared).commission
                     /\ manager.cases = ComparedTeam(t, shared).cases \cap leader.cases
                ELSE manager.rows = <<>> /\ manager.cases = {}
  BY <1>1, LeadersAgree, Zenon
<1>9. shared.status = "ready" =>
         CompanyRow(shared).commission
           = Total([t \in openTeams |-> LeaderRow({t}, shared).commission], openTeams)
             + Commission(Admin, shared.status, (Teams \ openTeams) \cup {Teamless})
  BY <1>1, <1>3, CommissionsAddUp
<1>10. RolesAgree(shared)
  BY <1>5, <1>6, <1>7, <1>8, <1>9, Zenon DEF RolesAgree
<1>. QED  BY <1>2, <1>3, <1>10 DEF shared

LEMMA ShiftsDoAgree ==
  ASSUME DashboardInv, NEW d \in Dates
  PROVE  ShiftsAgree(d)
<1>1. MetricInv
  BY DEF DashboardInv
<1>2. ShiftCalls(CompanyAgents, d) = HourlyCalls(Admin, {d})
  <2>1. \A row \in ActiveRows : row.agent \in CompanyAgents
    BY <1>1, RowTyped DEF CompanyAgents, ScopedActiveAgents, InScope, Admin
  <2>2. ShiftRows(CompanyAgents, d) = {row \in RowsOf(Admin, {d}) : row.hourly}
    BY <2>1 DEF ShiftRows, RowsOf, Sees, Admin
  <2>. QED  BY <2>2 DEF ShiftCalls, HourlyCalls
<1>3. ASSUME NEW u \in CompanyAgents
      PROVE  ShiftCalls({u}, d) = HourlyCalls(Agent(u), {d})
  <2>1. ShiftRows({u}, d) = {row \in RowsOf(Agent(u), {d}) : row.hourly}
    BY DEF ShiftRows, RowsOf, Sees, Agent
  <2>. QED  BY <2>1 DEF ShiftCalls, HourlyCalls
<1>4. ASSUME NEW t \in openTeams, NEW u \in ScopedActiveAgents(Manager(t))
      PROVE  ShiftCalls({u}, d)
               = Cardinality({row \in RowsOf(Manager(t), {d}) : row.agent = u /\ row.hourly})
                   + Cardinality({row \in ShiftRows({u}, d) : row.team \notin {t, Company}})
  <2>. DEFINE rows == ShiftRows({u}, d)
              seen == {row \in RowsOf(Manager(t), {d}) : row.agent = u /\ row.hourly}
              others == {row \in rows : row.team \notin {t, Company}}
  <2>1. u \in CurrentAgents(Manager(t))
    BY DEF ScopedActiveAgents, InScope, CurrentAgents, Manager
  <2>2. \A row : row \in seen <=> row \in rows /\ row.team \in {t, Company}
    BY <2>1 DEF ShiftRows, RowsOf, Sees, Manager
  <2>3. rows = seen \cup others /\ seen \cap others = {}
    BY <2>2
  <2>4. IsFiniteSet(rows)
    <3>1. rows \subseteq ActiveRows
      BY DEF ShiftRows
    <3>. QED  BY <1>1, <3>1, RowsFinite
  <2>. HIDE DEF rows, seen, others
  <2>5. Cardinality(rows) = Cardinality(seen) + Cardinality(others)
    BY <2>3, <2>4, CountTwo
  <2>. QED  BY <2>5 DEF ShiftCalls, rows, seen, others
<1>. QED  BY <1>2, <1>3, <1>4 DEF ShiftsAgree

-----------------------------------------------------------------------------
(* All pages *)

LEMMA DashboardInvInit == OutcomeInit /\ MetricInit => DashboardInv
<1>. SUFFICES ASSUME OutcomeInit, MetricInit PROVE DashboardInv
  OBVIOUS
<1>1. BagToSet(closed) = {} /\ BagToSet(xfers) = {}
  BY DEF OutcomeInit, BagToSet, EmptyBag, SetToBag
<1>. QED  BY <1>1, RowsInvInit, MetricInvInit, FS_EmptySet DEF DashboardInv

LEMMA DashboardInvStep ==
  DashboardInv /\ [DashboardNext]_<<outcomeVars, metricVars>> => DashboardInv'
<1>. SUFFICES ASSUME DashboardInv, [DashboardNext]_<<outcomeVars, metricVars>>
              PROVE  DashboardInv'
  OBVIOUS
<1>1. [OutcomeNext]_outcomeVars
  BY DEF DashboardNext, MetricNext, OutcomeNext
<1>2. RowsInv'
  BY <1>1, RowsInvStep DEF DashboardInv
<1>3. MetricInv'
  <2>1. CASE UNCHANGED metricVars
    BY <1>2, <2>1 DEF DashboardInv, MetricInv, RowsInv, metricVars
  <2>2. CASE MetricNext
    BY <2>2, MetricInvStep DEF DashboardInv
  <2>. QED  BY <2>1, <2>2 DEF DashboardNext
<1>4. \/ UNCHANGED <<closed, xfers>>
      \/ (\E cells \in ClosedCells : TypeClosed(cells)) \/ (\E cells \in XferCells : TypeXfer(cells))
  <2>1. Change => UNCHANGED <<closed, xfers>>
    BY DEF Change
  <2>. QED
    BY <1>1, <2>1 DEF OutcomeNext, ReassignAgents, outcomeVars, RenameAgent, SetActive, MoveAgent, LeaveTeam,
       SetOpen
<1>5. CASE UNCHANGED <<closed, xfers>>
  BY <1>2, <1>3, <1>5 DEF DashboardInv
<1>6. ASSUME NEW cells \in ClosedCells, TypeClosed(cells)
      PROVE  DashboardInv'
  <2>1. DOMAIN closed' = DOMAIN closed \cup {cells} /\ UNCHANGED xfers
    BY <1>6 DEF TypeClosed, SetToBag, (+)
  <2>. QED  BY <1>2, <1>3, <2>1 DEF DashboardInv, BagToSet
<1>7. ASSUME NEW cells \in XferCells, TypeXfer(cells)
      PROVE  DashboardInv'
  <2>1. DOMAIN xfers' = DOMAIN xfers \cup {cells} /\ UNCHANGED closed
    BY <1>7 DEF TypeXfer, SetToBag, (+)
  <2>2. IsFiniteSet(DOMAIN xfers')
    BY <2>1, FS_AddElement DEF DashboardInv, BagToSet
  <2>3. BagToSet(closed)' = BagToSet(closed)
    BY <2>1
  <2>. QED  BY <1>2, <1>3, <2>1, <2>2, <2>3 DEF DashboardInv, BagToSet
<1>. QED  BY <1>4, <1>5, <1>6, <1>7

\* Whatever rows are typed, files are published and agents are moved, before there
\* are any and whether the worksheets can be read or not: the dashboards of all
\* roles, the directory, the page about teams and the page about performance tell
\* every viewer the same (getRoleDashboardData, getAgentDirectoryData,
\* getTeamPerformanceData, getPerformancePageData).
THEOREM PagesTellTheSame == DashboardSpec => []EveryPageAgrees /\ []DashboardsAgree
<1>1. ASSUME DashboardInv
      PROVE  EveryPageAgrees
  <2>1. \A status \in Statuses :
          LET shared == SharedInputs(OutcomeSource(Admin, status), Dates)
          IN  /\ RolesAgree(shared)
              /\ PerformancePage(Admin, Events(Admin, status), DialerInputs(Admin, Dates), Dates).outcomes
                   = shared.total
    BY <1>1, RolesDoAgree
  <2>2. \A d \in Dates : ShiftsAgree(d)
    BY <1>1, ShiftsDoAgree
  <2>3. \A viewer \in Viewers :
          LET dialer == DialerInputs(viewer, Dates)
              Agree(source, events) ==
                PagesAgree(viewer, Directory(viewer, source, dialer, Dates),
                           PerformancePage(viewer, events, dialer, Dates),
                           [u \in ScopedActiveAgents(viewer) |-> Trend(source, dialer.trends[u], u, Dates)],
                           TeamPage(viewer, source, dialer, Dates), source.status)
          IN  \A status \in Statuses : Agree(OutcomeSource(viewer, status), Events(viewer, status))
    <3>1. \A viewer, status : OutcomeSource(viewer, status).status = status
      BY DEF OutcomeSource
    <3>. QED  BY <1>1, <3>1, PagesDoAgree DEF Events
  <2>. QED  BY <2>1, <2>2, <2>3, Zenon DEF EveryPageAgrees
<1>2. EveryPageAgrees => DashboardsAgree
  BY Zenon DEF DashboardsAgree
<1>. QED  BY <1>1, <1>2, DashboardInvInit, DashboardInvStep, PTL DEF DashboardSpec

=============================================================================
