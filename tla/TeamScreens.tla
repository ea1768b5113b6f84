------------------------------ MODULE TeamScreens ------------------------------
(***************************************************************************)
(* What the pages about users and teams show an administrator of the       *)
(* roster, each by queries of its own, and which changes they offer.       *)
(*                                                                         *)
(* Accounts that are active are the set enabled, which is chosen freely:   *)
(* the screens read it and the roster's operations do not change it.       *)
(* Texts are left out: searches, names, the order of rows and the pages    *)
(* they are cut into.                                                      *)
(***************************************************************************)
EXTENDS Roster, Sums

\* No id is the empty string, which stands for no filter.
ASSUME NoFilterIsNoId == "" \notin Users \cup Teams

Profiles == {u \in Users : roleOf[u] # "none"}

\* The active memberships of a team: one per user and place among the user's.
MembershipsOf(t) ==
  {p \in Users \X (1..2) : p[2] \in DOMAIN memberOf[p[1]] /\ memberOf[p[1]][p[2]].team = t}

\* currentProfileJoin: the membership is of the role its profile has now.
IsCurrent(u, i) == roleOf[u] = memberOf[u][i].role

Current(t) == {p \in MembershipsOf(t) : IsCurrent(p[1], p[2])}

Whom(memberships) == {p[1] : p \in memberships}

InRole(memberships, r) == {p \in memberships : memberOf[p[1]][p[2]].role = r}

-----------------------------------------------------------------------------
(* The directory of teams *)

\* listAdminTeamsDirectory: counts of profiles, and the managers by a second
\* query.
TeamRow(t, enabled) ==
  [active       |-> open[t],
   members      |-> Cardinality(Whom(Current(t))),
   agents       |-> Cardinality(Whom(InRole(Current(t), "agent"))),
   activeAgents |-> Cardinality(Whom(InRole(Current(t), "agent")) \cap enabled),
   managers     |-> Cardinality(Whom(InRole(Current(t), "manager")))]

ListedManagers(t) == Whom(InRole(Current(t), "manager"))

\* directoryWhere: teams by their status and by their manager, whose profile
\* need not be a manager's any more.
FoundTeams(status, manager) ==
  {t \in Teams : /\ status \in {"", IF open[t] THEN "active" ELSE "inactive"}
                 /\ manager # "" => manager \in Whom(InRole(MembershipsOf(t), "manager"))}

ManagerOptions == UNION {ListedManagers(t) : t \in Teams}

\* Deliberately wrong: agents of closed teams count, too.
StatsOfAllTeams(enabled) ==
  [totalTeams   |-> Cardinality(Teams),
   inactive     |-> Cardinality({t \in Teams : ~open[t]}),
   totalMembers |-> Cardinality(UNION {Current(t) : t \in Teams}),
   activeAgents |-> Cardinality({u \in enabled : \E t \in Teams :
                                   u \in Whom(InRole(Current(t), "agent"))}),
   teamManagers |-> Cardinality(ManagerOptions)]

\* getAdminTeamStats: memberships, agents of open teams, managers.
TeamStats(enabled) ==
  [totalTeams   |-> Cardinality(Teams),
   inactive     |-> Cardinality({t \in Teams : ~open[t]}),
   totalMembers |-> Cardinality(UNION {Current(t) : t \in Teams}),
   activeAgents |-> Cardinality({u \in enabled : \E t \in Teams :
                                   open[t] /\ u \in Whom(InRole(Current(t), "agent"))}),
   teamManagers |-> Cardinality(ManagerOptions)]

\* What stays bright when a figure above the directory is chosen.
Bright(t, highlight, enabled) ==
  LET row == TeamRow(t, enabled)
  IN  \/ highlight = "inactive" /\ ~row.active
      \/ highlight = "agents" /\ row.activeAgents > 0
      \/ highlight = "managers" /\ row.managers > 0
      \/ highlight = "members" /\ row.members > 0

-----------------------------------------------------------------------------
(* One team *)

\* getAdminTeamDetails: the counts, and the members by another query.
TeamCounts(t, enabled) ==
  [members      |-> Cardinality(Whom(Current(t))),
   agents       |-> Cardinality(Whom(InRole(Current(t), "agent"))),
   activeAgents |-> Cardinality(Whom(InRole(Current(t), "agent")) \cap enabled),
   managers     |-> Cardinality(Whom(InRole(Current(t), "manager")))]

DestinationTeams == {t \in Teams : open[t]}

AssignableManagers(enabled) == {u \in Profiles \cap enabled : roleOf[u] = "manager"}

OffersClosing(t, enabled) == open[t] /\ TeamCounts(t, enabled).members = 0

\* MemberAssignment
OfferedMoves(t) == Whom(Current(t)) \X (DestinationTeams \ {t})

\* moveTeamMember: an agent moves, a manager takes the team over.
AcceptsManager(u, t, enabled) == open[t] /\ u \in enabled /\ roleOf[u] = "manager"

AcceptsMember(u, t, enabled) ==
  \/ roleOf[u] = "agent" /\ u \in enabled /\ open[t]
  \/ AcceptsManager(u, t, enabled)

-----------------------------------------------------------------------------
(* Users *)

\* listAdminUsers: the team of a user, if it is open.
ShownTeams(u) == {memberOf[u][i].team : i \in {j \in DOMAIN memberOf[u] : open[memberOf[u][j].team]}}

\* listWhere: role, status and team; "" lets all through.
FoundUsers(role, status, team, enabled) ==
  {u \in Profiles :
     /\ role \in {"", roleOf[u]}
     /\ status \in {"", IF u \in enabled THEN "active" ELSE "not active"}
     /\ team # "" => \E i \in DOMAIN memberOf[u] : memberOf[u][i].team = team /\ open[team]}

\* getAdminUserStats
UserTotal(roles, enabled) == Cardinality({u \in Profiles \cap enabled : roleOf[u] \in roles})

\* getAdminUserDetails: the first membership, of whatever team.
DetailTeam(u) == IF memberOf[u] = <<>> THEN {} ELSE {memberOf[u][1].team}

\* InlineTeamSelect: every open team, to everybody who may have one.
InlineMoves == {u \in Profiles : RequiresTeam(roleOf[u])} \X DestinationTeams

\* What moveUserToTeam does, when nothing changed in between: it moves, or finds
\* the user there.
AcceptsInline(u, t) == RequiresTeam(roleOf[u]) /\ open[t]

-----------------------------------------------------------------------------
(* The status of an invitation, as the latest link of a user tells *)

Deliveries == {"pending", "accepted", "expired", "revoked", "delivery_failed"}

\* Links as the operations of accounts leave them: whoever revokes a link sets its
\* delivery, too, but for issueInvitation; "expired" was set by a migration; and of
\* a link that is used or revoked no failure is recorded any more.
InvitationLinks ==
  {l \in [used : BOOLEAN, revoked : BOOLEAN, expired : BOOLEAN, delivery : Deliveries] :
     /\ l.used <=> l.delivery = "accepted"
     /\ l.delivery = "revoked" => l.revoked
     /\ l.delivery = "expired" => l.expired
     /\ l.used => ~l.revoked}

\* passwordState, and whether passwordChangedAt is set.  Permanent is the default of
\* the column, also for profiles that have never had a password.
Credentials ==
  {p \in [state : {"temporary", "permanent"}, changed : BOOLEAN] :
     p.state = "temporary" => ~p.changed}

\* The user has set a password.
OwnPassword(credential) == credential.state = "permanent" /\ credential.changed

\* invitationStatus
InvitationShown(links, credential) ==
  LET l == links[Len(links)]
  IN  IF OwnPassword(credential) THEN "password created"
      ELSE IF links = <<>> THEN "not invited"
      ELSE IF l.used THEN "password created"
      ELSE IF l.revoked \/ l.delivery = "revoked" THEN "revoked"
      ELSE IF l.delivery = "delivery_failed" THEN "delivery failed"
      ELSE IF l.expired THEN "invitation expired" ELSE "invitation sent"

\* listWhere: the filters ask for any link.
FoundByInvitation(links, credential, wanted) ==
  \/ wanted = "not invited" /\ credential.state = "temporary" /\ links = <<>>
  \/ wanted = "password created" /\ OwnPassword(credential)
  \/ \E i \in DOMAIN links : LET l == links[i] IN
       \/ wanted = "invitation sent" /\ ~l.used /\ ~l.revoked /\ ~l.expired /\ l.delivery = "pending"
       \/ wanted = "password created" /\ l.used
       \/ wanted = "invitation expired" /\ ~l.used /\ ~l.revoked /\ l.expired
       \/ wanted = "revoked" /\ l.revoked
       \/ wanted = "delivery failed" /\ l.delivery = "delivery_failed"

InvitationStatuses ==
  {"not invited", "invitation sent", "password created", "invitation expired", "revoked", "delivery failed"}

\* Shown as not invited, and found by no status at all: a password that counts as
\* permanent was never set, and there is no link any more.
Overlooked(links, credential) == links = <<>> /\ credential = [state |-> "permanent", changed |-> FALSE]

\* Whoever is shown with a status is found by it, but for the overlooked, whom no
\* status finds; and whoever is found by a status and shown with another has set a
\* password, or has a link of before, or one whose delivery failed.
StatusIsFound(links, credential) ==
  LET shown == InvitationShown(links, credential)
      found == {w \in InvitationStatuses : FoundByInvitation(links, credential, w)}
  IN  /\ shown \in found <=> ~Overlooked(links, credential)
      /\ Overlooked(links, credential) => found = {}
      /\ found \subseteq {shown} \/ OwnPassword(credential) \/ Len(links) > 1
           \/ links[1].delivery = "delivery_failed"

\* The list and its filter read their clocks at the same time.
ShownIsFound ==
  \A links \in UNION {[1..n -> InvitationLinks] : n \in 0..2}, credential \in Credentials :
    StatusIsFound(links, credential)

-----------------------------------------------------------------------------
(* Properties *)

\* Memberships that a role change left behind: no team screen counts them.
Stranded(t) == Whom(MembershipsOf(t) \ Current(t))

\* Figures, rows, filters and lists, each a query with joins of its own, tell
\* the same of the same roster (listAdminTeamsDirectory, getAdminTeamStats,
\* getAdminTeamDetails, listAdminUsers, getAdminUserStats).
FiguresAgree(enabled) ==
  LET Row(t) == TeamRow(t, enabled)
      stats == TeamStats(enabled)
  IN  /\ stats.totalMembers = Total([t \in Teams |-> Row(t).members], Teams)
      /\ stats.teamManagers = Total([t \in Teams |-> Row(t).managers], Teams)
      /\ stats.activeAgents = Total([t \in Teams |-> Row(t).activeAgents], DestinationTeams)
      /\ stats.inactive = Cardinality({t \in Teams : Bright(t, "inactive", enabled)})
      /\ \A t \in Teams :
           /\ TeamCounts(t, enabled) = [f \in DOMAIN Row(t) \ {"active"} |-> Row(t)[f]]
           /\ Row(t).members = Row(t).agents + Row(t).managers
           /\ Cardinality(Current(t)) = Row(t).members
           /\ open[t] => FoundUsers("", "", t, enabled) = Whom(Current(t)) \cup Stranded(t)
           /\ \A u \in ListedManagers(t) : FoundTeams("", u) = {t}
      /\ \A u \in Profiles : ShownTeams(u) = DetailTeam(u) \cap DestinationTeams
      /\ \A r \in Roles :
           UserTotal({r}, Profiles) = Cardinality(FoundUsers(r, "", "", enabled))

\* Of what the pages offer the operations refuse, when nothing changed in
\* between, exactly this: in the drawer of a team to move somebody whose account
\* is not active, to give a closed team a manager, and to close a team which
\* somebody still belongs to in a role of before.  A user without a working
\* membership can be given one in the list of users.
OffersHold(enabled) ==
  /\ \A t \in Teams :
       /\ \A move \in OfferedMoves(t) :
            AcceptsMember(move[1], move[2], enabled) <=> move[1] \in enabled
       /\ \A u \in AssignableManagers(enabled) : AcceptsManager(u, t, enabled) <=> open[t]
       /\ OffersClosing(t, enabled) => (MembershipsOf(t) = {} <=> Stranded(t) = {})
  /\ \A move \in InlineMoves : AcceptsInline(move[1], move[2])

\* The pages about users and teams agree with each other and with what may be
\* done, whatever requests overlapped before.  (What requests have checked and
\* not yet committed is in no table: it is enough to look when all are over.)
TeamScreensAgree ==
  Profiles # {} /\ (\A a \in Admins : pending[a] = NothingPending) =>
    /\ \A enabled \in SUBSET Profiles : FiguresAgree(enabled) /\ OffersHold(enabled)
    /\ ShownIsFound

=============================================================================
