-------------------------------- MODULE Roster --------------------------------
(***************************************************************************)
(* Teams, their members and the dialer names of users, as administrators   *)
(* change them.                                                            *)
(*                                                                         *)
(* Most changes are one transaction under a lock of the profile.  Creating *)
(* and updating a user and assigning a manager first check the team, and   *)
(* the last one also the manager's role, outside of any lock: they are two *)
(* steps here.  Ended memberships and retired names are history that no    *)
(* operation reads, and are left out.                                      *)
(***************************************************************************)
EXTENDS Directory, FiniteSets, SequencesExt

CONSTANTS
  Admins      \* requests of administrators that may be under way

Roles == {"admin", "manager", "agent"}

VARIABLES
  roleOf,      \* profiles.role; "none" while there is no such row
  open,      \* teams.active
  memberOf,  \* active memberships of each user, [team, role], oldest first
  names,     \* rows of source_user_mappings that are active or hold a key
  pending    \* what each request has checked and not yet committed

rosterVars == <<roleOf, open, memberOf, names, pending>>

Name(n, u, primary) ==
  [name |-> n, user |-> u, active |-> TRUE, primary |-> primary,
   activeKey |-> TRUE, primaryKey |-> primary]

NothingPending == [kind |-> "nothing"]

RosterInit ==
  /\ roleOf = [u \in Users |-> "none"]
  /\ open = [t \in Teams |-> TRUE]
  /\ memberOf = [u \in Users |-> <<>>]
  /\ names = {}
  /\ pending = [a \in Admins |-> NothingPending]

RequiresTeam(r) == r \in {"manager", "agent"}

Membership(t, r) == [team |-> t, role |-> r]

-----------------------------------------------------------------------------
(* Dialer names *)

\* Deliberately wrong: the key is cleared and the flag is not.
DemotedByKey(m) == [m EXCEPT !.primaryKey = FALSE]

Demoted(m) == [m EXCEPT !.primary = FALSE, !.primaryKey = FALSE]

\* The user's active names are no longer primary.
WithoutPrimary(rows, u) ==
  {IF m.user = u /\ m.active THEN Demoted(m) ELSE m : m \in rows}

Owned(rows, n) == \E m \in rows : m.name = n /\ m.activeKey

\* Deactivated names lose both keys and both flags.
Retire(rows, gone) == rows \ gone

\* Both keys are unique in the table: an insert that repeats one fails.
Inserted(rows, m) ==
  /\ ~Owned(rows, m.name)
  /\ m.primaryKey => ~\E k \in rows : k.user = m.user /\ k.primaryKey
  /\ names' = rows \cup {m}

\* addDialerMapping
AddName(u, n, primary) ==
  /\ roleOf[u] # "none"
  /\ Inserted(IF primary THEN WithoutPrimary(names, u) ELSE names, Name(n, u, primary))
  /\ UNCHANGED <<roleOf, open, memberOf, pending>>

\* editDialerMapping: the name keeps its place as primary.
EditName(m, n) ==
  /\ m.active
  /\ Inserted(Retire(names, {m}), Name(n, m.user, m.primary))
  /\ UNCHANGED <<roleOf, open, memberOf, pending>>

\* deactivateDialerMapping, also of the last name of an agent
DeactivateName(m) ==
  /\ names' = Retire(names, {m})
  /\ UNCHANGED <<roleOf, open, memberOf, pending>>

\* setPrimaryDialerMapping
SetPrimary(m) ==
  /\ m.active
  /\ names' = (WithoutPrimary(names, m.user) \ {Demoted(m)})
                \cup {[m EXCEPT !.primary = TRUE, !.primaryKey = TRUE]}
  /\ UNCHANGED <<roleOf, open, memberOf, pending>>

\* updateUserPrimaryDialerName: the current primary name and the user's own row
\* of the new name are retired, and the new name is inserted as primary.
RenamePrimary(u, n) ==
  /\ roleOf[u] # "none"
  /\ ~\E m \in names : m.user = u /\ m.active /\ m.primary /\ m.name = n
  /\ LET replaced == {m \in names : /\ m.user = u /\ m.active
                                    /\ m.primary \/ m.name = n}
     IN  Inserted(WithoutPrimary(Retire(names, replaced), u), Name(n, u, TRUE))
  /\ UNCHANGED <<roleOf, open, memberOf, pending>>

-----------------------------------------------------------------------------
(* Users and their teams *)

\* createProvisionedUser and updateAdminUser check the team (and a new user's
\* dialer name) before their transaction.
BeginUserChange(a, kind, u, r, t) ==
  /\ pending[a] = NothingPending
  /\ kind = "create" <=> roleOf[u] = "none"
  /\ RequiresTeam(r) => open[t]
  /\ pending' = [pending EXCEPT ![a] = [kind |-> kind, user |-> u, role |-> r, team |-> t]]
  /\ UNCHANGED <<roleOf, open, memberOf, names>>

Admitted(r, t) == IF RequiresTeam(r) THEN <<Membership(t, r)>> ELSE <<>>

\* createProvisionedUser: e-mail addresses and dialer names are unique.
CommitCreate(a, n) ==
  LET p == pending[a]
  IN  /\ p.kind = "create"
      /\ roleOf[p.user] = "none"
      /\ roleOf' = [roleOf EXCEPT ![p.user] = p.role]
      /\ memberOf' = [memberOf EXCEPT ![p.user] = Admitted(p.role, p.team)]
      /\ Inserted(names, Name(n, p.user, TRUE))
      /\ pending' = [pending EXCEPT ![a] = NothingPending]
      /\ UNCHANGED open

\* updateAdminUser: an agent needs an active dialer name; every membership ends
\* and the one of the new role begins.
CommitUpdate(a) ==
  LET p == pending[a]
  IN  /\ p.kind = "update"
      /\ roleOf[p.user] # "none"
      /\ p.role = "agent" => \E m \in names : m.user = p.user /\ m.active
      /\ roleOf' = [roleOf EXCEPT ![p.user] = p.role]
      /\ memberOf' = [memberOf EXCEPT ![p.user] = Admitted(p.role, p.team)]
      /\ pending' = [pending EXCEPT ![a] = NothingPending]
      /\ UNCHANGED <<open, names>>

\* assignTeamManager reads the team and the manager's profile without a lock.
BeginManager(a, u, t) ==
  /\ pending[a] = NothingPending
  /\ open[t] /\ roleOf[u] = "manager"
  /\ pending' = [pending EXCEPT ![a] = [kind |-> "manager", user |-> u, team |-> t]]
  /\ UNCHANGED <<roleOf, open, memberOf, names>>

IsManagerOf(t, m) == m.team = t /\ m.role = "manager"

\* The user is the one manager of the team and belongs to no other.
AlreadyManages(u, t) ==
  /\ Len(memberOf[u]) = 1
  /\ IsManagerOf(t, memberOf[u][1])
  /\ \A v \in Users \ {u} : ~\E i \in DOMAIN memberOf[v] : IsManagerOf(t, memberOf[v][i])

\* Memberships but those of the team's managers: SelectSeq, which a proof cannot
\* expand, as a function.
WithoutManagers(memberships, t) ==
  LET stays[i \in 0..Len(memberships)] ==
        IF i = 0 THEN <<>>
        ELSE IF IsManagerOf(t, memberships[i]) THEN stays[i - 1]
        ELSE Append(stays[i - 1], memberships[i])
  IN  stays[Len(memberships)]

\* Deliberately wrong: only the team's managers make room.
HandoverOfTeamOnly(u, t) ==
  [v \in Users |->
     LET stays == WithoutManagers(memberOf[v], t)
     IN  IF v = u THEN Append(stays, Membership(t, "manager")) ELSE stays]

\* The memberships of the team's managers and of the incoming one end.
Handover(u, t) ==
  [v \in Users |->
     IF v = u THEN <<Membership(t, "manager")>>
     ELSE WithoutManagers(memberOf[v], t)]

\* The rest of assignTeamManager, under locks of the memberships it read.
CommitManager(a) ==
  LET p == pending[a]
  IN  /\ p.kind = "manager"
      /\ roleOf[p.user] # "none"
      /\ memberOf' = IF AlreadyManages(p.user, p.team) THEN memberOf
                     ELSE Handover(p.user, p.team)
      /\ pending' = [pending EXCEPT ![a] = NothingPending]
      /\ UNCHANGED <<roleOf, open, names>>

\* The request is rejected by its transaction, or dies.
Abandon(a) ==
  /\ pending[a] # NothingPending
  /\ pending' = [pending EXCEPT ![a] = NothingPending]
  /\ UNCHANGED <<roleOf, open, memberOf, names>>

\* moveUserToTeamAsAdmin, under locks of the profile and the team
MoveUser(u, t) ==
  /\ RequiresTeam(roleOf[u])
  /\ open[t]
  /\ ~(Len(memberOf[u]) = 1 /\ memberOf[u][1].team = t)
  /\ memberOf' = [memberOf EXCEPT ![u] = <<Membership(t, roleOf[u])>>]
  /\ UNCHANGED <<roleOf, open, names, pending>>

\* removeTeamMembership
RemoveMembership(u, i) ==
  /\ memberOf' = [memberOf EXCEPT ![u] = RemoveAt(@, i)]
  /\ UNCHANGED <<roleOf, open, names, pending>>

\* setTeamStatus: a team with members stays open.
SetTeamStatus(t) ==
  /\ open[t] => \A u \in Users : \A i \in DOMAIN memberOf[u] : memberOf[u][i].team # t
  /\ open' = [open EXCEPT ![t] = ~@]
  /\ UNCHANGED <<roleOf, memberOf, names, pending>>

\* permanentlyDeleteValidatedUsers takes memberships and names along.
PurgeUser(u) ==
  /\ roleOf[u] # "none"
  /\ roleOf' = [roleOf EXCEPT ![u] = "none"]
  /\ memberOf' = [memberOf EXCEPT ![u] = <<>>]
  /\ names' = {m \in names : m.user # u}
  /\ UNCHANGED <<open, pending>>

RosterNext ==
  \/ \E u \in Users, n \in DialerNames :
       \/ \E primary \in BOOLEAN : AddName(u, n, primary)
       \/ RenamePrimary(u, n)
  \/ \E m \in names :
       \/ \E n \in DialerNames : EditName(m, n)
       \/ DeactivateName(m)
       \/ SetPrimary(m)
  \/ \E a \in Admins :
       \/ \E kind \in {"create", "update"}, u \in Users, r \in Roles, t \in Teams :
            BeginUserChange(a, kind, u, r, t)
       \/ \E n \in DialerNames : CommitCreate(a, n)
       \/ CommitUpdate(a)
       \/ \E u \in Users, t \in Teams : BeginManager(a, u, t)
       \/ CommitManager(a)
       \/ Abandon(a)
  \/ \E u \in Users, t \in Teams : MoveUser(u, t)
  \/ \E u \in Users : \E i \in DOMAIN memberOf[u] : RemoveMembership(u, i)
  \/ \E t \in Teams : SetTeamStatus(t)
  \/ \E u \in Users : PurgeUser(u)

RosterSpec == RosterInit /\ [][RosterNext]_rosterVars

-----------------------------------------------------------------------------
(* Properties *)

\* A user has at most one active team, whichever way it got there and however
\* requests overlap: no unique key enforces it, the joins of imports, coaching
\* and dashboards with team_memberships count on it (moveUserToTeamAsAdmin,
\* assignTeamManager, updateAdminUser, createProvisionedUser).  And the flags of
\* dialer names that imports and listings read agree with the unique keys: one
\* active owner for a name and one primary name, which is active, for a user,
\* although every operation sets flags and keys one by one.
OneTeamAndOwner ==
  /\ \A u \in Users : Len(memberOf[u]) <= 1
  /\ \A m, k \in names :
       /\ m.primary => m.active
       /\ m # k /\ m.active /\ k.active =>
            /\ m.name # k.name
            /\ m.user = k.user => ~(m.primary /\ k.primary)

=============================================================================
