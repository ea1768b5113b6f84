------------------------------ MODULE UsersProofs ------------------------------
(***************************************************************************)
(* Accounts, teams, dialer names and the import of users: theorems about   *)
(* Accounts, Roster, TeamScreens and UserImport, for any users, teams,     *)
(* names, files and requests.                                              *)
(***************************************************************************)
EXTENDS Accounts, TeamScreens, UserImport, SumsProofs

-----------------------------------------------------------------------------
(* Accounts: types *)

LEMMA LinksTyped ==
  /\ <<>> \in Links /\ <<"fresh">> \in Links
  /\ \A links \in Links :
       "fresh" \in {links[i] : i \in DOMAIN links} => [i \in DOMAIN links |-> "lapsed"] \in Links
<1>1. <<"fresh">> \in [1..1 -> {"fresh", "lapsed"}]
  OBVIOUS
<1>2. ASSUME NEW links \in Links, "fresh" \in {links[i] : i \in DOMAIN links}
      PROVE  [i \in DOMAIN links |-> "lapsed"] \in Links
  <2>1. links # <<>>
    BY <1>2
  <2>2. PICK n \in 1..2 : links \in [1..n -> {"fresh", "lapsed"}]
    BY <2>1 DEF Links
  <2>3. [i \in DOMAIN links |-> "lapsed"] \in [1..n -> {"fresh", "lapsed"}]
    BY <2>2
  <2>. QED  BY <2>3 DEF Links
<1>. QED  BY <1>1, <1>2 DEF Links

LEMMA AccountsTypeStep == AccountsTypeOK /\ [AccountNext]_accountVars => AccountsTypeOK'
<1>. SUFFICES ASSUME AccountsTypeOK, [AccountNext]_accountVars PROVE AccountsTypeOK'
  OBVIOUS
<1>. USE DEF AccountsTypeOK
<1>1. CASE UNCHANGED accountVars
  BY <1>1 DEF accountVars
<1>2. ASSUME NEW u \in Users, BeginLogin(u) \/ OpenSession(u) \/ CloseSession(u)
      PROVE  AccountsTypeOK'
  <2>1. /\ NoLogin \in Logins
        /\ \A then \in {"open", "change"} : [then |-> then, with |-> "current"] \in Logins
    BY DEF Logins
  <2>2. CASE BeginLogin(u)
    BY <2>1, <2>2 DEF BeginLogin, linkVars
  <2>3. CASE OpenSession(u)
    <3>1. login[u].with \in {"current", "earlier"}
      BY DEF Logins, NoLogin
    <3>. QED  BY <2>1, <2>3, <3>1 DEF OpenSession, linkVars
  <2>4. CASE CloseSession(u)
    BY <2>4 DEF CloseSession, linkVars
  <2>. QED  BY <1>2, <2>2, <2>3, <2>4
<1>3. ASSUME NEW u \in Users,
             \/ RequireChange(u) \/ IssueInvitation(u) \/ RequestPasswordReset(u)
             \/ LapseLinks(u) \/ ChangeEmail(u) \/ RevokeInvitation(u)
      PROVE  AccountsTypeOK'
  <2>1. NoLogin \in Logins
    BY DEF Logins
  <2>2. CASE RequireChange(u) \/ IssueInvitation(u) \/ RequestPasswordReset(u)
    BY <2>1, <2>2, LinksTyped DEF RequireChange, IssueInvitation, RequestPasswordReset, Issued
  <2>3. CASE LapseLinks(u)
    BY <2>3, LinksTyped DEF LapseLinks
  <2>4. CASE ChangeEmail(u) \/ RevokeInvitation(u)
    BY <2>4, LinksTyped DEF ChangeEmail, RevokeInvitation
  <2>. QED  BY <1>3, <2>2, <2>3, <2>4
<1>4. ASSUME NEW u \in Users, Ask(u)
      PROVE  AccountsTypeOK'
  BY <1>4 DEF Ask, linkVars
<1>5. ASSUME NEW u \in Users, NewPassword(u)
      PROVE  /\ hash' \in [Users -> {0, 1}]
             /\ sessions' \in [Users -> SUBSET {"current", "earlier"}]
             /\ login' \in [Users -> Logins]
  <2>1. \A l \in Logins : l # NoLogin => [l EXCEPT !.with = "earlier"] \in Logins
    BY DEF Logins
  <2>2. \A h \in {0, 1} : 1 - h \in {0, 1}
    OBVIOUS
  <2>. QED  BY <1>5, <2>1, <2>2 DEF NewPassword, EndSessions
<1>6. ASSUME NEW u \in Users, AcceptInvitation(u) \/ ResetPassword(u)
      PROVE  AccountsTypeOK'
  <2>1. SetPermanentPassword(u) /\ NewPassword(u)
    BY <1>6 DEF AcceptInvitation, ResetPassword, SetPermanentPassword
  <2>2. /\ status' \in [Users -> {"none", "invited", "active", "deactivated", "revoked", "purged"}]
        /\ UNCHANGED <<role, employment, asked>>
    BY <1>6 DEF AcceptInvitation, ResetPassword
  <2>. QED  BY <1>5, <2>1, <2>2, LinksTyped DEF SetPermanentPassword
<1>7. ASSUME NEW u \in Users, ProvisionUser(u) \/ RevealPassword(u) \/ RegeneratePassword(u)
      PROVE  AccountsTypeOK'
  <2>1. CASE ProvisionUser(u)
    BY <2>1 DEF ProvisionUser, linkVars
  <2>2. CASE RevealPassword(u)
    BY <2>2 DEF RevealPassword, linkVars
  <2>3. CASE RegeneratePassword(u)
    BY <1>5, <2>3 DEF RegeneratePassword, linkVars
  <2>. QED  BY <1>7, <2>1, <2>2, <2>3
<1>8. ASSUME NEW u \in Users, ForceReset(u)
      PROVE  AccountsTypeOK'
  BY <1>8, LinksTyped DEF ForceReset, EndSessions, Issued
<1>9. ASSUME NEW u \in Users, NEW s \in {"active", "deactivated", "revoked"}, SetStatus(u, s)
      PROVE  AccountsTypeOK'
  <2>1. invites' \in [Users -> Links] /\ resets' \in [Users -> Links]
    BY <1>9, LinksTyped DEF SetStatus, linkVars
  <2>. QED  BY <1>9, <2>1 DEF SetStatus, EndSessions
<1>10. ASSUME NEW u \in Users, NEW e \in {"active", "deactivated", "terminated"},
              RecordEmployment(u, e)
       PROVE  AccountsTypeOK'
  BY <1>10 DEF RecordEmployment, EndSessions, linkVars
<1>11. ASSUME NEW u \in Users, RevokeSessions(u) \/ \E r \in {"admin", "agent"} : ChangeRole(u, r)
       PROVE  AccountsTypeOK'
  BY <1>11 DEF RevokeSessions, ChangeRole, EndSessions, linkVars
<1>12. ASSUME NEW u \in Users, PurgeAccount(u)
       PROVE  AccountsTypeOK'
  BY <1>12, LinksTyped DEF PurgeAccount, EndSessions
<1>. QED
  BY <1>1, <1>2, <1>3, <1>4, <1>6, <1>7, <1>8, <1>9, <1>10, <1>11, <1>12 DEF AccountNext

\* Accounts keep their types, and the ciphertext of a temporary password is gone
\* as soon as that is not the password any more.
THEOREM AccountsTypeCorrect == AccountSpec => []AccountsTypeOK
<1>1. AccountInit => AccountsTypeOK
  BY LinksTyped DEF AccountInit, AccountsTypeOK, Logins
<1>. QED  BY <1>1, AccountsTypeStep, PTL DEF AccountSpec

-----------------------------------------------------------------------------
(* Accounts: what a step makes of one account *)

SameAccount(u) ==
  UNCHANGED <<role[u], status[u], password[u], hash[u], mustReset[u],
              invites[u], resets[u], sessions[u], login[u]>>

\* A link at most, and none that two mails could hold.
Single(links) == links \in {<<>>, <<"fresh">>, <<"lapsed">>}

\* Every action is about one account.
LEMMA OthersUntouched ==
  ASSUME AccountsTypeOK, [AccountNext]_accountVars, NEW u \in Users, ~SameAccount(u)
  PROVE  \/ BeginLogin(u) \/ OpenSession(u) \/ RequireChange(u) \/ CloseSession(u)
         \/ IssueInvitation(u) \/ RequestPasswordReset(u) \/ LapseLinks(u)
         \/ AcceptInvitation(u) \/ ResetPassword(u)
         \/ ProvisionUser(u) \/ RegeneratePassword(u)
         \/ RevokeInvitation(u) \/ ForceReset(u) \/ ChangeEmail(u)
         \/ \E s \in {"active", "deactivated", "revoked"} : SetStatus(u, s)
         \/ \E e \in {"active", "deactivated", "terminated"} : RecordEmployment(u, e)
         \/ \E r \in {"admin", "agent"} : ChangeRole(u, r)
         \/ RevokeSessions(u) \/ PurgeAccount(u)
<1>. USE DEF AccountsTypeOK, SameAccount
<1>1. ~UNCHANGED accountVars
  BY DEF accountVars
<1>2. ASSUME NEW v \in Users, Ask(v) \/ RevealPassword(v)
      PROVE  FALSE
  BY <1>2 DEF Ask, RevealPassword, linkVars
<1>3. ASSUME NEW v \in Users, v # u,
             \/ BeginLogin(v) \/ OpenSession(v) \/ RequireChange(v) \/ CloseSession(v)
             \/ IssueInvitation(v) \/ RequestPasswordReset(v) \/ LapseLinks(v)
      PROVE  FALSE
  BY <1>3 DEF BeginLogin, OpenSession, RequireChange, CloseSession, IssueInvitation,
     RequestPasswordReset, LapseLinks, linkVars
<1>4. ASSUME NEW v \in Users, v # u,
             AcceptInvitation(v) \/ ResetPassword(v) \/ ProvisionUser(v) \/ RegeneratePassword(v)
      PROVE  FALSE
  BY <1>4 DEF AcceptInvitation, ResetPassword, ProvisionUser, RegeneratePassword,
     SetPermanentPassword, NewPassword, EndSessions, linkVars
<1>5. ASSUME NEW v \in Users, v # u,
             \/ RevokeInvitation(v) \/ ForceReset(v) \/ ChangeEmail(v) \/ RevokeSessions(v)
             \/ \E r \in {"admin", "agent"} : ChangeRole(v, r)
      PROVE  FALSE
  BY <1>5 DEF RevokeInvitation, ForceReset, ChangeEmail, RevokeSessions, ChangeRole, EndSessions,
     linkVars
<1>6. ASSUME NEW v \in Users, v # u,
             \/ \E s \in {"active", "deactivated", "revoked"} : SetStatus(v, s)
             \/ \E e \in {"active", "deactivated", "terminated"} : RecordEmployment(v, e)
             \/ PurgeAccount(v)
      PROVE  FALSE
  BY <1>6 DEF SetStatus, RecordEmployment, PurgeAccount, EndSessions, linkVars
<1>. HIDE DEF AccountsTypeOK, SameAccount
<1>. QED  BY <1>1, <1>2, <1>3, <1>4, <1>5, <1>6 DEF AccountNext

-----------------------------------------------------------------------------
(* Accounts: the inductive invariant *)

\* Nobody signs in to an account that is not there yet, and a login that has
\* verified a temporary password asks for another one: what it may still open
\* is a session of the password before.
AccountInv ==
  /\ AccountsTypeOK
  /\ \A u \in Users :
       /\ Single(invites[u]) /\ Single(resets[u])
       /\ status[u] = "none" => sessions[u] = {} /\ login[u] = NoLogin
       /\ password[u] = "temporary" =>
            /\ mustReset[u] /\ "current" \notin sessions[u]
            /\ login[u].then = "open" => login[u].with = "earlier"

LEMMA LapsedIsSingle ==
  ASSUME NEW links, Single(links)
  PROVE  "fresh" \in {links[i] : i \in DOMAIN links} => Single([i \in DOMAIN links |-> "lapsed"])
<1>1. CASE links = <<"fresh">>
  <2>1. [i \in DOMAIN links |-> "lapsed"] = <<"lapsed">>
    BY <1>1
  <2>. QED  BY <2>1 DEF Single
<1>2. CASE links # <<"fresh">>
  BY <1>2 DEF Single
<1>. QED  BY <1>1, <1>2

LEMMA LinksStaySingle ==
  ASSUME AccountInv, [AccountNext]_accountVars, NEW u \in Users
  PROVE  Single(invites'[u]) /\ Single(resets'[u])
<1>. DEFINE Goal == Single(invites'[u]) /\ Single(resets'[u])
<1>1. /\ AccountsTypeOK /\ Single(invites[u]) /\ Single(resets[u])
      /\ Single(<<>>) /\ Single(<<"fresh">>)
  BY DEF AccountInv, Single
<1>2. DOMAIN invites = Users /\ DOMAIN resets = Users
  BY <1>1 DEF AccountsTypeOK
<1>3. ASSUME UNCHANGED <<invites[u], resets[u]>>
      PROVE  Goal
  BY <1>1, <1>3
<1>4. ASSUME RequireChange(u) \/ IssueInvitation(u) \/ RequestPasswordReset(u) \/ ForceReset(u)
      PROVE  Goal
  BY <1>1, <1>2, <1>4 DEF RequireChange, IssueInvitation, RequestPasswordReset, ForceReset, Issued
<1>5. ASSUME LapseLinks(u)
      PROVE  Goal
  BY <1>1, <1>2, <1>5, LapsedIsSingle DEF LapseLinks
<1>6. ASSUME \/ AcceptInvitation(u) \/ ResetPassword(u) \/ PurgeAccount(u) \/ RevokeInvitation(u)
             \/ ChangeEmail(u) \/ \E s \in {"active", "deactivated", "revoked"} : SetStatus(u, s)
      PROVE  Goal
  BY <1>1, <1>2, <1>6 DEF AcceptInvitation, ResetPassword, SetPermanentPassword, PurgeAccount,
     RevokeInvitation, ChangeEmail, SetStatus, linkVars
<1>7. ASSUME \/ BeginLogin(u) \/ OpenSession(u) \/ CloseSession(u) \/ ProvisionUser(u)
             \/ RegeneratePassword(u) \/ RevokeSessions(u)
             \/ \E e \in {"active", "deactivated", "terminated"} : RecordEmployment(u, e)
             \/ \E r \in {"admin", "agent"} : ChangeRole(u, r)
      PROVE  UNCHANGED <<invites[u], resets[u]>>
  BY <1>7 DEF BeginLogin, OpenSession, CloseSession, ProvisionUser, RegeneratePassword,
     RevokeSessions, RecordEmployment, ChangeRole, linkVars
<1>8. ASSUME SameAccount(u)
      PROVE  Goal
  BY <1>3, <1>8 DEF SameAccount
<1>. HIDE DEF Goal
<1>9. Goal
  BY <1>1, <1>3, <1>4, <1>5, <1>6, <1>7, <1>8, OthersUntouched
<1>. QED  BY <1>9 DEF Goal

LEMMA LoginsStaySafe ==
  ASSUME AccountInv, [AccountNext]_accountVars, NEW u \in Users
  PROVE  /\ status'[u] = "none" => sessions'[u] = {} /\ login'[u] = NoLogin
         /\ password'[u] = "temporary" =>
              /\ mustReset'[u] /\ "current" \notin sessions'[u]
              /\ login'[u].then = "open" => login'[u].with = "earlier"
<1>. DEFINE Goal == /\ status'[u] = "none" => sessions'[u] = {} /\ login'[u] = NoLogin
                    /\ password'[u] = "temporary" =>
                         /\ mustReset'[u] /\ "current" \notin sessions'[u]
                         /\ login'[u].then = "open" => login'[u].with = "earlier"
<1>1. AccountsTypeOK
  BY DEF AccountInv
<1>2. /\ status[u] = "none" => sessions[u] = {} /\ login[u] = NoLogin
      /\ password[u] = "temporary" =>
           /\ mustReset[u] /\ "current" \notin sessions[u]
           /\ login[u].then = "open" => login[u].with = "earlier"
  BY DEF AccountInv
<1>3. NoLogin.then = "none" /\ (login[u] = NoLogin \/ login[u].then \in {"open", "change"})
  BY <1>1 DEF AccountsTypeOK, Logins, NoLogin
<1>4. CASE SameAccount(u)
  BY <1>2, <1>4 DEF SameAccount
<1>5. ASSUME BeginLogin(u) \/ OpenSession(u) \/ RequireChange(u) \/ CloseSession(u)
      PROVE  Goal
  <2>1. CASE BeginLogin(u)
    BY <1>1, <1>2, <2>1 DEF AccountsTypeOK, BeginLogin
  <2>2. CASE OpenSession(u)
    BY <1>1, <1>2, <1>3, <2>2 DEF AccountsTypeOK, OpenSession
  <2>3. CASE RequireChange(u) \/ CloseSession(u)
    BY <1>1, <1>2, <1>3, <2>3 DEF AccountsTypeOK, RequireChange, CloseSession
  <2>. QED  BY <1>5, <2>1, <2>2, <2>3
<1>6. ASSUME \/ IssueInvitation(u) \/ RequestPasswordReset(u) \/ LapseLinks(u)
             \/ RevokeInvitation(u) \/ ChangeEmail(u) \/ \E r \in {"admin", "agent"} : ChangeRole(u, r)
      PROVE  UNCHANGED <<status, password, mustReset, sessions, login>>
  BY <1>6 DEF IssueInvitation, RequestPasswordReset, LapseLinks, RevokeInvitation, ChangeEmail,
     ChangeRole
<1>7. ASSUME AcceptInvitation(u) \/ ResetPassword(u)
      PROVE  password'[u] = "permanent" /\ status'[u] = "active"
  BY <1>1, <1>7 DEF AcceptInvitation, ResetPassword, SetPermanentPassword, AccountsTypeOK
<1>8. ASSUME ProvisionUser(u)
      PROVE  Goal
  BY <1>1, <1>2, <1>3, <1>8 DEF ProvisionUser, AccountsTypeOK
<1>9. ASSUME RegeneratePassword(u)
      PROVE  Goal
  <2>1. sessions'[u] = {} /\ mustReset'[u] /\ status'[u] # "none"
    BY <1>1, <1>9 DEF RegeneratePassword, NewPassword, EndSessions, AccountsTypeOK, Exists
  <2>2. login'[u] = NoLogin \/ login'[u] = [login[u] EXCEPT !.with = "earlier"]
    BY <1>1, <1>9 DEF RegeneratePassword, NewPassword, AccountsTypeOK
  <2>3. [login[u] EXCEPT !.with = "earlier"].with = "earlier"
    BY <1>1 DEF AccountsTypeOK, Logins, NoLogin
  <2>. QED  BY <1>3, <2>1, <2>2, <2>3
<1>10. ASSUME ForceReset(u) \/ RevokeSessions(u)
       PROVE  Goal
  BY <1>1, <1>2, <1>10 DEF ForceReset, RevokeSessions, EndSessions, Exists, AccountsTypeOK
<1>11. ASSUME \/ \E s \in {"active", "deactivated", "revoked"} : SetStatus(u, s)
              \/ \E e \in {"active", "deactivated", "terminated"} : RecordEmployment(u, e)
       PROVE  Goal
  BY <1>1, <1>2, <1>11 DEF SetStatus, RecordEmployment, EndSessions, AccountsTypeOK
<1>12. ASSUME PurgeAccount(u)
       PROVE  password'[u] = "none" /\ status'[u] = "purged"
  BY <1>1, <1>12 DEF PurgeAccount, AccountsTypeOK
<1>13. Goal
  <2>1. ASSUME UNCHANGED <<status, password, mustReset, sessions, login>>
        PROVE  Goal
    BY <1>2, <2>1
  <2>2. password'[u] # "temporary" /\ status'[u] # "none" => Goal
    OBVIOUS
  <2>3. SameAccount(u) => Goal
    BY <1>4
  <2>. HIDE DEF Goal
  <2>. QED  BY <1>1, <1>5, <1>6, <1>7, <1>8, <1>9, <1>10, <1>11, <1>12, <2>1, <2>2, <2>3,
            OthersUntouched
<1>. QED  BY <1>13

LEMMA AccountInvCorrect == AccountSpec => []AccountInv
<1>1. AccountInit => AccountInv
  <2>. SUFFICES ASSUME AccountInit PROVE AccountInv
    OBVIOUS
  <2>1. AccountsTypeOK
    BY LinksTyped DEF AccountInit, AccountsTypeOK, Logins
  <2>. QED  BY <2>1 DEF AccountInit, AccountInv, Single
<1>2. AccountInv /\ [AccountNext]_accountVars => AccountInv'
  <2>. SUFFICES ASSUME AccountInv, [AccountNext]_accountVars PROVE AccountInv'
    OBVIOUS
  <2>1. AccountsTypeOK'
    BY AccountsTypeStep DEF AccountInv
  <2>. QED  BY <2>1, LinksStaySingle, LoginsStaySafe DEF AccountInv, Single, NoLogin
<1>. QED  BY <1>1, <1>2, PTL DEF AccountSpec

-----------------------------------------------------------------------------
(* Accounts: the theorems *)

\* However requests for links, logins and administrators overlap, one link of a
\* kind is outstanding for an account at most.
THEOREM LinksAreSingle == AccountSpec => []OneLiveLink
<1>1. Len(<<>>) = 0 /\ Len(<<"fresh">>) = 1 /\ Len(<<"lapsed">>) = 1
  OBVIOUS
<1>2. ASSUME NEW links, Single(links)
      PROVE  Len(links) <= 1
  <2>1. Len(links) \in {0, 1}
    BY <1>1, <1>2 DEF Single
  <2>2. \A n \in {0, 1} : n <= 1
    OBVIOUS
  <2>. QED  BY <2>1, <2>2
<1>3. AccountInv => OneLiveLink
  BY <1>2 DEF AccountInv, OneLiveLink
<1>. QED  BY <1>3, AccountInvCorrect, PTL

\* A temporary password only ever opens the form for a permanent one.
THEOREM TemporaryPasswordsOpenNothing == AccountSpec => []TemporaryOpensNoSession
<1>1. AccountInv => TemporaryOpensNoSession
  BY DEF AccountInv, TemporaryOpensNoSession
<1>. QED  BY <1>1, AccountInvCorrect, PTL

\* A password is written by its three operations, each of which ends the sessions.
LEMMA PasswordWritten ==
  ASSUME AccountInv, [AccountNext]_accountVars, NEW u \in Users, hash'[u] # hash[u]
  PROVE  /\ NewPassword(u)
         /\ AcceptInvitation(u) \/ ResetPassword(u) \/ RegeneratePassword(u)
<1>1. ~SameAccount(u)
  BY DEF SameAccount
<1>2. ASSUME \/ BeginLogin(u) \/ OpenSession(u) \/ RequireChange(u) \/ CloseSession(u)
             \/ IssueInvitation(u) \/ RequestPasswordReset(u) \/ LapseLinks(u)
             \/ ProvisionUser(u) \/ RevokeInvitation(u) \/ ForceReset(u) \/ ChangeEmail(u)
             \/ \E s \in {"active", "deactivated", "revoked"} : SetStatus(u, s)
             \/ \E e \in {"active", "deactivated", "terminated"} : RecordEmployment(u, e)
             \/ \E r \in {"admin", "agent"} : ChangeRole(u, r)
             \/ RevokeSessions(u) \/ PurgeAccount(u)
      PROVE  FALSE
  BY <1>2 DEF BeginLogin, OpenSession, RequireChange, CloseSession, IssueInvitation,
     RequestPasswordReset, LapseLinks, ProvisionUser, RevokeInvitation, ForceReset, ChangeEmail,
     SetStatus, RecordEmployment, ChangeRole, RevokeSessions, PurgeAccount
<1>3. AcceptInvitation(u) \/ ResetPassword(u) \/ RegeneratePassword(u)
  BY <1>1, <1>2, OthersUntouched DEF AccountInv
<1>. QED  BY <1>3 DEF AcceptInvitation, ResetPassword, RegeneratePassword, SetPermanentPassword

\* A password its user chose is replaced only through the current reset link; a new
\* password and the end of an account's activity leave it without sessions.
THEOREM AllChangesAreGuarded == AccountSpec => ChangesAreGuarded
<1>. DEFINE Chosen(u) == password[u] = "permanent" /\ hash'[u] # hash[u] => Usable(resets[u])
            Ended(u) == \/ hash'[u] # hash[u]
                        \/ status[u] = "active" /\ status'[u] # "active"
                        => sessions'[u] = {}
<1>1. ASSUME AccountInv, [AccountNext]_accountVars, NEW u \in Users
      PROVE  Chosen(u)
  <2>. SUFFICES ASSUME password[u] = "permanent", hash'[u] # hash[u]
                PROVE  Usable(resets[u])
    OBVIOUS
  <2>. QED  BY <1>1, PasswordWritten DEF AcceptInvitation, ResetPassword, RegeneratePassword, Eligible
<1>2. ASSUME AccountInv, [AccountNext]_accountVars, NEW u \in Users
      PROVE  Ended(u)
  <2>. SUFFICES ASSUME hash'[u] # hash[u] \/ (status[u] = "active" /\ status'[u] # "active")
                PROVE  sessions'[u] = {}
    OBVIOUS
  <2>1. AccountsTypeOK
    BY <1>2 DEF AccountInv
  <2>2. ASSUME EndSessions(u)
        PROVE  sessions'[u] = {}
    BY <2>1, <2>2 DEF EndSessions, AccountsTypeOK
  <2>3. CASE hash'[u] # hash[u]
    BY <1>2, <2>2, <2>3, PasswordWritten DEF NewPassword
  <2>4. CASE hash'[u] = hash[u] /\ status[u] = "active" /\ status'[u] # "active"
    <3>1. ~SameAccount(u)
      BY <2>4 DEF SameAccount
    <3>2. ASSUME \/ BeginLogin(u) \/ OpenSession(u) \/ RequireChange(u) \/ CloseSession(u)
                 \/ IssueInvitation(u) \/ RequestPasswordReset(u) \/ LapseLinks(u)
                 \/ AcceptInvitation(u) \/ ResetPassword(u)
                 \/ ProvisionUser(u) \/ RegeneratePassword(u)
                 \/ RevokeInvitation(u) \/ ForceReset(u) \/ ChangeEmail(u)
                 \/ \E r \in {"admin", "agent"} : ChangeRole(u, r)
                 \/ RevokeSessions(u)
          PROVE  FALSE
      BY <2>1, <2>4, <3>2 DEF BeginLogin, OpenSession, RequireChange, CloseSession,
         IssueInvitation, RequestPasswordReset, LapseLinks, AcceptInvitation, ResetPassword,
         ProvisionUser, RegeneratePassword, RevokeInvitation, ForceReset, ChangeEmail, ChangeRole,
         RevokeSessions, AccountsTypeOK
    <3>3. ASSUME \/ \E s \in {"active", "deactivated", "revoked"} : SetStatus(u, s)
                 \/ \E e \in {"active", "deactivated", "terminated"} : RecordEmployment(u, e)
                 \/ PurgeAccount(u)
          PROVE  EndSessions(u)
      BY <2>1, <2>4, <3>3 DEF SetStatus, RecordEmployment, PurgeAccount, AccountsTypeOK
    <3>. QED  BY <1>2, <2>1, <2>2, <3>1, <3>2, <3>3, OthersUntouched
  <2>. QED  BY <2>3, <2>4
<1>. HIDE DEF Chosen, Ended
<1>. DEFINE A == \A u \in Users :
                   /\ password[u] = "permanent" /\ hash'[u] # hash[u] => Usable(resets[u])
                   /\ \/ hash'[u] # hash[u]
                      \/ status[u] = "active" /\ status'[u] # "active"
                      => sessions'[u] = {}
<1>3. AccountInv /\ [AccountNext]_accountVars => [A]_accountVars
  <2>. SUFFICES ASSUME AccountInv, [AccountNext]_accountVars
                PROVE  A
    OBVIOUS
  <2>1. \A u \in Users : Chosen(u) /\ Ended(u)
    BY <1>1, <1>2
  <2>. QED  BY <2>1 DEF Chosen, Ended
<1>. QED  BY <1>3, AccountInvCorrect, PTL DEF AccountSpec, ChangesAreGuarded

\* Whatever administrators do to each other, one of them can still sign in: each
\* operation that may take the last one counts them under their locks.
THEOREM AnAdminRemains == AccountSpec => []AdminRemains
<1>1. AccountInit => AdminRemains
  BY DEF AccountInit, AdminRemains, ActiveAdmins
<1>2. AccountInv /\ AdminRemains /\ [AccountNext]_accountVars => AdminRemains'
  <2>. SUFFICES ASSUME AccountInv, AdminRemains, [AccountNext]_accountVars, ActiveAdmins' = {}
                PROVE  FALSE
    BY DEF AdminRemains
  <2>1. AccountsTypeOK
    BY DEF AccountInv
  <2>2. PICK u \in Users : role[u] = "admin" /\ status[u] = "active"
    BY DEF AdminRemains, ActiveAdmins
  <2>3. ~(role'[u] = "admin" /\ status'[u] = "active")
    BY DEF ActiveAdmins
  <2>4. ~SameAccount(u)
    BY <2>2, <2>3 DEF SameAccount
  <2>5. ASSUME \/ BeginLogin(u) \/ OpenSession(u) \/ RequireChange(u) \/ CloseSession(u)
               \/ IssueInvitation(u) \/ RequestPasswordReset(u) \/ LapseLinks(u)
               \/ AcceptInvitation(u) \/ ResetPassword(u)
               \/ ProvisionUser(u) \/ RegeneratePassword(u)
               \/ RevokeInvitation(u) \/ ForceReset(u) \/ ChangeEmail(u) \/ RevokeSessions(u)
               \/ \E e \in {"active", "deactivated", "terminated"} : RecordEmployment(u, e)
        PROVE  FALSE
    BY <2>1, <2>2, <2>3, <2>5 DEF BeginLogin, OpenSession, RequireChange, CloseSession,
       IssueInvitation, RequestPasswordReset, LapseLinks, AcceptInvitation, ResetPassword,
       ProvisionUser, RegeneratePassword, RevokeInvitation, ForceReset, ChangeEmail,
       RevokeSessions, RecordEmployment, AccountsTypeOK
  <2>6. PICK r, s : /\ KeepsAnAdmin(u, r, s) /\ ~(r = "admin" /\ s = "active")
                    /\ \A v \in Users \ {u} : role'[v] = role[v] /\ status'[v] = status[v]
    <3>1. ASSUME NEW s \in {"active", "deactivated", "revoked"}, SetStatus(u, s)
          PROVE  /\ KeepsAnAdmin(u, role[u], s) /\ ~(role[u] = "admin" /\ s = "active")
                 /\ \A v \in Users \ {u} : role'[v] = role[v] /\ status'[v] = status[v]
      BY <2>1, <2>2, <2>3, <3>1 DEF SetStatus, AccountsTypeOK
    <3>2. ASSUME NEW r \in {"admin", "agent"}, ChangeRole(u, r)
          PROVE  /\ KeepsAnAdmin(u, r, status[u]) /\ ~(r = "admin" /\ status[u] = "active")
                 /\ \A v \in Users \ {u} : role'[v] = role[v] /\ status'[v] = status[v]
      BY <2>1, <2>2, <2>3, <3>2 DEF ChangeRole, AccountsTypeOK
    <3>3. ASSUME PurgeAccount(u)
          PROVE  /\ KeepsAnAdmin(u, "agent", status[u])
                 /\ \A v \in Users \ {u} : role'[v] = role[v] /\ status'[v] = status[v]
      BY <2>1, <3>3 DEF PurgeAccount, AccountsTypeOK
    <3>. QED  BY <2>1, <2>4, <2>5, <3>1, <3>2, <3>3, OthersUntouched
  <2>7. Cardinality(ActiveAdmins) > 1
    BY <2>2, <2>6 DEF KeepsAnAdmin, ActiveAdmins
  <2>8. ActiveAdmins # {u}
    <3>1. Cardinality({u}) = 1
      BY FS_Singleton
    <3>. QED  BY <2>7, <3>1
  <2>9. PICK v \in Users \ {u} : role[v] = "admin" /\ status[v] = "active"
    BY <2>2, <2>8 DEF ActiveAdmins
  <2>. QED  BY <2>6, <2>9 DEF ActiveAdmins
<1>. QED  BY <1>1, <1>2, AccountInvCorrect, PTL DEF AccountSpec

-----------------------------------------------------------------------------
(* Roster: dialer names *)

NameRows ==
  [name : DialerNames, user : Users, active : BOOLEAN, primary : BOOLEAN,
   activeKey : BOOLEAN, primaryKey : BOOLEAN]

\* Flags and keys say the same, and keys are unique.  A retired name is not in
\* the set any more, so those that are there are active.
NamesOK(rows) ==
  /\ rows \subseteq NameRows
  /\ \A m \in rows : m.active /\ m.activeKey /\ (m.primary <=> m.primaryKey)
  /\ \A m, k \in rows : m # k =>
       /\ m.name # k.name
       /\ m.user = k.user => ~(m.primary /\ k.primary)

\* A request that was begun names a user.
NamesInv ==
  /\ NamesOK(names)
  /\ DOMAIN pending = Admins
  /\ \A a \in Admins : pending[a] = NothingPending \/ pending[a].user \in Users

-----------------------------------------------------------------------------
(* What the operations are built from *)

\* Every row stays, the user's without their rank.
LEMMA DemotedRows ==
  ASSUME NEW rows, NamesOK(rows), NEW u
  PROVE  /\ NamesOK(WithoutPrimary(rows, u))
         /\ \A m \in WithoutPrimary(rows, u) : m.user = u => ~m.primary /\ ~m.primaryKey
         /\ \A m \in WithoutPrimary(rows, u) : \E k \in rows : m.name = k.name /\ m.user = k.user
<1>. DEFINE D(m) == IF m.user = u /\ m.active THEN Demoted(m) ELSE m
<1>1. ASSUME NEW m \in rows
      PROVE  /\ D(m) \in NameRows
             /\ D(m).name = m.name /\ D(m).user = m.user
             /\ D(m).active /\ D(m).activeKey /\ (D(m).primary <=> D(m).primaryKey)
             /\ D(m).primary => m.primary
             /\ m.user = u => ~D(m).primary
  <2>1. m \in NameRows /\ m.active /\ m.activeKey /\ (m.primary <=> m.primaryKey)
    BY DEF NamesOK
  <2>2. CASE m.user = u
    <3>1. D(m) = [m EXCEPT !.primary = FALSE, !.primaryKey = FALSE]
      BY <2>1, <2>2 DEF Demoted
    <3>. QED  BY <2>1, <3>1 DEF NameRows
  <2>3. CASE m.user # u
    BY <2>1, <2>3
  <2>. QED  BY <2>2, <2>3
<1>. HIDE DEF D
<1>2. WithoutPrimary(rows, u) = {D(m) : m \in rows}
  BY DEF WithoutPrimary, D
<1>3. \A m, k \in rows : D(m) # D(k) =>
        /\ D(m).name # D(k).name
        /\ D(m).user = D(k).user => ~(D(m).primary /\ D(k).primary)
  BY <1>1 DEF NamesOK
<1>. QED  BY <1>1, <1>2, <1>3 DEF NamesOK

LEMMA FewerRows ==
  ASSUME NEW rows, NamesOK(rows), NEW some \in SUBSET rows
  PROVE  NamesOK(some)
BY DEF NamesOK

\* The unique indexes refuse what would make two owners or two primary names.
LEMMA InsertedRows ==
  ASSUME NEW rows, NamesOK(rows), NEW n \in DialerNames, NEW u \in Users, NEW p \in BOOLEAN,
         Inserted(rows, Name(n, u, p))
  PROVE  NamesOK(names')
<1>. DEFINE new == Name(n, u, p)
<1>1. /\ new \in NameRows /\ new.name = n /\ new.user = u /\ new.active /\ new.activeKey
      /\ new.primary = p /\ new.primaryKey = p
  BY DEF Name, NameRows
<1>. HIDE DEF new
<1>2. /\ names' = rows \cup {new}
      /\ \A m \in rows : m.activeKey => m.name # n
      /\ p => \A m \in rows : m.user = u => ~m.primaryKey
  BY <1>1 DEF Inserted, Owned, new
<1>3. \A m \in rows : m.name # n /\ (m.user = u => ~(m.primary /\ p))
  BY <1>2 DEF NamesOK
<1>. QED  BY <1>1, <1>2, <1>3 DEF NamesOK

-----------------------------------------------------------------------------
(* Roster: the names keep their invariant *)

LEMMA NamesStep == NamesInv /\ [RosterNext]_rosterVars => NamesInv'
<1>. SUFFICES ASSUME NamesInv, [RosterNext]_rosterVars PROVE NamesInv'
  OBVIOUS
<1>1. /\ NamesOK(names) /\ DOMAIN pending = Admins
      /\ \A a \in Admins : pending[a] = NothingPending \/ pending[a].user \in Users
  BY DEF NamesInv
<1>2. ASSUME UNCHANGED pending, NamesOK(names')
      PROVE  NamesInv'
  BY <1>1, <1>2 DEF NamesInv
<1>3. ASSUME NEW a \in Admins, NEW p, pending' = [pending EXCEPT ![a] = p], NamesOK(names'),
             p = NothingPending \/ p.user \in Users
      PROVE  NamesInv'
  BY <1>1, <1>3 DEF NamesInv
<1>4. ASSUME NEW u \in Users, NEW n \in DialerNames, NEW primary \in BOOLEAN, AddName(u, n, primary)
      PROVE  NamesInv'
  <2>1. NamesOK(IF primary THEN WithoutPrimary(names, u) ELSE names)
    BY <1>1, DemotedRows
  <2>2. NamesOK(names')
    BY <1>4, <2>1, InsertedRows DEF AddName
  <2>. QED  BY <1>2, <1>4, <2>2 DEF AddName
<1>5. ASSUME NEW u \in Users, NEW n \in DialerNames, RenamePrimary(u, n)
      PROVE  NamesInv'
  <2>. DEFINE replaced == {m \in names : m.user = u /\ m.active /\ (m.primary \/ m.name = n)}
  <2>1. NamesOK(WithoutPrimary(Retire(names, replaced), u))
    BY <1>1, DemotedRows, FewerRows DEF Retire
  <2>2. Inserted(WithoutPrimary(Retire(names, replaced), u), Name(n, u, TRUE))
    BY <1>5 DEF RenamePrimary
  <2>3. NamesOK(names')
    BY <2>1, <2>2, InsertedRows
  <2>. QED  BY <1>2, <1>5, <2>3 DEF RenamePrimary
<1>6. ASSUME NEW m \in names, NEW n \in DialerNames, EditName(m, n)
      PROVE  NamesInv'
  <2>1. NamesOK(Retire(names, {m})) /\ m.user \in Users /\ m.primary \in BOOLEAN
    BY <1>1, FewerRows DEF Retire, NamesOK, NameRows
  <2>2. NamesOK(names')
    BY <1>6, <2>1, InsertedRows DEF EditName
  <2>. QED  BY <1>2, <1>6, <2>2 DEF EditName
<1>7. ASSUME NEW m \in names, DeactivateName(m)
      PROVE  NamesInv'
  <2>1. NamesOK(names')
    BY <1>1, <1>7, FewerRows DEF DeactivateName, Retire
  <2>. QED  BY <1>2, <1>7, <2>1 DEF DeactivateName
<1>8. ASSUME NEW m \in names, SetPrimary(m)
      PROVE  NamesInv'
  <2>. DEFINE demoted == WithoutPrimary(names, m.user)
              others == demoted \ {Demoted(m)}
              new == [m EXCEPT !.primary = TRUE, !.primaryKey = TRUE]
  <2>1. m \in NameRows /\ m.active /\ m.activeKey
    BY <1>1 DEF NamesOK
  <2>2. /\ new \in NameRows /\ new.name = m.name /\ new.user = m.user
        /\ new.active /\ new.activeKey /\ new.primary /\ new.primaryKey
    BY <2>1 DEF NameRows
  <2>3. NamesOK(others) /\ \A k \in others : k.user = m.user => ~k.primary
    BY <1>1, DemotedRows, FewerRows
  <2>4. Demoted(m) \in demoted /\ Demoted(m).name = m.name
    BY <2>1 DEF WithoutPrimary, Demoted, NameRows
  <2>5. \A k \in others : k.name # m.name
    BY <1>1, <2>4, DemotedRows DEF NamesOK
  <2>6. names' = others \cup {new}
    BY <1>8 DEF SetPrimary
  <2>. HIDE DEF demoted, others, new
  <2>7. NamesOK(names')
    BY <2>2, <2>3, <2>5, <2>6 DEF NamesOK
  <2>. QED  BY <1>2, <1>8, <2>7 DEF SetPrimary
<1>9. ASSUME NEW a \in Admins, NEW n \in DialerNames, CommitCreate(a, n)
      PROVE  NamesInv'
  <2>1. pending[a].user \in Users
    BY <1>1, <1>9 DEF CommitCreate, NothingPending
  <2>2. NamesOK(names')
    BY <1>1, <1>9, <2>1, InsertedRows DEF CommitCreate
  <2>. QED  BY <1>3, <1>9, <2>2 DEF CommitCreate
<1>10. ASSUME NEW a \in Admins, CommitUpdate(a) \/ CommitManager(a) \/ Abandon(a)
       PROVE  NamesInv'
  BY <1>1, <1>3, <1>10 DEF CommitUpdate, CommitManager, Abandon
<1>11. ASSUME NEW a \in Admins, NEW u \in Users, NEW t \in Teams,
              \/ BeginManager(a, u, t)
              \/ \E kind \in {"create", "update"}, r \in Roles : BeginUserChange(a, kind, u, r, t)
       PROVE  NamesInv'
  <2>1. UNCHANGED names
    BY <1>11 DEF BeginManager, BeginUserChange
  <2>2. \E p : pending' = [pending EXCEPT ![a] = p] /\ p.user \in Users
    <3>1. CASE BeginManager(a, u, t)
      <4>. DEFINE p == [kind |-> "manager", user |-> u, team |-> t]
      <4>1. pending' = [pending EXCEPT ![a] = p] /\ p.user = u
        BY <3>1 DEF BeginManager
      <4>. QED  BY <4>1
    <3>2. ASSUME NEW kind, NEW r, BeginUserChange(a, kind, u, r, t)
          PROVE  \E p : pending' = [pending EXCEPT ![a] = p] /\ p.user \in Users
      <4>. DEFINE p == [kind |-> kind, user |-> u, role |-> r, team |-> t]
      <4>1. pending' = [pending EXCEPT ![a] = p] /\ p.user = u
        BY <3>2 DEF BeginUserChange
      <4>. QED  BY <4>1
    <3>. QED  BY <1>11, <3>1, <3>2
  <2>. QED  BY <1>1, <1>3, <2>1, <2>2
<1>12. ASSUME \/ UNCHANGED rosterVars
              \/ \E u \in Users, t \in Teams : MoveUser(u, t)
              \/ \E u \in Users : \E i \in DOMAIN memberOf[u] : RemoveMembership(u, i)
              \/ \E t \in Teams : SetTeamStatus(t)
       PROVE  NamesInv'
  <2>1. UNCHANGED <<names, pending>>
    BY <1>12 DEF rosterVars, MoveUser, RemoveMembership, SetTeamStatus
  <2>. QED  BY <1>1, <1>2, <2>1
<1>13. ASSUME NEW u \in Users, PurgeUser(u)
       PROVE  NamesInv'
  <2>1. NamesOK(names')
    BY <1>1, <1>13, FewerRows DEF PurgeUser
  <2>. QED  BY <1>2, <1>13, <2>1 DEF PurgeUser
<1>. QED
  BY <1>4, <1>5, <1>6, <1>7, <1>8, <1>9, <1>10, <1>11, <1>12, <1>13 DEF RosterNext

-----------------------------------------------------------------------------
(* Roster: memberships *)

\* There is no membership, or one, of an existing user in a team.
AtMostOne(memberships, r) ==
  \/ memberships = <<>>
  \/ /\ r # "none"
     /\ \E t \in Teams, k \in {"manager", "agent"} : memberships = <<Membership(t, k)>>

\* What a request is about.
RequestOK(p) ==
  /\ p.user \in Users /\ p.team \in Teams
  /\ p.kind = "manager" \/ (p.kind \in {"create", "update"} /\ p.role \in Roles)

MembersInv ==
  /\ roleOf \in [Users -> Roles \cup {"none"}]
  /\ open \in [Teams -> BOOLEAN]
  /\ memberOf = [u \in Users |-> memberOf[u]]
  /\ \A u \in Users : AtMostOne(memberOf[u], roleOf[u])
  /\ pending = [a \in Admins |-> pending[a]]
  /\ \A a \in Admins : pending[a] = NothingPending \/ RequestOK(pending[a])

LEMMA OneElement ==
  ASSUME NEW m
  PROVE  /\ Len(<<m>>) = 1 /\ <<m>>[1] = m /\ DOMAIN <<m>> = 1..1
         /\ Len(<<>>) = 0
         /\ Append(<<>>, m) = <<m>>
         /\ RemoveAt(<<m>>, 1) = <<>>
<1>1. <<m>> \in Seq({m}) /\ <<>> \in Seq({m})
  OBVIOUS
<1>2. Len(<<m>>) = 1 /\ <<m>>[1] = m /\ DOMAIN <<m>> = 1..1 /\ Len(<<>>) = 0
  OBVIOUS
<1>3. Append(<<>>, m) = <<m>>
  BY <1>1
<1>4. SubSeq(<<m>>, 1, 0) = <<>> /\ SubSeq(<<m>>, 2, 1) = <<>>
  BY <1>1
<1>5. <<>> \o <<>> = <<>>
  BY <1>1
<1>6. RemoveAt(<<m>>, 1) = <<>>
  BY <1>2, <1>4, <1>5 DEF RemoveAt
<1>. QED  BY <1>2, <1>3, <1>6

\* Of one membership, filtering leaves that one or none.
LEMMA ManagersOfOne ==
  ASSUME NEW memberships, memberships = <<>> \/ \E m : memberships = <<m>>, NEW t
  PROVE  WithoutManagers(memberships, t) \in {<<>>, memberships}
<1>. DEFINE Stays(f) ==
       [i \in 0..Len(memberships) |->
          IF i = 0 THEN <<>>
          ELSE IF IsManagerOf(t, memberships[i]) THEN f[i - 1]
          ELSE Append(f[i - 1], memberships[i])]
     stays == CHOOSE f : f = Stays(f)
<1>1. WithoutManagers(memberships, t) = stays[Len(memberships)]
  BY DEF WithoutManagers
<1>2. CASE memberships = <<>>
  <2>. DEFINE g == [i \in 0..0 |-> <<>>]
  <2>1. g = Stays(g)
    BY <1>2
  <2>2. stays = Stays(stays)
    BY <2>1
  <2>3. stays[0] = <<>>
    BY <1>2, <2>2
  <2>. QED  BY <1>1, <1>2, <2>3
<1>3. ASSUME NEW m, memberships = <<m>>
      PROVE  stays[Len(memberships)] \in {<<>>, memberships}
  <2>. DEFINE last == IF IsManagerOf(t, m) THEN <<>> ELSE <<m>>
              g == [i \in 0..1 |-> IF i = 0 THEN <<>> ELSE last]
  <2>0. Len(memberships) = 1 /\ memberships[1] = m
    BY <1>3, OneElement
  <2>1. g = Stays(g)
    BY <2>0, OneElement
  <2>2. stays = Stays(stays)
    BY <2>1
  <2>. HIDE DEF stays
  <2>3. stays[0] = <<>>
    BY <2>0, <2>2
  <2>4. stays[1] = IF IsManagerOf(t, m) THEN stays[0] ELSE Append(stays[0], m)
    <3>1. 1 \in 0..Len(memberships) /\ 1 - 1 = 0
      BY <2>0
    <3>2. stays[1] = IF IsManagerOf(t, memberships[1]) THEN stays[1 - 1]
                     ELSE Append(stays[1 - 1], memberships[1])
      BY <2>2, <3>1
    <3>. QED  BY <2>0, <3>1, <3>2
  <2>5. stays[1] = last
    BY <2>3, <2>4, OneElement
  <2>. QED  BY <1>3, <2>0, <2>5
<1>. QED  BY <1>1, <1>2, <1>3

LEMMA MembersStep == MembersInv /\ [RosterNext]_rosterVars => MembersInv'
<1>. SUFFICES ASSUME MembersInv, [RosterNext]_rosterVars PROVE MembersInv'
  OBVIOUS
<1>. USE DEF MembersInv
<1>1. ASSUME UNCHANGED <<roleOf, open, memberOf>>,
             \/ UNCHANGED pending
             \/ \E a \in Admins : \E p : /\ pending' = [pending EXCEPT ![a] = p]
                                         /\ p = NothingPending \/ RequestOK(p)
      PROVE  MembersInv'
  <2>1. pending' = [a \in Admins |-> pending'[a]]
    BY <1>1
  <2>2. \A a \in Admins : pending'[a] = NothingPending \/ RequestOK(pending'[a])
    BY <1>1
  <2>. QED  BY <1>1, <2>1, <2>2
<1>2. ASSUME UNCHANGED open, NEW u \in Users, NEW r \in Roles \cup {"none"},
             NEW memberships, AtMostOne(memberships, r),
             roleOf' = [roleOf EXCEPT ![u] = r],
             memberOf' = [memberOf EXCEPT ![u] = memberships],
             \/ UNCHANGED pending
             \/ \E a \in Admins : pending' = [pending EXCEPT ![a] = NothingPending]
      PROVE  MembersInv'
  <2>1. roleOf' \in [Users -> Roles \cup {"none"}] /\ memberOf' = [v \in Users |-> memberOf'[v]]
    BY <1>2
  <2>2. \A v \in Users : AtMostOne(memberOf'[v], roleOf'[v])
    BY <1>2
  <2>3. pending' = [a \in Admins |-> pending'[a]]
    BY <1>2
  <2>4. \A a \in Admins : pending'[a] = NothingPending \/ RequestOK(pending'[a])
    BY <1>2
  <2>. QED  BY <1>2, <2>1, <2>2, <2>3, <2>4
<1>3. /\ \A r : AtMostOne(<<>>, r)
      /\ \A r \in Roles, t \in Teams : AtMostOne(Admitted(r, t), r)
      /\ \A r, t \in Teams, k \in {"manager", "agent"} : r # "none" => AtMostOne(<<Membership(t, k)>>, r)
  BY DEF AtMostOne, Admitted, RequiresTeam, Roles
<1>4. ASSUME NEW u \in Users, NEW n \in DialerNames,
             RenamePrimary(u, n) \/ \E primary \in BOOLEAN : AddName(u, n, primary)
      PROVE  MembersInv'
  BY <1>1, <1>4 DEF RenamePrimary, AddName
<1>5. ASSUME NEW m \in names,
             DeactivateName(m) \/ SetPrimary(m) \/ \E n \in DialerNames : EditName(m, n)
      PROVE  MembersInv'
  BY <1>1, <1>5 DEF DeactivateName, SetPrimary, EditName
<1>6. ASSUME NEW a \in Admins, CommitUpdate(a) \/ \E n \in DialerNames : CommitCreate(a, n)
      PROVE  MembersInv'
  <2>0. pending[a].kind \in {"create", "update"}
    BY <1>6 DEF CommitCreate, CommitUpdate
  <2>1. RequestOK(pending[a])
    BY <2>0 DEF NothingPending
  <2>2. pending[a].user \in Users /\ pending[a].role \in Roles /\ pending[a].team \in Teams
    BY <2>0, <2>1 DEF RequestOK
  <2>. DEFINE p == pending[a]
  <2>3. /\ UNCHANGED open
        /\ roleOf' = [roleOf EXCEPT ![p.user] = p.role]
        /\ memberOf' = [memberOf EXCEPT ![p.user] = Admitted(p.role, p.team)]
        /\ pending' = [pending EXCEPT ![a] = NothingPending]
    BY <1>6 DEF CommitCreate, CommitUpdate
  <2>. HIDE DEF MembersInv
  <2>. QED  BY <1>2, <1>3, <2>2, <2>3
<1>8. ASSUME NEW a \in Admins, CommitManager(a)
      PROVE  MembersInv'
  <2>. DEFINE p == pending[a]
  <2>1. RequestOK(p) /\ p.kind = "manager" /\ p.user \in Users /\ p.team \in Teams
    BY <1>8 DEF CommitManager, NothingPending, RequestOK
  <2>2. /\ UNCHANGED <<roleOf, open>> /\ roleOf[p.user] # "none"
        /\ pending' = [pending EXCEPT ![a] = NothingPending]
    BY <1>8 DEF CommitManager
  <2>3. CASE AlreadyManages(p.user, p.team)
    <3>1. UNCHANGED memberOf
      BY <1>8, <2>3 DEF CommitManager
    <3>. HIDE DEF MembersInv, p
    <3>. QED  BY <1>1, <2>2, <3>1
  <2>4. CASE ~AlreadyManages(p.user, p.team)
    <3>1. memberOf' = Handover(p.user, p.team)
      BY <1>8, <2>4 DEF CommitManager
    <3>2. \A v \in Users : WithoutManagers(memberOf[v], p.team) \in {<<>>, memberOf[v]}
      BY ManagersOfOne DEF AtMostOne
    <3>3. memberOf' = [v \in Users |-> memberOf'[v]]
      BY <3>1 DEF Handover
    <3>4. ASSUME NEW v \in Users
          PROVE  AtMostOne(memberOf'[v], roleOf'[v])
      <4>1. memberOf'[v] = IF v = p.user THEN <<Membership(p.team, "manager")>>
                           ELSE WithoutManagers(memberOf[v], p.team)
        BY <3>1 DEF Handover
      <4>. HIDE DEF p
      <4>2. CASE v = p.user
        BY <2>1, <2>2, <4>1, <4>2 DEF AtMostOne
      <4>3. CASE v # p.user
        BY <1>3, <2>2, <3>2, <4>1, <4>3
      <4>. QED  BY <4>2, <4>3
    <3>5. pending' = [b \in Admins |-> pending'[b]]
      BY <2>2
    <3>6. \A b \in Admins : pending'[b] = NothingPending \/ RequestOK(pending'[b])
      BY <2>2
    <3>. QED  BY <2>2, <3>3, <3>4, <3>5, <3>6
  <2>. QED  BY <2>3, <2>4
<1>9. ASSUME NEW a \in Admins, NEW u \in Users, NEW t \in Teams,
             \/ BeginManager(a, u, t)
             \/ \E kind \in {"create", "update"}, r \in Roles : BeginUserChange(a, kind, u, r, t)
      PROVE  MembersInv'
  <2>1. UNCHANGED <<roleOf, open, memberOf>>
    BY <1>9 DEF BeginManager, BeginUserChange
  <2>2. \E p : pending' = [pending EXCEPT ![a] = p] /\ RequestOK(p)
    <3>1. CASE BeginManager(a, u, t)
      <4>. DEFINE p == [kind |-> "manager", user |-> u, team |-> t]
      <4>1. pending' = [pending EXCEPT ![a] = p] /\ RequestOK(p)
        BY <3>1 DEF BeginManager, RequestOK
      <4>. QED  BY <4>1
    <3>2. ASSUME NEW kind \in {"create", "update"}, NEW r \in Roles, BeginUserChange(a, kind, u, r, t)
          PROVE  \E p : pending' = [pending EXCEPT ![a] = p] /\ RequestOK(p)
      <4>. DEFINE p == [kind |-> kind, user |-> u, role |-> r, team |-> t]
      <4>1. pending' = [pending EXCEPT ![a] = p]
        BY <3>2 DEF BeginUserChange
      <4>2. p.user = u /\ p.kind = kind /\ p.role = r /\ p.team = t
        OBVIOUS
      <4>3. RequestOK(p)
        BY <4>2 DEF RequestOK
      <4>. QED  BY <4>1, <4>3
    <3>. QED  BY <1>9, <3>1, <3>2
  <2>. HIDE DEF MembersInv
  <2>. QED  BY <1>1, <2>1, <2>2
<1>10. ASSUME NEW u \in Users, NEW t \in Teams, MoveUser(u, t)
       PROVE  MembersInv'
  <2>1. roleOf[u] \in {"manager", "agent"} /\ roleOf' = [roleOf EXCEPT ![u] = roleOf[u]]
    BY <1>10 DEF MoveUser, RequiresTeam
  <2>2. AtMostOne(<<Membership(t, roleOf[u])>>, roleOf[u])
    BY <2>1 DEF AtMostOne
  <2>3. /\ UNCHANGED <<open, pending>> /\ roleOf[u] \in Roles \cup {"none"}
        /\ memberOf' = [memberOf EXCEPT ![u] = <<Membership(t, roleOf[u])>>]
    BY <1>10 DEF MoveUser
  <2>. HIDE DEF MembersInv
  <2>. QED  BY <1>2, <2>1, <2>2, <2>3
<1>11. ASSUME NEW u \in Users, NEW i \in DOMAIN memberOf[u], RemoveMembership(u, i)
       PROVE  MembersInv'
  <2>1. PICK m : memberOf[u] = <<m>>
    BY <1>11 DEF AtMostOne
  <2>2. i = 1
    BY <2>1, <1>11, OneElement
  <2>3. RemoveAt(memberOf[u], i) = <<>>
    BY <2>1, <2>2, OneElement
  <2>4. /\ UNCHANGED <<open, pending>> /\ roleOf' = [roleOf EXCEPT ![u] = roleOf[u]]
        /\ roleOf[u] \in Roles \cup {"none"}
        /\ memberOf' = [memberOf EXCEPT ![u] = <<>>]
    BY <1>11, <2>3 DEF RemoveMembership
  <2>. HIDE DEF MembersInv
  <2>. QED  BY <1>2, <1>3, <2>4
<1>12. ASSUME NEW u \in Users, PurgeUser(u)
       PROVE  MembersInv'
  <2>1. /\ UNCHANGED <<open, pending>> /\ roleOf' = [roleOf EXCEPT ![u] = "none"]
        /\ memberOf' = [memberOf EXCEPT ![u] = <<>>]
    BY <1>12 DEF PurgeUser
  <2>. HIDE DEF MembersInv
  <2>. QED  BY <1>2, <1>3, <2>1
<1>13. ASSUME NEW t \in Teams, SetTeamStatus(t)
       PROVE  MembersInv'
  <2>1. open' \in [Teams -> BOOLEAN] /\ UNCHANGED <<roleOf, memberOf, pending>>
    BY <1>13 DEF SetTeamStatus
  <2>. QED  BY <2>1
<1>14. ASSUME UNCHANGED rosterVars \/ \E a \in Admins : Abandon(a)
       PROVE  MembersInv'
  BY <1>1, <1>14 DEF rosterVars, Abandon
<1>. HIDE DEF MembersInv
<1>. QED
  BY <1>4, <1>5, <1>6, <1>8, <1>9, <1>10, <1>11, <1>12, <1>13, <1>14 DEF RosterNext

\* However users are created, updated, moved, made managers and removed at the
\* same time, also on the strength of a team or a role that was checked before and
\* has changed since, a user has at most one active membership; and whatever
\* dialer names are added, edited, promoted and retired, an active name has one
\* owner and a user one primary name, which is active.
THEOREM TeamsAndNamesAreUnique == RosterSpec => []OneTeamAndOwner
<1>1. RosterInit => MembersInv /\ NamesInv
  BY DEF RosterInit, MembersInv, AtMostOne, NamesInv, NamesOK
<1>2. MembersInv /\ NamesInv => OneTeamAndOwner
  <2>1. ASSUME NEW memberships, NEW r, AtMostOne(memberships, r)
        PROVE  Len(memberships) <= 1
    <3>1. CASE memberships = <<>>
      BY <3>1
    <3>2. ASSUME NEW m, memberships = <<m>>
          PROVE  Len(memberships) <= 1
      BY <3>2
    <3>. QED  BY <2>1, <3>1, <3>2 DEF AtMostOne
  <2>. QED  BY <2>1 DEF MembersInv, NamesInv, NamesOK, OneTeamAndOwner
<1>. QED  BY <1>1, <1>2, MembersStep, NamesStep, PTL DEF RosterSpec

-----------------------------------------------------------------------------
(* TeamScreens: the pages about users and teams *)

IsIn(u, t) == memberOf[u] # <<>> /\ memberOf[u][1].team = t

\* Whom the screens of a team count.
Home(t) == {u \in Users : IsIn(u, t) /\ roleOf[u] = memberOf[u][1].role}

\* A membership is the first one of its user.
LEMMA MembershipIs ==
  ASSUME MembersInv, NEW u \in Users
  PROVE  /\ DOMAIN memberOf[u] \subseteq {1}
         /\ 1 \in DOMAIN memberOf[u] <=> memberOf[u] # <<>>
         /\ memberOf[u] # <<>> => /\ memberOf[u][1].team \in Teams
                                  /\ memberOf[u][1].role \in {"manager", "agent"}
                                  /\ roleOf[u] # "none"
<1>1. AtMostOne(memberOf[u], roleOf[u])
  BY DEF MembersInv
<1>2. CASE memberOf[u] = <<>>
  BY <1>2
<1>3. ASSUME NEW t \in Teams, NEW k \in {"manager", "agent"}, memberOf[u] = <<Membership(t, k)>>,
             roleOf[u] # "none"
      PROVE  /\ DOMAIN memberOf[u] = {1} /\ memberOf[u] # <<>>
             /\ memberOf[u][1].team = t /\ memberOf[u][1].role = k
  <2>1. memberOf[u][1] = Membership(t, k) /\ DOMAIN memberOf[u] = 1..1 /\ Len(memberOf[u]) = 1
    BY <1>3, OneElement
  <2>. QED  BY <2>1 DEF Membership
<1>. QED  BY <1>1, <1>2, <1>3 DEF AtMostOne

LEMMA WhomPairs ==
  ASSUME NEW A
  PROVE  Whom(A \X {1}) = A
<1>1. ASSUME NEW u \in A
      PROVE  u \in Whom(A \X {1})
  <2>1. <<u, 1>> \in A \X {1} /\ <<u, 1>>[1] = u
    OBVIOUS
  <2>. QED  BY <2>1 DEF Whom
<1>2. ASSUME NEW u \in Whom(A \X {1})
      PROVE  u \in A
  BY DEF Whom
<1>. QED  BY <1>1, <1>2

LEMMA CurrentIs ==
  ASSUME MembersInv, NEW t
  PROVE  /\ MembershipsOf(t) = {u \in Users : IsIn(u, t)} \X {1}
         /\ Current(t) = Home(t) \X {1}
         /\ Whom(MembershipsOf(t)) = {u \in Users : IsIn(u, t)}
         /\ Whom(Current(t)) = Home(t)
         /\ \A r : Whom(InRole(Current(t), r)) = {u \in Home(t) : roleOf[u] = r}
<1>1. MembershipsOf(t) = {u \in Users : IsIn(u, t)} \X {1}
  <2>1. ASSUME NEW u \in Users, NEW i \in 1..2
        PROVE  i \in DOMAIN memberOf[u] /\ memberOf[u][i].team = t <=> i = 1 /\ IsIn(u, t)
    BY MembershipIs DEF IsIn
  <2>. QED  BY <2>1 DEF MembershipsOf
<1>2. Current(t) = Home(t) \X {1}
  BY <1>1 DEF Current, IsCurrent, Home
<1>3. \A A : Whom(A \X {1}) = A
  BY WhomPairs
<1>4. ASSUME NEW r
      PROVE  Whom(InRole(Current(t), r)) = {u \in Home(t) : roleOf[u] = r}
  <2>1. InRole(Current(t), r) = {u \in Home(t) : roleOf[u] = r} \X {1}
    BY <1>2 DEF InRole, Home
  <2>. QED  BY <1>3, <2>1
<1>. QED  BY <1>1, <1>2, <1>3, <1>4

LEMMA HomeFinite ==
  ASSUME NEW A \in SUBSET Users
  PROVE  IsFiniteSet(A) /\ Cardinality(A) \in Nat /\ (Cardinality(A) = 0 <=> A = {})
BY FiniteDirectory, FS_Subset, FS_CardinalityType, FS_EmptySet

LEMMA PairsCount ==
  ASSUME NEW A \in SUBSET Users
  PROVE  Cardinality(A \X {1}) = Cardinality(A)
<1>1. Cardinality(A \X {1}) = Cardinality(A) * Cardinality({1}) /\ Cardinality({1}) = 1
  BY HomeFinite, FS_Product, FS_Singleton
<1>. QED  BY <1>1, HomeFinite

\* Teams have nobody in common, so whom they count one by one is whom they count together.
LEMMA HomesAddUp ==
  ASSUME MembersInv, NEW W \in SUBSET Teams, NEW A \in SUBSET Users
  PROVE  Cardinality({u \in A : \E t \in W : u \in Home(t)})
           = Total([t \in Teams |-> Cardinality({u \in A : u \in Home(t)})], W)
<1>. DEFINE M == {u \in A : \E t \in W : u \in Home(t)}
            part == [u \in Users |-> memberOf[u][1].team]
            all == [t \in Teams |-> Cardinality({u \in A : u \in Home(t)})]
            some == [t \in W |-> Cardinality({u \in M : part[u] = t})]
<1>1. IsFiniteSet(M) /\ IsFiniteSet(W) /\ \A u \in M : part[u] \in W
  BY FiniteDirectory, FS_Subset, HomeFinite DEF Home, IsIn
<1>2. Cardinality(M) = Total(some, W)
  <2>. HIDE DEF M, part
  <2>. QED  BY <1>1, CountByParts
<1>3. ASSUME NEW t \in W
      PROVE  some[t] \in Nat /\ some[t] = all[t]
  <2>1. {u \in M : part[u] = t} = {u \in A : u \in Home(t)}
    BY DEF Home, IsIn
  <2>2. Cardinality({u \in M : part[u] = t}) \in Nat
    BY HomeFinite
  <2>. QED  BY <2>1, <2>2
<1>4. Total(some, W) = Total(all, W)
  <2>. HIDE DEF some, all
  <2>. QED  BY <1>1, <1>3, TotalSame
<1>. QED  BY <1>2, <1>4

LEMMA CountApart ==
  ASSUME NEW A \in SUBSET Users, NEW B \in SUBSET Users, A \cap B = {}
  PROVE  Cardinality(A \cup B) = Cardinality(A) + Cardinality(B)
BY FS_Union, FS_EmptySet, HomeFinite

\* Figures, rows and lists tell the same.
LEMMA FiguresDoAgree ==
  ASSUME MembersInv, NEW enabled \in SUBSET Profiles
  PROVE  FiguresAgree(enabled)
<1>. DEFINE RowOf(t) == TeamRow(t, enabled)
            stats == TeamStats(enabled)
            Role(t, r) == {u \in Home(t) : roleOf[u] = r}
<1>0. Profiles \in SUBSET Users /\ enabled \in SUBSET Users
  BY DEF Profiles
<1>1. ASSUME NEW t \in Teams
      PROVE  /\ RowOf(t).active = open[t]
             /\ RowOf(t).members = Cardinality(Home(t))
             /\ RowOf(t).agents = Cardinality(Role(t, "agent"))
             /\ RowOf(t).activeAgents = Cardinality(Role(t, "agent") \cap enabled)
             /\ RowOf(t).managers = Cardinality(Role(t, "manager"))
             /\ ListedManagers(t) = Role(t, "manager")
  BY CurrentIs DEF TeamRow, ListedManagers
<1>2. ASSUME NEW f, NEW g, NEW W \in SUBSET Teams, \A t \in W : f[t] = g[t] /\ g[t] \in Nat
      PROVE  Total(f, W) = Total(g, W)
  BY <1>2, FiniteDirectory, FS_Subset, TotalSame
<1>3. stats.totalMembers = Total([t \in Teams |-> RowOf(t).members], Teams)
  <2>. DEFINE M == {u \in Users : \E t \in Teams : u \in Home(t)}
              each == [t \in Teams |-> Cardinality({u \in Users : u \in Home(t)})]
  <2>1. UNION {Current(t) : t \in Teams} = M \X {1}
    <3>1. \A t \in Teams : Current(t) = Home(t) \X {1}
      BY CurrentIs
    <3>2. \A t : Home(t) \subseteq Users
      BY DEF Home
    <3>. QED  BY <3>1, <3>2
  <2>2. stats.totalMembers = Cardinality(M)
    BY <2>1, PairsCount DEF TeamStats
  <2>3. Cardinality(M) = Total(each, Teams)
    BY HomesAddUp
  <2>4. ASSUME NEW t \in Teams
        PROVE  each[t] = RowOf(t).members /\ each[t] \in Nat
    <3>1. {u \in Users : u \in Home(t)} = Home(t) /\ Home(t) \in SUBSET Users
      BY DEF Home
    <3>. QED  BY <1>1, <3>1, HomeFinite
  <2>. HIDE DEF each, stats, RowOf, M
  <2>5. Total([t \in Teams |-> RowOf(t).members], Teams) = Total(each, Teams)
    BY <1>2, <2>4
  <2>. QED  BY <2>2, <2>3, <2>5
<1>4. stats.teamManagers = Total([t \in Teams |-> RowOf(t).managers], Teams)
  <2>. DEFINE A == {u \in Users : roleOf[u] = "manager"}
              M == {u \in A : \E t \in Teams : u \in Home(t)}
              each == [t \in Teams |-> Cardinality({u \in A : u \in Home(t)})]
  <2>1. ManagerOptions = M
    <3>1. \A t \in Teams : ListedManagers(t) = {u \in Home(t) : roleOf[u] = "manager"}
      BY <1>1
    <3>2. \A t : Home(t) \subseteq Users
      BY DEF Home
    <3>. HIDE DEF RowOf, stats
    <3>. QED  BY <3>1, <3>2 DEF ManagerOptions
  <2>2. stats.teamManagers = Cardinality(M)
    BY <2>1 DEF TeamStats
  <2>3. Cardinality(M) = Total(each, Teams)
    BY HomesAddUp
  <2>4. ASSUME NEW t \in Teams
        PROVE  each[t] = RowOf(t).managers /\ each[t] \in Nat
    <3>1. {u \in A : u \in Home(t)} = Role(t, "manager") /\ Role(t, "manager") \in SUBSET Users
      BY DEF Home
    <3>. QED  BY <1>1, <3>1, HomeFinite
  <2>. HIDE DEF each, stats, RowOf, M
  <2>5. Total([t \in Teams |-> RowOf(t).managers], Teams) = Total(each, Teams)
    BY <1>2, <2>4
  <2>. QED  BY <2>2, <2>3, <2>5
<1>5. stats.activeAgents = Total([t \in Teams |-> RowOf(t).activeAgents], DestinationTeams)
  <2>. DEFINE A == {u \in enabled : roleOf[u] = "agent"}
              M == {u \in A : \E t \in DestinationTeams : u \in Home(t)}
              each == [t \in Teams |-> Cardinality({u \in A : u \in Home(t)})]
  <2>0. A \in SUBSET Users /\ DestinationTeams \in SUBSET Teams
    BY <1>0 DEF DestinationTeams
  <2>1. {u \in enabled : \E t \in Teams : open[t] /\ u \in Whom(InRole(Current(t), "agent"))} = M
    <3>1. \A t \in Teams : Whom(InRole(Current(t), "agent")) = Role(t, "agent")
      BY CurrentIs
    <3>. QED  BY <3>1 DEF DestinationTeams
  <2>2. stats.activeAgents = Cardinality(M)
    BY <2>1 DEF TeamStats
  <2>3. Cardinality(M) = Total(each, DestinationTeams)
    <3>. HIDE DEF A
    <3>. QED  BY <2>0, HomesAddUp
  <2>4. ASSUME NEW t \in Teams
        PROVE  each[t] = RowOf(t).activeAgents /\ each[t] \in Nat
    <3>1. /\ {u \in A : u \in Home(t)} = Role(t, "agent") \cap enabled
          /\ Role(t, "agent") \cap enabled \in SUBSET Users
      BY <1>0
    <3>. QED  BY <1>1, <3>1, HomeFinite
  <2>. HIDE DEF each, stats, RowOf, M
  <2>5. Total([t \in Teams |-> RowOf(t).activeAgents], DestinationTeams) = Total(each, DestinationTeams)
    BY <1>2, <2>0, <2>4
  <2>. QED  BY <2>2, <2>3, <2>5
<1>6. stats.inactive = Cardinality({t \in Teams : Bright(t, "inactive", enabled)})
  <2>1. \A t \in Teams : Bright(t, "inactive", enabled) <=> ~open[t]
    BY <1>1 DEF Bright
  <2>2. {t \in Teams : Bright(t, "inactive", enabled)} = {t \in Teams : ~open[t]}
    BY <2>1
  <2>. QED  BY <2>2 DEF TeamStats
<1>7. ASSUME NEW t \in Teams
      PROVE  TeamCounts(t, enabled) = [f \in DOMAIN RowOf(t) \ {"active"} |-> RowOf(t)[f]]
  <2>1. DOMAIN RowOf(t) \ {"active"} = {"members", "agents", "activeAgents", "managers"}
    BY DEF TeamRow
  <2>. QED  BY <2>1 DEF TeamCounts, TeamRow
<1>8. ASSUME NEW t \in Teams
      PROVE  RowOf(t).members = RowOf(t).agents + RowOf(t).managers
  <2>1. Home(t) = Role(t, "agent") \cup Role(t, "manager")
    BY MembershipIs DEF Home, IsIn
  <2>2. /\ Role(t, "agent") \in SUBSET Users /\ Role(t, "manager") \in SUBSET Users
        /\ Role(t, "agent") \cap Role(t, "manager") = {}
    BY DEF Home
  <2>. HIDE DEF Role, RowOf
  <2>. QED  BY <1>1, <2>1, <2>2, CountApart
<1>9. ASSUME NEW t \in Teams
      PROVE  Cardinality(Current(t)) = RowOf(t).members
  <2>1. Home(t) \in SUBSET Users
    BY DEF Home
  <2>. QED  BY <1>1, <2>1, CurrentIs, PairsCount
<1>10. ASSUME NEW t \in Teams, open[t]
       PROVE  FoundUsers("", "", t, enabled) = Whom(Current(t)) \cup Stranded(t)
  <2>1. t # ""
    BY NoFilterIsNoId
  <2>2. Stranded(t) = {u \in Users : IsIn(u, t)} \ Home(t)
    <3>1. MembershipsOf(t) \ Current(t) = ({u \in Users : IsIn(u, t)} \ Home(t)) \X {1}
      BY CurrentIs DEF Home
    <3>. QED  BY <3>1, WhomPairs DEF Stranded
  <2>3. Whom(Current(t)) \cup Stranded(t) = {u \in Users : IsIn(u, t)}
    BY <2>2, CurrentIs DEF Home
  <2>4. ASSUME NEW u \in Users
        PROVE  (\E i \in DOMAIN memberOf[u] : memberOf[u][i].team = t /\ open[t]) <=> IsIn(u, t)
    BY <1>10, MembershipIs DEF IsIn
  <2>5. \A u \in Users : IsIn(u, t) => u \in Profiles
    BY MembershipIs DEF IsIn, Profiles
  <2>6. FoundUsers("", "", t, enabled) = {u \in Users : IsIn(u, t)}
    BY <1>0, <2>1, <2>4, <2>5 DEF FoundUsers
  <2>. QED  BY <2>3, <2>6
<1>11. ASSUME NEW t \in Teams, NEW u \in ListedManagers(t)
       PROVE  FoundTeams("", u) = {t}
  <2>1. u \in Users /\ IsIn(u, t) /\ roleOf[u] = "manager" /\ memberOf[u][1].role = "manager"
    <3>1. u \in Role(t, "manager")
      BY <1>1
    <3>. QED  BY <3>1 DEF Home
  <2>2. u # ""
    BY <2>1, NoFilterIsNoId
  <2>3. ASSUME NEW k \in Teams
        PROVE  u \in Whom(InRole(MembershipsOf(k), "manager")) <=> k = t
    <3>1. InRole(MembershipsOf(k), "manager")
            = {v \in Users : IsIn(v, k) /\ memberOf[v][1].role = "manager"} \X {1}
      BY CurrentIs DEF InRole
    <3>2. Whom(InRole(MembershipsOf(k), "manager"))
            = {v \in Users : IsIn(v, k) /\ memberOf[v][1].role = "manager"}
      BY <3>1, WhomPairs
    <3>. QED  BY <2>1, <3>2 DEF IsIn
  <2>. QED  BY <2>2, <2>3 DEF FoundTeams
<1>12. ASSUME NEW u \in Profiles
       PROVE  ShownTeams(u) = DetailTeam(u) \cap DestinationTeams
  <2>1. u \in Users
    BY DEF Profiles
  <2>2. CASE memberOf[u] = <<>>
    BY <2>1, <2>2, MembershipIs DEF ShownTeams, DetailTeam
  <2>3. CASE memberOf[u] # <<>>
    <3>1. DOMAIN memberOf[u] = {1} /\ memberOf[u][1].team \in Teams
      BY <2>1, <2>3, MembershipIs
    <3>2. DetailTeam(u) = {memberOf[u][1].team}
      BY <2>3 DEF DetailTeam
    <3>3. ShownTeams(u) = {k \in {memberOf[u][1].team} : open[k]}
      BY <3>1 DEF ShownTeams
    <3>. QED  BY <3>1, <3>2, <3>3 DEF DestinationTeams
  <2>. QED  BY <2>2, <2>3
<1>13. ASSUME NEW r \in Roles
       PROVE  UserTotal({r}, Profiles) = Cardinality(FoundUsers(r, "", "", enabled))
  <2>1. {u \in Profiles \cap Profiles : roleOf[u] \in {r}} = FoundUsers(r, "", "", enabled)
    BY DEF FoundUsers, Roles
  <2>. QED  BY <2>1 DEF UserTotal
<1>. HIDE DEF RowOf, stats
<1>14. /\ stats.totalMembers = Total([t \in Teams |-> RowOf(t).members], Teams)
       /\ stats.teamManagers = Total([t \in Teams |-> RowOf(t).managers], Teams)
       /\ stats.activeAgents = Total([t \in Teams |-> RowOf(t).activeAgents], DestinationTeams)
       /\ stats.inactive = Cardinality({t \in Teams : Bright(t, "inactive", enabled)})
       /\ \A t \in Teams :
            /\ TeamCounts(t, enabled) = [f \in DOMAIN RowOf(t) \ {"active"} |-> RowOf(t)[f]]
            /\ RowOf(t).members = RowOf(t).agents + RowOf(t).managers
            /\ Cardinality(Current(t)) = RowOf(t).members
            /\ open[t] => FoundUsers("", "", t, enabled) = Whom(Current(t)) \cup Stranded(t)
            /\ \A u \in ListedManagers(t) : FoundTeams("", u) = {t}
  BY <1>3, <1>4, <1>5, <1>6, <1>7, <1>8, <1>9, <1>10, <1>11
<1>. USE DEF RowOf, stats
<1>. QED  BY <1>12, <1>13, <1>14 DEF FiguresAgree

\* Of the offers, those are refused that OffersHold says.
LEMMA OffersDoHold ==
  ASSUME MembersInv, NEW enabled \in SUBSET Profiles
  PROVE  OffersHold(enabled)
<1>1. ASSUME NEW t \in Teams, NEW move \in OfferedMoves(t)
      PROVE  AcceptsMember(move[1], move[2], enabled) <=> move[1] \in enabled
  <2>1. move[1] \in Home(t) /\ move[2] \in DestinationTeams
    BY <1>1, CurrentIs DEF OfferedMoves
  <2>2. roleOf[move[1]] \in {"manager", "agent"} /\ open[move[2]]
    BY <2>1, MembershipIs DEF Home, IsIn, DestinationTeams
  <2>. QED  BY <2>2 DEF AcceptsMember, AcceptsManager
<1>2. ASSUME NEW t \in Teams, NEW u \in AssignableManagers(enabled)
      PROVE  AcceptsManager(u, t, enabled) <=> open[t]
  BY DEF AssignableManagers, AcceptsManager
<1>3. ASSUME NEW t \in Teams, OffersClosing(t, enabled)
      PROVE  MembershipsOf(t) = {} <=> Stranded(t) = {}
  <2>1. Cardinality(Home(t)) = 0
    BY <1>3, CurrentIs DEF OffersClosing, TeamCounts
  <2>2. Home(t) = {}
    BY <2>1, HomeFinite DEF Home
  <2>3. Current(t) = {}
    BY <2>2, CurrentIs
  <2>4. Stranded(t) = {u \in Users : IsIn(u, t)}
    BY <2>3, CurrentIs DEF Stranded
  <2>5. MembershipsOf(t) = {} => Whom(MembershipsOf(t)) = {}
    BY DEF Whom
  <2>6. Stranded(t) = {} => MembershipsOf(t) = {}
    <3>1. MembershipsOf(t) = Stranded(t) \X {1}
      BY <2>4, CurrentIs
    <3>. QED  BY <3>1
  <2>. QED  BY <2>4, <2>5, <2>6, CurrentIs
<1>4. ASSUME NEW move \in InlineMoves
      PROVE  AcceptsInline(move[1], move[2])
  BY <1>4 DEF InlineMoves, AcceptsInline, DestinationTeams
<1>. QED  BY <1>1, <1>2, <1>3, <1>4 DEF OffersHold

\* Whatever links a user has had, however many, the filters find the status that is
\* shown, but for the overlooked.
LEMMA StatusesAreFound ==
  ASSUME NEW n \in Nat, NEW links \in [1..n -> InvitationLinks], NEW credential \in Credentials
  PROVE  StatusIsFound(links, credential)
<1>. DEFINE shown == InvitationShown(links, credential)
            found == {w \in InvitationStatuses : FoundByInvitation(links, credential, w)}
<1>1. /\ credential.state \in {"temporary", "permanent"} /\ credential.changed \in BOOLEAN
      /\ credential = [state |-> credential.state, changed |-> credential.changed]
      /\ credential.state = "temporary" => ~credential.changed
  BY DEF Credentials
<1>2. ASSUME n = 0
      PROVE  StatusIsFound(links, credential)
  <2>1. links = <<>> /\ DOMAIN links = {} /\ Len(links) = 0
    BY <1>2
  <2>2. CASE OwnPassword(credential)
    <3>1. shown = "password created"
      BY <2>2 DEF InvitationShown
    <3>2. shown \in found
      BY <2>2, <3>1 DEF FoundByInvitation, InvitationStatuses
    <3>3. ~Overlooked(links, credential)
      BY <2>2 DEF OwnPassword, Overlooked
    <3>. QED  BY <2>2, <3>2, <3>3 DEF StatusIsFound
  <2>3. CASE ~OwnPassword(credential)
    <3>1. shown = "not invited"
      BY <2>1, <2>3 DEF InvitationShown
    <3>2. \A w : FoundByInvitation(links, credential, w) <=>
                   w = "not invited" /\ credential.state = "temporary"
      BY <2>1, <2>3 DEF FoundByInvitation
    <3>3. Overlooked(links, credential) <=> credential.state # "temporary"
      BY <1>1, <2>1, <2>3 DEF Overlooked, OwnPassword
    <3>4. shown \in found <=> credential.state = "temporary"
      BY <3>1, <3>2 DEF InvitationStatuses
    <3>5. credential.state # "temporary" => found = {}
      BY <3>2
    <3>6. found \subseteq {shown}
      BY <3>1, <3>2
    <3>. HIDE DEF shown, found
    <3>7. /\ shown \in found <=> ~Overlooked(links, credential)
          /\ Overlooked(links, credential) => found = {}
          /\ found \subseteq {shown}
      BY <3>3, <3>4, <3>5, <3>6
    <3>. QED  BY <3>7 DEF StatusIsFound, shown, found
  <2>. QED  BY <2>2, <2>3
<1>3. ASSUME n # 0
      PROVE  StatusIsFound(links, credential)
  <2>. DEFINE l == links[n]
  <2>1. n \in DOMAIN links /\ DOMAIN links = 1..n /\ Len(links) = n /\ links # <<>>
    BY <1>3
  <2>2. l \in InvitationLinks
    BY <2>1
  <2>3. /\ l.used \in BOOLEAN /\ l.revoked \in BOOLEAN /\ l.expired \in BOOLEAN
        /\ l.delivery \in Deliveries
        /\ l.used <=> l.delivery = "accepted"
        /\ l.delivery = "revoked" => l.revoked
        /\ l.delivery = "expired" => l.expired
        /\ l.used => ~l.revoked
    BY <2>2 DEF InvitationLinks
  <2>4. ~Overlooked(links, credential)
    BY <2>1 DEF Overlooked
  <2>5. shown = IF OwnPassword(credential) \/ l.used THEN "password created"
                ELSE IF l.revoked THEN "revoked"
                ELSE IF l.delivery = "delivery_failed" THEN "delivery failed"
                ELSE IF l.expired THEN "invitation expired" ELSE "invitation sent"
    BY <2>1, <2>3 DEF InvitationShown
  <2>6. \/ shown = "password created" /\ OwnPassword(credential)
        \/ shown = "invitation sent" /\ ~l.used /\ ~l.revoked /\ ~l.expired /\ l.delivery = "pending"
        \/ shown = "password created" /\ l.used
        \/ shown = "invitation expired" /\ ~l.used /\ ~l.revoked /\ l.expired
        \/ shown = "revoked" /\ l.revoked
        \/ shown = "delivery failed" /\ l.delivery = "delivery_failed"
    BY <2>3, <2>5 DEF Deliveries
  <2>7. shown \in InvitationStatuses
    BY <2>6 DEF InvitationStatuses
  <2>8. FoundByInvitation(links, credential, shown)
    <3>. HIDE DEF shown
    <3>. QED  BY <2>1, <2>6 DEF FoundByInvitation
  <2>9. ASSUME n = 1, ~OwnPassword(credential), l.delivery # "delivery_failed",
               NEW w \in found
        PROVE  w = shown
    <3>1. DOMAIN links = {1} /\ links[1] = l
      BY <2>1, <2>9
    <3>2. FoundByInvitation(links, credential, w)
      BY <2>9
    <3>3. \/ w = "invitation sent" /\ ~l.used /\ ~l.revoked /\ ~l.expired /\ l.delivery = "pending"
          \/ w = "password created" /\ l.used
          \/ w = "invitation expired" /\ ~l.used /\ ~l.revoked /\ l.expired
          \/ w = "revoked" /\ l.revoked
      BY <2>1, <2>9, <3>1, <3>2 DEF FoundByInvitation
    <3>. HIDE DEF shown
    <3>. QED  BY <2>3, <2>5, <2>9, <3>3
  <2>10. n > 1 \/ n = 1
    BY <1>3
  <2>11. found \subseteq {shown} \/ OwnPassword(credential) \/ Len(links) > 1
           \/ links[1].delivery = "delivery_failed"
    BY <2>1, <2>9, <2>10
  <2>. HIDE DEF shown
  <2>12. shown \in found
    BY <2>7, <2>8
  <2>. HIDE DEF found
  <2>13. /\ shown \in found <=> ~Overlooked(links, credential)
         /\ Overlooked(links, credential) => found = {}
    BY <2>4, <2>12
  <2>. QED  BY <2>11, <2>13 DEF StatusIsFound, shown, found
<1>. QED  BY <1>2, <1>3

\* So it is with the lists of links that the runs look at.
LEMMA LinksAreFound == ShownIsFound
<1>. SUFFICES ASSUME NEW n \in 0..2, NEW links \in [1..n -> InvitationLinks],
                     NEW credential \in Credentials
              PROVE  StatusIsFound(links, credential)
  BY DEF ShownIsFound
<1>1. n \in Nat
  OBVIOUS
<1>. QED  BY <1>1, StatusesAreFound

\* After any operations, also such that left memberships in roles of before, the
\* pages about users and teams tell the same of them, and what they offer is what
\* would be done, but for what OffersHold says.
THEOREM TeamPagesAgree == RosterSpec => []TeamScreensAgree
<1>1. RosterInit => MembersInv
  BY DEF RosterInit, MembersInv, AtMostOne
<1>2. MembersInv => TeamScreensAgree
  BY FiguresDoAgree, OffersDoHold, LinksAreFound DEF TeamScreensAgree
<1>. QED  BY <1>1, <1>2, MembersStep, PTL DEF RosterSpec

-----------------------------------------------------------------------------
(* UserImport: what a request knows *)

RequestType ==
  [at : {"rest", "claimed", "rows", "save"}, rows : SUBSET Rows, valid : SUBSET Rows,
   next : 1..(RowCount + 1), known : [Rows -> Outcomes], outcome : Outcomes]

ImportTypeOK ==
  /\ phase \in {"previewed", "processing", "confirmed", "deleted"}
  /\ choice \subseteq Rows
  /\ summary \in [Rows -> Outcomes]
  /\ request \in [Requests -> RequestType]
  /\ created \subseteq Rows

\* Before the first claim nothing has happened.
NothingBeforeClaim ==
  phase = "previewed" => created = {} /\ \A q \in Requests : request[q].at = "rest"

\* What a request takes for created was created: what it read, and what it is
\* about to write.
KnownIsTrue ==
  \A q \in Requests :
    /\ \A r \in Rows : request[q].known[r] = "created" => r \in created
    /\ request[q].at = "save" =>
         /\ request[q].next \in Rows
         /\ request[q].outcome = "created" => request[q].next \in created

ImportInv == ImportTypeOK /\ NothingBeforeClaim /\ OneConfirmation /\ KnownIsTrue

LEMMA RestingTyped == NoOutcomes \in [Rows -> Outcomes] /\ Resting \in RequestType
BY UserRowCount DEF NoOutcomes, Resting, RequestType, Outcomes

\* A step of one request that creates nobody and leaves the batch alone keeps the
\* invariant if the request's own record stays sound.
LEMMA RequestMoves ==
  ASSUME ImportInv, NEW q \in Requests, NEW new \in RequestType,
         request' = [request EXCEPT ![q] = new],
         UNCHANGED <<phase, choice>>, created' \subseteq choice, created \subseteq created',
         summary' \in {summary, new.known},
         new.at # "rest" => new.rows = choice /\ phase # "previewed",
         created' # created => phase # "previewed",
         \A r \in Rows : new.known[r] = "created" => r \in created',
         new.at = "save" =>
           new.next \in Rows /\ (new.outcome = "created" => new.next \in created')
  PROVE  ImportInv'
<1>1. ImportTypeOK /\ NothingBeforeClaim /\ OneConfirmation /\ KnownIsTrue
  BY DEF ImportInv
<1>2. request'[q] = new /\ \A p \in Requests \ {q} : request'[p] = request[p]
  BY <1>1 DEF ImportTypeOK
<1>3. ImportTypeOK'
  <2>1. new.known \in [Rows -> Outcomes]
    BY DEF RequestType
  <2>. QED  BY <1>1, <2>1 DEF ImportTypeOK
<1>4. NothingBeforeClaim'
  BY <1>1, <1>2 DEF NothingBeforeClaim
<1>5. OneConfirmation'
  <2>1. \A r \in Rows : summary'[r] = "created" => r \in created'
    BY <1>1 DEF OneConfirmation
  <2>. QED  BY <1>1, <1>2, <2>1 DEF OneConfirmation
<1>6. KnownIsTrue'
  BY <1>1, <1>2 DEF KnownIsTrue
<1>. QED  BY <1>3, <1>4, <1>5, <1>6 DEF ImportInv

-----------------------------------------------------------------------------
(* UserImport: the steps *)

LEMMA ClaimKeepsInv ==
  ASSUME ImportInv, NEW q \in Requests, NEW rows \in Selections, ClaimBatch(q, rows)
  PROVE  ImportInv'
<1>. DEFINE new == [Resting EXCEPT !.at = "claimed", !.rows = rows, !.known = summary]
<1>1. ImportTypeOK /\ NothingBeforeClaim /\ OneConfirmation /\ KnownIsTrue
  BY DEF ImportInv
<1>2. /\ new \in RequestType /\ new.at = "claimed" /\ new.rows = rows /\ new.known = summary
  BY <1>1, RestingTyped DEF Resting, RequestType, ImportTypeOK, Selections
<1>3. request' = [request EXCEPT ![q] = new]
  BY DEF ClaimBatch
<1>. HIDE DEF new
<1>4. request'[q] = new /\ \A p \in Requests \ {q} : request'[p] = request[p]
  BY <1>1, <1>3 DEF ImportTypeOK
<1>5. phase' = "processing" /\ choice' = rows /\ UNCHANGED <<summary, created>>
  BY DEF ClaimBatch, importUsers
<1>6. /\ created \subseteq rows
      /\ \A p \in Requests \ {q} : request[p].at # "rest" => request[p].rows = rows
  BY <1>1 DEF ClaimBatch, Recoverable, NothingBeforeClaim, OneConfirmation
<1>7. ImportTypeOK'
  BY <1>1, <1>2, <1>3, <1>5 DEF ImportTypeOK, Selections
<1>8. OneConfirmation'
  BY <1>1, <1>2, <1>4, <1>5, <1>6 DEF OneConfirmation
<1>9. KnownIsTrue'
  BY <1>1, <1>2, <1>4, <1>5 DEF KnownIsTrue, OneConfirmation
<1>. QED  BY <1>5, <1>7, <1>8, <1>9 DEF ImportInv, NothingBeforeClaim

LEMMA RowKeepsInv ==
  ASSUME ImportInv, NEW q \in Requests,
         \/ ReadContext(q) \/ PassRow(q) \/ SkipRow(q) \/ CreateUser(q) \/ CreateUserFails(q)
         \/ SaveRow(q)
  PROVE  ImportInv'
<1>1. ImportTypeOK /\ NothingBeforeClaim /\ OneConfirmation /\ KnownIsTrue
  BY DEF ImportInv
<1>. DEFINE old == request[q]
<1>2. old \in RequestType /\ old.at # "rest"
  BY <1>1 DEF ImportTypeOK, ReadContext, PassRow, SkipRow, CreateUser, CreateUserFails, SaveRow, AtRow
<1>3. /\ old.rows = choice /\ phase # "previewed" /\ created \subseteq choice
      /\ \A r \in Rows : old.known[r] = "created" => r \in created
      /\ old.at = "save" =>
           old.next \in Rows /\ (old.outcome = "created" => old.next \in created)
  BY <1>1, <1>2 DEF NothingBeforeClaim, OneConfirmation, KnownIsTrue
<1>4. RowCount \in Nat /\ Rows = 1..RowCount
  BY UserRowCount DEF Rows
<1>5. CASE ReadContext(q)
  <2>. DEFINE new == [old EXCEPT !.at = "rows", !.valid = Rows \ (created \cup taken)]
  <2>1. request' = [request EXCEPT ![q] = new]
    BY <1>1, <1>5 DEF ReadContext, ImportTypeOK
  <2>2. new \in RequestType /\ new.at = "rows" /\ new.rows = old.rows /\ new.known = old.known
    BY <1>2 DEF RequestType
  <2>3. UNCHANGED <<phase, choice, created, summary>>
    BY <1>5 DEF ReadContext, importBatch, importUsers
  <2>. HIDE DEF new, old
  <2>. QED  BY <1>3, <2>1, <2>2, <2>3, RequestMoves
<1>6. CASE PassRow(q)
  <2>. DEFINE new == [old EXCEPT !.next = old.next + 1]
  <2>1. request' = [request EXCEPT ![q] = new] /\ old.at = "rows" /\ old.next <= RowCount
    BY <1>1, <1>6 DEF PassRow, AtRow, Row, ImportTypeOK
  <2>2. new \in RequestType /\ new.at = "rows" /\ new.rows = old.rows /\ new.known = old.known
    BY <1>2, <1>4, <2>1 DEF RequestType
  <2>3. UNCHANGED <<phase, choice, created, summary>>
    BY <1>6 DEF PassRow, importBatch, importUsers
  <2>. HIDE DEF new, old
  <2>. QED  BY <1>3, <2>1, <2>2, <2>3, RequestMoves
<1>7. ASSUME NEW outcome \in Outcomes, Checkpoint(q, outcome), old.next \in Rows,
             outcome = "created" => old.next \in created, UNCHANGED <<phase, choice, created>>
      PROVE  ImportInv'
  <2>. DEFINE known == [old.known EXCEPT ![old.next] = outcome]
              new == [old EXCEPT !.at = "rows", !.next = old.next + 1, !.known = known]
  <2>1. request' = [request EXCEPT ![q] = new] /\ summary' \in {summary, known}
    BY <1>1, <1>7 DEF Checkpoint, Row, ImportTypeOK
  <2>2. known \in [Rows -> Outcomes] /\ \A r \in Rows : known[r] = "created" => r \in created
    BY <1>2, <1>3, <1>7 DEF RequestType
  <2>. HIDE DEF known
  <2>3. old.next + 1 \in 1..(RowCount + 1)
    BY <1>4, <1>7
  <2>4. new \in RequestType /\ new.at = "rows" /\ new.rows = old.rows /\ new.known = known
    BY <1>2, <2>2, <2>3 DEF RequestType
  <2>. HIDE DEF new, old
  <2>. QED  BY <1>3, <1>7, <2>1, <2>2, <2>4, RequestMoves
<1>8. CASE SkipRow(q)
  <2>1. old.next \in Rows
    BY <1>2, <1>4, <1>8 DEF SkipRow, AtRow, Row, RequestType
  <2>. QED  BY <1>7, <1>8, <2>1 DEF SkipRow, Outcomes, importUsers
<1>9. CASE SaveRow(q)
  <2>1. old.outcome \in Outcomes
    BY <1>2 DEF RequestType
  <2>. QED  BY <1>3, <1>7, <1>9, <2>1 DEF SaveRow, importUsers
<1>10. CASE CreateUser(q) \/ CreateUserFails(q)
  <2>1. old.next \in Rows /\ old.next \in choice
    BY <1>2, <1>3, <1>4, <1>10 DEF CreateUser, CreateUserFails, AtRow, Wanted, Row, RequestType
  <2>2. PICK outcome \in Outcomes :
          /\ request' = [request EXCEPT ![q].at = "save", ![q].outcome = outcome]
          /\ outcome = "created" => old.next \in created'
    BY <1>10 DEF CreateUser, CreateUserFails, Recovered, Row, Outcomes, importUsers
  <2>. DEFINE new == [old EXCEPT !.at = "save", !.outcome = outcome]
  <2>3. request' = [request EXCEPT ![q] = new]
    BY <1>1, <2>2 DEF ImportTypeOK
  <2>4. /\ new \in RequestType /\ new.at = "save" /\ new.rows = old.rows /\ new.known = old.known
        /\ new.next = old.next /\ new.outcome = outcome
    BY <1>2 DEF RequestType
  <2>5. /\ UNCHANGED <<phase, choice, summary>>
        /\ created \subseteq created' /\ created' \subseteq choice
    BY <1>3, <1>10, <2>1 DEF CreateUser, CreateUserFails, Row, importBatch, importUsers
  <2>6. /\ \A r \in Rows : new.known[r] = "created" => r \in created'
        /\ new.next \in Rows /\ (new.outcome = "created" => new.next \in created')
        /\ new.rows = choice /\ phase # "previewed" /\ summary' \in {summary, new.known}
    BY <1>3, <2>1, <2>2, <2>4, <2>5
  <2>. HIDE DEF new, old
  <2>. QED  BY <2>3, <2>4, <2>5, <2>6, RequestMoves
<1>. QED  BY <1>5, <1>6, <1>8, <1>9, <1>10

LEMMA EndKeepsInv ==
  ASSUME ImportInv, NEW q \in Requests, Confirm(q) \/ RequestDies(q)
  PROVE  ImportInv'
<1>1. ImportTypeOK /\ NothingBeforeClaim /\ OneConfirmation /\ KnownIsTrue
  BY DEF ImportInv
<1>2. request' = [request EXCEPT ![q] = Resting] /\ UNCHANGED <<choice, created>>
  BY DEF Confirm, RequestDies, importBatch, importUsers
<1>3. /\ Resting.at = "rest"
      /\ \A r \in Rows : Resting.known[r] # "created"
  BY DEF Resting, NoOutcomes
<1>4. request'[q] = Resting /\ \A p \in Requests \ {q} : request'[p] = request[p]
  BY <1>1, <1>2 DEF ImportTypeOK
<1>5. /\ phase' \in {"previewed", "processing", "confirmed", "deleted"}
      /\ phase' = "previewed" => phase = "previewed"
      /\ summary' \in {summary, request[q].known}
  BY <1>1 DEF Confirm, RequestDies, importBatch, ImportTypeOK
<1>6. request[q].known \in [Rows -> Outcomes]
  BY <1>1 DEF ImportTypeOK, RequestType
<1>7. ImportTypeOK'
  BY <1>1, <1>2, <1>5, <1>6, RestingTyped DEF ImportTypeOK
<1>8. NothingBeforeClaim'
  BY <1>1, <1>2, <1>3, <1>4, <1>5 DEF NothingBeforeClaim
<1>9. OneConfirmation'
  BY <1>1, <1>2, <1>3, <1>4, <1>5 DEF OneConfirmation, KnownIsTrue
<1>10. KnownIsTrue'
  BY <1>1, <1>2, <1>3, <1>4 DEF KnownIsTrue
<1>. QED  BY <1>7, <1>8, <1>9, <1>10 DEF ImportInv

LEMMA ImportInvStep == ImportInv /\ [ImportNext]_importVars => ImportInv'
<1>. SUFFICES ASSUME ImportInv, [ImportNext]_importVars PROVE ImportInv'
  OBVIOUS
<1>1. ASSUME UNCHANGED <<choice, summary, request, created>>, phase' \in {phase, "deleted"}
      PROVE  ImportInv'
  BY <1>1 DEF ImportInv, ImportTypeOK, NothingBeforeClaim, OneConfirmation, KnownIsTrue
<1>2. ASSUME \/ UNCHANGED importVars \/ GoQuiet \/ Lapse \/ MarkBatch \/ DeleteBatch
             \/ \E r \in Rows : TakeName(r)
      PROVE  UNCHANGED <<choice, summary, request, created>> /\ phase' \in {phase, "deleted"}
  BY <1>2 DEF importVars, GoQuiet, Lapse, MarkBatch, DeleteBatch, TakeName, importBatch, importUsers
<1>. QED  BY <1>1, <1>2, ClaimKeepsInv, RowKeepsInv, EndKeepsInv DEF ImportNext

\* However claims overlap, die and are resumed, users are created for the rows of
\* one confirmation only, and a row is reported as created only if its user was.
THEOREM OneConfirmationOnly == ImportSpec => []OneConfirmation
<1>1. ImportInit => ImportInv
  BY RestingTyped DEF ImportInit, ImportInv, ImportTypeOK, NothingBeforeClaim, OneConfirmation,
     KnownIsTrue, Resting, NoOutcomes
<1>2. ImportInv => OneConfirmation
  BY DEF ImportInv
<1>. QED  BY <1>1, <1>2, ImportInvStep, PTL DEF ImportSpec

=============================================================================
