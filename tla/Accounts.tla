------------------------------- MODULE Accounts -------------------------------
(***************************************************************************)
(* Accounts: passwords, the links that replace them, sessions, and what    *)
(* administrators do to all of these.                                      *)
(*                                                                         *)
(* Every write is a transaction that locks the account.  Three requests    *)
(* read the account first and write later, without a lock in between: a    *)
(* login (verify the password, then open a session or ask for a new        *)
(* password), an invitation and a forgotten password (test the account,    *)
(* then issue the link).  An administrator's request goes on after the     *)
(* administrator has lost the role, so nothing is required of who asks,    *)
(* except where the transaction itself does.                               *)
(***************************************************************************)
EXTENDS Directory, Naturals, Sequences, FiniteSets

VARIABLES
  role,        \* profiles.role; managers are as agents here
  status,      \* profiles.accountStatus, "none" before and "purged" after the row
  employment,  \* profiles.employmentStatus
  password,    \* passwordState, "none" where there is no passwordHash
  hash,     \* flips whenever passwordHash is written
  secret,      \* encryptedTemporaryPassword is not NULL
  mustReset,   \* mustResetPassword
  invites,     \* invitation links neither used nor revoked, oldest first
  resets,      \* reset links neither used nor revoked, oldest first
  sessions,    \* kinds of unrevoked sessions: opened with the present password or
               \* with an earlier one
  login,       \* a login that has verified the password, and what it does next
  asked        \* invitations and resets whose account was found eligible

linkVars == <<invites, resets>>
accountVars == <<role, status, employment, password, hash, secret, mustReset,
          invites, resets, sessions, login, asked>>

NoLogin == [then |-> "none", with |-> "current"]

Logins == {NoLogin} \cup [then : {"open", "change"}, with : {"current", "earlier"}]

\* A link is fresh until its expiresAt has passed.
Links == {<<>>} \cup UNION {[1..n -> {"fresh", "lapsed"}] : n \in 1..2}

\* The table keeps its types, and the ciphertext of a temporary password does
\* not outlive its being the password.
AccountsTypeOK ==
  /\ role \in [Users -> {"admin", "agent"}]
  /\ status \in [Users -> {"none", "invited", "active", "deactivated", "revoked", "purged"}]
  /\ employment \in [Users -> {"active", "deactivated", "terminated"}]
  /\ password \in [Users -> {"none", "temporary", "permanent"}]
  /\ hash \in [Users -> {0, 1}]
  /\ secret \in [Users -> BOOLEAN]
  /\ mustReset \in [Users -> BOOLEAN]
  /\ invites \in [Users -> Links]
  /\ resets \in [Users -> Links]
  /\ sessions \in [Users -> SUBSET {"current", "earlier"}]
  /\ login \in [Users -> Logins]
  /\ asked \in [Users -> SUBSET {"invitation", "reset"}]
  /\ \A u \in Users : secret[u] => password[u] = "temporary"

\* Rows a deployment starts from: an administrator, and others that are absent,
\* invited by an earlier release, or in use.
AccountInit ==
  /\ role \in [Users -> {"admin", "agent"}]
  /\ status \in [Users -> {"none", "invited", "active"}]
  /\ \E u \in Users : role[u] = "admin" /\ status[u] = "active"
  /\ employment = [u \in Users |-> "active"]
  /\ password = [u \in Users |-> IF status[u] = "active" THEN "permanent" ELSE "none"]
  /\ hash = [u \in Users |-> 0]
  /\ secret = [u \in Users |-> FALSE]
  /\ mustReset = [u \in Users |-> FALSE]
  /\ invites = [u \in Users |-> <<>>]
  /\ resets = [u \in Users |-> <<>>]
  /\ sessions = [u \in Users |-> {}]
  /\ login = [u \in Users |-> NoLogin]
  /\ asked = [u \in Users |-> {}]

-----------------------------------------------------------------------------
(* What the transactions have in common *)

Exists(u) == status[u] \notin {"none", "purged"}

ActiveAdmins == {u \in Users : role[u] = "admin" /\ status[u] = "active"}

\* Deliberately wrong: the last administrator is one whom nobody else follows.
KeepsAnAdminOffByOne(u, r, s) ==
  u \in ActiveAdmins /\ ~(r = "admin" /\ s = "active") => Cardinality(ActiveAdmins) >= 1

\* assertCanRemoveAdmin, with the administrators counted under their locks.
KeepsAnAdmin(u, r, s) ==
  u \in ActiveAdmins /\ ~(r = "admin" /\ s = "active") => Cardinality(ActiveAdmins) > 1

\* Accounts that an invitation may be sent to, and that may accept one.
Eligible(u) ==
  \/ status[u] = "active" /\ password[u] = "temporary"
  \/ status[u] = "invited" /\ password[u] = "none"

\* Deliberately wrong: earlier links stay as they are.
IssuedBesides(links) == IF Len(links) < 2 THEN Append(links, "fresh") ELSE links

\* Pending links, the expired ones too, are revoked and a new one is inserted.
Issued(links) == <<"fresh">>

\* A link may be used if it has not expired and is the newest such.
Usable(links) == \E i \in DOMAIN links :
  links[i] = "fresh" /\ \A j \in DOMAIN links : j > i => links[j] = "lapsed"

\* Deliberately wrong: a new password leaves sessions alone.
KeepSessions(u) == UNCHANGED sessions

EndSessions(u) == sessions' = [sessions EXCEPT ![u] = {}]

\* Sessions are inserted by logins that may have verified an earlier password.
NewPassword(u) ==
  /\ hash' = [hash EXCEPT ![u] = 1 - @]
  /\ EndSessions(u)
  /\ login' = [login EXCEPT ![u] = IF @ = NoLogin THEN @ ELSE [@ EXCEPT !.with = "earlier"]]

\* What accepting an invitation and using a reset link do alike.
SetPermanentPassword(u) ==
  /\ password' = [password EXCEPT ![u] = "permanent"]
  /\ secret' = [secret EXCEPT ![u] = FALSE]
  /\ mustReset' = [mustReset EXCEPT ![u] = FALSE]
  /\ invites' = [invites EXCEPT ![u] = <<>>]
  /\ resets' = [resets EXCEPT ![u] = <<>>]
  /\ NewPassword(u)

-----------------------------------------------------------------------------
(* Login and sessions *)

\* Deliberately wrong: a password that must be changed opens a session.
BeginLoginIgnoresReset(u) ==
  /\ status[u] = "active" /\ password[u] # "none" /\ login[u] = NoLogin
  /\ login' = [login EXCEPT ![u] = [then |-> "open", with |-> "current"]]
  /\ UNCHANGED <<role, status, employment, password, hash, secret, mustReset,
                 linkVars, sessions, asked>>

\* authenticateCredentials: an unlocked read, then the slow comparison.
BeginLogin(u) ==
  /\ status[u] = "active" /\ password[u] # "none" /\ login[u] = NoLogin
  /\ login' = [login EXCEPT ![u] =
       [then |-> IF mustReset[u] THEN "change" ELSE "open", with |-> "current"]]
  /\ UNCHANGED <<role, status, employment, password, hash, secret, mustReset,
                 linkVars, sessions, asked>>

\* createSession: the insert tests nothing but the foreign key.
OpenSession(u) ==
  /\ login[u].then = "open"
  /\ sessions' = [sessions EXCEPT ![u] = IF Exists(u) THEN @ \cup {login[u].with} ELSE @]
  /\ login' = [login EXCEPT ![u] = NoLogin]
  /\ UNCHANGED <<role, status, employment, password, hash, secret, mustReset,
                 linkVars, asked>>

\* issueRequiredPasswordChangeToken tests the account again, under its lock, but
\* not the password.
RequireChange(u) ==
  /\ login[u].then = "change"
  /\ resets' = [resets EXCEPT ![u] =
       IF status[u] = "active" /\ mustReset[u] THEN Issued(@) ELSE @]
  /\ login' = [login EXCEPT ![u] = NoLogin]
  /\ UNCHANGED <<role, status, employment, password, hash, secret, mustReset,
                 invites, sessions, asked>>

\* The user logs out, or getSessionUser finds a session that has expired.
CloseSession(u) ==
  /\ sessions[u] # {}
  /\ \E kind \in sessions[u] : sessions' = [sessions EXCEPT ![u] = @ \ {kind}]
  /\ UNCHANGED <<role, status, employment, password, hash, secret, mustReset,
                 linkVars, login, asked>>

-----------------------------------------------------------------------------
(* Links *)

\* The account is tested without a lock ...
Ask(u) ==
  /\ \/ /\ Eligible(u)
        /\ asked' = [asked EXCEPT ![u] = @ \cup {"invitation"}]
     \/ /\ status[u] = "active"
        /\ asked' = [asked EXCEPT ![u] = @ \cup {"reset"}]
  /\ UNCHANGED <<role, status, employment, password, hash, secret, mustReset,
                 linkVars, sessions, login>>

\* ... and the link is issued in a transaction that does not test it again.
IssueInvitation(u) ==
  /\ "invitation" \in asked[u]
  /\ asked' = [asked EXCEPT ![u] = @ \ {"invitation"}]
  /\ invites' = [invites EXCEPT ![u] = IF Exists(u) THEN Issued(@) ELSE @]
  /\ UNCHANGED <<role, status, employment, password, hash, secret, mustReset,
                 resets, sessions, login>>

RequestPasswordReset(u) ==
  /\ "reset" \in asked[u]
  /\ asked' = [asked EXCEPT ![u] = @ \ {"reset"}]
  /\ resets' = [resets EXCEPT ![u] = IF Exists(u) THEN Issued(@) ELSE @]
  /\ UNCHANGED <<role, status, employment, password, hash, secret, mustReset,
                 invites, sessions, login>>

\* Time passes.
LapseLinks(u) ==
  /\ \/ "fresh" \in {invites[u][i] : i \in DOMAIN invites[u]}
        /\ invites' = [invites EXCEPT ![u] = [i \in DOMAIN @ |-> "lapsed"]]
        /\ UNCHANGED resets
     \/ "fresh" \in {resets[u][i] : i \in DOMAIN resets[u]}
        /\ resets' = [resets EXCEPT ![u] = [i \in DOMAIN @ |-> "lapsed"]]
        /\ UNCHANGED invites
  /\ UNCHANGED <<role, status, employment, password, hash, secret, mustReset,
                 sessions, login, asked>>

\* Deliberately wrong: the link is enough, the account is not looked at.
AcceptWhateverAccount(u) ==
  /\ Usable(invites[u])
  /\ status' = [status EXCEPT ![u] = "active"]
  /\ SetPermanentPassword(u)
  /\ UNCHANGED <<role, employment, asked>>

\* acceptInvitation: the link and then the account are locked and tested.
AcceptInvitation(u) ==
  /\ Usable(invites[u])
  /\ Eligible(u)
  /\ status' = [status EXCEPT ![u] = "active"]
  /\ SetPermanentPassword(u)
  /\ UNCHANGED <<role, employment, asked>>

\* resetPassword
ResetPassword(u) ==
  /\ Usable(resets[u])
  /\ status[u] = "active"
  /\ SetPermanentPassword(u)
  /\ UNCHANGED <<role, status, employment, asked>>

-----------------------------------------------------------------------------
(* Administrators *)

\* createProvisionedUser
ProvisionUser(u) ==
  /\ status[u] = "none"
  /\ status' = [status EXCEPT ![u] = "active"]
  /\ \E r \in {"admin", "agent"} : role' = [role EXCEPT ![u] = r]
  /\ password' = [password EXCEPT ![u] = "temporary"]
  /\ secret' = [secret EXCEPT ![u] = TRUE]
  /\ mustReset' = [mustReset EXCEPT ![u] = TRUE]
  /\ UNCHANGED <<employment, hash, linkVars, sessions, login, asked>>

\* revealTemporaryPassword
RevealPassword(u) ==
  /\ password[u] = "temporary" /\ secret[u]
  /\ secret' = [secret EXCEPT ![u] = FALSE]
  /\ UNCHANGED <<role, status, employment, password, hash, mustReset,
                 linkVars, sessions, login, asked>>

\* regenerateTemporaryPassword
RegeneratePassword(u) ==
  /\ Exists(u) /\ password[u] = "temporary"
  /\ secret' = [secret EXCEPT ![u] = TRUE]
  /\ mustReset' = [mustReset EXCEPT ![u] = TRUE]
  /\ NewPassword(u)
  /\ UNCHANGED <<role, status, employment, password, linkVars, asked>>

\* revokeInvitation
RevokeInvitation(u) ==
  /\ Exists(u)
  /\ invites' = [invites EXCEPT ![u] = <<>>]
  /\ UNCHANGED <<role, status, employment, password, hash, secret, mustReset,
                 resets, sessions, login, asked>>

\* forcePasswordReset
ForceReset(u) ==
  /\ status[u] = "active"
  /\ resets' = [resets EXCEPT ![u] = Issued(@)]
  /\ mustReset' = [mustReset EXCEPT ![u] = TRUE]
  /\ EndSessions(u) \/ UNCHANGED sessions
  /\ UNCHANGED <<role, status, employment, password, hash, secret, invites, login, asked>>

\* updateUserEmail
ChangeEmail(u) ==
  /\ Exists(u)
  /\ invites' = [invites EXCEPT ![u] = <<>>]
  /\ resets' = [resets EXCEPT ![u] = <<>>]
  /\ UNCHANGED <<role, status, employment, password, hash, secret, mustReset,
                 sessions, login, asked>>

\* setUserAccountStatus
SetStatus(u, s) ==
  /\ Exists(u)
  /\ KeepsAnAdmin(u, role[u], s)
  /\ s = "active" => password[u] # "none"
  /\ status' = [status EXCEPT ![u] = s]
  /\ IF s = "active" THEN UNCHANGED sessions ELSE EndSessions(u)
  /\ IF s = "revoked"
     THEN /\ invites' = [invites EXCEPT ![u] = <<>>]
          /\ resets' = [resets EXCEPT ![u] = <<>>]
     ELSE UNCHANGED linkVars
  /\ UNCHANGED <<role, employment, password, hash, secret, mustReset, login, asked>>

\* recordEmploymentStatus: for agents; it sets the status of the account too,
\* whatever that was.
RecordEmployment(u, e) ==
  /\ Exists(u) /\ role[u] = "agent"
  /\ employment[u] \notin {e, "terminated"}
  /\ employment' = [employment EXCEPT ![u] = e]
  /\ status' = [status EXCEPT ![u] = IF e = "active" THEN "active" ELSE "deactivated"]
  /\ IF e = "active" THEN UNCHANGED sessions ELSE EndSessions(u)
  /\ UNCHANGED <<role, password, hash, secret, mustReset, linkVars, login, asked>>

\* updateAdminUser, as far as the account goes; sessions are kept.
ChangeRole(u, r) ==
  /\ Exists(u)
  /\ KeepsAnAdmin(u, r, status[u])
  /\ role' = [role EXCEPT ![u] = r]
  /\ UNCHANGED <<status, employment, password, hash, secret, mustReset,
                 linkVars, sessions, login, asked>>

\* revokeUserSessions
RevokeSessions(u) ==
  /\ Exists(u)
  /\ EndSessions(u)
  /\ UNCHANGED <<role, status, employment, password, hash, secret, mustReset,
                 linkVars, login, asked>>

\* permanentlyDeleteValidatedUsers: the one operation that tests, under locks,
\* that who asks still is an active administrator.
PurgeAccount(u) ==
  /\ Exists(u)
  /\ \E actor \in ActiveAdmins : actor # u
  /\ KeepsAnAdmin(u, "agent", status[u])
  /\ status' = [status EXCEPT ![u] = "purged"]
  /\ password' = [password EXCEPT ![u] = "none"]
  /\ secret' = [secret EXCEPT ![u] = FALSE]
  /\ mustReset' = [mustReset EXCEPT ![u] = FALSE]
  /\ invites' = [invites EXCEPT ![u] = <<>>]
  /\ resets' = [resets EXCEPT ![u] = <<>>]
  /\ EndSessions(u)
  /\ UNCHANGED <<role, employment, hash, login, asked>>

-----------------------------------------------------------------------------
(* Specification *)

AccountNext ==
  \E u \in Users :
    \/ BeginLogin(u) \/ OpenSession(u) \/ RequireChange(u) \/ CloseSession(u)
    \/ Ask(u) \/ IssueInvitation(u) \/ RequestPasswordReset(u) \/ LapseLinks(u)
    \/ AcceptInvitation(u) \/ ResetPassword(u)
    \/ ProvisionUser(u) \/ RevealPassword(u) \/ RegeneratePassword(u)
    \/ RevokeInvitation(u) \/ ForceReset(u) \/ ChangeEmail(u)
    \/ \E s \in {"active", "deactivated", "revoked"} : SetStatus(u, s)
    \/ \E e \in {"active", "deactivated", "terminated"} : RecordEmployment(u, e)
    \/ \E r \in {"admin", "agent"} : ChangeRole(u, r)
    \/ RevokeSessions(u) \/ PurgeAccount(u)

AccountSpec == AccountInit /\ [][AccountNext]_accountVars

-----------------------------------------------------------------------------
(* Properties *)

\* "The final active admin cannot be changed": whatever administrators do to
\* each other, and at the same time, one is left who can sign in.
AdminRemains == ActiveAdmins # {}

\* At most one link of a kind is outstanding for an account, however requests for
\* links, logins and administrators overlap: the one that was sent last.
OneLiveLink ==
  \A u \in Users : Len(invites[u]) <= 1 /\ Len(resets[u]) <= 1

\* "Temporary accounts must set a permanent password on first login": a
\* temporary password never opens a session, whatever was regenerated, forced
\* or re-enabled since.
TemporaryOpensNoSession ==
  \A u \in Users : password[u] = "temporary" =>
    mustReset[u] /\ "current" \notin sessions[u]

\* A password a user chose is only replaced by one chosen with a current reset
\* link, by nobody's invitation and by no administrator; and whatever replaces a
\* password, or deactivates, revokes or terminates an account, revokes all sessions
\* that the account has then.
ChangesAreGuarded ==
  [][\A u \in Users :
       /\ password[u] = "permanent" /\ hash'[u] # hash[u] => Usable(resets[u])
       /\ \/ hash'[u] # hash[u]
          \/ status[u] = "active" /\ status'[u] # "active"
          => sessions'[u] = {}]_accountVars

=============================================================================
