------------------------------- MODULE Purges -------------------------------
(***************************************************************************)
(* Permanent deletion of users, and the scripts that tidy up users and     *)
(* teams.                                                                  *)
(*                                                                         *)
(* About forty columns name a profile.  A purge deletes the rows that a    *)
(* purged user owns, hands some of the others to the administrator, clears *)
(* the rest and deletes the profile, in one transaction, which a foreign   *)
(* key refuses as a whole if one column was forgotten.  A row is its table *)
(* and whom its columns name; a coaching session has its participants and  *)
(* their reports, and an upload the numbers stored about its rows.         *)
(***************************************************************************)
EXTENDS Naturals, FiniteSets
LOCAL INSTANCE FiniteSetsExt

CONSTANTS
  Persons,   \* ids of profiles
  NoProfile,    \* NULL in a column
  MaxLinks   \* bound on the rows of tables, sessions and uploads

ASSUME NoProfileIsNoPerson == NoProfile \notin Persons

VARIABLES
  account,     \* "absent", an active "admin" or "member", or "deleted" but for the row
  links,       \* rows that name profiles
  session,     \* a coaching session, or NoSession
  imported,    \* an upload and what is stored about it, or NoUpload
  approval,    \* the ids printed by, and confirmed in, a run of the legacy purge
  candidates,  \* the ids a run of the local cleanup is about to scrub
  squad,       \* active members of a team
  archived,    \* the team is archived
  review       \* the members printed by, and confirmed in, a run of the team cleanup

purgeVars == <<account, links, session, imported, approval, candidates, squad, archived, review>>

-----------------------------------------------------------------------------
(* Columns that name a profile *)

\* A column of a table; what deleting the profile does to the row if the column
\* still names it: the key "restrict"s it, "cascade"s to the row, or becomes
\* "null".
Key(table, columns, rule) == {<<table, c, rule>> : c \in columns}

\* user_import_batches, team_memberships, source_user_mappings
RosterKeys ==
  Key("userImport", {"uploadedBy"}, "restrict") \cup
  Key("membership", {"profile"}, "cascade") \cup Key("membership", {"createdBy"}, "restrict") \cup
  Key("mapping", {"profile"}, "cascade") \cup Key("mapping", {"approvedBy", "deactivatedBy"}, "restrict")

\* dialer_import_batches, dialer_import_jobs
UploadKeys ==
  Key("batch", {"uploadedBy", "confirmedBy", "publishedBy", "legacyReviewer", "rejectedBy", "rolledBackBy"},
      "restrict") \cup
  Key("job", {"actor"}, "null")

\* employment_status_events, performance_targets, tenure_thresholds,
\* coaching_rubric_templates
SettingKeys ==
  Key("employment", {"profile", "createdBy"}, "restrict") \cup
  UNION {Key(t, {"createdBy"}, "restrict") : t \in {"target", "threshold", "template"}}

\* shadowing_sessions, manual_flag_cases, manual_flag_case_events
CaseKeys ==
  Key("shadowing", {"agent", "leader", "createdBy"}, "restrict") \cup
  Key("flag", {"agent", "raisedBy", "owner", "resolvedBy"}, "restrict") \cup
  Key("flagEvent", {"subject", "actor"}, "restrict")

\* audit_logs
AuditKeys == Key("audit", {"actor"}, "null")

\* sessions, account_invitation_tokens, password_reset_tokens,
\* email_delivery_attempts, email_outbox
CredentialKeys ==
  Key("login", {"profile"}, "cascade") \cup
  (UNION {Key(t, {"profile"}, "cascade") \cup Key(t, {"createdBy"}, "restrict") : t \in {"invitation", "reset"}}) \cup
  UNION {Key(t, {"profile"}, "null") : t \in {"attempt", "message"}}

\* user_permission_overrides, transfer_fixtures
OverrideKeys == Key("override", {"profile"}, "cascade") \cup Key("fixture", {"agent"}, "restrict")

ProfileKeys == RosterKeys \cup UploadKeys \cup SettingKeys \cup CaseKeys \cup AuditKeys \cup CredentialKeys \cup OverrideKeys
KeysThat(rule) == {<<k[1], k[2]>> : k \in {key \in ProfileKeys : key[3] = rule}}
Restricting == KeysThat("restrict")
Nulled == KeysThat("null")
Tables == {k[1] : k \in ProfileKeys}
Columns(t) == {k[2] : k \in {key \in ProfileKeys : key[1] = t}}

\* Columns that may be NULL.
Optional ==
  {<<"batch", c>> : c \in Columns("batch") \ {"uploadedBy"}} \cup Nulled \cup
  {<<"membership", "createdBy">>, <<"mapping", "approvedBy">>, <<"mapping", "deactivatedBy">>,
   <<"invitation", "createdBy">>, <<"reset", "createdBy">>, <<"flag", "owner">>, <<"flag", "resolvedBy">>,
   <<"fixture", "agent">>}

-----------------------------------------------------------------------------
(* What a purge does about them *)

\* Columns whose profile owns the row: it is deleted.
OwnerColumns ==
  {<<"membership", "profile">>, <<"mapping", "profile">>, <<"invitation", "profile">>,
   <<"reset", "profile">>, <<"login", "profile">>, <<"override", "profile">>, <<"attempt", "profile">>,
   <<"employment", "profile">>, <<"shadowing", "agent">>, <<"flag", "agent">>,
   <<"flagEvent", "subject">>, <<"fixture", "agent">>}

\* A row has its owner and, since columns are treated one by one, one other column.
LinksOf(t) ==
  LET owners == {c \in Columns(t) : <<t, c>> \in OwnerColumns}
  IN  {[table |-> t, names |-> names] :
         names \in {f \in UNION {[owners \cup {c} -> Persons \cup {NoProfile}] : c \in Columns(t)} :
                      \A c \in DOMAIN f : f[c] = NoProfile => <<t, c>> \in Optional}}
Link == UNION {LinksOf(t) : t \in Tables}

\* Columns that name the deleting administrator instead.
Reassigned ==
  {<<"userImport", "uploadedBy">>, <<"batch", "uploadedBy">>, <<"employment", "createdBy">>,
   <<"target", "createdBy">>, <<"threshold", "createdBy">>, <<"template", "createdBy">>,
   <<"shadowing", "leader">>, <<"shadowing", "createdBy">>,
   <<"flag", "raisedBy">>, <<"flag", "owner">>, <<"flag", "resolvedBy">>, <<"flagEvent", "actor">>}

\* Columns that are set to NULL.
Cleared ==
  {<<"batch", c>> : c \in {"confirmedBy", "publishedBy", "legacyReviewer", "rejectedBy", "rolledBackBy"}} \cup
  {<<"membership", "createdBy">>, <<"mapping", "approvedBy">>, <<"mapping", "deactivatedBy">>,
   <<"invitation", "createdBy">>, <<"reset", "createdBy">>}

OwnedByAny(row, users) == \E c \in DOMAIN row.names : <<row.table, c>> \in OwnerColumns /\ row.names[c] \in users

Renamed(row, users, actor) ==
  [row EXCEPT !.names = [c \in DOMAIN row.names |->
     IF row.names[c] \in users /\ <<row.table, c>> \in Reassigned THEN actor
     ELSE IF row.names[c] \in users /\ <<row.table, c>> \in Cleared \cup Nulled THEN NoProfile
     ELSE row.names[c]]]

LinksAfter(users, actor) == {Renamed(row, users, actor) : row \in {r \in links : ~OwnedByAny(r, users)}}

-----------------------------------------------------------------------------
(* Coaching sessions *)

NoSession == [creator |-> NoProfile, coach |-> NoProfile, participants |-> {}, reports |-> {}]

\* A participant's report, and those who wrote, finalized, published or revised it.
Report(agent, signers) == [agent |-> agent, signers |-> signers]

SessionOwned(users) == session.creator \in users \/ session.coach \in users

\* Deliberately wrong: who signed a report is forgotten.
ReportKept(report, users, actor) == report

ReportRenamed(report, users, actor) ==
  Report(report.agent, {IF p \in users THEN actor ELSE p : p \in report.signers})

\* A session the users own is deleted with its participants and reports, another
\* one when no participant is left.
SessionAfter(users, actor) ==
  LET left == session.participants \ users
  IN  IF SessionOwned(users) \/ (left = {} /\ session.participants # {}) THEN NoSession
      ELSE [session EXCEPT !.participants = left,
                           !.reports = {ReportRenamed(r, users, actor) : r \in {r \in @ : r.agent \notin users}}]

\* Reports that keep the session from being deleted.
SessionRestricted(users) ==
  /\ session # NoSession
  /\ SessionAfter(users, NoProfile) = NoSession
  /\ ~SessionOwned(users)
  /\ \E r \in session.reports : r.agent \notin users

-----------------------------------------------------------------------------
(* Uploads *)

\* The rows of an agent in the upload are staged and, once, stored as metrics.
\* Names without an agent are counted apart.
StoredAbout(staged, metrics, unknown) ==
  [versionRows |-> MapThenSumSet(LAMBDA p : metrics[p], Persons),
   versionAgents |-> Cardinality({p \in Persons : metrics[p] > 0}),
   batchRows |-> MapThenSumSet(LAMBDA p : staged[p], Persons) + unknown,
   batchAgents |-> Cardinality({p \in Persons : staged[p] > 0}),
   batchUnknown |-> unknown]

NoRows == [p \in Persons |-> 0]
NoUpload == [staged |-> NoRows, metrics |-> NoRows, unknown |-> 0, stored |-> StoredAbout(NoRows, NoRows, 0)]

Touched(users) == \E p \in users : imported.staged[p] > 0 \/ imported.metrics[p] > 0

\* The rows of the users go, and the version and the batch are counted again.
UploadAfter(users) ==
  LET without(rows) == [p \in Persons |-> IF p \in users THEN 0 ELSE rows[p]]
      staged == without(imported.staged)
      metrics == without(imported.metrics)
  IN  IF ~Touched(users) THEN imported
      ELSE [staged |-> staged, metrics |-> metrics, unknown |-> imported.unknown,
            stored |-> StoredAbout(staged, metrics, imported.unknown)]

-----------------------------------------------------------------------------
(* The purge *)

Existing == {p \in Persons : account[p] # "absent"}
AdminPersons == {p \in Persons : account[p] = "admin"}
NoApproval == [step |-> "none", users |-> {}]
LegacyDeleted == {p \in Persons : account[p] = "deleted"}

\* What permanentlyDeleteValidatedUsers tests before and under its locks.
Permitted(actor, users) ==
  /\ actor \in AdminPersons
  /\ users # {} /\ users \subseteq Existing /\ actor \notin users
  /\ users \cap AdminPersons # {} => AdminPersons \ users # {}

\* Foreign keys that refuse to delete the profiles.
KeysRefuse(users, actor) ==
  \/ SessionRestricted(users)
  \/ \E row \in LinksAfter(users, actor) : \E c \in DOMAIN row.names :
       <<row.table, c>> \in Restricting /\ row.names[c] \in users
  \/ LET s == SessionAfter(users, actor)
     IN  (s.participants \cup {s.creator, s.coach} \cup {r.agent : r \in s.reports}
            \cup UNION {r.signers : r \in s.reports}) \cap users # {}
  \/ \E p \in users : UploadAfter(users).staged[p] > 0 \/ UploadAfter(users).metrics[p] > 0

Purge(actor, users) ==
  /\ Permitted(actor, users)
  /\ ~KeysRefuse(users, actor)
  /\ links' = LinksAfter(users, actor)
  /\ session' = SessionAfter(users, actor)
  /\ imported' = UploadAfter(users)
  /\ account' = [p \in Persons |-> IF p \in users THEN "absent" ELSE account[p]]
  /\ squad' = squad \ users

PurgeUsers(actor, users) ==
  /\ Purge(actor, users)
  /\ UNCHANGED <<approval, candidates, archived, review>>

\* The dry run of the script prints the ids, their number and digest.
InspectLegacy ==
  /\ LegacyDeleted # {}
  /\ approval' = [step |-> "printed", users |-> LegacyDeleted]
  /\ UNCHANGED <<account, links, session, imported, candidates, squad, archived, review>>

\* A second run, which is given number and digest, goes on if they are still right.
ConfirmLegacy ==
  /\ approval.step = "printed"
  /\ approval' = IF approval.users = LegacyDeleted THEN [approval EXCEPT !.step = "confirmed"] ELSE NoApproval
  /\ UNCHANGED <<account, links, session, imported, candidates, squad, archived, review>>

\* The transaction compares once more, with what it has locked.
PurgeLegacy(actor) ==
  /\ approval.step = "confirmed"
  /\ approval.users = LegacyDeleted
  /\ Purge(actor, approval.users)
  /\ approval' = NoApproval
  /\ UNCHANGED <<candidates, archived, review>>

-----------------------------------------------------------------------------
(* The scripts for local databases *)

\* Administrators, and whoever has numbers stored about them.
ProtectedUsers == AdminPersons \cup {p \in Persons : imported.metrics[p] > 0}

\* Any other user may look like one that a test has left behind.
SelectTestUsers(users) ==
  /\ AdminPersons # {}
  /\ users # {} /\ users \subseteq Existing \ (LegacyDeleted \cup ProtectedUsers)
  /\ candidates' = users
  /\ UNCHANGED <<account, links, session, imported, approval, squad, archived, review>>

\* Tables whose rows are deleted with an account that is scrubbed, by these columns.
Scrubbed ==
  {<<"attempt", "profile">>, <<"invitation", "profile">>, <<"invitation", "createdBy">>,
   <<"reset", "profile">>, <<"reset", "createdBy">>, <<"login", "profile">>, <<"override", "profile">>}

ScrubbedBy(row, users) == \E c \in DOMAIN row.names : <<row.table, c>> \in Scrubbed /\ row.names[c] \in users

\* executeCleanup: by the ids read before.
ScrubTestUsers ==
  /\ candidates # {}
  /\ links' = {row \in links : ~ScrubbedBy(row, candidates)}
  /\ account' = [p \in Persons |-> IF p \in candidates \cap Existing THEN "deleted" ELSE account[p]]
  /\ squad' = squad \ candidates
  /\ candidates' = {}
  /\ UNCHANGED <<session, imported, approval, archived, review>>

\* executeReset: everyone is scrubbed, and there is a new administrator.
ResetUsers(p) ==
  /\ account[p] = "absent"
  /\ account' = [q \in Persons |-> IF q = p THEN "admin" ELSE IF q \in Existing THEN "deleted" ELSE "absent"]
  /\ links' = {row \in links : \A column \in Scrubbed : row.table # column[1]}
  /\ squad' = {}
  /\ UNCHANGED <<session, imported, approval, candidates, archived, review>>

-----------------------------------------------------------------------------
(* The cleanup of teams *)

NoReview == [step |-> "none", members |-> {}]

\* inspectTeamCleanup in the dry run.
ReviewTeam ==
  /\ ~archived
  /\ review' = [step |-> "printed", members |-> squad]
  /\ UNCHANGED <<account, links, session, imported, approval, candidates, squad, archived>>

\* A second run, which is given number and digest, goes on if they are still right.
ConfirmTeam ==
  /\ review.step = "printed"
  /\ review' = IF squad = review.members THEN [review EXCEPT !.step = "confirmed"] ELSE NoReview
  /\ UNCHANGED <<account, links, session, imported, approval, candidates, squad, archived>>

\* archiveTeamsForCleanup: its transaction locks the administrator only, and reads
\* the members without a lock.
InspectTeam(actor) ==
  /\ review.step = "confirmed"
  /\ actor \in AdminPersons
  /\ review' = IF squad = review.members THEN [review EXCEPT !.step = "read"] ELSE NoReview
  /\ UNCHANGED <<account, links, session, imported, approval, candidates, squad, archived>>

\* It ends the memberships there are by then.
ArchiveTeam ==
  /\ review.step = "read"
  /\ squad' = {}
  /\ archived' = TRUE
  /\ review' = NoReview
  /\ UNCHANGED <<account, links, session, imported, approval, candidates>>

-----------------------------------------------------------------------------
(* What others do *)

\* Sessions and uploads there are.
Footprint ==
  Cardinality(links) + (IF session = NoSession THEN 0 ELSE 1) + (IF imported = NoUpload THEN 0 ELSE 1)

\* Any row of any table, by any operation.
RecordLink(row) ==
  /\ \A c \in DOMAIN row.names : row.names[c] \in Existing \cup {NoProfile}
  /\ links' = links \cup {row}
  /\ UNCHANGED <<account, session, imported, approval, candidates, squad, archived, review>>

\* createCoachingSession
HoldSession(creator, coach, participants) ==
  /\ session = NoSession
  /\ participants # {} /\ participants \cup {creator, coach} \subseteq Existing
  /\ session' = [creator |-> creator, coach |-> coach, participants |-> participants, reports |-> {}]
  /\ UNCHANGED <<account, links, imported, approval, candidates, squad, archived, review>>

\* saveCoachingReport and transitionReport, of a participant's report.
SignReport(agent, signer) ==
  /\ agent \in session.participants
  /\ signer \in Existing
  /\ LET written == {r \in session.reports : r.agent = agent}
     IN  session' = [session EXCEPT !.reports = (@ \ written)
                       \cup {Report(agent, {signer} \cup UNION {r.signers : r \in written})}]
  /\ UNCHANGED <<account, links, imported, approval, candidates, squad, archived, review>>

\* persistProcessedBatch; deleted agents may be those of an old upload.
StoreUpload(agents, unknown) ==
  /\ imported = NoUpload
  /\ agents # {} /\ agents \subseteq Existing
  /\ LET rows == [p \in Persons |-> IF p \in agents THEN 1 ELSE 0]
     IN  imported' = [staged |-> rows, metrics |-> rows, unknown |-> unknown,
                    stored |-> StoredAbout(rows, rows, unknown)]
  /\ UNCHANGED <<account, links, session, approval, candidates, squad, archived, review>>

JoinSquad(p) ==
  /\ ~archived
  /\ account[p] \in {"admin", "member"}
  /\ squad' = squad \cup {p}
  /\ UNCHANGED <<account, links, session, imported, approval, candidates, archived, review>>

PurgeInit ==
  /\ account \in [Persons -> {"absent", "admin", "member", "deleted"}]
  /\ links = {}
  /\ session = NoSession
  /\ imported = NoUpload
  /\ approval = NoApproval
  /\ candidates = {}
  /\ squad = {}
  /\ archived = FALSE
  /\ review = NoReview

PurgeNext ==
  \/ \E actor \in Persons : (\E users \in SUBSET Persons : PurgeUsers(actor, users)) \/ PurgeLegacy(actor)
  \/ InspectLegacy
  \/ ConfirmLegacy
  \/ \E users \in SUBSET Persons : SelectTestUsers(users)
  \/ ScrubTestUsers
  \/ \E p \in Persons : ResetUsers(p) \/ JoinSquad(p) \/ InspectTeam(p)
  \/ ReviewTeam
  \/ ConfirmTeam
  \/ ArchiveTeam
  \/ /\ Footprint < MaxLinks
     /\ \/ \E row \in Link : RecordLink(row)
        \/ \E creator, coach \in Persons, participants \in SUBSET Persons : HoldSession(creator, coach, participants)
        \/ \E agents \in SUBSET Persons, unknown \in 0..1 : StoreUpload(agents, unknown)
  \/ \E agent, signer \in Persons : SignReport(agent, signer)

PurgeSpec == PurgeInit /\ [][PurgeNext]_purgeVars

-----------------------------------------------------------------------------
(* Properties *)

\* Whomever an administrator may purge can be purged: no foreign key refuses it,
\* no session is left without participants, others keep their rows, and what is
\* stored about the upload is what is left of it
\* (permanentlyDeleteValidatedUsers, and the foreign keys of the schema).
PurgesCommit ==
  \A actor \in AdminPersons, users \in SUBSET Persons :
    Permitted(actor, users) =>
      /\ ~KeysRefuse(users, actor)
      /\ LET s == SessionAfter(users, actor)
         IN  s # NoSession => s.participants # {} /\ {r.agent : r \in s.reports} \subseteq s.participants
      /\ \A row \in links :
           ~OwnedByAny(row, users) =>
             \E kept \in LinksAfter(users, actor) :
               /\ kept.table = row.table
               /\ \A c \in DOMAIN row.names : row.names[c] \notin users => kept.names[c] = row.names[c]
      /\ LET after == UploadAfter(users)
         IN  after.stored = StoredAbout(after.staged, after.metrics, after.unknown)

=============================================================================
