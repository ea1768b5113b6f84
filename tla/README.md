# Verification of the Openers Performance Dashboard

TLA+ models of the dashboard's server side, the TLC configurations that check
them on small instances, and TLAPS proofs of their main properties for every
instance. Paths are relative to the repository; `service.ts` without a
directory is `src/import/service.ts`.

## 1. The system

A Next.js application over one MySQL 8 database (InnoDB, REPEATABLE READ), two
background workers (`scripts/import-worker.ts`, `scripts/email-worker.ts`) and a
scheduled cleanup (`scripts/retention-cleanup.ts`). Processes share nothing but
the database; they interact through rows, row locks, leases and unique indexes.

| component | state | operations | what is hard |
|---|---|---|---|
| Dataset catalogue (`src/import/service.ts`, `active-lifecycle.ts`, `delete-service.ts`) | status of each upload, its version rows, one active pointer per dataset scope | upload, process, publish, reject, roll back, restore, deactivate, delete | three tables that must agree, over several scopes at once; undo chains through history that is reprocessed and deleted |
| Import jobs (`src/import/jobs.ts`) | one job row per upload: status, attempts, lease | claim, heartbeat, complete, retry, fail, settle an exhausted job | crashes, lost leases, a slow worker next to its successor, administrators acting on the upload meanwhile |
| Publication requests (`publishDialerImportBatch`) | none of their own | reprocess without a lease, then publish | what was reviewed is no longer what is active |
| Parsing and validation (`dialer.ts`, `validation.ts`, `versioning.ts`) | none | CSV to metrics, errors, scopes | long pure functions |
| Retention cleanup (`src/cleanup/service.ts`) | none | select ids, later delete them | the selection is stale when used |
| Email outbox (`src/email/outbox.ts`) | message rows with leases, delivery attempts | enqueue, claim, deliver, acknowledge, retry | a provider that answers after the timeout; at-least-once delivery |
| Account tokens, sessions (`src/auth`) | invitation and reset tokens, sessions | issue, inspect, consume, revoke | two requests with one token; login against revocation |
| Rate limits (`src/auth/rate-limit.ts`) | counters by window | consume | boundaries of windows |
| Users and teams (`src/admin`) | profiles, memberships, teams | create, change role, archive, purge | last administrator, concurrent administrators |
| Bulk user import (`src/admin/user-import-service.ts`) | batch with a checkpoint per row | preview, confirm, resume | crash between two rows, takeover of a slow confirmation |
| Outcome sources (`src/leaderboard/transfers.ts`, `src/sheets`) | in-memory cache | load, refresh, fall back | coalesced refreshes, stale snapshots, eviction |
| Flags, targets, coaching, commissions (`src/operations`, `src/coaching`, `src/commissions`) | cases, effective ranges, reports | state changes under a row lock | boundaries of dates and tiers |
| Dashboards, leaderboard, directory (`src/dashboard`, `src/leaderboard`, `src/performance`) | none | queries over the active pointers and the worksheets | every screen has a query and candidates of its own; moves between teams reach into the past; nights cross midnight |
| User interface, routes, migrations, scripts | none | rendering, plumbing | - |

Calls between them: an upload request inserts the batch and its job in one
transaction. An import worker takes the job and runs `processDialerBatch`, which
is also what a publication request runs before it publishes. Administrators
publish, reject, roll back, restore, deactivate and delete at any time. Dashboards
read through `dialer_dataset_scopes.active_version_id`. Account and user
operations put messages into the outbox in the transaction of the change; the
email worker takes them under leases. The cleanup deletes rows of all of these.

What makes each component correct: the catalogue, that pointers, version statuses
and undo references agree and that only publication shows data nobody saw; the
jobs, that each is settled, in a bounded number of attempts, and that a worker
that lost its lease is harmless; publication, that what is replaced is what was
reviewed; the cleanup, that it removes nothing that was visible; the outbox, that
a committed message is sent or visibly failed; links, that an account has
one that works and that nothing old opens a session; the roster, that a user has one
team and a dialer name one owner; the imports of users, that a repeated confirmation
creates nobody twice; rate limits, that no window lets more through; casework, that
histories have no gap and requests are answered; reports, that all screens tell the
same of the same agent.

`PROJECT.json` lists the components with their status, and the hazards of the code
with the properties that watch each of them.

## 2. The modules

```
DatasetVersions          the catalogue, one action per transaction
  DatasetVersionsProofs  its theorems
  Offers                 what the pages about imports show and offer; EXTENDS DatasetVersions
    OffersProofs         its theorems; EXTENDS DatasetVersionsProofs
  ImportPipeline         workers, publication requests, leases; EXTENDS DatasetVersions
    ImportPipelineProofs refinement, fencing, jobs; EXTENDS DatasetVersionsProofs
    ImportHistory        ImportPipeline with a memory, for two promises of the docs
    RetentionCleanup     ImportPipeline with the cleanup beside it
LeasedJob                abstract: what a queue of leased jobs promises of one job
EmailOutbox              messages, email workers, a provider that may answer late
  EmailOutboxProofs
Sums                     sums over finite sets
  SumsProofs             what sums and numbers of elements do, by induction
Directory                the identities the following share: users, teams, dialer names
  Accounts               passwords, links, sessions, administrators
  Roster                 memberships, managers, dialer names
    TeamScreens          what the pages about users and teams show and offer; EXTENDS Roster
  DialerPreview          from the rows of a file to what is stored of it
    PreviewScreens       the page on which an upload is reviewed; EXTENDS DialerPreview
  OutcomeReports         transfers and closed deals, on every screen
    DialerReports        figures of dialer files, on every screen; EXTENDS OutcomeReports
      Dashboards         the pages on which both meet; EXTENDS DialerReports
UserImport               the confirmation of a previewed file of users
  UsersProofs            theorems about Accounts, Roster, TeamScreens and UserImport
  ReportsProofs          theorems about OutcomeReports, DialerReports, Dashboards and PreviewScreens
Casework                 flag cases, coaching reports, the connection pool
RateLimits               attempts counted in windows
SourceCache              the cache of the two worksheets
Purges                   permanent deletion of users, scripts that tidy up users and teams
Calendar                 night shifts, ranges of dates, months and weeks, wall times
  ServicesProofs         theorems about these five
MC*                      model values, symmetry and bounds for TLC
```

`MCServices` composes the twelve components from Accounts to Purges in one run: a
behaviour belongs to one of them (`service`) and leaves the others where they began.
They share no rows that matter to their properties, so running them side by side
would multiply states and show nothing more. The components that do interact are
composed for real: catalogue, pipeline, publication requests and cleanup; messages,
workers and invitations; records and the pool; worksheets, roster and reports.

### DatasetVersions

`(importBatchId, scopeKey)` is unique, so a version row is named by its batch and
its scope, and a reference to a version is the batch that owns it.

| variable | column |
|---|---|
| `batchStatus[b]` | `dialer_import_batches.status`; "absent" before and "deleted" after the row |
| `verStatus[b][s]`, `verNumber[b][s]`, `verPrev[b][s]` | `dialer_dataset_versions.status`, `version_number`, `previous_version_id` |
| `active[s]` | `dialer_dataset_scopes.active_version_id` |

An action is a whole transaction, and its guard is only what the transaction
re-reads under its locks. What callers test earlier and without a lock is left
out, so what holds here holds for every interleaving of callers. `MarkProcessing`,
`FailProcessing` and `Requeue` are therefore unguarded, as the updates are:
they write a status by the batch's id. `PersistPreview` is
`persistProcessedBatch`: it deletes the version rows of the previous run (the
foreign key of the active pointer restricts that, the one of
`previousVersionId` sets NULL), numbers the new drafts and remembers the active
versions. `Publish`, `Rollback`, `Restore`, `Deactivate` and `Delete` move pointers;
`PreviousReplacement`, `SelectedReplacement` and `AutomaticReplacement` are the modes of
`selectReplacementVersions`, and `SuccessorsRewired` is the loop of the deletion
that hands a version's predecessor to its successors.

The transactions take locking reads first, so their snapshots are not older than
their locks. The exception is the count in `updateBatchVisibilityStatus`, a
non-locking read: two transactions may each miss the other's move. The value it
writes (`Visibility`) is exact only if they do not overlap, and no property is
about it.

Abstracted: metrics, staging rows and error rows, permissions and organizations,
reasons, audit rows. Ids are never reused, so a deleted batch stays deleted.

### Offers

What the import history (`import-history-workspace.tsx`) and the page of one import compute
by their own queries and lists of statuses: figures and filters (`Cards`, `Matching`,
`Highlighted`), the options of a deactivation (`ResolutionForms`, from
`getActiveImportLifecycleOptions`), menus and forms (`HistoryOffers`, `DetailOffers`), and the
pages of the list. `Accepts` says whether the transaction of `DatasetVersions` would do what a
form asks for if nothing changed before the request. The review link, which leads to the
preview, and the permissions of the viewer are left out; `publishedAt` is set by whatever
makes an upload restorable and is not kept.

### ImportPipeline

Adds the job table (`jobStatus`, `attempts`, `owner`, `expired`) and the program
counter of each process (`run`): a worker's or a publication request's next step,
its batch and, in a catch block, whether the error is one worth retrying.

| step | code |
|---|---|
| `Claim` | `claimNextImportJob`: settles one exhausted job and takes one claimable job, in one transaction; SKIP LOCKED may pass over rows |
| `Check` | unlocked read and test of the status (service.ts 901-928) |
| `Mark` | the status write, fenced by the lease for workers, unconditional for publication requests (930-948) |
| `Persist`, `PersistFails` | `persistProcessedBatch` commits, or an error is caught |
| `BatchCatch` | the catch block that writes "failed" (1038-1069) |
| `Complete`, `JobCatch` | the end of `processNextImportJob` and its catch block |
| `FinishPublication` | the transaction of `publishDialerImportBatch`, or a refusal |
| `TransientError` | the transaction of the next step fails with an error worth retrying |
| `Heartbeat`, `Expire` | the timer of a run, and the passage of time |
| `OpenPreview` | an administrator opens a ready preview; the request follows any time later |
| `Crash` | the process dies, or the administrator does not go on |

`lease_owner` identifies a worker process whose slots run jobs side by side. A
model worker is one slot: the slots of a process claim in rounds that end
together (`Promise.all`), each with the time at which its round began, so no slot
takes over the lease of another slot of its round. A restarted process has a new id;
in the model it may have the old one, since the run it belonged to is gone.

Parsing is its outcome: the set of scopes and whether the file is valid, chosen
anew at every run, because mappings and rosters may change between two runs.
Back-off (`availableAt`) and the order of the queue are nondeterministic. A lost
acknowledgement of a commit is a commit followed by `TransientError` at the next step.

`createDialerPreviewBatch` is called by tests only and is left out.

### LeasedJob and ImportHistory

`LeasedJob` is the promise of a queue of leased jobs about one of them, without
saying what the work is. `Job(b) == INSTANCE LeasedJob WITH ...` maps each row of
`import_jobs` to it. `ImportHistory` remembers what a publication request had
reviewed and whether the current attempt has stored its preview; no table keeps
either, and the documentation speaks of both.

### RetentionCleanup

Extends the pipeline by `runRetentionCleanup`'s two steps about uploads (`cleanup/service.ts`):
`CleanupSelects` reads the ids of abandoned uploads and of raw files that are due,
`CleanupDeletes` later deletes and scrubs by these ids, in one transaction that the
foreign key of an active pointer refuses as a whole. Any upload may be old enough.

### EmailOutbox

| variable | column or place |
|---|---|
| `status`, `attempts`, `owner`, `expired`, `payload`, `kind` | `email_outbox` |
| `token`, `delivery` | the invitation a message names and its `deliveryStatus` |
| `inFlight`, `received` | deliveries nobody waits for any more; keys the provider accepted |
| `run`, `selected` | what each worker does; ids the cleanup is about to delete |

`Claim` is `claimNextEmail` with its settlement of an exhausted message; `Deliver` ends in
an acceptance, a refusal or the timer, after which the provider may still accept
(`LateAnswer`); `RecordSent`, `RecordSentFails` and `RecordFailure` are the ends of
`processNextEmail`. Leases are not renewed, so `Expire` may happen to a run that is alive.
The provider is external and keeps what `deliverEmail` relies on: one message per
idempotency key. `Job(m) == INSTANCE LeasedJob` maps each message to the abstract job.

### Accounts and Roster

`Accounts` has the columns of the profile and its credentials that decide who may
log in (`role`, `status`, `employment`, `password`, `secret`, `mustReset`), the tokens of
invitations and resets with their states, and sessions, which remember whether they
were opened before or after the last change that was to end them. Writes are
transactions under the lock of the profile. A login, an invitation and a forgotten
password are two steps, because the code reads the account before its transaction.

`Roster` has the memberships and the rows of `source_user_mappings` with their two flags
and the keys of their two unique indexes. `BeginUserChange`/`CommitCreate`/`CommitUpdate` and
`BeginManager`/`CommitManager` are split where the code tests a team or a role outside the
transaction. The guard of the last administrator is in `Accounts` and not repeated here.

### TeamScreens

Each figure, row, filter and list of the pages about users and teams is an operator with the
joins its own query has: `TeamRow`, `TeamStats` and `TeamCounts` count the memberships that
are of the role their profile has now, `FoundUsers` and `DetailTeam` take them as they are. What
the pages offer (`OfferedMoves`, `AssignableManagers`, `OffersClosing`, `InlineMoves`) stands beside
what the operations would say (`AcceptsMember`, `AcceptsManager`, `AcceptsInline`).
`InvitationShown` and `FoundByInvitation` are the status of an invitation in a row of the list
and in its filter, of a profile's links and of its two password columns (`Credentials`): permanent
is the default of the column and was given to the profiles that existed when it was added
(`drizzle/0007`), whether or not `passwordChangedAt` was set. Links are what the operations leave
(`InvitationLinks`): `issueInvitation` revokes a link without its `deliveryStatus`, which all others
set, and "expired" is written by the migration `drizzle/0003` alone. Which accounts are active is
chosen freely.

### UserImport

A previewed file, requests that confirm it, and the users that exist: `ClaimBatch`
(`confirmUserImport`'s claim, or the takeover after ten minutes, which `GoQuiet` allows),
`ReadContext`, one step per row (`SkipRow`, `PassRow`, `CreateUser`, `CreateUserFails` with
the recovery by the audit log), `SaveRow` (the checkpoint of all rows as this request knows
them), `Confirm`, `RequestDies`, other administrators' `TakeName`, and the cleanup.

### DialerPreview

Rows are added one by one and classified as `previewDialerCsv` does (matched, ambiguous,
unmatched, invalid), counted for the file and for the agent, tested by `validateImport`, and
turned into metrics and totals as `persistProcessedBatch` stores them.

### PreviewScreens

The page of a processed upload (`import-preview-summary.tsx`): each row against the active
version (`RowStatus`), agents and totals (`ImportStatus`, `FileSummary`), the comparison of
`compareMetrics` and the warnings of `validateImport`, and of the page its figures, filters,
table, the counts a publisher agrees to and the button (`PublishBlocked`). The active version
is chosen freely.

### Casework and RateLimits

`Casework` has records (a flag case with its events, or a report with its revisions) and
the desk of each staff member: queued for a connection, begun, holding the lock of the
row, checked, at rest. `CheckScope` takes a second connection of the pool, as the code
does. `RateLimits` has the rows of `rate_limit_records` with the windows that requests
computed before they count, and the cleanup's two steps.

### SourceCache and OutcomeReports

`SourceCache` is `fetchSources`/`loadLeaderboardSources`: requests that join the fetch under
way, settle with it, and fall back to the last complete read when it fails; edits of the
sheet number what is read.

In `OutcomeReports` people type rows and change the roster, and every screen is an
operator with the candidates its query really has: `MatchableUsers`
(`listMatchableUsersForScope`), `ScopedActiveAgents`, `CommissionRoster`. A date stands for a
Monday of a month of its own, so days, weeks and months are one number; rows are bags.

### DialerReports, Calendar and Dashboards

`DialerReports` has the active version of each team and date and the agents whose rows it
holds. A file has one date here and is published or deactivated as a whole (the
catalogue's own freedom is in `DatasetVersions`). A row counts one call, so a figure is the
number of rows in its sum; the optional net time tells whether a sum is known.
Rows without a team, from before teams were recorded, belong to the scope "company".

`Calendar` counts hours of UTC (`clock`), hours of Cairo (`WallTime`) and days. The ranges
of the dashboards with what they are compared with, the buckets of a series, weeks of
transfer flags, months of trends and commissions, night shifts and typed wall times
are operators on these; the actions let time pass and let somebody ask. Months are given by
their lengths, so the day on which one begins is a sum (`Sums`).

`Dashboards` adds no state and no action: what happens are the steps of `OutcomeReports` and
`DialerReports` (`DashboardNext`). It has one operator for each page on which outcomes and figures
of dialer files meet, with what each computes by itself. `SharedInputs` is what the
dashboards of the roles share, `AgentDashboard`, `ManagerDashboard`, `CompanyRow`,
`ComparedTeam` and `LeaderRow` what they make of it (`dashboard/role-data.ts`); `Directory` and
`Trend` are the directory of agents, `TeamPage` and `TeamTrend` the page about teams,
`PerformancePage` and `Series` the page about performance. The worksheets are readable, readable
but for deals ("partial"), or neither; what a page does not know is `Unavailable`, which is not 0.
`OutcomeSource` has the rows with the agents they were matched with, and `DialerInputs` what the queries
about dialer files say to a viewer, whichever page asks.

### Purges

A row of one of the tables that name profiles is the table and whom its columns name
(`links`). The foreign keys of the schema are `ProfileKeys` with their rules, and a purge is
`permanentlyDeleteValidatedUsers` in one transaction: it deletes rows by their owner
(`OwnerColumns`), hands over (`Reassigned`), clears (`Cleared`), deletes coaching sessions that
are owned or left without participants, and counts uploads again; `KeysRefuse` says what a key
would still refuse. Since columns are treated one by one, a row has its owner and one
other column at a time. `InspectLegacy`/`ConfirmLegacy`/`PurgeLegacy` are the runs of the
legacy purge with its approval by number and digest of the ids (a digest is the set it
digests); `SelectTestUsers`/`ScrubTestUsers` and `ResetUsers` the scripts for local databases;
`ReviewTeam` to `ArchiveTeam` the cleanup of teams.

## 3. What TLC checks

| run | instance | result |
|---|---|---|
| catalogue | 3 uploads, 2 scopes, numbers to 3; about 260,000 states up to symmetry | holds |
| pipeline | 2 uploads, 1 scope, 2 workers, 1 publication request, 2 attempts; about 610,000 states up to symmetry | holds |
| liveness | 1 upload, 2 workers, 1 publication request, 3 attempts, no symmetry, no constraint | holds |
| outbox | 1 message, 2 workers, 3 attempts, no symmetry, no constraint | holds |
| services | each of twelve components on its own; about 850,000 states up to symmetry | holds |
| published_not_processed | 1 upload, 2 publication requests | violated (finding 1) |
| reviewed_version | 2 uploads, 1 publication request | violated (finding 2) |
| persisted_preview | 1 upload, 2 workers, 3 attempts | violated (finding 3) |
| retention | 2 uploads, 1 worker, 2 publication requests, the cleanup | violated (finding 4) |
| counted_once | 2 users, 2 teams, 2 dates, 2 files, 2 changes of the roster | violated (finding 5) |
| stored_as_reviewed | 2 users, 2 dialer names, 3 rows | violated (finding 6) |
| pool | 2 connections, 2 staff members, 2 records | violated (finding 7) |

Properties of the catalogue: `PointerConsistent` (a pointer leads to the one version
that says "active"), `HistoryInLine` (no number is given twice, and references lead to
older versions that have been visible, so undoing cannot loop or show a draft),
`DraftsTogether` (a file's scopes are published together), and the step properties `OnlyPublicationReveals` and `DeletionKeepsHistory`. Of the pages:
`OffersAreAccepted` (both pages together offer exactly what the transactions would do, and
nothing leads into a drawer without the form) and `HistoryAddsUp` (figures count the rows
they point out, filters find what they name, pages show each row once).

Properties of the pipeline: it implements the catalogue (`CatalogSpec` as a
property) and each job implements `LeasedJob` (`JobsAreLeased`);
`StaleWorkerHarmless` (a worker whose job was taken over, settled or deleted
changes nothing); `CompletedWasProcessed`; and `JobSettles` under fairness.

Properties of the outbox: `SentOnce` (through late answers, lost acknowledgements and
retries by hand, the provider sends a message at most once, and what is said to be sent
was accepted); `MessagesAreLeased`; `LateAnswersHarmless` (a worker that lost its lease
changes nothing, and a failure recorded late leaves a used or revoked invitation as it
is); `MessageSettles` under fairness.

Properties of the services:

| component | property |
|---|---|
| Accounts | `AdminRemains`; `OneLiveLink` of each kind; `TemporaryOpensNoSession`; `ChangesAreGuarded` (only the user's own link replaces a chosen password; what replaces a password or ends an account ends its sessions) |
| Roster | `OneTeamAndOwner` (one membership of each user, one owner of each dialer name: flags and unique keys agree) |
| TeamScreens | `TeamScreensAgree` (figures, rows, filters and lists count the same memberships, whatever requests overlapped; of what is offered exactly the named exceptions are refused; the filters find the status of an invitation that is shown, but for the `Overlooked`, and find others by a status that is not shown only in the named cases) |
| UserImport | `OneConfirmation` (users are created for the rows of one confirmation) |
| DialerPreview, PreviewScreens | `PreviewTellsTruth` (what was reviewed is stored, if no user has two names in the file; each row is counted once, for the file, its agent and the comparison; without a warning nothing of the file is left out and no agent is lost; rows said to be new and unchanged are what publication adds and keeps; the button refuses only what changes nothing; a published file is known again) |
| Casework | `HistoryComplete` |
| RateLimits | `AtMostLimit` |
| SourceCache | `NeverBackwards` (what is shown without the mark "stale" is never older than what was shown before) |
| OutcomeReports | `ScreensAgree`; `ManagersAddUp`; `PayUnaffected` (moves, closed teams and departures of others change nobody's commission) |
| DialerReports | `MetricsAddUp` (figures by agent, by date and by hour sum up to the totals, managers' totals to the admin's, and all who see an agent see the same figures) |
| Dashboards | `DashboardsAgree` (teams make up the company and agents the team, an agent is told what her managers are, a rank is the leaderboard's, of cases a manager sees those which the admin counts for the team both ways, commissions of teams make up the total; directory, teams and series make up the page about performance, points of a trend its row, and the last shift the hours; whether the worksheets can be read or not) |
| Calendar | `NightsInTurn`; `CalendarTiles` (ranges, buckets, weeks and months cover each day once; wall times are read as they were shown) |
| Purges | `PurgesCommit` (whomever an administrator may purge can be purged; rows of others stay, sessions keep a participant, stored counts are what is left) |

**Bounds.** Three uploads are the fewest with a middle of a history; two scopes the
fewest for a file that is published in several; version numbers need not exceed
the number of uploads, since a number is one more than the highest that is left.
`MCDatasetVersions!Bound` lets one upload at a time be in a state in which it has no
part in the history, and one cover both scopes; the run's specification takes the
steps that stay within it. Pages hold one or two rows. Two workers are the fewest for a
takeover; with two attempts a takeover may be the last, with three there is one
in between. `MCImportPipeline!Bound` limits how many processes run at once when two
uploads exist; with one upload there is no limit. Messages of the outbox meet only in
the queue and in the settlement, so one is enough for each of its properties.

The services have two users, teams, dialer names and requests each: one to act and
one to be in the way. Two is also the fewest for a last administrator, a shared
name, a move between teams and a takeover. Of two administrators one makes requests about the
roster only while the other assigns a manager and users have one dialer name
(`RosterApart`); all overlaps of two, 591,000 states more, were checked while the module was
written. Three rows
of a file make a duplicate and another row; they come in the order of their calls, and three
are an administrator's and at most one of them unreadable (`PreviewApart`), active versions have at most two metrics and the table one agent on a page; limits of 1 with six units of time cover
four windows: rows of the first expire after the fourth unit and are selected and deleted while later
attempts are under way, and three rows are kept at most (`LimitsApart`); two edits or moves let one happen between a read and its use. The
months have 3, 5, 4, 5 and 3 days, so that each kind of neighbour occurs, summer time
begins inside the third and ends on the boundary to the fourth, and the limits of
daily and weekly series are 3 and 8 days instead of 90 and 365; the clock covers the
three last months hour by hour. A night is looked for among the hours of the last day, since
no night is longer. Three months and those of the trend are over when the clock begins, which
is what the comparisons go back (`ClockInCalendar`); the code has no first month. The bounds of `MCServices` are guards of
its steps: one user at a time has links, logins or sessions, since accounts meet only in
the count of administrators; names of one row of an import are taken by others, while it
is in time; three rows and moves in all, as many files and moves (`MetricsApart`), and transfers of a second
customer only beside the same transfer of the first (`CustomersInOrder`): that they are not the
same is all that customers matter for; one attempt at a time counts for both identifiers; `View`
leaves out what a password was replaced by, which decides nothing that follows, and the variables of other services. Purges
have three persons (who deletes, who is deleted and another one) and one row, session or
upload at a time, since no table's treatment looks at another's rows; kinds of accounts
begin in order, which renaming persons allows. The dashboards are looked at after two
rows, files or changes of the roster (`DashboardsApart`): a row before a move, a row next to a file, or two
of the same agent; longer histories of one kind are in the services of the reports and of the figures. The pages
are compared as soon as there is a row or was a file: in the states without one, of which the
other services have many, TLC would compute nothing but zeros. The theorem has no such
condition (`EveryPageAgrees`).
Of teams, names, hours, requests and attempts that are interchangeable the `Foremost` comes first, which is
cheaper than symmetry.
Symmetry is used for safety only. Deadlock is not checked: when all uploads are
deleted, all jobs and messages settled and all rows typed, nothing is left to do.

**Fairness.** `Claim` and `WorkerStep` are weakly fair for each worker: the worker
polls in a loop and a step of a run that is not killed happens. The lease of a run
that is over expires (`AbandonedLeaseExpires`): no timer renews it any more. Nothing
is assumed of administrators, publication requests, crashes, failures of the
database or the lease of a run that still renews it. Crashes cannot go on forever for
one job because each attempt is counted before it starts. In the outbox the claim of
a message is strongly fair: the queue is ordered by the time a message is due, so
one that is due again and again is not passed over forever; leases expire and workers
go on. Nothing is assumed of the provider, of administrators or of the cleanup. In
`Casework` a request that could have a connection, a lock or an answer again and again
gets it (mysql2's queue and InnoDB's lock queue are first-in first-out), and a request
that has everything goes on; run pool shows that this does not help.

### Findings

1. **A published upload is marked as being processed** (service.ts 944, run
   published_not_processed). The status is tested without a lock and written
   unconditionally. The slower of two administrators who publish the same upload
   sets it to "processing", and then to "failed", while its data is shown. Had
   another upload superseded it in between, its published versions would be
   replaced by drafts.
2. **Publication replaces a version nobody reviewed** (service.ts 1318, run
   reviewed_version). `docs/csv-import.md` promises a check against the reviewed
   version; the reprocessing before the check moves the draft to the version that is
   active now, so the check compares with that. It still guards the short time
   between the two transactions.
3. **A finished import is reported failed** (jobs.ts 83, run persisted_preview).
   `docs/production-readiness.md` promises that a crash after a persisted preview is
   reconciled to completed; once the upload is published, it no longer is.
4. **The cleanup selects published history** (`cleanup/service.ts` 154, run retention).
   `docs/production-readiness.md` (146) promises that no published version is ever
   selected. The selection goes by the status of the upload, which finding 1 leaves
   "failed"; when it is deactivated or superseded, its versions are selected.
5. **An agent counts twice for a date that is imported again after a move**
   (`import/versioning.ts` 71, run counted_once). `docs/csv-import.md` (44) calls rows
   absolute snapshots. A version replaces the one of the same team and date; after a
   move the agent's rows are in another team's version, and the old one stays active
   unless the new file has rows of others in the old team. Totals add both.
6. **A duplicate passes and is dropped** (`import/validation.ts` 101, run
   stored_as_reviewed). Duplicates are told by dialer name and hour, stored metrics by
   user and hour. Of two names of one user in the same hour, both are in the reviewed
   totals and one is stored.
7. **A burst of requests waits for itself** (`operations/service.ts` 254, run pool).
   Requests that hold a connection and a row look the agent's team up on a second
   connection; as many of them as there are connections wait forever.
   `docs/production-readiness.md` (25) speaks of bounded backpressure.

### Also met

Where the repository promises nothing precise, or no run is spent on it:

- Imports. The page of an import offers to undo a first version, which rollback refuses
  (`[batchId]/page.tsx` 394). A retry after a failed completion resets a published upload to "uploaded"
  (jobs.ts 382). A crash between "failed" and the return of the job turns an error worth
  retrying into a permanent one (service.ts 1047). An upload whose administrator was
  deactivated stays "uploaded" (jobs.ts 279), and one whose publication request died
  stays "processing" (service.ts 944), both without a job. A draft published between
  the cleanup's selection and its deletion makes the whole deletion fail. An upload left
  "processing" is in no list of the cleanup.
- Review of an upload. The summary says that unchanged rows "will not publish" and the table of
  mappings calls agents without changes not included, while the badge of the same agents says
  "Yes": all rows with a metric are in the version. A page whose rows are all unchanged refuses
  what the server would publish. Hours that the active version has and the file lacks are
  nowhere counted; only agents that are missing altogether, and sums that fall by three
  tenths, are warned of. The agreement to lose rows (`allowPartialImport`) is asked by the page
  and not tested by the server.
- Bulk import of users. A request that dies between the creation of a user and its
  checkpoint is resumed by one that reports the user as skipped
  (`user-import-service.ts` 291): the new account's e-mail makes the row invalid before
  the recovery by the audit log is reached. `docs/user-import.md` (23) promises counts of
  created, skipped and failed rows. A failed checkpoint after a creation appends the outcome
  twice, and the final write goes by the id alone and may replace a confirmed summary.
- Outbox. The failure of a resent invitation ("account_invitation_resent") is not
  reflected on the invitation (outbox.ts 170 and 387 test the other type only), although
  `docs/production-readiness.md` (112) speaks of invitations; "delivery_failed" stays after
  a later retry succeeded; the cleanup deletes messages by ids an administrator may have
  retried since.
- Accounts. A change of role ends no session, although `docs/production-readiness.md`
  (129-131) lists it; employment changes override "revoked", and enabling an account
  may bring back a terminated agent; a team may have several managers; the last dialer
  name of an agent may be deactivated; expired links nobody used are never cleaned up.
- Teams. Assigning a manager while the profile changes its role leaves an active membership in
  the old role behind: no page about teams counts it, and it keeps the team from being closed
  (`teams.ts` 115, `data.ts` 2914); the list of users shows the team and can move the user.
  The drawer of a team offers to move members whose accounts are not active, which the move
  refuses, and to give a closed team a manager. A request that tested the team before it was closed
  leaves a member in it; the page of that user shows the closed team, the list of users none.
- Invitations in the list of users. A profile without a link, whose password counts as permanent
  and was never set, is shown "not invited" (`data.ts` 209-212) and found by no status: the
  filter (350-358) asks for a temporary password. Such are the profiles of before
  `drizzle/0007` that had no password, when they have no link or the cleanup has deleted it
  (`Overlooked`). The other filters ask for any link where a row
  tells the latest: users who set a password are also found by the status of their links,
  and users whose delivery failed by "invitation expired".
- Casework. The number of a rubric's version is read outside the transaction;
  `saveCoachingReport` inserts a report whose id it does not know as a new one.
- Reports. A manager's dashboard calls `outcomeSnapshot` without the manager's agents
  (`dashboard/role-data.ts` 652), so its outcome totals are the company's while its rows
  are the team's. Dashboards scope rows of dialer files by the team they were recorded
  with, flags, shift coverage and coaching by the agents of today. Rows of deactivated
  agents vanish from dashboards, and from commissions but for the last month with deals.
  An agent without an active team is listed by the directory and paid, and is unmatched
  on the leaderboard (`leaderboard/data.ts` 179). Weeks of transfer flags begin before
  the requested range. Between midnight and six "today" is the day before on the
  overview and the calendar day on the role dashboards. A manager's commissions of a
  past month fall back to the current team. Dashboards read totals and rows in separate
  statements, so a publication in between shows in one of them only.
- Purges. A purge deletes whole coaching sessions that the purged user coached or created,
  with the other participants' reports. The cleanup of teams locks neither team nor
  memberships (`team-cleanup.ts` 204-226), so it ends memberships begun after its approval was
  compared; the local cleanup goes by ids read outside its transaction.
- Sheets. A refresh that meets a fetch under way joins it and may return data from before
  (`docs/google-sheets.md` 31-33). The night in which summer time begins has thirteen
  hours, so its coverage stays "incomplete".

## 4. What is proved

TLAPS checks these for all sets of uploads, scopes, workers, messages, users, teams, files,
requests and records, any bound on attempts, version numbers and rows, from the named
assumptions of the modules only: null values are not members; workers and publication
requests are disjoint; bounds are natural numbers; limits and sizes of pages are positive;
rows of tables are finitely many (`FiniteDirectory`, `FiniteTables`); numbers of calls are
natural; `Teamless`, `Company` and the empty filter are no ids (`TeamlessIsNoTeam`,
`CompanyIsNoTeam`, `NoFilterIsNoId`); today is a date of the clock (`TodayIsADate`). Of the
calendar: months have days (`MonthsHaveDays`), the offset changes at midnights
(`OffsetsChangeAtMidnight`), the midnight that is skipped is not one between two months
(`SummerBeginsWithinMonth`; it is the last Friday of April), and the clock stays within the
months that are given, with enough of them before (`ClockInCalendar`).
All properties of the runs that hold are theorems, but for the two liveness properties that
end this section.

`DatasetVersionsProofs`: `CatalogInv`, the conjunction of the invariants, is
inductive. Its parts lean on each other: a rollback keeps pointers and statuses in
agreement (`PointerConsistent`) only because references lead to existing published
versions (`HistoryInLine`); a rejection keeps the references sound only because a
batch that may be rejected has nothing but drafts (`DraftsTogether`), which nothing
refers to. Staging needs no such fact about the rows it deletes: a batch that was
published, marked "processing" by a late request and superseded meanwhile does lose
published versions, and then the foreign key's SET NULL keeps the references sound. Publication,
rollback, restoration and deactivation share one lemma about moving pointers
(`MoveInv`); deletion joins two references, and numbers decrease along the joined one
because they did along both. `Reveals` and `HistoryKept` follow from the invariant, step
by step.

`OffersProofs`: the pages and the transactions decide by different columns, so that
`PagesOfferWhatIsAccepted` and `HistoryTellsTruth` need to know what ties these columns
together. `OffersInv` adds to `CatalogInv` that versions belong to uploads that exist
(`VersionsOwned`), that a rejection was of the whole file (`RejectedTogether`: otherwise an
upload could be shown in one scope and hold a version in another that no status of the page
speaks of), that an upload which says it can be restored has versions to put back
(`RetiredWereShown`), and that one which says "active" is shown somewhere (`ActiveIsShown`:
menus go by the status, transactions by the pointer). The late status writes of section 3,
finding 1, do not break the last two, since they never write "active" or a restorable status.
One lemma (`FollowingInv`) covers all steps that move pointers; deletion has its own.

`ImportPipelineProofs`: `ImplementsCatalog` shows that every step of the pipeline is one
transaction of the catalogue or none, which needs only that a process that is not
idle works on an upload (`QueueTypeOK`). All theorems about the catalogue carry over
(`PipelineKeepsCatalog`). `StaleWorkersAreHarmless` shows the fencing for any number of
workers: only the worker's own steps change its run, and each of them that writes
tests the lease. Every row of `import_jobs` implements `LeasedJob` (`JobsKeepTheLease`)
and `CompletedWasProcessed` is an invariant (`CompletedJobsWereProcessed`). Neither is
inductive. `JobInv` adds that a job exists exactly as long as its upload (`JobsExist`),
which a rollback or a fallback could break by showing a version whose upload is gone
(excluded by `VersionsOwned`, the foreign key of the versions, together with
`HistoryInLine`), and that an upload is not among the unprocessed while the run
that stored its preview still holds the job (`StoredIsProcessed`). A step that touches no
job keeps all of this as long as it makes no upload appear, disappear or wait again
(`QuietStep`, `StepsLast`); the claim settles one job and takes another
(`ClaimEffect`), and the remaining steps are those of the holder.

`EmailOutboxProofs`: the inductive invariant joins the types with `OneKey` (every delivery
of a message, under way or accepted, goes by the message's own key, whatever the attempt),
`AcceptedRuns` (a run that is about to record a delivery had it accepted) and
`HeldInProgress` (a message with an owner is being processed); `MessagesAreSentOnce` follows.
Each step changes one message, and a claim two (`MessageEffect`), so that
`MessagesKeepTheLease` is shown message by message: each step is a step of `LeasedJob` or
none. `LateAnswersAreHarmless` is about steps and goes by the same effects.

`SumsProofs`: reports are sums, and a fold over a set is a recursion whose value has to be
shown to exist first. The library's induction theorems take the statement as an operator,
which no installed prover can instantiate; its theorem that a well-founded order has
minimal elements (`WFMin`, with `FS_StrictSubsetOrderingWellFounded`) takes the set of
counterexamples as a set. From it follow `Smallest` (among subsets of a finite set there is a
smallest one), that the equation of the sum has exactly one solution (`AddsOnce`,
`AddsExists`), `Grown` (what holds of nothing and is kept by every further element holds of
all), and with that what the reports need: sums of equal, of greater and of added amounts, over
unions, subsets and images, by parts (`TotalByParts`), and the same for numbers of elements.

`UsersProofs`, on accounts: `AccountInv` adds to the types that a temporary password goes with
a required change, that no session of the current kind exists then, and that a login which
verified a password since replaced is marked so. The last is what makes the login's race
with a regenerated password harmless. `AllChangesAreGuarded` and `AnAdminRemains` are shown
action by action from it; the latter needs the lock of the administrators, which is why the
count and the change are one step.
On the roster: `NamesInv` is about all rows of mappings at once: an operation demotes or
retires rows, flags and keys together, and may then insert one, which the unique keys
allow only if nobody else has the name (`Inserted`). `MembersInv` says that a user has no
membership, or one, of a role that memberships have and only with a profile; what a manager
assignment leaves behind (`WithoutManagers`) is at most that one. A pending request knows
nothing that matters, only that it is about a user and a team (`RequestOK`). Together they are
`TeamsAndNamesAreUnique`.
On the pages about teams: `TeamPagesAgree` follows from `MembersInv`: the members of a team are
counted by role, by activity and in all (`FiguresDoAgree`), and the totals of all teams are sums
of the rows, since users are parted by their team. The part about invitations needs no
invariant: `StatusesAreFound` has it for any number of links, of which the runs look at two.
On the import of users: `ImportInv` says that a request knows a row as created only if this
import created that user (`KnownIsTrue`) and that nothing is created before a claim; a
checkpoint that an old request writes over a newer one therefore loses knowledge but claims
nothing false.

`ReportsProofs`, on outcomes: `OneNumberPerAgent` needs no invariant but the types. Whoever
alone has a name is matched by the name whoever else is a candidate (`MatchedByName`,
`CandidatesDoNotMatter`), and every screen that shows an agent has the agent among its
candidates (`OfferedAsCandidate`). `SharesAddUp` takes rows as a bag, so its invariant
(`RowsInv`) adds that a worksheet has finitely many rows, each a number of times; the deals of
a company are parted by agent and the agents by team, and names that agents share are matched
for nobody. `PayIsStable` is about steps: a change of the roster moves only whom it is about.
On dialer figures: `FiguresAddUp` sums the active versions by agent, date and hour, and the
managers' parts to the whole; the optional net time is known of a sum if it is known of each
summand.
On the dashboards: `PagesTellTheSame` joins both. `DashboardInv` is the invariants of outcomes and
of figures, and that worksheets hold what can be typed into them, which bounds the rows. Each page
has a sum of its own over what it has matched by itself, so the proof first brings all of them to
`Credits`: what the rows of a kind count for some agents on some dates. A row is credited to at
most one agent, and to the same one whether the candidates are the viewer's, the team's or the
company's, as long as she is among them (`CandidatesDoNotMatter`). Then a directory, a row of a
team, a series and a trend are sums of credits by agent, by team (`CreditsByTeam`) and by date,
which may be exchanged (`DirectoryAddsUp`, `TeamsAddUp`, `SeriesAddsUp`, `TrendAddsUp`; `TotalSwap`
of `SumsProofs`). What is
not known adds up only to what is not known, so the status of the worksheets is a case of each
lemma. Ranks and comparisons of teams come from one function of the code, `SharedInputs`, and are
the leaderboard's (`RanksAgree`). A last shift counts each call that its date counts by the hour,
but for rows that a manager does not see since they were recorded for another team
(`ShiftsDoAgree`).
On the review of an upload: `PreviewInv` says of a file that is read that its rows are parted
twice, by class and by name, and that both are counted right after every row; of a processed
one that totals and metrics are those of its rows, and the status is the outcome of the
validation. `ReviewTellsTheTruth` takes the rest from it for any number of rows, any active
version and any size of pages: what the page counts by six statuses, by agent and by comparison
are parts of the same rows (`Figured`, `Summed`, `Compared`); rows that are left out of a
publication belong to names that raise a warning (`LeftOut`, `StrangersWarn`); without aliases
rows and metrics correspond one to one (`StoredInFull`), so that statuses, numbers and sums of
calls carry over (`StatusesDoHold`, `StoredIsReviewed`, `KnownOnceMore`); pages of the table
cover it (`Paged`, by the division with rest).

`ServicesProofs`: `LimitInv` bounds what a window let through by its count while the row cannot
have expired, which covers attempts that count in a window that is over; `CaseworkInv` says
that the desk which holds a lock still has the record's status in hand (`Sound`, `Leads`).
`SourceInv` says that a fetch which has read is never behind what was last shown and that only
one fetch is under way; without the latter an older one could settle last, and
`NothingOlderIsShown` would fail. `PurgeInv` says which columns rows have, and of a session and an
upload that their parts belong together; `PermittedPurgesCommit` is then shown table by table:
each key that would refuse the deletion of a profile is of a column which the purge deletes by,
hands over or clears.
On the calendar: a wall time never goes back by more than the hour that ends summer time, and
never at a midnight, so that nights are intervals of instants (`WallsInOrder`, `NightIs`), bounded
by the one hour at which each begins (`NightBegins`) and the one in which the next shift becomes
the last (`NightEnds`). `NightsDoFollow` counts their hours by the wall: if none was skipped, each of
the fourteen was shown (`NightIsWhole`), once or twice. `DaysAreCoveredOnce` needs the
invariant that the clock and the dates that are asked about stay within the months that are given
(`CalendarInv`). Months tile the days because each begins at a sum of lengths (`NextMonth`,
`MonthsInOrder`), and every day is in one by the smallest set of months that reaches it
(`MonthOfIs`); weeks, by division with rest (`WeekOnce`). `InstantIs` is the correctness of the two
passes of `localDateTimeToUtc`: they refuse a wall time only if no instant ever showed it; and
`MidnightIs`, that a midnight at which a month begins is shown once, which is why an instant is
in one commission month.

Only model-checked: `JobSettles` and `MessageSettles`, since liveness under fairness is beyond
the prover.

The violated properties are not theorems, and the runs show why. Some definitions are written
for the provers: the tables of `DialerPreview`, `Roster` and `Purges` choose with IF or
disjunctions, where a CASE of three arms is beyond the SMT backend, and sums go by `Total`.

## 5. Not modelled

`PROJECT.json` says of each component what is left out. Not modelled at all: the audit
log (inserted with each change, read by lists), targets and tenure thresholds (effective
ranges that are inserted and never changed), the pages but those about imports, users and teams (the user
interface has about 20,000 of the 54,000 lines), environment, logging, migrations, seeds and most scripts. Within modelled components:
the syntax of CSV, names and durations; warnings about durations, dates and file names; ties of a ranking, rates, tiers of commissions and comparisons with a period before; coaching sessions and
scores; creation and renaming of teams, shifts, ignored names and permission overrides; what the
scripts test of the environment, of backups and of the looks of a test user;
the statement-level concurrency of `updateBatchVisibilityStatus`; the entries of other
configurations in the cache of the sheets.

## 6. Plan

What would come next, in this order:

1. `PublishConcurrency`: two catalogue transactions at statement level, for the
   visibility count and the order of locks.
2. Violation runs for the manager's outcome totals and for the resumed import of users.
3. Pure operators with reference definitions: target evaluation, commission tiers, ranking
   with ties, interval merging.
4. Queries of the audit log and of targets, which no module has yet.

The run services takes about three minutes on two workers, catalogue and pipeline about
a minute each, the others seconds.
