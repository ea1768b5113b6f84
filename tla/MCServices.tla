------------------------------ MODULE MCServices ------------------------------
(***************************************************************************)
(* The services around imports, each by itself: a behaviour is one of      *)
(* accounts, of the roster with the pages about it, of a bulk import of    *)
(* users, of the preview of a dialer file with its page, of casework, of   *)
(* rate limits, of the cache of the sheets, of the reports about them, of  *)
(* the figures of dialer files, of the dashboards where these two meet, of *)
(* the calendar or of purges, and leaves the others in an initial state.   *)
(***************************************************************************)
EXTENDS Accounts, TeamScreens, UserImport, PreviewScreens, Casework, RateLimits,
        SourceCache, Dashboards, Calendar, Purges, TLC

VARIABLE service

\* Of what is interchangeable, this one.
Foremost(S) == CHOOSE x \in S : TRUE

Services == {"accounts", "roster", "user_import", "preview", "casework", "limits", "sources",
             "reports", "metrics", "dashboards", "calendar", "purges"}

\* Persons are numbers: accounts begin in the order of their kinds, since any other
\* order is the same with persons renamed.
Kinds == <<"absent", "deleted", "member", "admin">>
InOrder ==
  \E kind \in [Persons -> DOMAIN Kinds] :
    /\ \A p \in Persons : account[p] = Kinds[kind[p]]
    /\ \A p, q \in Persons : p < q => kind[p] <= kind[q]

ServicesInit ==
  /\ service \in Services
  /\ AccountInit
  /\ service # "accounts" => \A u \in Users : role[u] = "admin" /\ status[u] = "active"
  /\ RosterInit
  /\ ImportInit
  /\ PreviewInit
  /\ CaseworkInit
  /\ LimitInit
  /\ SourceInit
  /\ OutcomeInit
  /\ MetricInit
  /\ PurgeInit
  /\ IF service = "purges" THEN InOrder ELSE \A p \in Persons : account[p] = "absent"
  /\ \E u \in Users : openers[u].name = Foremost(AmericanNames) /\ openers[u].team = Foremost(Teams)
  /\ \A u \in Users :
       /\ service \notin {"reports", "dashboards"} => openers[u].name = Foremost(AmericanNames)
       /\ service \notin {"reports", "metrics", "dashboards"} => openers[u].team = Foremost(Teams)
  /\ service \notin {"metrics", "dashboards"} => files = 0
  /\ CalendarInit
  /\ service # "calendar" => clock = FirstHour

\* Links, logins and sessions of this user, who is not at rest.
Occupied(u) ==
  invites[u] # <<>> \/ resets[u] # <<>> \/ sessions[u] # {} \/ asked[u] # {} \/ login[u] # NoLogin

\* Bound: one user at a time has links, logins or sessions, while the others are
\* employed and have no temporary password; accounts meet only in the count of
\* administrators.
AccountsApart ==
  \A u \in Users : Occupied(u) => \A v \in Users \ {u} :
    ~Occupied(v) /\ employment[v] = "active" /\ password[v] # "temporary"

\* Bound: all but one of the requests about the roster are made beside this one,
\* while it assigns a manager and users have one dialer name, and so it stays
\* where that left a membership behind.
RosterApart ==
  /\ \A a \in Admins \ {Foremost(Admins)} :
       pending[a] # NothingPending => pending[Foremost(Admins)].kind = "manager" /\ Cardinality(names) <= 1
  /\ Cardinality(names) <= 1 \/ \A t \in Teams : Stranded(t) = {}

\* Bound: rows are recorded while no script is under way, which goes by accounts only;
\* a team is cleaned up in a database of administrators and without rows; one report
\* of a session is signed, by at most two.
NoScript == approval = NoApproval /\ candidates = {}
NoTeam == squad = {} /\ ~archived /\ review = NoReview
PurgesApart ==
  /\ Footprint > 0 => NoScript /\ NoTeam
  /\ NoTeam \/ (NoScript /\ \A p \in Persons : account[p] \in {"admin", "absent"})
  /\ \A r \in session.reports : session.reports = {r} /\ Cardinality(r.signers) <= 2

\* Bound: others take the e-mail or name of one row at most, of a batch that is in time.
ImportsApart == Cardinality(taken) <= 1 /\ (lapsed => taken = {})

\* Of the requests, and of the attempts, that all rest the foremost begins.
InTurn(doing, rest, next) ==
  (\A x \in DOMAIN doing : doing[x] = rest) =>
    \A x \in DOMAIN doing \ {Foremost(DOMAIN doing)} : next[x] = rest

\* A second customer only tells a transfer from the same one of the first.
CustomersInOrder ==
  \A r \in BagToSet(xfers) :
    r.customer # Foremost(Customers) => [r EXCEPT !.customer = Foremost(Customers)] \in BagToSet(xfers)

\* Bound: the roster changes twice only while at most one row has been typed.
ReportsApart ==
  /\ moves + BagCardinality(closed) + BagCardinality(xfers) <= 3
  /\ CustomersInOrder

\* Bound: the roster changes twice only while there is at most one file.
MetricsApart == files + moves <= 3

\* Bound: two rows, files and changes of the roster, and only rows that can be
\* attributed; more of each are in the services of the reports and of the figures.
DashboardsApart ==
  /\ BagCardinality(closed) + BagCardinality(xfers) + files + moves <= 2
  /\ \A r \in BagToSet(closed) \cup BagToSet(xfers) : r.opener # Illegible /\ r.date # Undated
  /\ CustomersInOrder

\* Bound: rows come in the order of their calls and those that cannot be parsed last,
\* of which the calls are never read; which row comes first decides what is stored of
\* duplicates, and nothing else.  Three rows, of which at most one cannot be parsed, are
\* those of an administrator.
Weight(row) == IF row.bad THEN 3 ELSE row.calls
PreviewApart ==
  /\ \A i, j \in DOMAIN csv : i < j => Weight(csv[i]) <= Weight(csv[j])
  /\ \A i \in DOMAIN csv : /\ csv[i].bad => csv[i].calls = 1
                           /\ i = 1 => csv[i].hour = Foremost(Hours)
  /\ Len(csv) = 3 => admin /\ Cardinality({i \in DOMAIN csv : csv[i].bad}) <= 1

\* Bound: one attempt at a time counts for both identifiers, and three rows are kept
\* at most; older ones make room for others when they are deleted.
LimitsApart ==
  /\ Cardinality({a \in Attempts : attempt[a].of = Identifiers}) <= 1
  /\ Cardinality({k \in Keys : counts[k] > 0}) <= 3

ServicesNext ==
  /\ UNCHANGED service
  /\ \/ /\ service = "accounts"
        /\ AccountNext /\ AccountsApart'
        /\ UNCHANGED <<rosterVars, importVars, previewVars, caseworkVars, limitVars, sourceVars, outcomeVars, metricVars, calendarVars, purgeVars>>
     \/ /\ service = "roster"
        /\ RosterNext /\ RosterApart'
        /\ UNCHANGED <<accountVars, importVars, previewVars, caseworkVars, limitVars, sourceVars, outcomeVars, metricVars, calendarVars, purgeVars>>
     \/ /\ service = "user_import"
        /\ ImportNext /\ ImportsApart' /\ InTurn(request, Resting, request')
        /\ UNCHANGED <<accountVars, rosterVars, previewVars, caseworkVars, limitVars, sourceVars, outcomeVars, metricVars, calendarVars, purgeVars>>
     \/ /\ service = "preview"
        /\ PreviewNext /\ PreviewApart'
        /\ UNCHANGED <<accountVars, rosterVars, importVars, caseworkVars, limitVars, sourceVars, outcomeVars, metricVars, calendarVars, purgeVars>>
     \/ /\ service = "casework"
        /\ CaseworkNext
        /\ UNCHANGED <<accountVars, rosterVars, importVars, previewVars, limitVars, sourceVars, outcomeVars, metricVars, calendarVars, purgeVars>>
     \/ /\ service = "limits"
        /\ LimitNext /\ LimitsApart' /\ InTurn(attempt, NoAttempt, attempt')
        /\ UNCHANGED <<accountVars, rosterVars, importVars, previewVars, caseworkVars, sourceVars, outcomeVars, metricVars, calendarVars, purgeVars>>
     \/ /\ service = "sources"
        /\ SourceNext
        /\ UNCHANGED <<accountVars, rosterVars, importVars, previewVars, caseworkVars, limitVars, outcomeVars, metricVars, calendarVars, purgeVars>>
     \/ /\ service = "reports"
        /\ OutcomeNext /\ ReportsApart'
        /\ UNCHANGED <<accountVars, rosterVars, importVars, previewVars, caseworkVars, limitVars, sourceVars, metricVars,
                       calendarVars, purgeVars>>
     \/ /\ service = "metrics"
        /\ MetricNext /\ MetricsApart'
        /\ UNCHANGED <<accountVars, rosterVars, importVars, previewVars, caseworkVars, limitVars, sourceVars,
                       calendarVars, purgeVars>>
     \/ /\ service = "dashboards"
        /\ DashboardNext /\ DashboardsApart'
        /\ UNCHANGED <<accountVars, rosterVars, importVars, previewVars, caseworkVars, limitVars, sourceVars,
                       calendarVars, purgeVars>>
     \/ /\ service = "calendar"
        /\ CalendarNext
        /\ UNCHANGED <<accountVars, rosterVars, importVars, previewVars, caseworkVars, limitVars, sourceVars,
                       outcomeVars, metricVars, purgeVars>>
     \/ /\ service = "purges"
        /\ PurgeNext /\ PurgesApart'
        /\ UNCHANGED <<accountVars, rosterVars, importVars, previewVars, caseworkVars, limitVars, sourceVars,
                       outcomeVars, metricVars, calendarVars>>

ServicesSpec == ServicesInit /\ [][ServicesNext]_<<service, accountVars, rosterVars, importVars,
                                                  previewVars, caseworkVars, limitVars, sourceVars,
                                                  outcomeVars, metricVars, calendarVars, purgeVars>>

Symmetry == Permutations(Users)

\* What a password is replaced by, "hash", decides nothing that follows; the variables
\* of other services do not change.
View ==
  <<service,
    IF service = "accounts" THEN <<role, status, employment, password, secret, mustReset, linkVars, sessions, login, asked>>
    ELSE IF service \in {"roster", "user_import", "preview", "casework"} THEN <<rosterVars, importVars, previewVars, caseworkVars>>
    ELSE <<limitVars, sourceVars, outcomeVars, metricVars, calendarVars, purgeVars>> >>

\* The days of five months.
FiveMonths == <<3, 5, 4, 5, 3>>

=============================================================================
