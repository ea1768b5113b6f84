------------------------------- MODULE Casework -------------------------------
(***************************************************************************)
(* Manual flag cases, coaching reports and shadowing sessions, and the     *)
(* connection pool that the requests of managers and administrators share. *)
(*                                                                         *)
(* Moving a record on is a transaction that holds a connection of the pool *)
(* and the lock of the row, and that looks up the team of the agent        *)
(* through getDb(), on a connection of its own, before it goes on.         *)
(* Everything else takes one connection, for one step here.                *)
(***************************************************************************)
EXTENDS Naturals, Sequences, FiniteSets

CONSTANTS
  Records,     \* ids of cases, reports and shadowing sessions
  Staff,       \* requests of managers and administrators
  PoolLimit,   \* DATABASE_POOL_CONNECTION_LIMIT
  MaxChanges   \* bound on the events of a case and the revisions of a report

ASSUME PoolHasTwo == PoolLimit \in Nat /\ PoolLimit >= 2

VARIABLES
  record,  \* kind and status of each record, with its events or its revisions
  desk     \* what each request is doing

caseworkVars == <<record, desk>>

Absent == [kind |-> "none", status |-> "none", closed |-> FALSE, revision |-> 1, trail |-> <<>>]
AtRest == [at |-> "rest"]

CaseworkInit ==
  /\ record = [x \in Records |-> Absent]
  /\ desk = [s \in Staff |-> AtRest]

-----------------------------------------------------------------------------
(* The pool and the locks *)

InTransaction == {s \in Staff : desk[s].at \in {"begun", "locked", "checked"}}

FreeConnection == Cardinality(InTransaction) < PoolLimit

\* Deliberately wrong: the row is read without FOR UPDATE.
LockedNever(x) == FALSE

Locked(x) == \E s \in Staff : desk[s].at \in {"locked", "checked"} /\ desk[s].on = x

\* A transaction of one statement or a few, on a record nobody has locked.
Briefly(x) == FreeConnection /\ ~Locked(x) /\ UNCHANGED desk

-----------------------------------------------------------------------------
(* Records *)

\* createManualFlagCase
RaiseCase(x) ==
  /\ record[x] = Absent
  /\ record' = [record EXCEPT ![x] =
       [Absent EXCEPT !.kind = "case", !.status = "open",
                      !.trail = <<[from |-> "none", to |-> "open"]>>]]
  /\ Briefly(x)

\* createShadowingSession
ScheduleShadowing(x) ==
  /\ record[x] = Absent
  /\ record' = [record EXCEPT ![x] = [Absent EXCEPT !.kind = "shadowing", !.status = "scheduled"]]
  /\ Briefly(x)

\* saveCoachingReport of a report that is not there, whether or not it was
\* given an id.
DraftReport(x) ==
  /\ record[x] = Absent
  /\ record' = [record EXCEPT ![x] = [Absent EXCEPT !.kind = "report", !.status = "draft"]]
  /\ Briefly(x)

\* saveCoachingReport of a draft: its revision goes to coaching_report_revisions.
ReviseReport(x) ==
  /\ record[x].kind = "report" /\ record[x].status = "draft"
  /\ record[x].revision <= MaxChanges
  /\ record' = [record EXCEPT ![x].revision = @ + 1,
                              ![x].trail = Append(@, record[x].revision)]
  /\ Briefly(x)

\* acknowledgeCoachingReport, by the agent
AcknowledgeReport(x) ==
  /\ record[x].kind = "report" /\ record[x].status = "published"
  /\ record' = [record EXCEPT ![x].status = "acknowledged"]
  /\ Briefly(x)

\* MANUAL_FLAG_TRANSITIONS, transitionReport and completeShadowingSession
Closed == {"resolved", "dismissed"}

Transitions ==
  [case |->
     [open               |-> {"under_review", "action_required", "coaching_scheduled"} \cup Closed,
      under_review       |-> {"action_required", "coaching_scheduled"} \cup Closed,
      action_required    |-> {"under_review", "coaching_scheduled"} \cup Closed,
      coaching_scheduled |-> {"action_required"} \cup Closed,
      resolved           |-> {},
      dismissed          |-> {}],
   report |->
     [draft |-> {"finalized"}, finalized |-> {"published"}, published |-> {}, acknowledged |-> {}],
   shadowing |->
     [scheduled |-> {"completed"}, completed |-> {}]]

Targets(kind) == UNION {Transitions[kind][from] : from \in DOMAIN Transitions[kind]}

Requested == UNION {Targets(kind) : kind \in DOMAIN Transitions}

-----------------------------------------------------------------------------
(* updateManualFlagCase, transitionReport, completeShadowingSession *)

\* The request waits for a connection ...
AskFor(s, x, to) ==
  /\ desk[s] = AtRest
  /\ record[x] # Absent /\ to \in Targets(record[x].kind)
  /\ desk' = [desk EXCEPT ![s] = [at |-> "queued", on |-> x, to |-> to, from |-> "none"]]
  /\ UNCHANGED record

\* ... on which it begins a transaction ...
Begin(s) ==
  /\ desk[s].at = "queued"
  /\ FreeConnection
  /\ desk' = [desk EXCEPT ![s].at = "begun"]
  /\ UNCHANGED record

\* ... and reads the record for update.
Lock(s) ==
  /\ desk[s].at = "begun"
  /\ ~Locked(desk[s].on)
  /\ desk' = [desk EXCEPT ![s].at = "locked", ![s].from = record[desk[s].on].status]
  /\ UNCHANGED record

\* currentAgentContext, assertCanManageParticipant: queries on another connection
CheckScope(s) ==
  /\ desk[s].at = "locked"
  /\ FreeConnection
  /\ desk' = [desk EXCEPT ![s].at = "checked"]
  /\ UNCHANGED record

Moved(x, from, to) ==
  [record[x] EXCEPT !.status = to,
                    !.closed = to \in Closed,
                    !.trail = IF record[x].kind = "case"
                              THEN Append(@, [from |-> from, to |-> to]) ELSE @]

Commit(s) ==
  LET d == desk[s]
  IN  /\ d.at = "checked"
      /\ d.to \in Transitions[record[d.on].kind][d.from]
      /\ record[d.on].kind = "case" => Len(record[d.on].trail) <= MaxChanges
      /\ record' = [record EXCEPT ![d.on] = Moved(d.on, d.from, d.to)]
      /\ desk' = [desk EXCEPT ![s] = AtRest]

\* The lock is waited for too long; or the agent is not of the actor's team, the
\* transition is not allowed, or a required text or an owner is missing.
Refuse(s) ==
  /\ desk[s].at \in {"begun", "checked"}
  /\ desk' = [desk EXCEPT ![s] = AtRest]
  /\ UNCHANGED record

\* The process is stopped; the database rolls its transactions back.
Restart ==
  /\ \E s \in Staff : desk[s] # AtRest
  /\ desk' = [s \in Staff |-> AtRest]
  /\ UNCHANGED record

CaseworkNext ==
  \/ \E x \in Records :
       \/ RaiseCase(x)
       \/ ScheduleShadowing(x)
       \/ DraftReport(x)
       \/ ReviseReport(x)
       \/ AcknowledgeReport(x)
  \/ \E s \in Staff :
       \/ \E x \in Records, to \in Requested : AskFor(s, x, to)
       \/ Begin(s)
       \/ Lock(s)
       \/ CheckScope(s)
       \/ Commit(s)
       \/ Refuse(s)
  \/ Restart

CaseworkSpec == CaseworkInit /\ [][CaseworkNext]_caseworkVars

\* A process that keeps running grants connections and locks in turn, and takes
\* every step that it can.
FairCasework ==
  /\ CaseworkSpec
  /\ \A s \in Staff :
       /\ SF_caseworkVars(Begin(s))
       /\ SF_caseworkVars(Lock(s))
       /\ SF_caseworkVars(CheckScope(s))
       /\ WF_caseworkVars(Commit(s) \/ Refuse(s))

-----------------------------------------------------------------------------
(* Properties *)

\* The histories tell the whole story, whoever worked on a record at the same
\* time: the events of a case lead from its creation to its status without a
\* gap, it is closed with a resolution exactly when its status says so, and
\* the revisions of a report are all those before its present one
\* (updateManualFlagCase, saveCoachingReport).
HistoryComplete ==
  \A x \in Records :
    LET trail == record[x].trail
    IN  /\ record[x].kind = "case" =>
             /\ trail[1] = [from |-> "none", to |-> "open"]
             /\ \A i \in 2..Len(trail) : trail[i].from = trail[i - 1].to
             /\ trail[Len(trail)].to = record[x].status
             /\ record[x].closed = (record[x].status \in Closed)
        /\ record[x].kind = "report" => trail = [i \in 1..(record[x].revision - 1) |-> i]

\* What docs/production-readiness.md promises of the pool: a burst of requests
\* waits for connections, and is served.
RequestsAnswered == \A s \in Staff : desk[s] # AtRest ~> desk[s] = AtRest

=============================================================================
