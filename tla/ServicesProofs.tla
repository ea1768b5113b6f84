---------------------------- MODULE ServicesProofs ----------------------------
(***************************************************************************)
(* Theorems about the services that have no proof module of their own:     *)
(* Casework, RateLimits, SourceCache and Purges, for any number of         *)
(* records, requests, connections, attempts, edits and persons, and        *)
(* Calendar, for any months, any days on which the offset changes and any  *)
(* hours.                                                                  *)
(***************************************************************************)
EXTENDS Casework, RateLimits, SourceCache, Purges, Calendar, SumsProofs, Integers, TLAPS

-----------------------------------------------------------------------------
(* RateLimits: counters and what they let through *)

\* A counter is at least what it has let through, until its row has expired; and
\* an attempt does not outlast the row of its window.
LimitInv ==
  /\ now \in Nat
  /\ counts \in [Keys -> Nat] /\ allowed \in [Keys -> Nat]
  /\ \A k \in Keys : now <= ExpiresAt(k[2]) => allowed[k] <= counts[k]
  /\ AtMostLimit
  /\ doomed \subseteq Keys /\ \A k \in doomed : ExpiresAt(k[2]) < now
  /\ DOMAIN attempt = Attempts
  /\ \A a \in Attempts : attempt[a] # NoAttempt =>
       attempt[a].window \in Nat /\ now <= ExpiresAt(attempt[a].window)

LEMMA WindowContains ==
  ASSUME NEW time \in Nat
  PROVE  WindowAt(time) \in Nat /\ WindowAt(time) <= time /\ time <= ExpiresAt(WindowAt(time))
BY DEF WindowAt, ExpiresAt, WindowTicks

LEMMA WindowsAreTimes ==
  ASSUME NEW k \in Keys
  PROVE  k[2] \in Int /\ ExpiresAt(k[2]) \in Int
BY DEF Keys, Windows, WindowAt, WindowTicks, ExpiresAt

LEMMA LimitInvStep == LimitInv /\ [LimitNext]_limitVars => LimitInv'
<1>. SUFFICES ASSUME LimitInv, [LimitNext]_limitVars PROVE LimitInv'
  OBVIOUS
<1>. USE DEF LimitInv
<1>1. CASE UNCHANGED limitVars
  BY <1>1 DEF limitVars, AtMostLimit
<1>2. ASSUME NEW a \in Attempts, NEW ids, BeginAttempt(a, ids)
      PROVE  LimitInv'
  <2>. DEFINE new == [of |-> ids, window |-> WindowAt(now)]
  <2>1. attempt' = [attempt EXCEPT ![a] = new] /\ new.window = WindowAt(now)
    BY <1>2 DEF BeginAttempt
  <2>2. UNCHANGED <<now, counts, doomed, allowed>>
    BY <1>2 DEF BeginAttempt
  <2>. HIDE DEF new
  <2>3. \A b \in Attempts : attempt'[b] # NoAttempt =>
          attempt'[b].window \in Nat /\ now <= ExpiresAt(attempt'[b].window)
    BY <2>1, WindowContains
  <2>. QED  BY <2>1, <2>2, <2>3 DEF AtMostLimit
<1>3. ASSUME NEW a \in Attempts, Consume(a)
      PROVE  LimitInv'
  <2>. DEFINE keys == {<<i, attempt[a].window>> : i \in attempt[a].of}
              after == [k \in Keys |-> IF k \in keys THEN Increment(counts[k]) ELSE counts[k]]
              passes == \A k \in keys : after[k] <= Limit
  <2>1. /\ attempt[a] # NoAttempt /\ counts' = after
        /\ allowed' = [k \in Keys |-> IF k \in keys /\ passes THEN allowed[k] + 1 ELSE allowed[k]]
        /\ attempt' = [attempt EXCEPT ![a] = NoAttempt]
        /\ UNCHANGED <<now, doomed>>
    BY <1>3 DEF Consume
  <2>2. ASSUME NEW k \in Keys
        PROVE  /\ counts'[k] \in Nat /\ allowed'[k] \in Nat /\ allowed'[k] <= Limit
               /\ now <= ExpiresAt(k[2]) => allowed'[k] <= counts'[k]
    <3>1. counts[k] \in Nat /\ allowed[k] \in Nat /\ allowed[k] <= Limit /\ Limit \in Nat
      BY LimitPositive DEF AtMostLimit
    <3>2. Increment(counts[k]) \in Nat /\ counts[k] <= Increment(counts[k])
      BY <3>1 DEF Increment
    <3>3. CASE k \in keys
      <4>1. now <= ExpiresAt(k[2])
        BY <2>1, <3>3
      <4>2. allowed[k] <= counts[k] /\ counts'[k] = Increment(counts[k])
        BY <2>1, <3>3, <4>1
      <4>3. CASE passes
        <5>1. Increment(counts[k]) <= Limit /\ allowed'[k] = allowed[k] + 1
          BY <2>1, <3>3, <4>3
        <5>2. Increment(counts[k]) = counts[k] + 1
          BY <3>1, <5>1 DEF Increment
        <5>. QED  BY <3>1, <4>2, <5>1, <5>2
      <4>4. CASE ~passes
        <5>1. allowed'[k] = allowed[k]
          BY <2>1, <4>4
        <5>. QED  BY <3>1, <3>2, <4>2, <5>1
      <4>. QED  BY <4>3, <4>4
    <3>4. CASE k \notin keys
      BY <2>1, <3>1, <3>4
    <3>. QED  BY <3>3, <3>4
  <2>3. counts' \in [Keys -> Nat] /\ allowed' \in [Keys -> Nat]
    <3>1. /\ counts' = [k \in Keys |-> counts'[k]]
          /\ allowed' = [k \in Keys |-> allowed'[k]]
      BY <2>1
    <3>. QED  BY <2>2, <3>1
  <2>. HIDE DEF keys, after, passes
  <2>4. AtMostLimit'
    BY <2>2 DEF AtMostLimit
  <2>. QED  BY <2>1, <2>2, <2>3, <2>4
<1>4. CASE SelectExpired
  <2>1. PICK batch \in SUBSET Expired \ {{}} : doomed' = batch
    BY <1>4 DEF SelectExpired
  <2>. QED  BY <1>4, <2>1 DEF SelectExpired, Expired, AtMostLimit
<1>5. CASE DeleteSelected
  <2>1. /\ counts' = counts \/ counts' = [k \in Keys |-> IF k \in doomed THEN 0 ELSE counts[k]]
        /\ doomed' = {} /\ UNCHANGED <<now, attempt, allowed>>
    BY <1>5 DEF DeleteSelected
  <2>2. ASSUME NEW k \in Keys, now <= ExpiresAt(k[2])
        PROVE  counts'[k] = counts[k]
    <3>1. k \notin doomed
      BY <2>2, WindowsAreTimes
    <3>. QED  BY <2>1, <3>1
  <2>3. counts' \in [Keys -> Nat]
    <3>1. [k \in Keys |-> IF k \in doomed THEN 0 ELSE counts[k]] \in [Keys -> Nat]
      OBVIOUS
    <3>. QED  BY <2>1, <3>1
  <2>. QED  BY <2>1, <2>2, <2>3 DEF AtMostLimit
<1>6. CASE Tick
  <2>1. now' = now + 1 /\ UNCHANGED <<counts, attempt, doomed, allowed>>
    BY <1>6 DEF Tick
  <2>2. \A k \in Keys : now' <= ExpiresAt(k[2]) => now <= ExpiresAt(k[2])
    BY <2>1, WindowsAreTimes
  <2>3. \A k \in doomed : ExpiresAt(k[2]) < now'
    BY <2>1, WindowsAreTimes
  <2>4. ASSUME NEW a \in Attempts, attempt[a] # NoAttempt
        PROVE  now' <= ExpiresAt(attempt[a].window)
    BY <1>6, <2>1, <2>4 DEF Tick, ExpiresAt, WindowTicks
  <2>. QED  BY <2>1, <2>2, <2>3, <2>4 DEF AtMostLimit
<1>. HIDE DEF LimitInv
<1>. QED  BY <1>1, <1>2, <1>3, <1>4, <1>5, <1>6 DEF LimitNext

\* No window lets more attempts through than its limit: not for attempts that
\* overlap, not at the turn of a window, not when counters are deleted.
THEOREM LimitsHold == LimitSpec => []AtMostLimit
<1>1. LimitInit => LimitInv
  <2>. SUFFICES ASSUME LimitInit PROVE LimitInv
    OBVIOUS
  <2>1. Limit \in Nat
    BY LimitPositive
  <2>. QED  BY <2>1 DEF LimitInit, LimitInv, AtMostLimit
<1>2. LimitInv => AtMostLimit
  BY DEF LimitInv
<1>. QED  BY <1>1, <1>2, LimitInvStep, PTL DEF LimitSpec

-----------------------------------------------------------------------------
(* Casework: records and their histories *)

Statuses ==
  {"none", "open", "under_review", "action_required", "coaching_scheduled", "resolved",
   "dismissed", "draft", "finalized", "published", "acknowledged", "scheduled", "completed"}

Move == [from : Statuses, to : Statuses]

Trails == Seq(Move) \cup Seq(Nat)

RecordType ==
  [kind : {"none", "case", "report", "shadowing"}, status : Statuses, closed : BOOLEAN,
   revision : Nat \ {0}, trail : Trails]

\* Events that lead from the creation of a case to its status.
Leads(trail, status) ==
  /\ trail \in Seq(Move) /\ Len(trail) >= 1
  /\ trail[1] = [from |-> "none", to |-> "open"]
  /\ \A i \in 2..Len(trail) : trail[i].from = trail[i - 1].to
  /\ trail[Len(trail)].to = status

\* The type of a record, and the history of it that HistoryComplete asks for.
Sound(r) ==
  /\ r \in RecordType
  /\ r.kind = "case" => Leads(r.trail, r.status) /\ r.closed = (r.status \in Closed)
  /\ r.kind = "report" => r.trail = [i \in 1..(r.revision - 1) |-> i]

\* A request that holds the lock of a record knows its status, and is alone.
CaseworkInv ==
  /\ DOMAIN record = Records /\ DOMAIN desk = Staff
  /\ \A x \in Records : Sound(record[x])
  /\ \A s \in Staff :
       desk[s] = AtRest \/ desk[s] \in [at : {"queued", "begun", "locked", "checked"},
                                       on : Records, to : Statuses, from : Statuses]
  /\ \A s \in Staff : desk[s].at \in {"locked", "checked"} =>
       /\ desk[s].from = record[desk[s].on].status
       /\ \A t \in Staff \ {s} :
            desk[t].at \in {"locked", "checked"} => desk[t].on # desk[s].on

LEMMA RequestedAreStatuses == Requested \subseteq Statuses
<1>1. Targets("case") \subseteq Statuses
  BY DEF Targets, Transitions, Statuses, Closed
<1>2. Targets("report") \subseteq Statuses
  BY DEF Targets, Transitions, Statuses
<1>3. Targets("shadowing") \subseteq Statuses
  BY DEF Targets, Transitions, Statuses
<1>4. DOMAIN Transitions = {"case", "report", "shadowing"}
  BY DEF Transitions
<1>. QED  BY <1>1, <1>2, <1>3, <1>4 DEF Requested

LEMMA AbsentIsSound ==
  /\ Absent \in RecordType /\ Absent.kind = "none" /\ Absent.closed = FALSE
  /\ Absent.revision = 1 /\ Absent.trail = <<>>
<1>1. <<>> \in Trails
  BY DEF Trails
<1>. QED  BY <1>1 DEF Absent, RecordType, Statuses

LEMMA NewRecords ==
  ASSUME NEW kind \in {"none", "report", "shadowing"}, NEW status \in Statuses
  PROVE  Sound([Absent EXCEPT !.kind = kind, !.status = status])
<1>. DEFINE r == [Absent EXCEPT !.kind = kind, !.status = status]
<1>1. r \in RecordType /\ r.kind = kind /\ r.revision = 1 /\ r.trail = <<>>
  BY AbsentIsSound DEF RecordType
<1>2. <<>> = [i \in 1..(1 - 1) |-> i]
  OBVIOUS
<1>3. Sound(r)
  <2>. HIDE DEF r
  <2>. QED  BY <1>1, <1>2 DEF Sound
<1>. QED  BY <1>3

LEMMA StoryGoesOn ==
  ASSUME NEW trail, NEW from \in Statuses, NEW to \in Statuses, Leads(trail, from)
  PROVE  Leads(Append(trail, [from |-> from, to |-> to]), to)
<1>. DEFINE e == [from |-> from, to |-> to]
            n == Len(trail)
            longer == Append(trail, e)
<1>1. /\ trail \in Seq(Move) /\ n \in Nat /\ n >= 1 /\ e \in Move
      /\ e.from = from /\ e.to = to
  BY DEF Leads, Move
<1>2. trail[n].to = from
  BY DEF Leads
<1>3. \A i \in 2..n : trail[i].from = trail[i - 1].to
  BY DEF Leads
<1>4. trail[1] = [from |-> "none", to |-> "open"]
  BY DEF Leads
<1>. HIDE DEF e
<1>5. /\ longer \in Seq(Move) /\ Len(longer) = n + 1
      /\ \A i \in 1..n : longer[i] = trail[i]
      /\ longer[n + 1] = e
  BY <1>1
<1>. HIDE DEF longer, n
<1>6. ASSUME NEW i \in 2..(n + 1)
      PROVE  longer[i].from = longer[i - 1].to
  <2>1. CASE i = n + 1
    <3>1. longer[i] = e /\ longer[i - 1] = trail[n]
      BY <1>1, <1>5, <2>1
    <3>. QED  BY <1>1, <1>2, <3>1
  <2>2. CASE i # n + 1
    <3>1. i \in 2..n /\ i \in 1..n /\ i - 1 \in 1..n
      BY <1>1, <2>2
    <3>2. longer[i] = trail[i] /\ longer[i - 1] = trail[i - 1]
      BY <1>5, <3>1
    <3>. QED  BY <1>3, <3>1, <3>2
  <2>. QED  BY <2>1, <2>2
<1>7. longer[1] = trail[1] /\ Len(longer) >= 1
  BY <1>1, <1>5
<1>8. longer[Len(longer)] = e
  BY <1>5
<1>. USE DEF longer
<1>. QED  BY <1>1, <1>4, <1>5, <1>6, <1>7, <1>8 DEF Leads, e

LEMMA MovedIsSound ==
  ASSUME NEW x \in Records, Sound(record[x]), NEW from, from = record[x].status,
         NEW to \in Statuses
  PROVE  Sound(Moved(x, from, to))
<1>. DEFINE r == record[x]
            trail == IF r.kind = "case" THEN Append(r.trail, [from |-> from, to |-> to]) ELSE r.trail
            ends == to \in Closed
            m == [r EXCEPT !.status = to, !.closed = ends, !.trail = trail]
<1>1. m = Moved(x, from, to)
  BY DEF Moved
<1>2. r \in RecordType /\ from \in Statuses
  BY DEF Sound, RecordType
<1>3. r.kind = "case" => Leads(trail, to)
  BY <1>2, StoryGoesOn DEF Sound
<1>4. trail \in Trails
  <2>1. CASE r.kind = "case"
    BY <1>3, <2>1 DEF Leads, Trails
  <2>2. CASE r.kind # "case"
    BY <1>2, <2>2 DEF RecordType
  <2>. QED  BY <2>1, <2>2
<1>5. ends \in BOOLEAN
  OBVIOUS
<1>6. r.kind = "report" => trail = [i \in 1..(r.revision - 1) |-> i]
  BY DEF Sound
<1>. HIDE DEF trail, ends
<1>7. ASSUME NEW t \in Trails, NEW c \in BOOLEAN
      PROVE  LET k == [r EXCEPT !.status = to, !.closed = c, !.trail = t]
             IN  /\ k \in RecordType /\ k.kind = r.kind /\ k.status = to /\ k.closed = c
                 /\ k.revision = r.revision /\ k.trail = t
  BY <1>2 DEF RecordType
<1>8. /\ m \in RecordType /\ m.kind = r.kind /\ m.status = to /\ m.closed = ends
      /\ m.revision = r.revision /\ m.trail = trail
  BY <1>4, <1>5, <1>7
<1>. HIDE DEF m, r
<1>9. m.closed = (m.status \in Closed)
  BY <1>8 DEF ends
<1>10. Sound(m)
  BY <1>3, <1>6, <1>8, <1>9 DEF Sound
<1>. QED  BY <1>1, <1>10

\* A record that nobody holds may change, if it stays sound.
LEMMA BriefKeepsInv ==
  ASSUME CaseworkInv, NEW x \in Records, NEW r, Sound(r),
         record' = [record EXCEPT ![x] = r], Briefly(x)
  PROVE  CaseworkInv'
<1>1. UNCHANGED desk /\ \A s \in Staff : desk[s].at \in {"locked", "checked"} => desk[s].on # x
  BY DEF Briefly, Locked
<1>2. DOMAIN record' = Records /\ \A y \in Records : Sound(record'[y])
  BY DEF CaseworkInv
<1>3. \A s \in Staff : desk[s].at \in {"locked", "checked"} =>
        record'[desk[s].on] = record[desk[s].on]
  BY <1>1 DEF CaseworkInv, AtRest
<1>. QED  BY <1>1, <1>2, <1>3 DEF CaseworkInv

\* A request that changes no record keeps the invariant as long as it does not
\* come to hold a record another one holds.
LEMMA DeskKeepsInv ==
  ASSUME CaseworkInv, NEW s \in Staff, NEW d, desk' = [desk EXCEPT ![s] = d], UNCHANGED record,
         d = AtRest \/ d \in [at : {"queued", "begun", "locked", "checked"},
                             on : Records, to : Statuses, from : Statuses],
         d.at \in {"locked", "checked"} =>
           /\ d.from = record[d.on].status
           /\ \A t \in Staff \ {s} :
                desk[t].at \in {"locked", "checked"} => desk[t].on # d.on
  PROVE  CaseworkInv'
<1>1. desk'[s] = d /\ \A t \in Staff \ {s} : desk'[t] = desk[t]
  BY DEF CaseworkInv
<1>. QED  BY <1>1 DEF CaseworkInv

LEMMA CaseworkInvStep == CaseworkInv /\ [CaseworkNext]_caseworkVars => CaseworkInv'
<1>. SUFFICES ASSUME CaseworkInv, [CaseworkNext]_caseworkVars PROVE CaseworkInv'
  OBVIOUS
<1>1. CASE UNCHANGED caseworkVars
  BY <1>1 DEF caseworkVars, CaseworkInv
<1>2. ASSUME NEW x \in Records, RaiseCase(x) \/ ScheduleShadowing(x) \/ DraftReport(x)
      PROVE  CaseworkInv'
  <2>1. CASE RaiseCase(x)
    <3>. DEFINE e == [from |-> "none", to |-> "open"]
                trail == <<e>>
                r == [Absent EXCEPT !.kind = "case", !.status = "open", !.trail = trail]
    <3>1. e \in Move /\ e.to = "open"
      BY DEF Move, Statuses
    <3>2. Leads(trail, "open")
      <4>. HIDE DEF e
      <4>1. <<e>> \in Seq(Move) /\ Len(<<e>>) = 1 /\ <<e>>[1] = e
        BY <3>1
      <4>. QED  BY <3>1, <4>1 DEF Leads, e
    <3>3. trail \in Trails /\ "open" \in Statuses /\ "open" \notin Closed
      BY <3>2 DEF Leads, Trails, Statuses, Closed
    <3>4. record' = [record EXCEPT ![x] = r] /\ Briefly(x)
      BY <2>1 DEF RaiseCase
    <3>5. Sound(r)
      <4>. HIDE DEF trail
      <4>1. /\ r \in RecordType /\ r.kind = "case" /\ r.status = "open"
            /\ r.closed = FALSE /\ r.trail = trail
        BY <3>3, AbsentIsSound DEF RecordType
      <4>. HIDE DEF r
      <4>2. FALSE = ("open" \in Closed)
        BY <3>3
      <4>3. r.closed = (r.status \in Closed)
        BY <4>1, <4>2, Zenon
      <4>. QED  BY <3>2, <4>1, <4>3 DEF Sound
    <3>. HIDE DEF r
    <3>. QED  BY <3>4, <3>5, BriefKeepsInv
  <2>2. CASE ScheduleShadowing(x)
    <3>. DEFINE r == [Absent EXCEPT !.kind = "shadowing", !.status = "scheduled"]
    <3>1. Sound(r)
      BY NewRecords DEF Statuses
    <3>2. record' = [record EXCEPT ![x] = r] /\ Briefly(x)
      BY <2>2 DEF ScheduleShadowing
    <3>. HIDE DEF r
    <3>. QED  BY <3>1, <3>2, BriefKeepsInv
  <2>3. CASE DraftReport(x)
    <3>. DEFINE r == [Absent EXCEPT !.kind = "report", !.status = "draft"]
    <3>1. Sound(r)
      BY NewRecords DEF Statuses
    <3>2. record' = [record EXCEPT ![x] = r] /\ Briefly(x)
      BY <2>3 DEF DraftReport
    <3>. HIDE DEF r
    <3>. QED  BY <3>1, <3>2, BriefKeepsInv
  <2>. QED  BY <1>2, <2>1, <2>2, <2>3
<1>3. ASSUME NEW x \in Records, ReviseReport(x)
      PROVE  CaseworkInv'
  <2>. DEFINE n == record[x].revision
              r == [record[x] EXCEPT !.revision = n + 1, !.trail = Append(record[x].trail, n)]
  <2>1. /\ Sound(record[x]) /\ n \in Nat \ {0} /\ record[x].trail = [i \in 1..(n - 1) |-> i]
    BY <1>3 DEF CaseworkInv, Sound, RecordType, ReviseReport
  <2>. DEFINE counted == [i \in 1..(n - 1) |-> i]
              longer == [i \in 1..n |-> i]
  <2>2. Append(counted, n) = longer /\ longer \in Seq(Nat)
    <3>1. counted \in Seq(Nat) /\ Len(counted) = n - 1
      BY <2>1
    <3>. QED  BY <2>1, <3>1
  <2>3. record[x] \in RecordType /\ record[x].kind = "report" /\ longer \in Trails
    BY <1>3, <2>1, <2>2 DEF Sound, ReviseReport, Trails
  <2>4. Append(record[x].trail, n) = longer /\ n + 1 \in Nat \ {0} /\ (n + 1) - 1 = n
    <3>. HIDE DEF longer
    <3>1. Append(record[x].trail, n) = longer
      <4>1. record[x].trail = counted
        BY <2>1
      <4>. HIDE DEF counted, n
      <4>. QED  BY <2>2, <4>1
    <3>2. n + 1 \in Nat \ {0} /\ (n + 1) - 1 = n
      <4>1. n \in Nat \ {0}
        BY <2>1
      <4>. HIDE DEF n
      <4>. QED  BY <4>1
    <3>. QED  BY <3>1, <3>2
  <2>. HIDE DEF longer, n
  <2>5. /\ r \in RecordType /\ r.kind = "report" /\ r.revision = n + 1 /\ r.trail = longer
    BY <2>3, <2>4 DEF RecordType
  <2>6. record' = [record EXCEPT ![x] = r] /\ Briefly(x)
    BY <1>3 DEF ReviseReport, CaseworkInv, n
  <2>. HIDE DEF r
  <2>7. Sound(r)
    BY <2>4, <2>5 DEF Sound, longer
  <2>. QED  BY <2>6, <2>7, BriefKeepsInv
<1>4. ASSUME NEW x \in Records, AcknowledgeReport(x)
      PROVE  CaseworkInv'
  <2>. DEFINE r == [record[x] EXCEPT !.status = "acknowledged"]
  <2>1. Sound(r)
    BY <1>4 DEF CaseworkInv, Sound, RecordType, AcknowledgeReport, Statuses
  <2>2. record' = [record EXCEPT ![x] = r] /\ Briefly(x)
    BY <1>4 DEF AcknowledgeReport, CaseworkInv
  <2>. QED  BY <2>1, <2>2, BriefKeepsInv
<1>5. ASSUME NEW s \in Staff, NEW x \in Records, NEW to \in Requested, AskFor(s, x, to)
      PROVE  CaseworkInv'
  <2>. DEFINE d == [at |-> "queued", on |-> x, to |-> to, from |-> "none"]
  <2>1. to \in Statuses
    BY RequestedAreStatuses
  <2>2. d \in [at : {"queued", "begun", "locked", "checked"},
               on : Records, to : Statuses, from : Statuses]
    BY <2>1 DEF Statuses
  <2>3. desk' = [desk EXCEPT ![s] = d] /\ UNCHANGED record /\ d.at = "queued"
    BY <1>5 DEF AskFor
  <2>. HIDE DEF d
  <2>. QED  BY <2>2, <2>3, DeskKeepsInv
<1>6. ASSUME NEW s \in Staff, Begin(s) \/ CheckScope(s)
      PROVE  CaseworkInv'
  <2>1. desk[s] \in [at : {"queued", "begun", "locked", "checked"},
                     on : Records, to : Statuses, from : Statuses]
    BY <1>6 DEF Begin, CheckScope, CaseworkInv, AtRest
  <2>2. CASE Begin(s)
    <3>. DEFINE d == [desk[s] EXCEPT !.at = "begun"]
    <3>1. /\ d \in [at : {"queued", "begun", "locked", "checked"},
                    on : Records, to : Statuses, from : Statuses]
          /\ d.at = "begun"
      BY <2>1
    <3>2. desk' = [desk EXCEPT ![s] = d] /\ UNCHANGED record
      BY <2>2 DEF Begin, CaseworkInv
    <3>. HIDE DEF d
    <3>. QED  BY <3>1, <3>2, DeskKeepsInv
  <2>3. CASE CheckScope(s)
    <3>. DEFINE d == [desk[s] EXCEPT !.at = "checked"]
    <3>1. /\ d \in [at : {"queued", "begun", "locked", "checked"},
                    on : Records, to : Statuses, from : Statuses]
          /\ d.at = "checked" /\ d.on = desk[s].on /\ d.from = desk[s].from
          /\ desk[s].at = "locked"
      BY <2>1, <2>3 DEF CheckScope
    <3>2. desk' = [desk EXCEPT ![s] = d] /\ UNCHANGED record
      BY <2>3 DEF CheckScope, CaseworkInv
    <3>. HIDE DEF d
    <3>3. /\ d.from = record[d.on].status
          /\ \A t \in Staff \ {s} : desk[t].at \in {"locked", "checked"} => desk[t].on # d.on
      BY <3>1 DEF CaseworkInv
    <3>. QED  BY <3>1, <3>2, <3>3, DeskKeepsInv
  <2>. QED  BY <1>6, <2>2, <2>3
<1>7. ASSUME NEW s \in Staff, Lock(s)
      PROVE  CaseworkInv'
  <2>. DEFINE d == [desk[s] EXCEPT !.at = "locked", !.from = record[desk[s].on].status]
  <2>1. desk[s] \in [at : {"queued", "begun", "locked", "checked"},
                     on : Records, to : Statuses, from : Statuses]
    BY <1>7 DEF Lock, CaseworkInv, AtRest
  <2>2. record[desk[s].on].status \in Statuses
    BY <2>1 DEF CaseworkInv, Sound, RecordType
  <2>3. /\ d \in [at : {"queued", "begun", "locked", "checked"},
                  on : Records, to : Statuses, from : Statuses]
        /\ d.on = desk[s].on /\ d.from = record[desk[s].on].status
    BY <2>1, <2>2
  <2>4. desk' = [desk EXCEPT ![s] = d] /\ UNCHANGED record
    BY <1>7 DEF Lock, CaseworkInv
  <2>5. \A t \in Staff \ {s} : desk[t].at \in {"locked", "checked"} => desk[t].on # d.on
    BY <1>7, <2>3 DEF Lock, Locked
  <2>. HIDE DEF d
  <2>. QED  BY <2>3, <2>4, <2>5, DeskKeepsInv
<1>8. ASSUME NEW s \in Staff, Refuse(s)
      PROVE  CaseworkInv'
  BY <1>8, DeskKeepsInv DEF Refuse, AtRest
<1>9. ASSUME NEW s \in Staff, Commit(s)
      PROVE  CaseworkInv'
  <2>. DEFINE d == desk[s]
              m == Moved(d.on, d.from, d.to)
  <2>1. /\ d.at = "checked" /\ record' = [record EXCEPT ![d.on] = m]
        /\ desk' = [desk EXCEPT ![s] = AtRest]
    BY <1>9 DEF Commit
  <2>2. d.on \in Records /\ d.to \in Statuses /\ d.from = record[d.on].status
    BY <2>1 DEF CaseworkInv, AtRest
  <2>3. Sound(m)
    BY <2>2, MovedIsSound DEF CaseworkInv
  <2>. HIDE DEF m
  <2>4. DOMAIN record' = Records /\ \A x \in Records : Sound(record'[x])
    BY <2>1, <2>3 DEF CaseworkInv
  <2>5. desk'[s] = AtRest /\ AtRest.at = "rest" /\ \A t \in Staff \ {s} : desk'[t] = desk[t]
    BY <2>1 DEF CaseworkInv, AtRest
  <2>6. ASSUME NEW t \in Staff \ {s}, desk[t].at \in {"locked", "checked"}
        PROVE  record'[desk[t].on] = record[desk[t].on]
    <3>1. desk[t].on # d.on /\ desk[t].on \in Records
      BY <2>1, <2>6 DEF CaseworkInv, AtRest
    <3>. QED  BY <2>1, <3>1 DEF CaseworkInv
  <2>7. DOMAIN desk' = Staff
    BY <2>1 DEF CaseworkInv
  <2>. HIDE DEF d
  <2>. QED  BY <2>4, <2>5, <2>6, <2>7 DEF CaseworkInv
<1>10. CASE Restart
  BY <1>10 DEF Restart, CaseworkInv, AtRest
<1>. QED
  BY <1>1, <1>2, <1>3, <1>4, <1>5, <1>6, <1>7, <1>8, <1>9, <1>10 DEF CaseworkNext

\* Whoever works on a record at the same time, its history tells how it came to
\* where it is.
THEOREM HistoriesAreComplete == CaseworkSpec => []HistoryComplete
<1>1. CaseworkInit => CaseworkInv
  <2>1. Sound(Absent)
    <3>1. <<>> = [i \in 1..(1 - 1) |-> i]
      OBVIOUS
    <3>. QED  BY <3>1, AbsentIsSound DEF Sound
  <2>. QED  BY <2>1 DEF CaseworkInit, CaseworkInv, AtRest
<1>2. CaseworkInv => HistoryComplete
  BY DEF CaseworkInv, Sound, Leads, HistoryComplete
<1>. QED  BY <1>1, <1>2, CaseworkInvStep, PTL DEF CaseworkSpec

-----------------------------------------------------------------------------
(* SourceCache: what is shown of the sheet *)

Reads == [edits : Nat, closed : BOOLEAN, fresh : BOOLEAN]
Fetches == [at : {"none", "sent", "read"}, edits : Nat, closed : BOOLEAN]

\* One fetch is under way at most, so that a read that has not expired is the
\* newest that was shown, and the one being fetched is no older.
SourceInv ==
  /\ sheet \in Nat /\ newest \in Nat /\ newest <= sheet
  /\ current \in Reads
  /\ current.fresh => current.edits = newest
  /\ fetch \in [Loads -> Fetches]
  /\ \A f \in Loads : fetch[f] # NoFetch => inFlight = f
  /\ \A f \in Loads : fetch[f].at = "read" => newest <= fetch[f].edits /\ fetch[f].edits <= sheet

LEMMA SourceInvStep == SourceInv /\ [SourceNext]_sourceVars => SourceInv'
<1>. SUFFICES ASSUME SourceInv, [SourceNext]_sourceVars PROVE SourceInv'
  OBVIOUS
<1>0. NoFetch \in Fetches /\ NoFetch.at = "none" /\ NoRead \in Reads /\ ~NoRead.fresh
  BY DEF NoFetch, Fetches, NoRead, Reads
<1>1. CASE UNCHANGED sourceVars
  BY <1>1 DEF SourceInv, sourceVars
<1>2. CASE Edit
  BY <1>2 DEF SourceInv, Edit, Fetches
<1>3. ASSUME NEW f \in Loads, ReadSheet(f)
      PROVE  SourceInv'
  <2>1. PICK valid \in BOOLEAN :
          fetch' = [fetch EXCEPT ![f] = [at |-> "read", edits |-> sheet, closed |-> valid]]
    BY <1>3 DEF ReadSheet
  <2>2. fetch' \in [Loads -> Fetches]
    BY <2>1 DEF SourceInv, Fetches
  <2>3. fetch[f] # NoFetch
    BY <1>0, <1>3 DEF ReadSheet
  <2>. QED  BY <1>3, <2>1, <2>2, <2>3 DEF SourceInv, ReadSheet
<1>4. ASSUME NEW l \in Loads, LoadCached(l)
      PROVE  SourceInv'
  BY <1>4 DEF SourceInv, LoadCached
<1>5. ASSUME NEW l \in Loads, LoadFetched(l)
      PROVE  SourceInv'
  <2>1. CASE inFlight # Nobody
    BY <1>5, <2>1 DEF SourceInv, LoadFetched
  <2>2. CASE inFlight = Nobody
    <3>. DEFINE new == [NoFetch EXCEPT !.at = "sent"]
    <3>1. \A f \in Loads : fetch[f] = NoFetch
      BY <2>2, NobodyLoads DEF SourceInv
    <3>2. fetch' = [fetch EXCEPT ![l] = new] /\ inFlight' = l
      BY <1>5, <2>2 DEF LoadFetched
    <3>3. new \in Fetches /\ new.at = "sent"
      BY DEF NoFetch, Fetches
    <3>4. UNCHANGED <<sheet, current, newest>>
      BY <1>5 DEF LoadFetched
    <3>. HIDE DEF new
    <3>. QED  BY <1>0, <3>1, <3>2, <3>3, <3>4 DEF SourceInv
  <2>. QED  BY <2>1, <2>2
<1>6. ASSUME NEW f \in Loads, FetchSucceeds(f)
      PROVE  SourceInv'
  <2>. DEFINE read == [edits |-> fetch[f].edits, closed |-> fetch[f].closed, fresh |-> TRUE]
  <2>1. /\ fetch[f].at = "read" /\ current' = read /\ newest' = fetch[f].edits
        /\ fetch' = [fetch EXCEPT ![f] = NoFetch] /\ UNCHANGED sheet
    BY <1>6 DEF FetchSucceeds, Settle
  <2>2. read \in Reads /\ read.edits = fetch[f].edits
    BY DEF SourceInv, Reads, Fetches
  <2>3. fetch[f] # NoFetch
    BY <1>0, <2>1
  <2>4. \A g \in Loads : fetch'[g] = NoFetch
    BY <2>1, <2>3 DEF SourceInv
  <2>5. newest' \in Nat /\ newest' <= sheet
    BY <2>1 DEF SourceInv, Fetches
  <2>. HIDE DEF read
  <2>. QED  BY <1>0, <2>1, <2>2, <2>4, <2>5 DEF SourceInv
<1>7. ASSUME NEW f \in Loads, FetchFails(f)
      PROVE  SourceInv'
  <2>1. fetch' = [fetch EXCEPT ![f] = NoFetch] /\ UNCHANGED <<sheet, current, newest>>
    BY <1>7 DEF FetchFails, Settle
  <2>2. \A g \in Loads : fetch'[g] = NoFetch
    BY <1>7, <2>1 DEF SourceInv, FetchFails
  <2>. QED  BY <1>0, <2>1, <2>2 DEF SourceInv
<1>8. CASE ExpireCurrent
  <2>1. current' \in Reads /\ ~current'.fresh
    BY <1>8 DEF SourceInv, ExpireCurrent, Reads
  <2>. QED  BY <1>8, <2>1 DEF SourceInv, ExpireCurrent
<1>9. CASE RestartProcess
  BY <1>0, <1>9 DEF SourceInv, RestartProcess
<1>. QED
  BY <1>1, <1>2, <1>3, <1>4, <1>5, <1>6, <1>7, <1>8, <1>9 DEF SourceNext

\* Requests may overlap, reads fail, expire or be refreshed and the process start
\* again: what is shown as current is never older than what was shown before.
THEOREM NothingOlderIsShown == SourceSpec => NeverBackwards
<1>1. SourceInit => SourceInv
  BY DEF SourceInit, SourceInv, NoRead, NoFetch, Reads, Fetches
<1>2. SourceInv /\ [SourceNext]_sourceVars => [newest <= newest']_newest
  <2>. SUFFICES ASSUME SourceInv, SourceNext, newest' # newest
                PROVE  newest <= newest'
    BY DEF sourceVars
  <2>1. ASSUME NEW l \in Loads, LoadCached(l)
        PROVE  newest <= newest'
    BY <2>1 DEF SourceInv, LoadCached
  <2>2. ASSUME NEW f \in Loads, FetchSucceeds(f)
        PROVE  newest <= newest'
    BY <2>2 DEF SourceInv, FetchSucceeds
  <2>3. ASSUME NEW l \in Loads, LoadFetched(l) \/ ReadSheet(l) \/ FetchFails(l)
        PROVE  newest' = newest
    BY <2>3 DEF LoadFetched, ReadSheet, FetchFails
  <2>4. ASSUME Edit \/ ExpireCurrent \/ RestartProcess
        PROVE  newest' = newest
    BY <2>4 DEF Edit, ExpireCurrent, RestartProcess
  <2>. QED  BY <2>1, <2>2, <2>3, <2>4 DEF SourceNext
<1>. QED  BY <1>1, <1>2, SourceInvStep, PTL DEF SourceSpec, NeverBackwards

-----------------------------------------------------------------------------
(* Purges: whom a purge may delete, it can delete *)

Sessions ==
  [creator : Persons \cup {NoProfile}, coach : Persons \cup {NoProfile},
   participants : SUBSET Persons, reports : SUBSET [agent : Persons, signers : SUBSET Persons]]

\* A session has participants, and reports about these only.
SessionOK(s) ==
  /\ s \in Sessions
  /\ s # NoSession => s.participants # {}
  /\ \A r \in s.reports : r.agent \in s.participants

\* What is stored about an upload is what can be counted in it.
UploadOK(upload) ==
  /\ upload = [staged |-> upload.staged, metrics |-> upload.metrics, unknown |-> upload.unknown,
               stored |-> upload.stored]
  /\ upload.stored = StoredAbout(upload.staged, upload.metrics, upload.unknown)

PurgeInv ==
  /\ \A row \in links : row = [table |-> row.table, names |-> row.names]
  /\ SessionOK(session)
  /\ UploadOK(imported)

\* No key is forgotten: where a profile must not be deleted while a column names
\* it, the row goes with its owner or the column is given another value.
LEMMA KeysAreTreated == Restricting \subseteq OwnerColumns \cup Reassigned \cup Cleared
<1>. DEFINE Treated(k) == k[3] = "restrict" => <<k[1], k[2]>> \in OwnerColumns \cup Reassigned \cup Cleared
<1>. USE DEF OwnerColumns, Reassigned
<1>1. \A k \in RosterKeys : Treated(k)
  BY DEF RosterKeys, Key, Cleared
<1>2. \A k \in UploadKeys : Treated(k)
  BY DEF UploadKeys, Key, Cleared
<1>3. \A k \in SettingKeys : Treated(k)
  BY DEF SettingKeys, Key, Cleared
<1>4. \A k \in CaseKeys : Treated(k)
  BY DEF CaseKeys, Key, Cleared
<1>5. \A k \in AuditKeys : Treated(k)
  BY DEF AuditKeys, Key, Cleared
<1>6. \A k \in CredentialKeys : Treated(k)
  <2>1. \A k \in Key("login", {"profile"}, "cascade") : Treated(k)
    BY DEF Key
  <2>2. \A t \in {"invitation", "reset"} :
          \A k \in Key(t, {"profile"}, "cascade") \cup Key(t, {"createdBy"}, "restrict") : Treated(k)
    BY DEF Key, Cleared
  <2>3. \A t \in {"attempt", "message"} : \A k \in Key(t, {"profile"}, "null") : Treated(k)
    BY DEF Key
  <2>. HIDE DEF Treated
  <2>. QED  BY <2>1, <2>2, <2>3 DEF CredentialKeys
<1>7. \A k \in OverrideKeys : Treated(k)
  BY DEF OverrideKeys, Key, Cleared
<1>8. \A k \in ProfileKeys : Treated(k)
  BY <1>1, <1>2, <1>3, <1>4, <1>5, <1>6, <1>7 DEF ProfileKeys
<1>. QED  BY <1>8 DEF Restricting, KeysThat

\* A row that stays keeps its table and whom else it names.
LEMMA RenamedRow ==
  ASSUME NEW row, row = [table |-> row.table, names |-> row.names], NEW users, NEW actor,
         NEW new, new = Renamed(row, users, actor)
  PROVE  /\ new = [table |-> new.table, names |-> new.names]
         /\ new.table = row.table
         /\ DOMAIN new.names = DOMAIN row.names
         /\ \A c \in DOMAIN row.names :
              new.names[c] = IF row.names[c] \in users /\ <<row.table, c>> \in Reassigned THEN actor
                             ELSE IF row.names[c] \in users /\ <<row.table, c>> \in Cleared \cup Nulled
                                  THEN NoProfile
                             ELSE row.names[c]
<1>. DEFINE value(c) ==
       IF row.names[c] \in users /\ <<row.table, c>> \in Reassigned THEN actor
       ELSE IF row.names[c] \in users /\ <<row.table, c>> \in Cleared \cup Nulled THEN NoProfile
       ELSE row.names[c]
<1>1. new = [row EXCEPT !.names = [c \in DOMAIN row.names |-> value(c)]]
  BY DEF Renamed
<1>. HIDE DEF value
<1>2. /\ new.table = row.table /\ new.names = [c \in DOMAIN row.names |-> value(c)]
      /\ new = [table |-> new.table, names |-> new.names]
  BY <1>1
<1>. QED  BY <1>2 DEF value

\* A row that nobody purged owns can stay.
LEMMA KeptRow ==
  ASSUME PurgeInv, NEW users \in SUBSET Persons, NEW actor \in Persons \ users,
         NEW row \in links, ~OwnedByAny(row, users), NEW new, new = Renamed(row, users, actor)
  PROVE  /\ new = [table |-> new.table, names |-> new.names]
         /\ new.table = row.table
         /\ \A c \in DOMAIN new.names : <<new.table, c>> \in Restricting => new.names[c] \notin users
<1>1. row = [table |-> row.table, names |-> row.names]
  BY DEF PurgeInv
<1>2. /\ new = [table |-> new.table, names |-> new.names]
      /\ new.table = row.table
      /\ DOMAIN new.names = DOMAIN row.names
      /\ \A c \in DOMAIN row.names :
           new.names[c] = IF row.names[c] \in users /\ <<row.table, c>> \in Reassigned THEN actor
                          ELSE IF row.names[c] \in users /\ <<row.table, c>> \in Cleared \cup Nulled
                               THEN NoProfile
                          ELSE row.names[c]
  BY <1>1, RenamedRow
<1>3. ASSUME NEW c \in DOMAIN new.names, <<new.table, c>> \in Restricting
      PROVE  new.names[c] \notin users
  <2>1. <<row.table, c>> \in OwnerColumns \cup Reassigned \cup Cleared
    BY <1>2, <1>3, KeysAreTreated
  <2>2. <<row.table, c>> \in OwnerColumns => row.names[c] \notin users
    BY <1>2, <1>3 DEF OwnedByAny
  <2>3. NoProfile \notin users /\ actor \notin users
    BY NoProfileIsNoPerson
  <2>. QED  BY <1>2, <1>3, <2>1, <2>2, <2>3
<1>. QED  BY <1>2, <1>3

LEMMA PurgedLinks ==
  ASSUME PurgeInv, NEW users \in SUBSET Persons, NEW actor \in Persons \ users,
         NEW row \in LinksAfter(users, actor)
  PROVE  /\ row = [table |-> row.table, names |-> row.names]
         /\ \A c \in DOMAIN row.names : <<row.table, c>> \in Restricting => row.names[c] \notin users
<1>1. PICK before \in links : ~OwnedByAny(before, users) /\ row = Renamed(before, users, actor)
  BY DEF LinksAfter
<1>. QED  BY <1>1, KeptRow

LEMMA PurgedSession ==
  ASSUME SessionOK(session), NEW users \in SUBSET Persons, NEW actor \in Persons \ users,
         NEW s, s = SessionAfter(users, actor)
  PROVE  /\ SessionOK(s)
         /\ ~SessionRestricted(users)
         /\ (s.participants \cup {s.creator, s.coach} \cup {r.agent : r \in s.reports}
               \cup UNION {r.signers : r \in s.reports}) \cap users = {}
<1>. DEFINE left == session.participants \ users
            written == {r \in session.reports : r.agent \notin users}
            reports == {ReportRenamed(r, users, actor) : r \in written}
            kept == [session EXCEPT !.participants = left, !.reports = reports]
            gone == SessionOwned(users) \/ (left = {} /\ session.participants # {})
<1>1. s = IF gone THEN NoSession ELSE kept
  BY DEF SessionAfter
<1>2. /\ NoSession \in Sessions /\ NoSession.participants = {} /\ NoSession.reports = {}
      /\ NoSession.creator = NoProfile /\ NoSession.coach = NoProfile
  BY DEF NoSession, Sessions
<1>3. ASSUME NEW r \in written
      PROVE  LET new == ReportRenamed(r, users, actor)
             IN  /\ new \in [agent : Persons, signers : SUBSET Persons]
                 /\ new.agent = r.agent /\ new.agent \in left
                 /\ new.signers \cap users = {}
  BY DEF SessionOK, Sessions, ReportRenamed, Report
<1>4. reports \in SUBSET [agent : Persons, signers : SUBSET Persons]
  BY <1>3
<1>5. \A r \in reports : r.agent \in left /\ r.signers \cap users = {}
  BY <1>3
<1>. HIDE DEF reports, left
<1>6. /\ kept \in Sessions
      /\ kept.participants = left /\ kept.reports = reports
      /\ kept.creator = session.creator /\ kept.coach = session.coach
  <2>1. left \in SUBSET Persons
    BY DEF left, SessionOK, Sessions
  <2>. QED  BY <1>4, <2>1 DEF SessionOK, Sessions
<1>7. NoProfile \notin users
  BY NoProfileIsNoPerson
<1>8. ~SessionRestricted(users)
  <2>. SUFFICES ASSUME SessionRestricted(users) PROVE FALSE
    OBVIOUS
  <2>1. PICK r \in session.reports : r.agent \notin users
    BY DEF SessionRestricted
  <2>2. r.agent \in left
    BY <2>1 DEF SessionOK, Sessions, left
  <2>3. PICK others : SessionAfter(users, NoProfile) =
                        [session EXCEPT !.participants = left, !.reports = others]
    BY <2>2 DEF SessionAfter, SessionRestricted, left
  <2>4. SessionAfter(users, NoProfile).participants = left
    BY <2>3 DEF SessionOK, Sessions
  <2>. QED  BY <1>2, <2>2, <2>4 DEF SessionRestricted
<1>9. CASE gone
  <2>1. s = NoSession
    BY <1>1, <1>9
  <2>2. SessionOK(NoSession)
    BY <1>2 DEF SessionOK
  <2>. HIDE DEF gone, kept
  <2>. QED  BY <1>2, <1>7, <1>8, <2>1, <2>2
<1>10. CASE ~gone
  <2>1. s = kept
    BY <1>1, <1>10
  <2>2. session.creator \notin users /\ session.coach \notin users
    BY <1>10 DEF SessionOwned
  <2>3. session.participants # {} => left # {}
    BY <1>10
  <2>4. session = NoSession => kept = NoSession
    <3>1. session = NoSession => left = {} /\ reports = {}
      BY <1>2 DEF left, reports
    <3>. HIDE DEF kept
    <3>. QED  BY <1>2, <1>6, <3>1 DEF NoSession, Sessions
  <2>. HIDE DEF gone, kept
  <2>5. SessionOK(s)
    BY <1>5, <1>6, <2>1, <2>3, <2>4 DEF SessionOK
  <2>6. (s.participants \cup {s.creator, s.coach}) \cap users = {}
    BY <1>6, <2>1, <2>2 DEF left
  <2>7. \A r \in s.reports : r.agent \notin users /\ r.signers \cap users = {}
    BY <1>5, <1>6, <2>1 DEF left
  <2>. QED  BY <1>8, <2>5, <2>6, <2>7
<1>. QED  BY <1>9, <1>10

\* Once rows are gone, there are none of a purged user, and the rest was counted.
LEMMA PurgedUpload ==
  ASSUME UploadOK(imported), NEW users \in SUBSET Persons
  PROVE  /\ UploadOK(UploadAfter(users))
         /\ \A p \in users : ~(UploadAfter(users).staged[p] > 0 \/ UploadAfter(users).metrics[p] > 0)
<1>1. CASE ~Touched(users)
  BY <1>1 DEF UploadAfter, Touched
<1>2. CASE Touched(users)
  <2>. DEFINE staged == [p \in Persons |-> IF p \in users THEN 0 ELSE imported.staged[p]]
              metrics == [p \in Persons |-> IF p \in users THEN 0 ELSE imported.metrics[p]]
  <2>1. UploadAfter(users) = [staged |-> staged, metrics |-> metrics, unknown |-> imported.unknown,
                             stored |-> StoredAbout(staged, metrics, imported.unknown)]
    BY <1>2 DEF UploadAfter
  <2>2. \A p \in users : ~(staged[p] > 0) /\ ~(metrics[p] > 0)
    OBVIOUS
  <2>. HIDE DEF staged, metrics
  <2>. QED  BY <2>1, <2>2 DEF UploadOK
<1>. QED  BY <1>1, <1>2

\* Nothing stands in the way of a purge that is permitted.
LEMMA PermittedPurge ==
  ASSUME PurgeInv, NEW actor \in AdminPersons, NEW users \in SUBSET Persons, Permitted(actor, users)
  PROVE  ~KeysRefuse(users, actor)
<1>1. actor \in Persons \ users
  BY DEF Permitted, AdminPersons
<1>2. \A row \in LinksAfter(users, actor) : \A c \in DOMAIN row.names :
        <<row.table, c>> \in Restricting => row.names[c] \notin users
  BY <1>1, PurgedLinks
<1>3. ~SessionRestricted(users)
  BY <1>1, PurgedSession DEF PurgeInv
<1>4. LET s == SessionAfter(users, actor)
      IN  (s.participants \cup {s.creator, s.coach} \cup {r.agent : r \in s.reports}
             \cup UNION {r.signers : r \in s.reports}) \cap users = {}
  BY <1>1, PurgedSession DEF PurgeInv
<1>5. \A p \in users : ~(UploadAfter(users).staged[p] > 0 \/ UploadAfter(users).metrics[p] > 0)
  BY PurgedUpload DEF PurgeInv
<1>. QED  BY <1>2, <1>3, <1>4, <1>5 DEF KeysRefuse

LEMMA PurgeInvStep == PurgeInv /\ [PurgeNext]_purgeVars => PurgeInv'
<1>. SUFFICES ASSUME PurgeInv, [PurgeNext]_purgeVars PROVE PurgeInv'
  OBVIOUS
<1>1. ASSUME UNCHANGED session
      PROVE  SessionOK(session)'
  BY <1>1 DEF PurgeInv, SessionOK
<1>2. ASSUME UNCHANGED imported
      PROVE  UploadOK(imported)'
  BY <1>2 DEF PurgeInv, UploadOK
<1>3. ASSUME links' \subseteq links, UNCHANGED <<session, imported>>
      PROVE  PurgeInv'
  BY <1>1, <1>2, <1>3 DEF PurgeInv
<1>4. ASSUME NEW actor \in Persons, NEW users, Purge(actor, users)
      PROVE  PurgeInv'
  <2>1. /\ users \in SUBSET Persons /\ actor \in Persons \ users
        /\ links' = LinksAfter(users, actor)
        /\ session' = SessionAfter(users, actor) /\ imported' = UploadAfter(users)
    BY <1>4 DEF Purge, Permitted, Existing
  <2>2. \A row \in links' : row = [table |-> row.table, names |-> row.names]
    BY <2>1, PurgedLinks
  <2>3. SessionOK(session')
    BY <2>1, PurgedSession DEF PurgeInv
  <2>4. UploadOK(imported')
    BY <2>1, PurgedUpload DEF PurgeInv
  <2>. QED  BY <2>2, <2>3, <2>4 DEF PurgeInv, SessionOK, UploadOK
<1>5. ASSUME NEW actor \in Persons, PurgeLegacy(actor) \/ \E users \in SUBSET Persons : PurgeUsers(actor, users)
      PROVE  PurgeInv'
  BY <1>4, <1>5 DEF PurgeLegacy, PurgeUsers
<1>6. CASE UNCHANGED purgeVars \/ InspectLegacy \/ ConfirmLegacy
  BY <1>3, <1>6 DEF purgeVars, InspectLegacy, ConfirmLegacy
<1>7. ASSUME ScrubTestUsers \/ \E users \in SUBSET Persons : SelectTestUsers(users)
      PROVE  PurgeInv'
  BY <1>3, <1>7 DEF ScrubTestUsers, SelectTestUsers
<1>8. ASSUME NEW p \in Persons, ResetUsers(p) \/ JoinSquad(p) \/ InspectTeam(p)
      PROVE  PurgeInv'
  BY <1>3, <1>8 DEF ResetUsers, JoinSquad, InspectTeam
<1>9. CASE ReviewTeam \/ ConfirmTeam \/ ArchiveTeam
  BY <1>3, <1>9 DEF ReviewTeam, ConfirmTeam, ArchiveTeam
<1>10. ASSUME NEW row \in Link, RecordLink(row)
       PROVE  PurgeInv'
  <2>1. PICK t \in Tables : row \in LinksOf(t)
    BY DEF Link
  <2>2. row = [table |-> row.table, names |-> row.names]
    BY <2>1 DEF LinksOf
  <2>. QED  BY <1>1, <1>2, <1>10, <2>2 DEF PurgeInv, RecordLink
<1>11. ASSUME NEW creator \in Persons, NEW coach \in Persons, NEW participants \in SUBSET Persons,
              HoldSession(creator, coach, participants)
       PROVE  PurgeInv'
  <2>1. SessionOK(session')
    BY <1>11 DEF HoldSession, SessionOK, Sessions
  <2>. QED  BY <1>2, <1>11, <2>1 DEF PurgeInv, SessionOK, HoldSession
<1>12. ASSUME NEW agent \in Persons, NEW signer \in Persons, SignReport(agent, signer)
       PROVE  PurgeInv'
  <2>. DEFINE written == {r \in session.reports : r.agent = agent}
              new == Report(agent, {signer} \cup UNION {r.signers : r \in written})
              reports == (session.reports \ written) \cup {new}
  <2>1. session' = [session EXCEPT !.reports = reports] /\ agent \in session.participants
    BY <1>12 DEF SignReport
  <2>2. new \in [agent : Persons, signers : SUBSET Persons] /\ new.agent = agent
    BY DEF PurgeInv, SessionOK, Sessions, Report
  <2>3. reports \in SUBSET [agent : Persons, signers : SUBSET Persons]
    BY <2>2 DEF PurgeInv, SessionOK, Sessions
  <2>4. \A r \in reports : r.agent \in session.participants
    BY <2>1, <2>2 DEF PurgeInv, SessionOK
  <2>. HIDE DEF reports
  <2>5. session' \in Sessions /\ session'.participants = session.participants /\ session'.reports = reports
    BY <2>1, <2>3 DEF PurgeInv, SessionOK, Sessions
  <2>6. SessionOK(session')
    BY <2>1, <2>4, <2>5 DEF SessionOK
  <2>. QED  BY <1>2, <1>12, <2>6 DEF PurgeInv, SessionOK, SignReport
<1>13. ASSUME NEW agents \in SUBSET Persons, NEW unknown \in 0..1, StoreUpload(agents, unknown)
       PROVE  PurgeInv'
  <2>1. UploadOK(imported')
    BY <1>13 DEF StoreUpload, UploadOK
  <2>. QED  BY <1>1, <1>13, <2>1 DEF PurgeInv, UploadOK, StoreUpload
<1>. QED
  BY <1>5, <1>6, <1>7, <1>8, <1>9, <1>10, <1>11, <1>12, <1>13 DEF PurgeNext

\* Whatever rows name a profile, and whatever was purged, scrubbed or reset before:
\* a permitted purge is refused by no foreign key, leaves what others own and
\* counts again what is left of an upload.
THEOREM PermittedPurgesCommit == PurgeSpec => []PurgesCommit
<1>1. PurgeInit => PurgeInv
  <2>1. SessionOK(NoSession)
    BY DEF SessionOK, NoSession, Sessions
  <2>2. UploadOK(NoUpload)
    BY DEF UploadOK, NoUpload
  <2>. QED  BY <2>1, <2>2 DEF PurgeInit, PurgeInv
<1>2. PurgeInv => PurgesCommit
  <2>. SUFFICES ASSUME PurgeInv, NEW actor \in AdminPersons, NEW users \in SUBSET Persons,
                       Permitted(actor, users)
                PROVE  /\ ~KeysRefuse(users, actor)
                       /\ LET s == SessionAfter(users, actor)
                          IN  s # NoSession => s.participants # {} /\ {r.agent : r \in s.reports} \subseteq s.participants
                       /\ \A row \in links :
                            ~OwnedByAny(row, users) =>
                              \E kept \in LinksAfter(users, actor) :
                                /\ kept.table = row.table
                                /\ \A c \in DOMAIN row.names :
                                     row.names[c] \notin users => kept.names[c] = row.names[c]
                       /\ LET after == UploadAfter(users)
                          IN  after.stored = StoredAbout(after.staged, after.metrics, after.unknown)
    BY DEF PurgesCommit
  <2>1. actor \in Persons \ users
    BY DEF Permitted, AdminPersons
  <2>2. SessionOK(SessionAfter(users, actor))
    BY <2>1, PurgedSession DEF PurgeInv
  <2>3. UploadOK(UploadAfter(users))
    BY PurgedUpload DEF PurgeInv
  <2>4. ~KeysRefuse(users, actor)
    BY PermittedPurge
  <2>5. ASSUME NEW row \in links, ~OwnedByAny(row, users)
        PROVE  \E kept \in LinksAfter(users, actor) :
                 /\ kept.table = row.table
                 /\ \A c \in DOMAIN row.names : row.names[c] \notin users => kept.names[c] = row.names[c]
    <3>0. PICK new : new = Renamed(row, users, actor)
      OBVIOUS
    <3>1. new \in LinksAfter(users, actor)
      BY <2>5, <3>0 DEF LinksAfter
    <3>2. /\ new.table = row.table
          /\ \A c \in DOMAIN row.names : row.names[c] \notin users => new.names[c] = row.names[c]
      <4>1. row = [table |-> row.table, names |-> row.names]
        BY DEF PurgeInv
      <4>2. new.table = row.table
        BY <3>0, <4>1, RenamedRow
      <4>3. ASSUME NEW c \in DOMAIN row.names, row.names[c] \notin users
            PROVE  new.names[c] = row.names[c]
        BY <3>0, <4>1, <4>3 DEF Renamed
      <4>. QED  BY <4>2, <4>3
    <3>. QED  BY <3>1, <3>2
  <2>6. SessionAfter(users, actor) # NoSession =>
          /\ SessionAfter(users, actor).participants # {}
          /\ {r.agent : r \in SessionAfter(users, actor).reports} \subseteq SessionAfter(users, actor).participants
    BY <2>2 DEF SessionOK
  <2>. QED  BY <2>3, <2>4, <2>5, <2>6 DEF UploadOK
<1>. QED  BY <1>1, <1>2, PurgeInvStep, PTL DEF PurgeSpec

-----------------------------------------------------------------------------
(* Calendar: instants, wall times and nights *)

LEMMA Wall ==
  ASSUME NEW i \in Int
  PROVE  /\ DateAt(i) \in Int /\ HourAt(i) \in 0..23
         /\ WallTime(i) = 24 * DateAt(i) + HourAt(i)
         /\ WallTime(i) \in {i + 2, i + 3}
         /\ WallTime(i) = i + 3 <=> Forward <= i /\ i < Backward
<1>1. WallTime(i) \in {i + 2, i + 3} /\ (WallTime(i) = i + 3 <=> Forward <= i /\ i < Backward)
  BY DEF WallTime, Offset
<1>. DEFINE w == WallTime(i)
<1>2. w \in Int
  BY <1>1
<1>. HIDE DEF w
<1>3. w \div 24 \in Int /\ w % 24 \in 0..23 /\ w = 24 * (w \div 24) + (w % 24)
  BY <1>2
<1>. QED  BY <1>1, <1>3 DEF w, DateAt, HourAt, HoursOfDay

\* The days at whose midnights the offset changes.
LEMMA Changes ==
  \E q, p \in Int : /\ Forward = 24 * q - 2 /\ Backward = 24 * p - 3 /\ q < p
                    /\ (Forward + 2) \div HoursOfDay = q
<1>. DEFINE f == Forward + 2
            b == Backward + 3
            q == f \div 24
            p == b \div 24
<1>1. f \in Int /\ b \in Int /\ f % 24 = 0 /\ b % 24 = 0
  BY OffsetsChangeAtMidnight DEF HoursOfDay
<1>2. q \in Int /\ f = 24 * q
  <2>. HIDE DEF f
  <2>. QED  BY <1>1
<1>3. p \in Int /\ b = 24 * p
  <2>. HIDE DEF b
  <2>. QED  BY <1>1
<1>4. q < p
  <2>. HIDE DEF q, p
  <2>. QED  BY <1>2, <1>3, OffsetsChangeAtMidnight
<1>. QED  BY <1>2, <1>3, <1>4, OffsetsChangeAtMidnight DEF HoursOfDay

LEMMA WallsInOrder ==
  ASSUME NEW i \in Int, NEW j \in Int, i < j
  PROVE  WallTime(i) <= WallTime(j)
BY Wall

\* The shift that is over at an instant.
LEMMA LastShiftIs ==
  ASSUME NEW i \in Int
  PROVE  LET end == LastCompletedShift(i).end
         IN  /\ end \in Int
             /\ LastCompletedShift(i) = [start |-> end - 1, end |-> end]
             /\ 24 * end + 6 <= WallTime(i) /\ WallTime(i) < 24 * end + 30
             /\ ReportingDate(i) = end
<1>. DEFINE d == DateAt(i)
            h == HourAt(i)
            end == IF h >= 6 THEN d ELSE d - 1
<1>1. d \in Int /\ h \in 0..23 /\ WallTime(i) = 24 * d + h
  BY Wall
<1>2. LastCompletedShift(i) = [start |-> end - 1, end |-> end]
  BY DEF LastCompletedShift, ShiftEnd
<1>3. ReportingDate(i) = end
  BY <1>1 DEF ReportingDate, ShiftEnd
<1>. HIDE DEF d, h
<1>4. end \in Int /\ 24 * end + 6 <= WallTime(i) /\ WallTime(i) < 24 * end + 30
  BY <1>1
<1>. HIDE DEF end
<1>. QED  BY <1>2, <1>3, <1>4

LEMMA InShiftIs ==
  ASSUME NEW i \in Int, NEW k \in Int
  PROVE  InShift(i, [start |-> k - 1, end |-> k]) <=> 24 * k - 8 <= WallTime(i) /\ WallTime(i) < 24 * k + 6
<1>. DEFINE d == DateAt(i)
            h == HourAt(i)
<1>1. d \in Int /\ h \in 0..23 /\ WallTime(i) = 24 * d + h
  BY Wall
<1>2. InShift(i, [start |-> k - 1, end |-> k]) <=> (d = k - 1 /\ h >= 16) \/ (d = k /\ h < 6)
  BY DEF InShift, ShiftStart, ShiftEnd
<1>. HIDE DEF d, h
<1>3. (d = k - 1 /\ h >= 16) \/ (d = k /\ h < 6) <=> 24 * k - 8 <= WallTime(i) /\ WallTime(i) < 24 * k + 6
  BY <1>1
<1>. QED  BY <1>2, <1>3

\* The first hour of a night.
LEMMA NightBegins ==
  ASSUME NEW k \in Int
  PROVE  \E began \in Int : WallTime(began) = 24 * k - 8 /\ WallTime(began - 1) = 24 * k - 9
<1>. DEFINE c == 24 * k - 11
            began == IF Forward <= c /\ c < Backward THEN c ELSE c + 1
<1>1. PICK q, p \in Int : Forward = 24 * q - 2 /\ Backward = 24 * p - 3 /\ q < p
  BY Changes
<1>2. began \in Int /\ WallTime(began) = 24 * k - 8 /\ WallTime(began - 1) = 24 * k - 9
  BY <1>1 DEF WallTime, Offset
<1>. QED  BY <1>2

\* The hour in which the last completed shift changes.
LEMMA NightEnds ==
  ASSUME NEW i \in Int, NEW j \in Int, j = i + 1, LastCompletedShift(j) # LastCompletedShift(i)
  PROVE  LET k == LastCompletedShift(j).end
         IN  /\ LastCompletedShift(i).end = k - 1
             /\ WallTime(i) = 24 * k + 5 /\ WallTime(j) = 24 * k + 6
<1>. DEFINE k == LastCompletedShift(j).end
            n == LastCompletedShift(i).end
<1>1. PICK q, p \in Int : Forward = 24 * q - 2 /\ Backward = 24 * p - 3 /\ q < p
  BY Changes
<1>2. /\ n \in Int /\ LastCompletedShift(i) = [start |-> n - 1, end |-> n]
      /\ 24 * n + 6 <= WallTime(i) /\ WallTime(i) < 24 * n + 30
  BY LastShiftIs
<1>3. /\ k \in Int /\ LastCompletedShift(j) = [start |-> k - 1, end |-> k]
      /\ 24 * k + 6 <= WallTime(j) /\ WallTime(j) < 24 * k + 30
  BY LastShiftIs
<1>. HIDE DEF k, n
<1>4. k # n
  BY <1>2, <1>3
<1>5. /\ WallTime(i) = IF Forward <= i /\ i < Backward THEN i + 3 ELSE i + 2
      /\ WallTime(j) = IF Forward <= j /\ j < Backward THEN j + 3 ELSE j + 2
  BY DEF WallTime, Offset
<1>6. n = k - 1 /\ WallTime(i) = 24 * k + 5 /\ WallTime(j) = 24 * k + 6
  BY <1>1, <1>2, <1>3, <1>4, <1>5, SMTT(60)
<1>. QED  BY <1>6 DEF k, n

\* The hours of the night that has ended.
LEMMA NightIs ==
  ASSUME NEW i \in Int, NEW j \in Int, j = i + 1, LastCompletedShift(j) # LastCompletedShift(i)
  PROVE  LET next == LastCompletedShift(j)
             night == {x \in i - HoursOfDay..j : InShift(x, next)}
         IN  \E began \in night : /\ night = began..i
                                  /\ WallTime(began) = 24 * next.end - 8
<1>. DEFINE next == LastCompletedShift(j)
            k == next.end
            night == {x \in i - HoursOfDay..j : InShift(x, next)}
<1>1. k \in Int /\ next = [start |-> k - 1, end |-> k]
  BY LastShiftIs
<1>2. WallTime(i) = 24 * k + 5 /\ WallTime(j) = 24 * k + 6
  BY NightEnds
<1>. HIDE DEF next, k
<1>3. PICK began \in Int : WallTime(began) = 24 * k - 8 /\ WallTime(began - 1) = 24 * k - 9
  BY <1>1, NightBegins
<1>4. \A x \in Int : InShift(x, next) <=> 24 * k - 8 <= WallTime(x) /\ WallTime(x) < 24 * k + 6
  BY <1>1, InShiftIs
<1>5. \A x \in Int : 24 * k - 8 <= WallTime(x) <=> began <= x
  <2>. SUFFICES ASSUME NEW x \in Int PROVE 24 * k - 8 <= WallTime(x) <=> began <= x
    OBVIOUS
  <2>0. WallTime(x) \in Int
    BY Wall
  <2>1. x > began => WallTime(x) >= WallTime(began)
    BY WallsInOrder
  <2>2. x < began - 1 => WallTime(x) <= WallTime(began - 1)
    BY WallsInOrder
  <2>. QED  BY <1>1, <1>3, <2>0, <2>1, <2>2
<1>6. \A x \in Int : WallTime(x) < 24 * k + 6 <=> x <= i
  <2>. SUFFICES ASSUME NEW x \in Int PROVE WallTime(x) < 24 * k + 6 <=> x <= i
    OBVIOUS
  <2>0. WallTime(x) \in Int
    BY Wall
  <2>1. x > j => WallTime(x) >= WallTime(j)
    BY WallsInOrder
  <2>2. x < i => WallTime(x) <= WallTime(i)
    BY WallsInOrder
  <2>. QED  BY <1>1, <1>2, <2>0, <2>1, <2>2
<1>7. i - HoursOfDay <= began /\ began <= i
  <2>1. WallTime(i) \in {i + 2, i + 3} /\ WallTime(began) \in {began + 2, began + 3}
    BY Wall
  <2>. QED  BY <1>1, <1>2, <1>3, <2>1 DEF HoursOfDay
<1>8. \A x : x \in night <=> x \in began..i
  BY <1>4, <1>5, <1>6, <1>7 DEF HoursOfDay
<1>9. night = began..i /\ began \in night
  <2>. DEFINE hours == began..i
  <2>1. began \in hours
    BY <1>7
  <2>. HIDE DEF night, hours
  <2>2. \A x : x \in night <=> x \in hours
    BY <1>8 DEF hours
  <2>. QED  BY <2>1, <2>2, Zenon DEF hours
<1>. QED  BY <1>3, <1>9 DEF next, k

\* It has the fourteen hours of the clock that are expected, unless one was skipped.
LEMMA NightIsWhole ==
  ASSUME NEW k \in Int, NEW i \in Int, NEW began \in Int, began <= i,
         WallTime(began) = 24 * k - 8, WallTime(i) = 24 * k + 5, WallTime(i + 1) = 24 * k + 6,
         Forward \notin began..i
  PROVE  Cardinality({<<DateAt(x), HourAt(x)>> : x \in began..i}) = ShiftHours
<1>. DEFINE walls == 24 * k - 8..24 * k + 5
            g == [w \in walls |-> <<w \div 24, w % 24>>]
            hours == {<<DateAt(x), HourAt(x)>> : x \in began..i}
<1>1. \A x \in Int : DateAt(x) = WallTime(x) \div 24 /\ HourAt(x) = WallTime(x) % 24
  BY DEF DateAt, HourAt, HoursOfDay
<1>2. \A x \in began..i : WallTime(x) \in walls
  <2>. SUFFICES ASSUME NEW x \in began..i PROVE WallTime(x) \in walls
    OBVIOUS
  <2>0. WallTime(x) \in Int
    BY Wall
  <2>1. x > began => WallTime(x) >= WallTime(began)
    BY WallsInOrder
  <2>2. x < i => WallTime(x) <= WallTime(i)
    BY WallsInOrder
  <2>. QED  BY <2>0, <2>1, <2>2
<1>3. ASSUME NEW w \in walls
      PROVE  \E x \in began..i : WallTime(x) = w
  <2>1. /\ w \in Int /\ 24 * k - 8 <= w /\ w <= 24 * k + 5
        /\ Forward < began \/ Forward > i
    BY OffsetsChangeAtMidnight
  <2>2. \A x \in Int : WallTime(x) = IF Forward <= x /\ x < Backward THEN x + 3 ELSE x + 2
    BY DEF WallTime, Offset
  <2>3. /\ 24 * k - 8 = IF Forward <= began /\ began < Backward THEN began + 3 ELSE began + 2
        /\ 24 * k + 5 = IF Forward <= i /\ i < Backward THEN i + 3 ELSE i + 2
        /\ 24 * k + 6 = IF Forward <= i + 1 /\ i + 1 < Backward THEN i + 4 ELSE i + 3
    BY <2>2
  <2>4. CASE Forward <= w - 3 /\ w - 3 < Backward
    <3>1. WallTime(w - 3) = w
      BY <2>1, <2>2, <2>4
    <3>2. PICK q, p \in Int : Forward = 24 * q - 2 /\ Backward = 24 * p - 3 /\ q < p
      BY Changes
    <3>3. began <= w - 3
      <4>1. began # Backward
        BY <2>3, <3>2
      <4>. QED  BY <2>1, <2>3, <2>4, <4>1, OffsetsChangeAtMidnight
    <3>4. w - 3 <= i
      BY <2>1, <2>3, <2>4, OffsetsChangeAtMidnight
    <3>. QED  BY <2>1, <3>1, <3>3, <3>4
  <2>5. CASE ~(Forward <= w - 3 /\ w - 3 < Backward)
    <3>1. ~(Forward <= w - 2 /\ w - 2 < Backward)
      <4>. SUFFICES ASSUME Forward = w - 2 PROVE FALSE
        BY <2>1, <2>5, OffsetsChangeAtMidnight
      <4>1. CASE Forward < began
        BY <2>1, <2>3, <4>1, OffsetsChangeAtMidnight
      <4>2. CASE Forward > i
        BY <2>1, <2>3, <4>2, OffsetsChangeAtMidnight
      <4>. QED  BY <2>1, <4>1, <4>2
    <3>2. WallTime(w - 2) = w
      BY <2>1, <2>2, <3>1
    <3>3. began <= w - 2 /\ w - 2 <= i
      BY <2>1, <2>3, <2>5, <3>1, OffsetsChangeAtMidnight, SMTT(60)
    <3>. QED  BY <2>1, <3>2, <3>3
  <2>. QED  BY <2>4, <2>5
<1>4. \A x, y \in walls : g[x] = g[y] => x = y
  <2>1. \A x \in walls : x \in Int /\ x = 24 * (x \div 24) + (x % 24)
    OBVIOUS
  <2>2. \A x \in walls : g[x][1] = x \div 24 /\ g[x][2] = x % 24
    OBVIOUS
  <2>. HIDE DEF g, walls
  <2>. QED  BY <2>1, <2>2
<1>5. hours = {g[w] : w \in walls}
  <2>1. ASSUME NEW x \in began..i
        PROVE  <<DateAt(x), HourAt(x)>> = g[WallTime(x)]
    <3>. DEFINE w == WallTime(x)
    <3>1. DateAt(x) = w \div 24 /\ HourAt(x) = w % 24 /\ w \in walls
      BY <1>1, <1>2
    <3>. HIDE DEF w, walls
    <3>2. g[w] = <<w \div 24, w % 24>>
      BY <3>1
    <3>. HIDE DEF g
    <3>. QED  BY <3>1, <3>2 DEF w
  <2>. HIDE DEF g, walls
  <2>2. \A h : h \in hours <=> \E x \in began..i : h = g[WallTime(x)]
    BY <2>1
  <2>3. \A h : h \in {g[w] : w \in walls} <=> \E w \in walls : h = g[w]
    OBVIOUS
  <2>4. \A h : h \in hours <=> h \in {g[w] : w \in walls}
    BY <1>2, <1>3, <2>2, <2>3, Zenon
  <2>. HIDE DEF hours
  <2>. QED  BY <2>4
<1>6. IsFiniteSet(walls) /\ Cardinality(walls) = 14
  <2>1. 24 * k - 8 \in Int /\ 24 * k + 5 \in Int
    OBVIOUS
  <2>. QED  BY <2>1, FS_Interval
<1>. HIDE DEF g, walls, hours
<1>7. Cardinality(hours) = 14
  BY <1>4, <1>5, <1>6, CountImage
<1>. QED  BY <1>7 DEF hours, ShiftHours

\* Whenever the clock moves, the last completed shift stays what it was or the
\* night at work becomes it, in the hour after its last, and is whole
\* (lastCompletedShift, previousCompletedShift, isTimestampInShift,
\* calculateShiftCoverage, reportingDate).
THEOREM NightsDoFollow == CalendarSpec => NightsInTurn
<1>. DEFINE ClockInv == clock \in FirstHour..LastHour
<1>1. CalendarInit => ClockInv
  BY DEF CalendarInit
<1>2. ClockInv /\ [CalendarNext]_calendarVars => ClockInv'
  BY ClockHasBounds DEF CalendarNext, calendarVars, NextHour, AskRange, AskCustom, AskTrend, ReadCell
<1>3. ASSUME ClockInv, CalendarNext
      PROVE  LET last == LastCompletedShift(clock)
                 next == LastCompletedShift(clock')
                 night == {i \in clock - HoursOfDay..clock' : InShift(i, next)}
             IN  /\ ReportingDate(clock') = next.end
                 /\ next # last =>
                      /\ PreviousCompletedShift(next) = last
                      /\ \E began \in night : night = began..clock
                      /\ HasAllHours(next, night) \/ Forward \in night
  <2>. DEFINE last == LastCompletedShift(clock)
              next == LastCompletedShift(clock')
              night == {i \in clock - HoursOfDay..clock' : InShift(i, next)}
              k == next.end
  <2>1. clock \in Int /\ clock' \in Int /\ clock' \in {clock, clock + 1}
    BY <1>3, ClockHasBounds DEF CalendarNext, NextHour, AskRange, AskCustom, AskTrend, ReadCell
  <2>2. ReportingDate(clock') = k /\ k \in Int /\ next = [start |-> k - 1, end |-> k]
    BY <2>1, LastShiftIs
  <2>3. ASSUME next # last
        PROVE  /\ PreviousCompletedShift(next) = last
               /\ \E began \in night : night = began..clock
               /\ HasAllHours(next, night) \/ Forward \in night
    <3>1. clock' = clock + 1
      BY <2>1, <2>3
    <3>2. last.end = k - 1 /\ WallTime(clock) = 24 * k + 5 /\ WallTime(clock') = 24 * k + 6
      BY <2>1, <2>3, <3>1, NightEnds
    <3>3. last = [start |-> last.end - 1, end |-> last.end]
      BY <2>1, LastShiftIs
    <3>4. PreviousCompletedShift(next) = last
      BY <2>2, <3>2, <3>3 DEF PreviousCompletedShift
    <3>5. PICK began \in night : night = began..clock /\ WallTime(began) = 24 * k - 8
      BY <2>1, <2>3, <3>1, NightIs
    <3>6. began \in Int /\ began <= clock
      <4>. HIDE DEF night
      <4>1. began \in began..clock
        BY <3>5
      <4>2. night \subseteq Int
        BY <2>1 DEF night, HoursOfDay
      <4>. QED  BY <2>1, <3>5, <4>1, <4>2
    <3>7. \A x \in night : InShift(x, next)
      OBVIOUS
    <3>8. Forward \notin night => HasAllHours(next, night)
      <4>. SUFFICES ASSUME Forward \notin night PROVE HasAllHours(next, night)
        OBVIOUS
      <4>. HIDE DEF night, next, k, last
      <4>1. Cardinality({<<DateAt(x), HourAt(x)>> : x \in began..clock}) = ShiftHours
        BY <2>1, <2>2, <3>1, <3>2, <3>5, <3>6, NightIsWhole
      <4>2. {x \in night : InShift(x, next)} = began..clock
        BY <3>5, <3>7
      <4>. QED  BY <4>1, <4>2 DEF HasAllHours
    <3>. QED  BY <3>4, <3>5, <3>8
  <2>. QED  BY <2>2, <2>3
<1>. QED  BY <1>1, <1>2, <1>3, PTL DEF CalendarSpec, NightsInTurn

-----------------------------------------------------------------------------
(* Calendar: months *)

Years == 0..MonthEnd(Len(MonthLengths))

LEMMA SomeMonths == /\ Len(MonthLengths) \in Nat /\ Months = 1..Len(MonthLengths)
                    /\ \A m \in Months : MonthLengths[m] \in Nat \ {0}
BY MonthsHaveDays DEF Months

LEMMA DaysIn ==
  ASSUME NEW a \in Int, NEW b \in Int, 1 <= a, b <= Len(MonthLengths)
  PROVE  /\ IsFiniteSet(a..b) /\ a..b \subseteq Months
         /\ \A m \in a..b : MonthLengths[m] \in Nat
<1>1. IsFiniteSet(a..b)
  BY FS_Interval
<1>2. a..b \subseteq Months
  BY SomeMonths
<1>. QED  BY <1>1, <1>2, SomeMonths

LEMMA MonthIs ==
  ASSUME NEW m \in Months
  PROVE  /\ m \in Nat \ {0} /\ MonthStart[m] = Total(MonthLengths, 1..(m - 1))
         /\ MonthStart[m] \in Nat /\ MonthEnd(m) \in Nat /\ MonthStart[m] <= MonthEnd(m)
         /\ MonthEnd(m) = MonthStart[m] + MonthLengths[m] - 1
<1>1. m \in Nat \ {0} /\ m <= Len(MonthLengths) /\ MonthLengths[m] \in Nat \ {0}
  BY SomeMonths
<1>2. MonthStart[m] = Total(MonthLengths, 1..(m - 1))
  BY DEF MonthStart
<1>3. Total(MonthLengths, 1..(m - 1)) \in Nat
  BY <1>1, SomeMonths, DaysIn, TotalNat
<1>. QED  BY <1>1, <1>2, <1>3 DEF MonthEnd

LEMMA FirstMonth ==
  ASSUME 1 \in Months
  PROVE  MonthStart[1] = 0
<1>1. 1..(1 - 1) = {}
  OBVIOUS
<1>. QED  BY <1>1, MonthIs, TotalNothing

\* A month begins on the day after the last of the month before.
LEMMA NextMonth ==
  ASSUME NEW m \in Months, NEW n \in Months, n = m + 1
  PROVE  MonthStart[n] = MonthEnd(m) + 1
<1>1. m \in Nat \ {0} /\ n <= Len(MonthLengths)
  BY SomeMonths
<1>2. 1..(n - 1) = 1..(m - 1) \cup {m} /\ m \notin 1..(m - 1)
  BY <1>1
<1>3. IsFiniteSet(1..(m - 1)) /\ \A x \in 1..(m - 1) \cup {m} : MonthLengths[x] \in Nat
  BY <1>1, SomeMonths, DaysIn
<1>4. Total(MonthLengths, 1..(m - 1) \cup {m}) = MonthLengths[m] + Total(MonthLengths, 1..(m - 1))
  BY <1>2, <1>3, TotalPut
<1>5. Total(MonthLengths, 1..(n - 1)) = MonthLengths[m] + Total(MonthLengths, 1..(m - 1))
  BY <1>2, <1>4, Zenon
<1>6. /\ MonthStart[n] = Total(MonthLengths, 1..(n - 1))
      /\ MonthStart[m] = Total(MonthLengths, 1..(m - 1))
      /\ MonthEnd(m) = MonthStart[m] + MonthLengths[m] - 1
      /\ MonthStart[m] \in Nat /\ MonthLengths[m] \in Nat
  BY MonthIs, SomeMonths
<1>. QED  BY <1>5, <1>6

\* Months follow each other.
LEMMA MonthsInOrder ==
  ASSUME NEW m \in Months, NEW n \in Months, m < n
  PROVE  MonthEnd(m) < MonthStart[n]
<1>1. m \in Nat \ {0} /\ n \in Nat \ {0} /\ n <= Len(MonthLengths)
  BY SomeMonths
<1>. DEFINE k == m + 1
<1>2. k \in Months
  BY <1>1, SomeMonths
<1>3. 1..(n - 1) = 1..(k - 1) \cup k..(n - 1) /\ 1..(k - 1) \cap k..(n - 1) = {}
  BY <1>1
<1>4. /\ IsFiniteSet(1..(k - 1)) /\ IsFiniteSet(k..(n - 1))
      /\ \A x \in 1..(k - 1) \cup k..(n - 1) : MonthLengths[x] \in Nat
  BY <1>1, DaysIn
<1>5. Total(MonthLengths, 1..(n - 1)) = Total(MonthLengths, 1..(k - 1)) + Total(MonthLengths, k..(n - 1))
  <2>1. Total(MonthLengths, 1..(k - 1) \cup k..(n - 1))
          = Total(MonthLengths, 1..(k - 1)) + Total(MonthLengths, k..(n - 1))
    BY <1>3, <1>4, TotalUnion
  <2>. QED  BY <1>3, <2>1, Zenon
<1>6. Total(MonthLengths, k..(n - 1)) \in Nat
  BY <1>4, TotalNat
<1>7. MonthStart[k] = MonthEnd(m) + 1 /\ MonthEnd(m) \in Nat
  BY <1>2, NextMonth, MonthIs
<1>8. MonthStart[n] = MonthStart[k] + Total(MonthLengths, k..(n - 1))
  BY <1>2, <1>5, MonthIs
<1>. QED  BY <1>6, <1>7, <1>8

\* Every day is in one month.
LEMMA MonthOfIs ==
  ASSUME NEW d \in Years
  PROVE  /\ MonthOf(d) \in Months /\ MonthStart[MonthOf(d)] <= d /\ d <= MonthEnd(MonthOf(d))
         /\ \A m \in Months : MonthStart[m] <= d /\ d <= MonthEnd(m) => m = MonthOf(d)
<1>. DEFINE last == Len(MonthLengths)
            Until(m) == 1..m
            T == {Until(m) : m \in {n \in Months : d <= MonthEnd(n)}}
<1>1. 1 \in Months /\ last \in Months
  BY ClockInCalendar, SomeMonths
<1>2. d \in Int /\ 0 <= d /\ d <= MonthEnd(last)
  BY <1>1, MonthIs DEF Years
<1>3. IsFiniteSet(Months) /\ T \in SUBSET SUBSET Months /\ T # {}
  <2>1. IsFiniteSet(Months)
    BY SomeMonths, FS_Interval
  <2>2. Until(last) \in T
    BY <1>1, <1>2
  <2>3. \A m \in Months : Until(m) \subseteq Months
    BY SomeMonths
  <2>. QED  BY <2>1, <2>2, <2>3
<1>4. PICK r \in T : \A s \in T : s \subseteq r => s = r
  <2>. HIDE DEF T
  <2>. QED  BY <1>3, Smallest
<1>5. PICK m \in Months : r = Until(m) /\ d <= MonthEnd(m)
  BY <1>4
<1>6. MonthStart[m] <= d
  <2>1. CASE m = 1
    BY <1>1, <1>2, <2>1, FirstMonth
  <2>2. CASE m # 1
    <3>. DEFINE n == m - 1
    <3>1. n \in Months /\ m \in Nat
      BY <2>2, SomeMonths
    <3>2. Until(n) \subseteq r /\ m \in r /\ m \notin Until(n)
      BY <1>5, <2>2, <3>1, SomeMonths
    <3>3. Until(n) \notin T
      BY <1>4, <3>2
    <3>4. ~(d <= MonthEnd(n))
      BY <3>1, <3>3
    <3>5. MonthStart[m] = MonthEnd(n) + 1 /\ MonthEnd(n) \in Nat
      BY <3>1, NextMonth, MonthIs
    <3>. QED  BY <1>2, <3>4, <3>5
  <2>. QED  BY <2>1, <2>2
<1>7. /\ MonthOf(d) \in Months /\ MonthStart[MonthOf(d)] <= d /\ d <= MonthEnd(MonthOf(d))
  BY <1>5, <1>6 DEF MonthOf
<1>8. ASSUME NEW n \in Months, NEW o \in Months, MonthStart[n] <= d, d <= MonthEnd(o)
      PROVE  n <= o
  <2>. SUFFICES ASSUME o < n PROVE FALSE
    BY <1>8, SomeMonths
  <2>. QED  BY <1>2, <1>8, MonthsInOrder, MonthIs
<1>9. ASSUME NEW n \in Months, MonthStart[n] <= d, d <= MonthEnd(n)
      PROVE  n = MonthOf(d)
  <2>. DEFINE o == MonthOf(d)
  <2>. HIDE DEF o
  <2>1. o \in Months /\ MonthStart[o] <= d /\ d <= MonthEnd(o)
    BY <1>7 DEF o
  <2>2. n <= o /\ o <= n
    BY <1>8, <1>9, <2>1
  <2>3. n = o
    BY <2>1, <2>2, SomeMonths
  <2>. QED  BY <2>3 DEF o
<1>. QED  BY <1>7, <1>9

\* A month that has begun is not later than the current one.
LEMMA MonthBegun ==
  ASSUME NEW d \in Years, NEW m \in Months, MonthStart[m] <= d
  PROVE  m <= MonthOf(d)
<1>. DEFINE o == MonthOf(d)
<1>1. o \in Months /\ d <= MonthEnd(o)
  BY MonthOfIs
<1>. HIDE DEF o
<1>2. ~(o < m)
  BY <1>1, MonthsInOrder, MonthIs DEF Years
<1>3. m <= o
  BY <1>1, <1>2, SomeMonths
<1>. QED  BY <1>3 DEF o

-----------------------------------------------------------------------------
(* Calendar: wall times that people type, and periods *)

\* A wall time is refused if it was never shown.
LEMMA InstantIs ==
  ASSUME NEW wall \in Int
  PROVE  \/ InstantOf(wall) = Refused /\ \A x \in Int : WallTime(x) # wall
         \/ InstantOf(wall) \in Int /\ WallTime(InstantOf(wall)) = wall
<1>1. PICK q, p \in Int : Forward = 24 * q - 2 /\ Backward = 24 * p - 3 /\ q < p
  BY Changes
<1>2. \A x \in Int : WallTime(x) = IF Forward <= x /\ x < Backward THEN x + 3 ELSE x + 2
  BY DEF WallTime, Offset
<1>. DEFINE c == Pass(wall, wall)
            i == Pass(wall, c)
<1>3. c \in Int /\ c = wall + (wall - WallTime(wall))
  BY <1>2 DEF Pass
<1>4. i \in Int /\ i = c + (wall - WallTime(c))
  BY <1>2, <1>3 DEF Pass
<1>5. InstantOf(wall) = IF WallTime(i) = wall THEN i ELSE Refused
  BY DEF InstantOf
<1>. HIDE DEF c, i
<1>6. ASSUME NEW x \in Int, WallTime(x) = wall
      PROVE  WallTime(i) = wall
  <2>1. CASE Forward <= x /\ x < Backward
    <3>1. wall = x + 3
      BY <1>2, <1>6, <2>1
    <3>2. c \in {x, x + 1}
      BY <1>2, <1>3, <3>1
    <3>. QED  BY <1>1, <1>2, <1>3, <1>4, <2>1, <3>1, <3>2
  <2>2. CASE ~(Forward <= x /\ x < Backward)
    <3>1. wall = x + 2
      BY <1>2, <1>6, <2>2
    <3>2. c \in {x - 1, x}
      BY <1>2, <1>3, <3>1
    <3>. QED  BY <1>1, <1>2, <1>3, <1>4, <2>2, <3>1, <3>2
  <2>. QED  BY <2>1, <2>2
<1>. QED  BY <1>4, <1>5, <1>6

\* A midnight that is not skipped comes once.
LEMMA MidnightIs ==
  ASSUME NEW k \in Int, k # (Forward + 2) \div HoursOfDay
  PROVE  InstantOf(24 * k) \in Int /\ \A x \in Int : InstantOf(24 * k) <= x <=> k <= DateAt(x)
<1>1. PICK q, p \in Int : /\ Forward = 24 * q - 2 /\ Backward = 24 * p - 3 /\ q < p
                          /\ (Forward + 2) \div HoursOfDay = q
  BY Changes
<1>2. \A x \in Int : WallTime(x) = IF Forward <= x /\ x < Backward THEN x + 3 ELSE x + 2
  BY DEF WallTime, Offset
<1>. DEFINE wall == 24 * k
            i == InstantOf(wall)
            s == IF Forward <= wall - 3 /\ wall - 3 < Backward THEN wall - 3 ELSE wall - 2
<1>3. s \in Int /\ WallTime(s) = wall
  <2>1. CASE Forward <= wall - 3 /\ wall - 3 < Backward
    BY <1>2, <2>1
  <2>2. CASE ~(Forward <= wall - 3 /\ wall - 3 < Backward)
    <3>1. s = wall - 2
      BY <2>2
    <3>2. wall # Forward + 2 /\ wall # Backward + 2
      BY <1>1
    <3>. QED  BY <1>1, <1>2, <2>2, <3>1, <3>2
  <2>. QED  BY <2>1, <2>2
<1>4. wall \in Int
  OBVIOUS
<1>. HIDE DEF i, s
<1>5. i \in Int /\ WallTime(i) = wall
  <2>. HIDE DEF wall
  <2>. QED  BY <1>3, <1>4, InstantIs DEF i
<1>6. ASSUME NEW x \in Int, NEW y \in Int, WallTime(x) = wall, WallTime(y) = wall
      PROVE  x = y
  BY <1>1, <1>2, <1>6
<1>7. ASSUME NEW x \in Int
      PROVE  i <= x <=> wall <= WallTime(x)
  <2>0. WallTime(x) \in Int
    BY Wall
  <2>1. i < x => wall <= WallTime(x)
    BY <1>5, WallsInOrder
  <2>2. x < i => WallTime(x) <= wall
    BY <1>5, WallsInOrder
  <2>3. x # i => WallTime(x) # wall
    BY <1>5, <1>6
  <2>. HIDE DEF wall
  <2>. QED  BY <1>4, <1>5, <2>0, <2>1, <2>2, <2>3
<1>8. ASSUME NEW x \in Int
      PROVE  wall <= WallTime(x) <=> k <= DateAt(x)
  <2>. DEFINE d == DateAt(x)
              h == HourAt(x)
  <2>1. d \in Int /\ h \in 0..23 /\ WallTime(x) = 24 * d + h
    BY Wall
  <2>. HIDE DEF d, h
  <2>2. wall <= WallTime(x) <=> k <= d
    BY <2>1
  <2>. QED  BY <2>2 DEF d
<1>. QED  BY <1>5, <1>7, <1>8 DEF i

\* The commissions of a month are those of its days.
LEMMA CommissionMonthIs ==
  ASSUME NEW m \in Months, NEW x \in Int
  PROVE  x \in CommissionMonth(m) <=> MonthStart[m] <= DateAt(x) /\ DateAt(x) <= MonthEnd(m)
<1>. DEFINE from == MonthStart[m]
            to == MonthEnd(m) + 1
<1>1. from \in Int /\ to \in Int /\ MonthEnd(m) \in Int
  BY MonthIs
<1>2. from # (Forward + 2) \div HoursOfDay /\ to # (Forward + 2) \div HoursOfDay
  BY SummerBeginsWithinMonth
<1>3. /\ CommissionMonth(m) = InstantOf(24 * from)..(InstantOf(24 * to) - 1)
  <2>1. from * HoursOfDay = 24 * from /\ to * HoursOfDay = 24 * to
    <3>. HIDE DEF from, to
    <3>. QED  BY <1>1 DEF HoursOfDay
  <2>. QED  BY <2>1, Zenon DEF CommissionMonth
<1>4. DateAt(x) \in Int
  BY Wall
<1>5. to = MonthEnd(m) + 1
  OBVIOUS
<1>. HIDE DEF from, to
<1>6. InstantOf(24 * from) \in Int /\ (InstantOf(24 * from) <= x <=> from <= DateAt(x))
  BY <1>1, <1>2, MidnightIs
<1>7. InstantOf(24 * to) \in Int /\ (InstantOf(24 * to) <= x <=> to <= DateAt(x))
  BY <1>1, <1>2, MidnightIs
<1>8. x \in CommissionMonth(m) <=> from <= DateAt(x) /\ DateAt(x) < to
  BY <1>3, <1>4, <1>1, <1>6, <1>7
<1>. QED  BY <1>1, <1>4, <1>5, <1>8 DEF from

\* Periods tile a range if each day of it is in one, and in one only.
LEMMA TiledIs ==
  ASSUME NEW periods, NEW range,
         \A d \in range.from..range.to :
           \E p \in periods : /\ p.from <= d /\ d <= p.to
                              /\ \A r \in periods : r.from <= d /\ d <= r.to => r = p
  PROVE  Tiled(periods, range)
<1>1. ASSUME NEW d \in range.from..range.to
      PROVE  Cardinality({p \in periods : p.from <= d /\ d <= p.to}) = 1
  <2>1. PICK p \in periods : /\ p.from <= d /\ d <= p.to
                             /\ \A r \in periods : r.from <= d /\ d <= r.to => r = p
    OBVIOUS
  <2>2. {r \in periods : r.from <= d /\ d <= r.to} = {p}
    BY <2>1
  <2>. QED  BY <2>2, FS_Singleton
<1>. QED  BY <1>1 DEF Tiled

LEMMA PeriodIs ==
  ASSUME NEW from, NEW to
  PROVE  Period(from, to).from = from /\ Period(from, to).to = to
BY DEF Period

LEMMA WeekIs ==
  ASSUME NEW d \in Int
  PROVE  /\ WeekStart(d) \in Int /\ WeekStart(d) <= d /\ d <= WeekStart(d) + 6
         /\ \E n \in Int : WeekStart(d) = 7 * n
<1>1. d % 7 \in 0..6 /\ d \div 7 \in Int /\ d = 7 * (d \div 7) + (d % 7)
  OBVIOUS
<1>. QED  BY <1>1 DEF WeekStart

\* The week of a day is the only one in which it is.
LEMMA WeekOnce ==
  ASSUME NEW d \in Int, NEW x \in Int, WeekStart(x) <= d, d <= WeekStart(x) + 6
  PROVE  WeekStart(x) = WeekStart(d)
<1>. DEFINE v == WeekStart(x)
            w == WeekStart(d)
<1>1. PICK n \in Int : v = 7 * n
  BY WeekIs
<1>2. PICK o \in Int : w = 7 * o
  BY WeekIs
<1>3. w <= d /\ d <= w + 6
  BY WeekIs
<1>. HIDE DEF v, w
<1>4. v = w
  BY <1>1, <1>2, <1>3 DEF v
<1>. QED  BY <1>4 DEF v, w

-----------------------------------------------------------------------------
(* Calendar: every question *)

LEMMA YearsAre == /\ MonthEnd(Len(MonthLengths)) \in Nat /\ Years \subseteq Nat
                  /\ \A d \in Years, x \in Int : 0 <= x /\ x <= d => x \in Years
<1>. DEFINE last == MonthEnd(Len(MonthLengths))
<1>1. last \in Nat
  BY ClockInCalendar, SomeMonths, MonthIs
<1>. HIDE DEF last
<1>. QED  BY <1>1 DEF Years, last

LEMMA DatesInYears ==
  ASSUME NEW i \in FirstHour..LastHour
  PROVE  /\ DateAt(i) \in Years /\ ReportingDate(i) \in Years
         /\ \A back \in {3, TrendMonths} : /\ back \in Months
                                           /\ back <= MonthOf(DateAt(i))
                                           /\ back <= MonthOf(ReportingDate(i))
<1>. DEFINE last == MonthEnd(Len(MonthLengths))
<1>1. i \in Int /\ FirstHour \in Int /\ LastHour \in Int /\ FirstHour <= i /\ i <= LastHour
  BY ClockHasBounds
<1>2. WallTime(FirstHour) <= WallTime(i) /\ WallTime(i) <= WallTime(LastHour)
  <2>1. FirstHour < i => WallTime(FirstHour) <= WallTime(i)
    BY <1>1, WallsInOrder
  <2>2. i < LastHour => WallTime(i) <= WallTime(LastHour)
    BY <1>1, WallsInOrder
  <2>3. WallTime(i) \in Int /\ WallTime(FirstHour) \in Int /\ WallTime(LastHour) \in Int
    BY <1>1, Wall
  <2>4. FirstHour = i => WallTime(FirstHour) = WallTime(i)
    OBVIOUS
  <2>5. LastHour = i => WallTime(LastHour) = WallTime(i)
    OBVIOUS
  <2>. QED  BY <1>1, <2>1, <2>2, <2>3, <2>4, <2>5
<1>3. ReportingDate(FirstHour) <= ReportingDate(i) /\ ReportingDate(i) \in Int
  <2>1. ReportingDate(i) \in Int /\ WallTime(i) < 24 * ReportingDate(i) + 30
    BY <1>1, LastShiftIs
  <2>2. ReportingDate(FirstHour) \in Int /\ 24 * ReportingDate(FirstHour) + 6 <= WallTime(FirstHour)
    BY <1>1, LastShiftIs
  <2>3. WallTime(i) \in Int /\ WallTime(FirstHour) \in Int
    BY <1>1, Wall
  <2>. QED  BY <1>2, <2>1, <2>2, <2>3
<1>4. DateAt(i) \in Int /\ ReportingDate(i) <= DateAt(i)
  BY <1>1, Wall DEF ReportingDate
<1>5. DateAt(i) <= last
  <2>1. DateAt(i) \in Int /\ HourAt(i) \in 0..23 /\ WallTime(i) = 24 * DateAt(i) + HourAt(i)
    BY <1>1, Wall
  <2>2. /\ DateAt(LastHour) \in Int /\ HourAt(LastHour) \in 0..23
        /\ WallTime(LastHour) = 24 * DateAt(LastHour) + HourAt(LastHour)
    BY <1>1, Wall
  <2>3. DateAt(i) <= DateAt(LastHour)
    BY <1>2, <2>1, <2>2
  <2>4. last \in Int
    BY ClockInCalendar, SomeMonths, MonthIs
  <2>. HIDE DEF last
  <2>. QED  BY <2>1, <2>2, <2>3, <2>4, ClockInCalendar DEF last
<1>6. last \in Int
  BY ClockInCalendar, SomeMonths, MonthIs
<1>7. ASSUME NEW back \in {3, TrendMonths}
      PROVE  back \in Months /\ MonthStart[back] \in Nat /\ MonthStart[back] <= ReportingDate(i)
  <2>1. back \in Months /\ MonthStart[back] <= ReportingDate(FirstHour)
    BY ClockInCalendar
  <2>2. MonthStart[back] \in Nat
    BY <2>1, MonthIs
  <2>3. ReportingDate(FirstHour) \in Int
    BY <1>1, LastShiftIs
  <2>. QED  BY <1>3, <2>1, <2>2, <2>3
<1>8. DateAt(i) \in Years /\ ReportingDate(i) \in Years
  <2>1. 0 <= ReportingDate(i)
    BY <1>3, <1>7
  <2>. HIDE DEF last
  <2>. QED  BY <1>3, <1>4, <1>5, <1>6, <2>1 DEF Years, last
<1>9. ASSUME NEW back \in {3, TrendMonths}
      PROVE  back <= MonthOf(DateAt(i)) /\ back <= MonthOf(ReportingDate(i))
  <2>1. back \in Months /\ MonthStart[back] <= ReportingDate(i) /\ MonthStart[back] <= DateAt(i)
    BY <1>3, <1>4, <1>7
  <2>. QED  BY <1>8, <2>1, MonthBegun
<1>. QED  BY <1>7, <1>8, <1>9

\* The months of the trend, and the commissions of the current one.
LEMMA TrendTiles ==
  ASSUME NEW i \in FirstHour..LastHour
  PROVE  LET windows == TrendWindows(DateAt(i))
             first == CHOOSE p \in windows : \A q \in windows : p.from <= q.from
         IN  /\ Cardinality(windows) = TrendMonths
             /\ Tiled(windows, Period(first.from, DateAt(i)))
             /\ \A m \in Months : i \in CommissionMonth(m) <=> m = MonthOf(DateAt(i))
<1>. DEFINE today == DateAt(i)
            m0 == MonthOf(today)
            a == m0 - TrendMonths + 1
            W(m) == IF m = m0 THEN Period(MonthStart[m], today) ELSE Month(m)
            windows == {W(m) : m \in a..m0}
            first == CHOOSE p \in windows : \A q \in windows : p.from <= q.from
<1>1. /\ today \in Years /\ TrendMonths \in Months /\ TrendMonths <= m0
  BY DatesInYears
<1>2. i \in Int
  BY ClockHasBounds
<1>3. /\ m0 \in Months /\ MonthStart[m0] <= today /\ today <= MonthEnd(m0)
      /\ \A m \in Months : MonthStart[m] <= today /\ today <= MonthEnd(m) => m = m0
  BY <1>1, MonthOfIs
<1>4. \A m \in Months : i \in CommissionMonth(m) <=> m = m0
  BY <1>2, <1>3, CommissionMonthIs
<1>5. TrendWindows(today) = windows
  BY Zenon DEF TrendWindows
<1>6. /\ m0 \in Nat /\ m0 <= Len(MonthLengths) /\ today \in Int /\ TrendMonths \in Nat \ {0}
      /\ a \in Months /\ a \in Nat /\ a <= m0
      /\ \A m \in a..m0 : m \in Months
  BY <1>1, <1>3, SomeMonths, TrendHasMonths DEF Years
<1>7. \A m \in Months : W(m).from = MonthStart[m] /\ W(m).to = IF m = m0 THEN today ELSE MonthEnd(m)
  BY PeriodIs DEF Month
<1>8. \A m, n \in Months : m < n => MonthEnd(m) < MonthStart[n]
  BY MonthsInOrder
<1>9. \A m \in Months : MonthStart[m] \in Nat /\ MonthEnd(m) \in Nat /\ MonthStart[m] <= MonthEnd(m) /\ m \in Nat
  BY MonthIs
<1>10. \A m \in a..m0 : MonthStart[a] <= MonthStart[m]
  <2>. SUFFICES ASSUME NEW m \in a..m0 PROVE MonthStart[a] <= MonthStart[m]
    OBVIOUS
  <2>1. m = a \/ a < m
    BY <1>6
  <2>. QED  BY <2>1, <1>6, <1>8, <1>9
<1>. HIDE DEF W, m0, today, a
<1>11. Cardinality(windows) = TrendMonths
  <2>. DEFINE g == [m \in a..m0 |-> W(m)]
  <2>1. \A m, n \in a..m0 : g[m] = g[n] => m = n
    <3>. SUFFICES ASSUME NEW m \in a..m0, NEW n \in a..m0, W(m) = W(n) PROVE m = n
      OBVIOUS
    <3>1. MonthStart[m] = MonthStart[n]
      BY <1>6, <1>7
    <3>. QED  BY <3>1, <1>6, <1>8, <1>9
  <2>2. windows = {g[m] : m \in a..m0}
    OBVIOUS
  <2>3. IsFiniteSet(a..m0) /\ Cardinality(a..m0) = TrendMonths
    <3>1. Cardinality(a..m0) = m0 - a + 1 /\ IsFiniteSet(a..m0)
      BY <1>6, FS_Interval
    <3>. QED  BY <1>6, <3>1 DEF a
  <2>. HIDE DEF windows, g
  <2>. QED  BY <2>1, <2>2, <2>3, CountImage
<1>12. first.from = MonthStart[a]
  <2>1. a \in a..m0
    BY <1>6
  <2>2. W(a) \in windows
    BY <2>1
  <2>3. \A q \in windows : \E m \in a..m0 : q = W(m)
    OBVIOUS
  <2>4. \A q \in windows : W(a).from <= q.from
    BY <1>6, <1>7, <1>10, <2>3
  <2>5. first \in windows /\ \A q \in windows : first.from <= q.from
    <3>. HIDE DEF windows
    <3>. QED  BY <2>2, <2>4
  <2>. HIDE DEF windows, first
  <2>6. PICK m \in a..m0 : first = W(m)
    BY <2>3, <2>5
  <2>7. first.from \in Nat /\ first.from <= W(a).from /\ W(a).from <= first.from
    BY <1>6, <1>7, <1>9, <2>2, <2>4, <2>5, <2>6
  <2>. QED  BY <1>6, <1>7, <1>9, <2>7
<1>13. Tiled(windows, Period(first.from, today))
  <2>. DEFINE range == Period(first.from, today)
  <2>1. range.from = MonthStart[a] /\ range.to = today
    BY <1>12, PeriodIs
  <2>. HIDE DEF first, range
  <2>2. ASSUME NEW d \in range.from..range.to
        PROVE  \E p \in windows : /\ p.from <= d /\ d <= p.to
                                  /\ \A r \in windows : r.from <= d /\ d <= r.to => r = p
    <3>1. d \in Int /\ MonthStart[a] <= d /\ d <= today /\ d \in Years
      <4>1. d \in Int /\ MonthStart[a] <= d /\ d <= today
        BY <1>6, <1>9, <2>1
      <4>. QED  BY <1>1, <1>6, <1>9, <4>1, YearsAre
    <3>. DEFINE m == MonthOf(d)
    <3>2. /\ m \in Months /\ MonthStart[m] <= d /\ d <= MonthEnd(m)
          /\ \A n \in Months : MonthStart[n] <= d /\ d <= MonthEnd(n) => n = m
      BY <3>1, MonthOfIs
    <3>. HIDE DEF m
    <3>3. ~(m0 < m)
      BY <1>3, <1>6, <1>8, <1>9, <3>1, <3>2
    <3>4. ~(m < a)
      BY <1>6, <1>8, <1>9, <3>1, <3>2
    <3>5. m \in a..m0
      BY <1>6, <1>9, <3>2, <3>3, <3>4
    <3>6. W(m).from <= d /\ d <= W(m).to
      BY <1>7, <3>1, <3>2
    <3>7. ASSUME NEW n \in a..m0, W(n).from <= d, d <= W(n).to
          PROVE  n = m
      <4>1. n \in Months /\ MonthStart[n] <= d
        BY <1>6, <1>7, <3>7
      <4>2. d <= MonthEnd(n)
        BY <1>3, <1>6, <1>7, <1>9, <3>1, <3>7, <4>1
      <4>. QED  BY <3>2, <4>1, <4>2
    <3>. QED  BY <3>5, <3>6, <3>7
  <2>. HIDE DEF windows
  <2>3. Tiled(windows, range)
    BY <2>2, TiledIs
  <2>. QED  BY <2>3 DEF range
<1>. QED  BY <1>4, <1>5, <1>11, <1>13 DEF today, m0

\* Days, weeks or months of a range.
LEMMA BucketsTile ==
  ASSUME NEW range, range.from \in Years, range.to \in Years, NEW g \in {"day", "week", "month"}
  PROVE  Tiled({BucketOf(d, g) : d \in range.from..range.to}, range)
<1>. DEFINE days == range.from..range.to
            buckets == {BucketOf(d, g) : d \in days}
<1>1. days \subseteq Years /\ days \subseteq Int
  <2>1. range.from \in Nat /\ range.to \in Nat
    BY YearsAre
  <2>2. \A d \in days : d \in Int /\ 0 <= d /\ d <= range.to
    BY <2>1
  <2>. HIDE DEF days
  <2>. QED  BY <2>2, YearsAre
<1>2. ASSUME NEW d \in days
      PROVE  /\ BucketOf(d, g).from <= d /\ d <= BucketOf(d, g).to
             /\ \A x \in days : BucketOf(x, g).from <= d /\ d <= BucketOf(x, g).to => BucketOf(x, g) = BucketOf(d, g)
  <2>0. d \in Int /\ d \in Years
    BY <1>1
  <2>1. CASE g = "day"
    <3>1. \A x \in Int : BucketOf(x, g) = Period(x, x)
      BY <2>1 DEF BucketOf
    <3>2. ASSUME NEW x \in days, BucketOf(x, g).from <= d, d <= BucketOf(x, g).to
          PROVE  x = d
      <4>1. x \in Int /\ x <= d /\ d <= x
        BY <1>1, <3>1, <3>2, PeriodIs
      <4>. QED  BY <2>0, <4>1
    <3>. QED  BY <2>0, <3>1, <3>2, PeriodIs
  <2>2. CASE g = "week"
    <3>1. \A x \in Int : BucketOf(x, g) = Period(WeekStart(x), WeekStart(x) + 6)
      BY <2>2 DEF BucketOf
    <3>2. ASSUME NEW x \in days, BucketOf(x, g).from <= d, d <= BucketOf(x, g).to
          PROVE  BucketOf(x, g) = BucketOf(d, g)
      <4>1. x \in Int /\ WeekStart(x) <= d /\ d <= WeekStart(x) + 6
        BY <1>1, <3>1, <3>2, PeriodIs
      <4>2. WeekStart(x) = WeekStart(d)
        BY <2>0, <4>1, WeekOnce
      <4>. QED  BY <2>0, <3>1, <4>1, <4>2
    <3>3. BucketOf(d, g).from <= d /\ d <= BucketOf(d, g).to
      <4>. DEFINE w == WeekStart(d)
      <4>1. BucketOf(d, g) = Period(w, w + 6)
        BY <2>0, <3>1
      <4>2. w <= d /\ d <= w + 6
        BY <2>0, WeekIs
      <4>. HIDE DEF w
      <4>. QED  BY <4>1, <4>2, PeriodIs
    <3>. QED  BY <3>2, <3>3
  <2>3. CASE g = "month"
    <3>1. \A x \in Int : BucketOf(x, g) = Period(MonthStart[MonthOf(x)], MonthEnd(MonthOf(x)))
      BY <2>3 DEF BucketOf, Month
    <3>2. ASSUME NEW x \in days, BucketOf(x, g).from <= d, d <= BucketOf(x, g).to
          PROVE  BucketOf(x, g) = BucketOf(d, g)
      <4>. DEFINE m == MonthOf(x)
      <4>1. x \in Int /\ x \in Years
        BY <1>1
      <4>2. m \in Months
        BY <4>1, MonthOfIs
      <4>3. BucketOf(x, g) = Period(MonthStart[m], MonthEnd(m))
        BY <3>1, <4>1
      <4>. HIDE DEF m
      <4>4. MonthStart[m] <= d /\ d <= MonthEnd(m)
        BY <3>2, <4>3, PeriodIs
      <4>5. m = MonthOf(d)
        BY <2>0, <4>2, <4>4, MonthOfIs
      <4>. QED  BY <2>0, <3>1, <4>3, <4>5
    <3>3. BucketOf(d, g).from <= d /\ d <= BucketOf(d, g).to
      BY <2>0, <3>1, MonthOfIs, PeriodIs
    <3>. QED  BY <3>2, <3>3
  <2>. QED  BY <2>1, <2>2, <2>3
<1>3. ASSUME NEW d \in range.from..range.to
      PROVE  \E p \in buckets : /\ p.from <= d /\ d <= p.to
                                /\ \A r \in buckets : r.from <= d /\ d <= r.to => r = p
  <2>1. BucketOf(d, g) \in buckets
    OBVIOUS
  <2>2. \A r \in buckets : \E x \in days : r = BucketOf(x, g)
    OBVIOUS
  <2>. HIDE DEF buckets
  <2>. QED  BY <1>2, <2>1, <2>2
<1>. HIDE DEF buckets
<1>4. Tiled(buckets, range)
  BY <1>3, TiledIs
<1>. QED  BY <1>4 DEF buckets

\* Weeks, the last of which ends with the range.
LEMMA WeeksTile ==
  ASSUME NEW range, range.from \in Int, range.to \in Int
  PROVE  Tiled(FlagWeeks(range), range)
<1>. DEFINE starts == {d \in WeekStart(range.from)..range.to : WeekStart(d) = d}
            W(s) == Period(s, IF s + 6 < range.to THEN s + 6 ELSE range.to)
            weeks == {W(s) : s \in starts}
<1>1. FlagWeeks(range) = weeks
  BY Zenon DEF FlagWeeks
<1>2. starts \subseteq Int /\ \A s \in starts : WeekStart(s) = s
  BY WeekIs
<1>3. \A s \in starts : W(s).from = s /\ W(s).to = IF s + 6 < range.to THEN s + 6 ELSE range.to
  BY PeriodIs
<1>4. ASSUME NEW d \in range.from..range.to
      PROVE  \E p \in weeks : /\ p.from <= d /\ d <= p.to
                              /\ \A r \in weeks : r.from <= d /\ d <= r.to => r = p
  <2>. DEFINE s == WeekStart(d)
  <2>1. d \in Int /\ range.from <= d /\ d <= range.to /\ s \in Int /\ s <= d /\ d <= s + 6
    BY WeekIs
  <2>2. s \in starts
    <3>1. PICK n \in Int : s = 7 * n
      BY <2>1, WeekIs
    <3>2. PICK o \in Int : WeekStart(range.from) = 7 * o
      BY WeekIs
    <3>3. WeekStart(range.from) <= range.from
      BY WeekIs
    <3>4. WeekStart(s) = s
      BY <2>1, WeekOnce
    <3>. HIDE DEF s
    <3>5. WeekStart(range.from) <= s
      BY <2>1, <3>1, <3>2, <3>3
    <3>. QED  BY <2>1, <3>2, <3>4, <3>5
  <2>3. W(s).from <= d /\ d <= W(s).to
    <3>. HIDE DEF s, W, starts
    <3>. QED  BY <1>3, <2>1, <2>2
  <2>4. ASSUME NEW x \in starts, W(x).from <= d, d <= W(x).to
        PROVE  x = s
    <3>0. x \in Int /\ WeekStart(x) = x
      BY <1>2
    <3>1. x <= d /\ d <= x + 6
      <4>. HIDE DEF W, starts
      <4>. QED  BY <1>3, <2>1, <2>4, <3>0
    <3>. QED  BY <2>1, <3>0, <3>1, WeekOnce
  <2>5. \A r \in weeks : \E x \in starts : r = W(x)
    OBVIOUS
  <2>6. W(s) \in weeks
    BY <2>2
  <2>. HIDE DEF W, weeks, starts, s
  <2>. QED  BY <2>3, <2>4, <2>5, <2>6
<1>. HIDE DEF weeks
<1>5. Tiled(weeks, range)
  BY <1>4, TiledIs
<1>. QED  BY <1>1, <1>5

\* Ranges, and what they are compared with.
LEMMA RangeIs ==
  ASSUME NEW i \in FirstHour..LastHour, NEW q,
         \/ q.key \in RangeKeys
         \/ q.key = "custom" /\ q.from \in Years /\ q.to \in Years /\ q.from <= q.to
  PROVE  LET range == RangeOf(q, i)[1]
         IN  /\ Compared(range, RangeOf(q, i)[2], q.key)
             /\ range # Always => range.from \in Years /\ range.to \in Years
<1>. DEFINE today == ReportingDate(i)
            m == MonthOf(today)
            range == RangeOf(q, i)[1]
            with == RangeOf(q, i)[2]
<1>1. today \in Years /\ 3 \in Months /\ 3 <= m
  BY DatesInYears
<1>2. m \in Months /\ MonthStart[m] <= today /\ today <= MonthEnd(m)
  BY <1>1, MonthOfIs
<1>. DEFINE m1 == m - 1
            m2 == m - 2
<1>3. m1 \in Months /\ m2 \in Months /\ m2 = m1 - 1 /\ m1 + 1 = m /\ m2 + 1 = m1
  BY <1>1, <1>2, SomeMonths
<1>4. today \in Nat
  BY <1>1, YearsAre
<1>5. \A n \in {m, m1, m2} : MonthStart[n] \in Nat /\ MonthEnd(n) \in Nat /\ MonthStart[n] <= MonthEnd(n)
  BY <1>2, <1>3, MonthIs
<1>6. MonthStart[m] = MonthEnd(m1) + 1 /\ MonthStart[m1] = MonthEnd(m2) + 1
  BY <1>2, <1>3, NextMonth
<1>. DEFINE same == MonthStart[m1] + (today - MonthStart[m])
            to == IF same < MonthEnd(m1) THEN same ELSE MonthEnd(m1)
<1>7. ToDate(m1, today) = Period(MonthStart[m1], to)
  BY <1>3 DEF ToDate
<1>. HIDE DEF today, m, m1, m2
<1>8. CASE q.key = "today"
  <2>1. range = Period(today, today) /\ with = Period(today - 1, today - 1)
    BY <1>8 DEF RangeOf, today
  <2>. HIDE DEF range, with
  <2>2. range.from = today /\ range.to = today /\ with.from = today - 1 /\ with.to = today - 1
    BY <2>1, PeriodIs
  <2>. QED  BY <1>1, <1>4, <1>8, <2>2 DEF Compared, Length, range, with
<1>9. CASE q.key = "this-month"
  <2>1. range = Period(MonthStart[m], today) /\ with = ToDate(m1, today)
    BY <1>9 DEF RangeOf, today, m, m1
  <2>. HIDE DEF range, with, same
  <2>2. range.from = MonthStart[m] /\ range.to = today /\ with.from = MonthStart[m1] /\ with.to = to
    BY <1>7, <2>1, PeriodIs
  <2>3. /\ to \in Int /\ MonthStart[m1] <= to /\ to < MonthStart[m]
        /\ to - MonthStart[m1] + 1 <= today - MonthStart[m] + 1
    BY <1>2, <1>4, <1>5, <1>6 DEF same
  <2>4. MonthStart[m] \in Years
    BY <1>1, <1>2, <1>5, YearsAre
  <2>. HIDE DEF to
  <2>. QED  BY <1>1, <1>9, <2>2, <2>3, <2>4 DEF Compared, Length, range, with
<1>10. CASE q.key = "last-month"
  <2>1. range = Month(m1) /\ with = Month(m2)
    BY <1>10 DEF RangeOf, today, m, m1, m2
  <2>. HIDE DEF range, with
  <2>2. /\ range.from = MonthStart[m1] /\ range.to = MonthEnd(m1)
        /\ with.from = MonthStart[m2] /\ with.to = MonthEnd(m2)
    BY <2>1, PeriodIs DEF Month
  <2>3. MonthStart[m1] \in Years /\ MonthEnd(m1) \in Years
    <3>1. MonthStart[m1] <= today /\ MonthEnd(m1) <= today
      BY <1>2, <1>4, <1>5, <1>6
    <3>. QED  BY <1>1, <1>5, <3>1, YearsAre
  <2>4. with.from <= with.to /\ with.to < range.from /\ with.to + 1 = range.from
    BY <1>5, <1>6, <2>2
  <2>. QED  BY <1>10, <2>2, <2>3, <2>4 DEF Compared, range, with
<1>11. CASE q.key = "all-time"
  <2>1. range = Always
    BY <1>11 DEF RangeOf
  <2>. QED  BY <2>1 DEF Compared
<1>12. CASE q.key = "custom"
  <2>. DEFINE period == Period(q.from, q.to)
  <2>1. range = period /\ with = Period(period.from - Length(period), period.from - 1)
    BY <1>12 DEF RangeOf
  <2>2. q.from \in Years /\ q.to \in Years /\ q.from <= q.to /\ q.from \in Nat /\ q.to \in Nat
    BY <1>12, YearsAre DEF RangeKeys
  <2>3. period.from = q.from /\ period.to = q.to
    BY PeriodIs
  <2>. HIDE DEF range, with, period
  <2>4. with.from = q.from - (q.to - q.from + 1) /\ with.to = q.from - 1
    BY <2>1, <2>3, PeriodIs DEF Length
  <2>5. range.from = q.from /\ range.to = q.to
    BY <2>1, <2>3
  <2>. QED  BY <1>12, <2>2, <2>4, <2>5 DEF Compared, Length, range, with
<1>. QED  BY <1>8, <1>9, <1>10, <1>11, <1>12 DEF RangeKeys

\* The clock stays within its bounds, and so do the dates that somebody asks about.
CalendarInv ==
  /\ clock \in FirstHour..LastHour
  /\ \/ inquiry = Nothing
     \/ \E key \in RangeKeys \cup {"trend"} : inquiry = [key |-> key]
     \/ \E wall \in Int : inquiry = [key |-> "cell", wall |-> wall]
     \/ \E from, to \in Years : from <= to /\ inquiry = [key |-> "custom", from |-> from, to |-> to]

LEMMA CalendarInvStep == CalendarInv /\ [CalendarNext]_calendarVars => CalendarInv'
<1>. SUFFICES ASSUME CalendarInv, [CalendarNext]_calendarVars PROVE CalendarInv'
  OBVIOUS
<1>. USE DEF CalendarInv
<1>1. CASE UNCHANGED calendarVars
  BY <1>1 DEF calendarVars
<1>2. CASE NextHour
  BY <1>2, ClockHasBounds DEF NextHour
<1>3. ASSUME NEW key \in RangeKeys, AskRange(key)
      PROVE  CalendarInv'
  BY <1>3 DEF AskRange
<1>4. CASE AskTrend
  BY <1>4 DEF AskTrend
<1>5. ASSUME NEW from \in 0..MonthEnd(MonthOf(DateAt(clock))), NEW to \in 0..MonthEnd(MonthOf(DateAt(clock))),
             AskCustom(from, to)
      PROVE  CalendarInv'
  <2>. DEFINE m == MonthOf(DateAt(clock))
  <2>1. m \in Months
    BY DatesInYears, MonthOfIs
  <2>2. m \in Nat /\ m <= Len(MonthLengths) /\ Len(MonthLengths) \in Months
    BY <2>1, ClockInCalendar, SomeMonths
  <2>3. MonthEnd(m) <= MonthEnd(Len(MonthLengths)) /\ MonthEnd(m) \in Nat
    BY <2>1, <2>2, MonthsInOrder, MonthIs
  <2>4. from \in Years /\ to \in Years
    <3>. HIDE DEF m
    <3>1. MonthEnd(Len(MonthLengths)) \in Nat
      BY YearsAre
    <3>2. from \in 0..MonthEnd(m) /\ to \in 0..MonthEnd(m)
      BY DEF m
    <3>. QED  BY <2>3, <3>1, <3>2 DEF Years
  <2>5. from <= to /\ inquiry' = [key |-> "custom", from |-> from, to |-> to] /\ UNCHANGED clock
    BY <1>5 DEF AskCustom
  <2>. QED  BY <2>4, <2>5
<1>6. ASSUME NEW wall \in WallTime(clock)-1..WallTime(clock)+1, ReadCell(wall)
      PROVE  CalendarInv'
  <2>1. clock \in Int
    BY ClockHasBounds
  <2>2. WallTime(clock) \in Int
    BY <2>1, Wall
  <2>3. wall \in Int
    BY <2>2
  <2>. QED  BY <1>6, <2>3 DEF ReadCell
<1>. QED  BY <1>1, <1>2, <1>3, <1>4, <1>5, <1>6 DEF CalendarNext

\* Whatever somebody asks at any hour, the periods that answer cover each day
\* once, what they are compared with lies before, and a wall time is read as an
\* instant at which it was shown (resolveOverviewDateRange, bucketDate,
\* splitTransferFlagWeeks, buildCalendarMonthWindows, resolveCommissionMonth,
\* localDateTimeToUtc).
THEOREM DaysAreCoveredOnce == CalendarSpec => []CalendarTiles
<1>1. CalendarInit => CalendarInv
  BY DEF CalendarInit, CalendarInv
<1>2. ASSUME CalendarInv
      PROVE  CalendarTiles
  <2>0. clock \in FirstHour..LastHour
    BY <1>2 DEF CalendarInv
  <2>1. CASE inquiry = Nothing
    <3>1. inquiry.key = "nothing"
      BY <2>1 DEF Nothing
    <3>. QED  BY <3>1 DEF CalendarTiles
  <2>2. CASE \E wall \in Int : inquiry = [key |-> "cell", wall |-> wall]
    <3>1. PICK wall \in Int : inquiry = [key |-> "cell", wall |-> wall]
      BY <2>2
    <3>2. inquiry.key = "cell" /\ inquiry.wall = wall
      BY <3>1
    <3>. DEFINE shown == {i \in wall - 3..wall : WallTime(i) = wall}
    <3>3. CASE InstantOf(wall) = Refused /\ \A x \in Int : WallTime(x) # wall
      <4>1. shown = {}
        BY <3>3
      <4>. QED  BY <3>2, <3>3, <4>1 DEF CalendarTiles
    <3>4. CASE InstantOf(wall) \in Int /\ WallTime(InstantOf(wall)) = wall
      <4>1. wall \in {InstantOf(wall) + 2, InstantOf(wall) + 3}
        BY <3>4, Wall
      <4>2. InstantOf(wall) \in shown
        BY <3>4, <4>1
      <4>. QED  BY <3>2, <4>2 DEF CalendarTiles
    <3>. QED  BY <3>3, <3>4, InstantIs
  <2>3. CASE inquiry = [key |-> "trend"]
    <3>1. inquiry.key = "trend"
      BY <2>3
    <3>. QED  BY <2>0, <3>1, TrendTiles DEF CalendarTiles
  <2>4. CASE \/ \E key \in RangeKeys : inquiry = [key |-> key]
             \/ \E from, to \in Years : from <= to /\ inquiry = [key |-> "custom", from |-> from, to |-> to]
    <3>. DEFINE range == RangeOf(inquiry, clock)[1]
                g == Granularity(range)
    <3>1. \/ inquiry.key \in RangeKeys
          \/ inquiry.key = "custom" /\ inquiry.from \in Years /\ inquiry.to \in Years /\ inquiry.from <= inquiry.to
      BY <2>4
    <3>2. inquiry.key \notin {"nothing", "cell", "trend"}
      BY <3>1 DEF RangeKeys
    <3>3. /\ Compared(range, RangeOf(inquiry, clock)[2], inquiry.key)
          /\ range # Always => range.from \in Years /\ range.to \in Years
      BY <2>0, <3>1, RangeIs
    <3>4. g \in {"day", "week", "month"}
      BY DEF Granularity
    <3>. HIDE DEF range, g
    <3>5. ASSUME range # Always
          PROVE  /\ Tiled({BucketOf(d, g) : d \in range.from..range.to}, range)
                 /\ Tiled(FlagWeeks(range), range)
      <4>0. range.from \in Years /\ range.to \in Years
        BY <3>3, <3>5
      <4>1. range.from \in Years /\ range.to \in Years /\ range.from \in Int /\ range.to \in Int
        <5>1. \A d \in Years : d \in Int
          BY YearsAre
        <5>. QED  BY <4>0, <5>1, Zenon
      <4>2. Tiled({BucketOf(d, g) : d \in range.from..range.to}, range)
        BY <3>4, <4>1, BucketsTile
      <4>3. Tiled(FlagWeeks(range), range)
        BY <4>1, WeeksTile
      <4>. QED  BY <4>2, <4>3
    <3>. QED  BY <3>2, <3>3, <3>5 DEF CalendarTiles, range, g
  <2>. QED  BY <1>2, <2>1, <2>2, <2>3, <2>4 DEF CalendarInv
<1>. QED  BY <1>1, <1>2, CalendarInvStep, PTL DEF CalendarSpec

=============================================================================
