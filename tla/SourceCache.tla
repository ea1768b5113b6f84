------------------------------ MODULE SourceCache ------------------------------
(***************************************************************************)
(* The cache of the two worksheets that the leaderboard, the commissions   *)
(* and the dashboards read: one entry in the memory of the web process,    *)
(* filled by one request to the Apps Script at a time.                     *)
(*                                                                         *)
(* The configuration comes from the environment, so there is one entry.    *)
(* A read is told from others by how often the sheet had been edited.      *)
(***************************************************************************)
EXTENDS Naturals

CONSTANTS
  Loads,    \* requests that may need the sheet at the same time
  MaxEdits  \* bound on the edits of the sheet

VARIABLES
  sheet,    \* how often the spreadsheet has been edited
  current,  \* the last read, and whether it has not expired
  lastFullyReady, \* the last read in which the Closed worksheet was valid
  inFlight, \* the request whose fetch others join, if any
  fetch,    \* the fetch that each request has started
  load,     \* what each request is waiting for, or was answered
  newest    \* the newest read that was shown without the mark "stale"

sourceVars == <<sheet, current, lastFullyReady, inFlight, fetch, load, newest>>

Nobody == "nobody"
ASSUME NobodyLoads == Nobody \notin Loads

NoRead == [edits |-> 0, closed |-> FALSE, fresh |-> FALSE]
NoFetch == [at |-> "none", edits |-> 0, closed |-> FALSE]
AtLeisure == [waits |-> Nobody, edits |-> 0, stale |-> FALSE]
Answer(edits, stale) == [waits |-> Nobody, edits |-> edits, stale |-> stale]

SourceInit ==
  /\ sheet = 1
  /\ current = NoRead
  /\ lastFullyReady = NoRead
  /\ inFlight = Nobody
  /\ fetch = [l \in Loads |-> NoFetch]
  /\ load = [l \in Loads |-> AtLeisure]
  /\ newest = 0

\* Somebody edits the spreadsheet.
Edit ==
  /\ sheet < MaxEdits
  /\ sheet' = sheet + 1
  /\ UNCHANGED <<current, lastFullyReady, inFlight, fetch, load, newest>>

\* The Apps Script reads the worksheets; Closed may lack a header.
ReadSheet(f) ==
  /\ fetch[f].at = "sent"
  /\ \E closed \in BOOLEAN :
       fetch' = [fetch EXCEPT ![f] = [at |-> "read", edits |-> sheet, closed |-> closed]]
  /\ UNCHANGED <<sheet, current, lastFullyReady, inFlight, load, newest>>

-----------------------------------------------------------------------------
(* loadLeaderboardSources *)

\* A read that has not expired is the answer.
LoadCached(l) ==
  /\ load[l].waits = Nobody
  /\ current.fresh
  /\ load' = [load EXCEPT ![l] = Answer(current.edits, FALSE)]
  /\ newest' = current.edits
  /\ UNCHANGED <<sheet, current, lastFullyReady, inFlight, fetch>>

\* Deliberately wrong: every request that finds no read fetches its own.
FetchEach(l) ==
  /\ load[l].waits = Nobody
  /\ ~current.fresh
  /\ fetch[l] = NoFetch
  /\ inFlight' = l
  /\ fetch' = [fetch EXCEPT ![l] = [NoFetch EXCEPT !.at = "sent"]]
  /\ load' = [load EXCEPT ![l].waits = l]
  /\ UNCHANGED <<sheet, current, lastFullyReady, newest>>

\* fetchSources: the request joins the fetch that is under way, or starts one.
LoadFetched(l) ==
  /\ load[l].waits = Nobody
  /\ ~current.fresh
  /\ IF inFlight # Nobody
     THEN UNCHANGED <<inFlight, fetch>>
     ELSE /\ inFlight' = l
          /\ fetch' = [fetch EXCEPT ![l] = [NoFetch EXCEPT !.at = "sent"]]
  /\ load' = [load EXCEPT ![l].waits = inFlight']
  /\ UNCHANGED <<sheet, current, lastFullyReady, newest>>

\* The fetch is over, and those who wait for it are answered.
Settle(f, answer) ==
  /\ inFlight' = Nobody
  /\ fetch' = [fetch EXCEPT ![f] = NoFetch]
  /\ load' = [l \in Loads |-> IF load[l].waits = f THEN answer ELSE load[l]]

\* The transfers could be parsed; the Closed worksheet may have been rejected.
FetchSucceeds(f) ==
  LET read == [edits |-> fetch[f].edits, closed |-> fetch[f].closed, fresh |-> TRUE]
  IN  /\ fetch[f].at = "read"
      /\ current' = read
      /\ lastFullyReady' = IF read.closed THEN read ELSE lastFullyReady
      /\ Settle(f, Answer(read.edits, FALSE))
      /\ newest' = read.edits
      /\ UNCHANGED sheet

\* The request times out, is refused, or its response cannot be parsed: the last
\* read that was complete is shown and marked, or an error.
FetchFails(f) ==
  /\ fetch[f] # NoFetch
  /\ Settle(f, IF lastFullyReady = NoRead THEN AtLeisure ELSE Answer(lastFullyReady.edits, TRUE))
  /\ UNCHANGED <<sheet, current, lastFullyReady, newest>>

\* Three minutes have passed, or refreshLeaderboardSources sets expiresAt to 0.
ExpireCurrent ==
  /\ current.fresh
  /\ current' = [current EXCEPT !.fresh = FALSE]
  /\ UNCHANGED <<sheet, lastFullyReady, inFlight, fetch, load, newest>>

\* The process is started again, with an empty cache.
RestartProcess ==
  /\ current' = NoRead /\ lastFullyReady' = NoRead /\ inFlight' = Nobody
  /\ fetch' = [l \in Loads |-> NoFetch]
  /\ load' = [l \in Loads |-> AtLeisure]
  /\ UNCHANGED <<sheet, newest>>

SourceNext ==
  \/ Edit
  \/ \E l \in Loads :
       \/ LoadCached(l)
       \/ LoadFetched(l)
       \/ ReadSheet(l)
       \/ FetchSucceeds(l)
       \/ FetchFails(l)
  \/ ExpireCurrent
  \/ RestartProcess

SourceSpec == SourceInit /\ [][SourceNext]_sourceVars

-----------------------------------------------------------------------------
(* Properties *)

\* What is shown without the mark "stale" never goes back behind what was shown
\* before: not through requests that overlap, expiry, refreshes, failed reads or
\* a restart (loadLeaderboardSources, fetchSources).
NeverBackwards == [][newest <= newest']_newest

=============================================================================
