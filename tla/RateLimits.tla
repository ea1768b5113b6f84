------------------------------ MODULE RateLimits ------------------------------
(***************************************************************************)
(* Rate limits: attempts are counted in windows of fixed length, one row   *)
(* for each scope, identifier and window, and rows are deleted when they   *)
(* have expired.                                                           *)
(*                                                                         *)
(* The window of an attempt is computed before its transaction; between    *)
(* the two, other attempts are counted, rows deleted and time passes, but  *)
(* no more than a window: attempts are assumed to be shorter than that.    *)
(***************************************************************************)
EXTENDS Naturals, FiniteSets

CONSTANTS
  Attempts,     \* attempts that may be under way at the same time
  Identifiers,  \* pairs of a scope and an identifier
  Limit,        \* attempts allowed in a window
  MaxTime       \* bound on the clock

ASSUME LimitPositive == Limit \in Nat \ {0}

WindowTicks == 2

VARIABLES
  now,      \* the clock
  counts,   \* rate_limit_records: requestCount by identifier and window, 0 without a row
  attempt,  \* identifiers and window of the attempts under way
  doomed,   \* rows that a cleanup has selected and not yet deleted
  allowed   \* how many attempts of an identifier were allowed in each window

limitVars == <<now, counts, attempt, doomed, allowed>>

\* prepareRateLimit
WindowAt(time) == time - (time % WindowTicks)

Windows == {WindowAt(time) : time \in 0..MaxTime}
Keys == Identifiers \X Windows

\* Deliberately wrong: a row expires with its window.
ExpiresWithWindow(window) == window + WindowTicks

ExpiresAt(window) == window + 2 * WindowTicks

NoAttempt == [of |-> {}, window |-> 0]

LimitInit ==
  /\ now = 0
  /\ counts = [k \in Keys |-> 0]
  /\ attempt = [a \in Attempts |-> NoAttempt]
  /\ doomed = {}
  /\ allowed = [k \in Keys |-> 0]

\* authenticationLimits names one identifier or several.
BeginAttempt(a, ids) ==
  /\ attempt[a] = NoAttempt
  /\ attempt' = [attempt EXCEPT ![a] = [of |-> ids, window |-> WindowAt(now)]]
  /\ UNCHANGED <<now, counts, doomed, allowed>>

\* Counters that have passed the limit are not told apart.
Increment(count) == IF count > Limit THEN count ELSE count + 1

\* consumeRateLimits: one upsert increments all the counters, which are read
\* back before others can increment them.  An attempt is allowed when every
\* counter is within its limit; one that is not allowed has been counted too.
Consume(a) ==
  LET keys == {<<i, attempt[a].window>> : i \in attempt[a].of}
      after == [k \in Keys |-> IF k \in keys THEN Increment(counts[k]) ELSE counts[k]]
      passes == \A k \in keys : after[k] <= Limit
  IN  /\ attempt[a] # NoAttempt
      /\ counts' = after
      /\ allowed' = [k \in Keys |-> IF k \in keys /\ passes THEN allowed[k] + 1 ELSE allowed[k]]
      /\ attempt' = [attempt EXCEPT ![a] = NoAttempt]
      /\ UNCHANGED <<now, doomed>>

Expired == {k \in Keys : counts[k] > 0 /\ ExpiresAt(k[2]) < now}

\* cleanupExpiredData selects expired rows, a batch at a time ...
SelectExpired ==
  /\ Expired # {} /\ doomed = {}
  /\ \E batch \in SUBSET Expired \ {{}} : doomed' = batch
  /\ UNCHANGED <<now, counts, attempt, allowed>>

\* ... and deletes them, or fails as a whole.
DeleteSelected ==
  /\ doomed # {}
  /\ \/ counts' = [k \in Keys |-> IF k \in doomed THEN 0 ELSE counts[k]]
     \/ UNCHANGED counts
  /\ doomed' = {}
  /\ UNCHANGED <<now, attempt, allowed>>

\* Attempts do not last longer than a window, see above.
Tick ==
  /\ now < MaxTime
  /\ \A a \in Attempts : attempt[a] # NoAttempt => now < attempt[a].window + 2 * WindowTicks
  /\ now' = now + 1
  /\ UNCHANGED <<counts, attempt, doomed, allowed>>

LimitNext ==
  \/ \E a \in Attempts :
       \/ \E ids \in SUBSET Identifiers \ {{}} : BeginAttempt(a, ids)
       \/ Consume(a)
  \/ SelectExpired
  \/ DeleteSelected
  \/ Tick

LimitSpec == LimitInit /\ [][LimitNext]_limitVars

-----------------------------------------------------------------------------
(* Properties *)

\* No window lets more than Limit attempts of an identifier through, however
\* attempts overlap with each other, with the next window and with the deletion
\* of expired rows (consumeRateLimits, cleanupExpiredData).
AtMostLimit == \A k \in Keys : allowed[k] <= Limit

=============================================================================
