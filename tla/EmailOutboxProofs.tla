-------------------------- MODULE EmailOutboxProofs --------------------------
(***************************************************************************)
(* Theorems about EmailOutbox, for all messages, workers and limits.       *)
(***************************************************************************)
EXTENDS EmailOutbox, TLAPS

-----------------------------------------------------------------------------
(* Type correctness *)

\* What a claim does to one message: it fails it on behalf of a worker that is
\* gone, takes it, or leaves it alone.
LEMMA ClaimEffect ==
  ASSUME OutboxTypeOK, NEW w \in Workers,
         NEW x \in Exhausted \cup {NoMessage}, NEW m \in Claimable \cup {NoMessage},
         SettleAndTake(w, x, m), NEW n \in Messages
  PROVE  \/ /\ status[n] = "processing" /\ expired[n] /\ attempts[n] >= MaxAttempts
            /\ status'[n] = "failed" /\ owner'[n] = NoWorker
            /\ attempts'[n] = attempts[n] /\ expired'[n] = FALSE
         \/ /\ Due(n) /\ attempts[n] < MaxAttempts
            /\ status'[n] = "processing" /\ owner'[n] = w
            /\ attempts'[n] = attempts[n] + 1 /\ expired'[n] = FALSE
         \/ /\ status'[n] = status[n] /\ owner'[n] = owner[n]
            /\ attempts'[n] = attempts[n] /\ expired'[n] = expired[n]
<1>1. n # NoMessage
  BY OutboxNulls
<1>2. attempts[n] \in Nat /\ MaxAttempts \in Nat
  BY OutboxAttempts DEF OutboxTypeOK
<1>3. CASE n = x
  <2>1. n \in Exhausted /\ n # m
    BY <1>1, <1>2, <1>3 DEF Exhausted, Claimable
  <2>. QED  BY <1>3, <2>1 DEF SettleAndTake, Exhausted
<1>4. CASE n # x /\ n = m
  <2>1. n \in Claimable
    BY <1>1, <1>4
  <2>. QED  BY <1>4, <2>1 DEF SettleAndTake, Claimable
<1>5. CASE n # x /\ n # m
  BY <1>5 DEF SettleAndTake, OutboxTypeOK
<1>. QED  BY <1>3, <1>4, <1>5

\* A failure reflected on an invitation is written to a delivery status.
LEMMA ReflectFailureTyped ==
  ASSUME OutboxTypeOK, NEW m, ReflectFailure(m)
  PROVE  delivery' \in [Messages -> {"pending", "delivery_failed", "accepted", "revoked"}]
BY DEF OutboxTypeOK, ReflectFailure

\* A run ends or moves within its type, and one that is not idle has a message.
LEMMA RunMoves ==
  ASSUME OutboxTypeOK, NEW w \in Workers
  PROVE  /\ Return(w) => run' \in [Workers -> Runs]
         /\ run[w].at # "idle" =>
              /\ run[w] # Idle
              /\ run[w].msg \in Messages
              /\ \A p \in BOOLEAN : Catch(w, p) => run' \in [Workers -> Runs]
              /\ run' = [run EXCEPT ![w].at = "accepted"] => run' \in [Workers -> Runs]
         /\ run[w] # Idle => run[w].at # "idle"
<1>1. run \in [Workers -> Runs] /\ Idle \in Runs
  BY DEF OutboxTypeOK, Runs
<1>2. run[w] = Idle \/ run[w] \in [at : {"deliver", "accepted", "catch"}, msg : Messages, permanent : BOOLEAN]
  BY <1>1 DEF Runs
<1>3. Return(w) => run' \in [Workers -> Runs]
  BY <1>1 DEF Return
<1>4. Idle.at = "idle"
  BY DEF Idle
<1>5. run[w] # Idle => run[w].at # "idle"
  BY <1>2
<1>6. ASSUME run[w].at # "idle"
      PROVE  /\ run[w] # Idle
             /\ run[w].msg \in Messages
             /\ \A p \in BOOLEAN : Catch(w, p) => run' \in [Workers -> Runs]
             /\ run' = [run EXCEPT ![w].at = "accepted"] => run' \in [Workers -> Runs]
  <2>1. run[w] \in [at : {"deliver", "accepted", "catch"}, msg : Messages, permanent : BOOLEAN]
    BY <1>2, <1>4, <1>6
  <2>2. ASSUME NEW p \in BOOLEAN, Catch(w, p)
        PROVE  run' \in [Workers -> Runs]
    BY <1>1, <2>1, <2>2 DEF Catch, Runs
  <2>3. ASSUME run' = [run EXCEPT ![w].at = "accepted"]
        PROVE  run' \in [Workers -> Runs]
    BY <1>1, <2>1, <2>3 DEF Runs
  <2>. QED  BY <1>4, <1>6, <2>1, <2>2, <2>3
<1>. QED  BY <1>3, <1>5, <1>6

LEMMA ClaimTyped ==
  ASSUME OutboxTypeOK, NEW w \in Workers, Claim(w), UNCHANGED selected
  PROVE  OutboxTypeOK'
<1>1. PICK x \in Exhausted \cup {NoMessage}, m \in Claimable \cup {NoMessage} :
        SettleAndTake(w, x, m)
  BY DEF Claim
<1>2. m = NoMessage \/ (m \in Messages /\ attempts[m] < MaxAttempts)
  BY DEF Claimable
<1>3. status' \in [Messages ->
        {"none", "queued", "processing", "retry", "sent", "failed", "deleted"}]
  BY <1>1 DEF SettleAndTake, OutboxTypeOK
<1>4. attempts' \in [Messages -> 0..MaxAttempts]
  BY <1>1, <1>2, OutboxAttempts, OutboxNulls DEF SettleAndTake, OutboxTypeOK
<1>5. owner' \in [Messages -> Workers \cup {NoWorker}] /\ expired' \in [Messages -> BOOLEAN]
  BY <1>1 DEF SettleAndTake, OutboxTypeOK
<1>6. UNCHANGED <<payload, kind, token, inFlight, received, selected>>
  BY <1>1 DEF SettleAndTake, providerVars
<1>7. PayloadKept'
  <2>. SUFFICES ASSUME NEW n \in Messages, status'[n] \notin {"none", "deleted"}
                PROVE  payload[n] <=> status'[n] # "sent"
    BY <1>6 DEF PayloadKept
  <2>1. status'[n] = status[n]
        \/ (status[n] \notin {"none", "deleted", "sent"} /\ status'[n] # "sent")
    BY <1>1, ClaimEffect DEF Due
  <2>. QED  BY <2>1 DEF OutboxTypeOK, PayloadKept
<1>8. delivery' \in [Messages -> {"pending", "delivery_failed", "accepted", "revoked"}]
  BY <1>1, ReflectFailureTyped DEF SettleAndTake
<1>9. run' \in [Workers -> Runs]
  <2>1. m \in Messages => [Idle EXCEPT !.at = "deliver", !.msg = m] \in Runs
    BY DEF Idle, Runs
  <2>. QED  BY <1>1, <1>2, <2>1 DEF SettleAndTake, OutboxTypeOK
<1>. QED  BY <1>3, <1>4, <1>5, <1>6, <1>7, <1>8, <1>9 DEF OutboxTypeOK

LEMMA WorkerTyped ==
  ASSUME OutboxTypeOK, NEW w \in Workers, WorkerStep(w) \/ Crash(w), UNCHANGED selected
  PROVE  OutboxTypeOK'
<1>1. run[w].at # "idle" /\ run[w].msg \in Messages
  BY RunMoves DEF WorkerStep, Deliver, RecordSent, RecordSentFails, RecordFailure, Crash
<1>2. IdempotencyKey(run[w].msg) \in Keys
  BY <1>1, OutboxAttempts DEF IdempotencyKey, Keys
<1>3. run' \in [Workers -> Runs]
  BY <1>1, RunMoves DEF WorkerStep, Deliver, RecordSent, RecordSentFails, RecordFailure, Crash
<1>4. CASE Crash(w) \/ Deliver(w) \/ RecordSentFails(w)
  <2>1. UNCHANGED <<outboxVars, tokenVars>>
    BY <1>4 DEF Crash, Deliver, RecordSentFails
  <2>2. inFlight' \subseteq Keys /\ received' \subseteq Keys
    BY <1>2, <1>4 DEF Crash, Deliver, RecordSentFails, OutboxTypeOK, providerVars
  <2>. QED  BY <1>3, <2>1, <2>2 DEF OutboxTypeOK, PayloadKept, outboxVars, tokenVars
<1>5. CASE RecordSent(w)
  <2>1. PayloadKept'
    BY <1>1, <1>5 DEF RecordSent, OutboxTypeOK, PayloadKept, outboxVars
  <2>2. CASE Owns(w)
    BY <1>3, <1>5, <2>1, <2>2 DEF RecordSent, OutboxTypeOK, tokenVars, providerVars
  <2>3. CASE ~Owns(w)
    BY <1>3, <1>5, <2>1, <2>3 DEF RecordSent, OutboxTypeOK, outboxVars, tokenVars, providerVars
  <2>. QED  BY <2>2, <2>3
<1>6. CASE RecordFailure(w)
  <2>1. delivery' \in [Messages -> {"pending", "delivery_failed", "accepted", "revoked"}]
    BY <1>6, ReflectFailureTyped DEF RecordFailure, OutboxTypeOK
  <2>2. CASE Owns(w)
    <3>1. PayloadKept'
      BY <1>1, <1>6, <2>2 DEF RecordFailure, Owns, OutboxTypeOK, PayloadKept
    <3>2. /\ status' = [status EXCEPT ![run[w].msg] = IF Retries(w) THEN "retry" ELSE "failed"]
          /\ owner' = [owner EXCEPT ![run[w].msg] = NoWorker]
          /\ expired' = [expired EXCEPT ![run[w].msg] = FALSE]
          /\ UNCHANGED <<attempts, payload, kind, token, providerVars>>
      BY <1>6, <2>2 DEF RecordFailure
    <3>. QED  BY <1>1, <1>3, <2>1, <3>1, <3>2 DEF OutboxTypeOK, providerVars
  <2>3. CASE ~Owns(w)
    BY <1>3, <1>6, <2>1, <2>3 DEF RecordFailure, OutboxTypeOK, PayloadKept, outboxVars,
       providerVars
  <2>. QED  BY <2>2, <2>3
<1>. QED  BY <1>4, <1>5, <1>6 DEF WorkerStep

LEMMA BusinessTyped ==
  ASSUME OutboxTypeOK, NEW m \in Messages, Business(m), UNCHANGED selected
  PROVE  OutboxTypeOK'
<1>1. CASE AcceptInvitation(m) \/ RevokeInvitation(m)
  BY <1>1 DEF AcceptInvitation, RevokeInvitation, OutboxTypeOK, PayloadKept, outboxVars,
     providerVars
<1>2. ASSUME NEW type \in Kinds, Insert(m, type)
      PROVE  /\ status' \in [Messages ->
                  {"none", "queued", "processing", "retry", "sent", "failed", "deleted"}]
             /\ payload' \in [Messages -> BOOLEAN] /\ kind' \in [Messages -> Kinds]
             /\ PayloadKept'
             /\ UNCHANGED <<attempts, owner, expired>>
  BY <1>2 DEF Insert, OutboxTypeOK, PayloadKept
<1>3. CASE EnqueueNotice(m)
  <2>1. Insert(m, "other") /\ "other" \in Kinds
    BY <1>3 DEF EnqueueNotice, Kinds
  <2>. QED  BY <1>2, <1>3, <2>1 DEF EnqueueNotice, OutboxTypeOK, tokenVars, providerVars
<1>4. CASE IssueInvitation(m)
  <2>1. \E type \in Kinds : Insert(m, type)
    BY <1>4 DEF IssueInvitation, Kinds
  <2>. QED  BY <1>2, <1>4, <2>1 DEF IssueInvitation, OutboxTypeOK, providerVars
<1>. QED  BY <1>1, <1>3, <1>4 DEF Business

LEMMA TypeStep == OutboxTypeOK /\ [Next]_vars => OutboxTypeOK'
<1>. SUFFICES ASSUME OutboxTypeOK, [Next]_vars PROVE OutboxTypeOK'
  OBVIOUS
<1>0. 0 \in 0..MaxAttempts
  BY OutboxAttempts
<1>1. ASSUME NEW m \in Messages, Expire(m) \/ RetryFailed(m), UNCHANGED selected
      PROVE  OutboxTypeOK'
  <2>1. PayloadKept'
    BY <1>1 DEF Expire, RetryFailed, OutboxTypeOK, PayloadKept
  <2>2. CASE Expire(m)
    BY <1>1, <2>1, <2>2 DEF OutboxTypeOK, Expire, tokenVars, providerVars
  <2>3. CASE RetryFailed(m)
    BY <1>1, <1>0, <2>1, <2>3 DEF OutboxTypeOK, RetryFailed, tokenVars, providerVars
  <2>. QED  BY <1>1, <2>2, <2>3
<1>2. ASSUME NEW key \in inFlight, LateAnswer(key), UNCHANGED selected
      PROVE  OutboxTypeOK'
  BY <1>2 DEF OutboxTypeOK, PayloadKept, LateAnswer, outboxVars, tokenVars
<1>3. ASSUME NEW m \in Messages, CleanupSelects(m) \/ CleanupDeletes(m)
      PROVE  OutboxTypeOK'
  <2>1. PayloadKept'
    BY <1>3 DEF CleanupSelects, CleanupDeletes, OutboxTypeOK, PayloadKept, outboxVars
  <2>2. CASE UNCHANGED outboxVars
    BY <1>3, <2>1, <2>2 DEF OutboxTypeOK, CleanupSelects, CleanupDeletes, outboxVars, tokenVars,
       providerVars
  <2>3. CASE ~UNCHANGED outboxVars
    <3>1. /\ selected' = selected \ {m} /\ status' = [status EXCEPT ![m] = "deleted"]
          /\ attempts' = [attempts EXCEPT ![m] = 0] /\ owner' = [owner EXCEPT ![m] = NoWorker]
          /\ expired' = [expired EXCEPT ![m] = FALSE] /\ payload' = [payload EXCEPT ![m] = FALSE]
          /\ UNCHANGED <<kind, token, delivery, inFlight, received, run>>
      BY <1>3, <2>3 DEF CleanupSelects, CleanupDeletes, tokenVars, providerVars
    <3>. QED  BY <1>0, <2>1, <3>1 DEF OutboxTypeOK
  <2>. QED  BY <2>2, <2>3
<1>4. CASE UNCHANGED vars
  BY <1>4 DEF OutboxTypeOK, PayloadKept, vars
<1>. QED  BY <1>1, <1>2, <1>3, <1>4, BusinessTyped, ClaimTyped, WorkerTyped DEF Next

\* The tables keep their types whatever happens, attempts stay within their
\* limit, and exactly the messages that were sent have lost their payload.
THEOREM OutboxTypeCorrect == Spec => []OutboxTypeOK
<1>1. Init => OutboxTypeOK
  BY OutboxAttempts DEF Init, OutboxTypeOK, PayloadKept, Runs, Kinds
<1>. QED  BY <1>1, TypeStep, PTL DEF Spec

-----------------------------------------------------------------------------
(* The inductive invariant *)

\* Every delivery of a message carries the key of the message.
OneKey == \A k \in inFlight \cup received : k[2] = 0

\* A worker that is about to acknowledge a delivery knows it was accepted.
AcceptedRuns ==
  \A w \in Workers : run[w].at = "accepted" => IdempotencyKey(run[w].msg) \in received

\* Only messages in progress have an owner, and a row that is not there has no
\* attempts.
HeldInProgress ==
  \A m \in Messages :
    /\ status[m] # "processing" => owner[m] = NoWorker
    /\ status[m] \in {"none", "deleted"} => attempts[m] = 0

\* Who recorded a message as sent saw it accepted.
SentWasAccepted ==
  \A m \in Messages : status[m] = "sent" => \E key \in received : key[1] = m

OutboxInv ==
  /\ OutboxTypeOK
  /\ OneKey
  /\ AcceptedRuns
  /\ SentWasAccepted
  /\ HeldInProgress

\* What a step makes of one message.
Waits(m) == UNCHANGED <<status[m], attempts[m], owner[m]>>

Submitted(m) ==
  /\ status[m] \in {"none", "failed"} /\ status'[m] = "queued"
  /\ attempts'[m] = 0 /\ owner'[m] = owner[m]

Taken(m) ==
  /\ Due(m) /\ attempts[m] < MaxAttempts /\ status'[m] = "processing"
  /\ attempts'[m] = attempts[m] + 1 /\ owner'[m] \in Workers

GivenUp(m) ==
  /\ status[m] = "processing" /\ status'[m] = "failed"
  /\ attempts'[m] = attempts[m] /\ owner'[m] = NoWorker

PutBack(m) ==
  /\ status[m] = "processing" /\ attempts[m] < MaxAttempts /\ status'[m] = "retry"
  /\ attempts'[m] = attempts[m] /\ owner'[m] = NoWorker

Acknowledged(m) ==
  /\ status[m] = "processing" /\ status'[m] = "sent"
  /\ attempts'[m] = attempts[m] /\ owner'[m] = NoWorker

Purged(m) ==
  /\ status'[m] = "deleted" /\ attempts'[m] = 0 /\ owner'[m] = NoWorker

\* A message is sent only by a worker that is about to acknowledge it.
LEMMA MessageEffect ==
  ASSUME OutboxInv, [Next]_vars, NEW m \in Messages
  PROVE  \/ Waits(m) \/ Submitted(m) \/ Taken(m) \/ GivenUp(m) \/ PutBack(m) \/ Purged(m)
         \/ /\ Acknowledged(m)
            /\ \E w \in Workers : RecordSent(w) /\ run[w].msg = m
<1>. USE DEF OutboxInv
<1>. DEFINE Goal == \/ Waits(m) \/ Submitted(m) \/ Taken(m) \/ GivenUp(m) \/ PutBack(m) \/ Purged(m)
                    \/ /\ Acknowledged(m)
                       /\ \E w \in Workers : RecordSent(w) /\ run[w].msg = m
<1>1. ASSUME NEW n \in Messages, Business(n)
      PROVE  Goal
  <2>1. UNCHANGED outboxVars \/ \E type : Insert(n, type)
    BY <1>1 DEF Business, EnqueueNotice, IssueInvitation, AcceptInvitation, RevokeInvitation
  <2>2. CASE UNCHANGED outboxVars
    BY <2>2 DEF outboxVars, Waits
  <2>3. ASSUME NEW type, Insert(n, type)
        PROVE  Goal
    BY <2>3 DEF Insert, OutboxTypeOK, HeldInProgress, Submitted, Waits
  <2>. QED  BY <2>1, <2>2, <2>3
<1>2. ASSUME NEW n \in Messages, Expire(n)
      PROVE  Goal
  BY <1>2 DEF Expire, Waits
<1>3. ASSUME NEW n \in Messages, RetryFailed(n)
      PROVE  Goal
  BY <1>3 DEF RetryFailed, OutboxTypeOK, Submitted, Waits
<1>4. ASSUME NEW w \in Workers, Claim(w)
      PROVE  Goal
  <2>1. PICK x \in Exhausted \cup {NoMessage}, n \in Claimable \cup {NoMessage} :
          SettleAndTake(w, x, n)
    BY <1>4 DEF Claim
  <2>. QED  BY <2>1, ClaimEffect DEF GivenUp, Taken, Waits
<1>5. ASSUME NEW w \in Workers, RecordSent(w)
      PROVE  Goal
  <2>1. CASE Owns(w) /\ run[w].msg = m
    BY <1>5, <2>1 DEF RecordSent, Owns, OutboxTypeOK, Acknowledged
  <2>2. CASE ~(Owns(w) /\ run[w].msg = m)
    BY <1>5, <2>2 DEF RecordSent, OutboxTypeOK, outboxVars, Waits
  <2>. QED  BY <2>1, <2>2
<1>6. ASSUME NEW w \in Workers, RecordFailure(w)
      PROVE  Goal
  <2>1. CASE Owns(w) /\ run[w].msg = m
    BY <1>6, <2>1 DEF RecordFailure, Owns, Retries, OutboxTypeOK, GivenUp, PutBack
  <2>2. CASE ~(Owns(w) /\ run[w].msg = m)
    BY <1>6, <2>2 DEF RecordFailure, OutboxTypeOK, outboxVars, Waits
  <2>. QED  BY <2>1, <2>2
<1>7. ASSUME NEW n \in Messages, CleanupDeletes(n)
      PROVE  Goal
  BY <1>7 DEF CleanupDeletes, OutboxTypeOK, outboxVars, Purged, Waits
<1>8. ASSUME UNCHANGED outboxVars
      PROVE  Goal
  BY <1>8 DEF outboxVars, Waits
<1>9. ASSUME \/ UNCHANGED vars
             \/ \E w \in Workers : Deliver(w) \/ RecordSentFails(w) \/ Crash(w)
             \/ \E key \in inFlight : LateAnswer(key)
             \/ \E n \in Messages : CleanupSelects(n)
      PROVE  UNCHANGED outboxVars
  BY <1>9 DEF vars, outboxVars, Deliver, RecordSentFails, Crash, LateAnswer, CleanupSelects
<1>. HIDE DEF Goal, OutboxInv
<1>10. Goal
  BY <1>1, <1>2, <1>3, <1>4, <1>5, <1>6, <1>7, <1>8, <1>9 DEF Next, WorkerStep
<1>. QED  BY <1>10 DEF Goal

\* What a step makes of the keys the provider has seen and of the runs.
LEMMA ProviderEffect ==
  ASSUME OutboxInv, [Next]_vars
  PROVE  OneKey' /\ AcceptedRuns' /\ received \subseteq received'
<1>. USE DEF OutboxInv
<1>1. ASSUME UNCHANGED <<inFlight, received, run>>
      PROVE  OneKey' /\ AcceptedRuns' /\ received \subseteq received'
  BY <1>1 DEF OneKey, AcceptedRuns, IdempotencyKey
<1>2. ASSUME \/ UNCHANGED vars
             \/ \E m \in Messages : \/ Business(m) \/ Expire(m) \/ RetryFailed(m)
                                    \/ CleanupSelects(m) \/ CleanupDeletes(m)
      PROVE  UNCHANGED <<inFlight, received, run>>
  BY <1>2 DEF vars, Business, EnqueueNotice, IssueInvitation, AcceptInvitation, RevokeInvitation,
     Expire, RetryFailed, CleanupSelects, CleanupDeletes, providerVars
<1>3. ASSUME NEW key \in inFlight, LateAnswer(key)
      PROVE  OneKey' /\ AcceptedRuns' /\ received \subseteq received'
  BY <1>3 DEF LateAnswer, OneKey, AcceptedRuns, IdempotencyKey
<1>4. ASSUME NEW w \in Workers, Claim(w) \/ WorkerStep(w) \/ Crash(w)
      PROVE  OneKey' /\ AcceptedRuns' /\ received \subseteq received'
  <2>. DEFINE key == IdempotencyKey(run[w].msg)
  <2>1. /\ inFlight' \subseteq inFlight \cup {key}
        /\ received \subseteq received' /\ received' \subseteq received \cup {key}
    BY <1>4 DEF Claim, SettleAndTake, WorkerStep, Deliver, RecordSent, RecordSentFails,
       RecordFailure, Crash, providerVars
  <2>2. key[2] = 0
    BY DEF IdempotencyKey
  <2>3. OneKey'
    BY <2>1, <2>2 DEF OneKey
  <2>4. ASSUME NEW v \in Workers, v # w
        PROVE  run'[v] = run[v]
    <3>1. \A r : run' = [run EXCEPT ![w] = r] => run'[v] = run[v]
      BY <2>4 DEF OutboxTypeOK
    <3>. QED  BY <1>4, <2>4, <3>1 DEF Claim, SettleAndTake, WorkerStep, Deliver, RecordSent,
         RecordSentFails, RecordFailure, Crash, Catch, Return
  <2>5. ASSUME run'[w].at = "accepted"
        PROVE  IdempotencyKey(run'[w].msg) \in received'
    <3>1. run \in [Workers -> Runs] /\ Idle.at = "idle"
      BY DEF OutboxTypeOK, Idle
    <3>2. CASE Claim(w)
      <4>1. PICK x, m : SettleAndTake(w, x, m)
        BY <3>2 DEF Claim
      <4>2. CASE m = NoMessage
        BY <2>1, <2>5, <4>1, <4>2 DEF SettleAndTake, AcceptedRuns
      <4>3. CASE m # NoMessage
        BY <2>5, <3>1, <4>1, <4>3 DEF SettleAndTake, Idle
      <4>. QED  BY <4>2, <4>3
    <3>3. CASE RecordSent(w) \/ RecordFailure(w) \/ Crash(w)
      BY <2>5, <3>1, <3>3 DEF RecordSent, RecordFailure, Crash, Return
    <3>4. run[w] \in Runs
      BY <3>1
    <3>5. ASSUME NEW p \in BOOLEAN, Catch(w, p), run[w].at # "idle"
          PROVE  run'[w].at = "catch"
      BY <3>1, <3>4, <3>5 DEF Catch, Runs
    <3>6. CASE RecordSentFails(w)
      BY <2>5, <3>5, <3>6 DEF RecordSentFails
    <3>7. CASE Deliver(w)
      <4>1. \/ received' = received \cup {key} /\ run' = [run EXCEPT ![w].at = "accepted"]
            \/ \E p \in BOOLEAN : Catch(w, p)
        BY <3>7 DEF Deliver
      <4>2. CASE received' = received \cup {key} /\ run' = [run EXCEPT ![w].at = "accepted"]
        <5>1. run'[w].msg = run[w].msg
          BY <3>1, <3>4, <4>2 DEF Runs, Idle
        <5>. QED  BY <4>2, <5>1
      <4>3. CASE \E p \in BOOLEAN : Catch(w, p)
        BY <2>5, <3>5, <3>7, <4>3 DEF Deliver
      <4>. QED  BY <4>1, <4>2, <4>3
    <3>. QED  BY <1>4, <3>2, <3>3, <3>6, <3>7 DEF WorkerStep
  <2>6. AcceptedRuns'
    <3>. SUFFICES ASSUME NEW v \in Workers, run'[v].at = "accepted"
                  PROVE  IdempotencyKey(run'[v].msg) \in received'
      BY DEF AcceptedRuns, IdempotencyKey
    <3>1. CASE v = w
      BY <2>5, <3>1
    <3>2. CASE v # w
      BY <2>1, <2>4, <3>2 DEF AcceptedRuns
    <3>. QED  BY <3>1, <3>2
  <2>. QED  BY <2>1, <2>3, <2>6
<1>. QED  BY <1>1, <1>2, <1>3, <1>4 DEF Next

LEMMA OutboxInvStep == OutboxInv /\ [Next]_vars => OutboxInv'
<1>. SUFFICES ASSUME OutboxInv, [Next]_vars PROVE OutboxInv'
  OBVIOUS
<1>1. OutboxTypeOK'
  BY TypeStep DEF OutboxInv
<1>2. OneKey' /\ AcceptedRuns' /\ received \subseteq received'
  BY ProviderEffect
<1>3. HeldInProgress'
  <2>. SUFFICES ASSUME NEW m \in Messages
                PROVE  /\ status'[m] # "processing" => owner'[m] = NoWorker
                       /\ status'[m] \in {"none", "deleted"} => attempts'[m] = 0
    BY DEF HeldInProgress
  <2>. QED  BY MessageEffect DEF OutboxInv, HeldInProgress, Waits, Submitted, Taken, GivenUp,
            PutBack, Acknowledged, Purged
<1>4. SentWasAccepted'
  <2>. SUFFICES ASSUME NEW m \in Messages, status'[m] = "sent"
                PROVE  \E key \in received' : key[1] = m
    BY DEF SentWasAccepted
  <2>1. CASE status[m] = "sent"
    BY <1>2, <2>1 DEF OutboxInv, SentWasAccepted
  <2>2. CASE status[m] # "sent"
    <3>1. PICK w \in Workers : RecordSent(w) /\ run[w].msg = m
      BY <2>2, MessageEffect DEF Waits, Submitted, Taken, GivenUp, PutBack, Purged
    <3>2. IdempotencyKey(m) \in received
      BY <3>1 DEF RecordSent, OutboxInv, AcceptedRuns
    <3>. QED  BY <1>2, <3>2 DEF IdempotencyKey
  <2>. QED  BY <2>1, <2>2
<1>. QED  BY <1>1, <1>2, <1>3, <1>4 DEF OutboxInv

\* Keys, acknowledgements and owners fit together.
LEMMA OutboxInvCorrect == Spec => []OutboxInv
<1>1. Init => OutboxInv
  <2>. SUFFICES ASSUME Init PROVE OutboxInv
    OBVIOUS
  <2>1. OutboxTypeOK
    BY OutboxAttempts DEF Init, OutboxTypeOK, PayloadKept, Runs, Kinds
  <2>2. OneKey /\ AcceptedRuns /\ SentWasAccepted /\ HeldInProgress
    BY DEF Init, OneKey, AcceptedRuns, SentWasAccepted, HeldInProgress, Idle
  <2>. QED  BY <2>1, <2>2 DEF OutboxInv
<1>. QED  BY <1>1, OutboxInvStep, PTL DEF Spec

-----------------------------------------------------------------------------
(* The theorems *)

\* Nothing is recorded as sent that the provider did not accept: not after a
\* timeout, not for a late answer, not for the answer to another attempt; and
\* however often a message is tried, by however many workers and administrators, a
\* provider that honours idempotency keys delivers it once.
THEOREM MessagesAreSentOnce == Spec => []SentOnce
<1>1. OutboxInv => SentOnce
  BY DEF OutboxInv, OneKey, OutboxTypeOK, Keys, SentWasAccepted, SentOnce
<1>. QED  BY <1>1, OutboxInvCorrect, PTL

\* Only an invitation whose link may still be used is marked as not delivered.
LEMMA LateFailure ==
  ASSUME OutboxTypeOK, [Next]_vars
  PROVE  \A m \in Messages :
           delivery'[m] = "delivery_failed" /\ delivery[m] # "delivery_failed"
           => token[m] = "pending"
<1>. DEFINE A == \A m \in Messages :
                   delivery'[m] = "delivery_failed" /\ delivery[m] # "delivery_failed"
                   => token[m] = "pending"
<1>1. ASSUME NEW x, ReflectFailure(x)
      PROVE  A
  BY <1>1 DEF ReflectFailure, OutboxTypeOK
<1>2. ASSUME UNCHANGED delivery
      PROVE  A
  BY <1>2
<1>3. ASSUME NEW m \in Messages, AcceptInvitation(m) \/ RevokeInvitation(m)
      PROVE  A
  BY <1>3 DEF AcceptInvitation, RevokeInvitation, OutboxTypeOK
<1>4. ASSUME NEW w \in Workers, Claim(w) \/ RecordFailure(w)
      PROVE  UNCHANGED delivery \/ \E x : ReflectFailure(x)
  BY <1>4 DEF Claim, SettleAndTake, RecordFailure
<1>5. ASSUME \/ UNCHANGED vars
             \/ \E m \in Messages : \/ EnqueueNotice(m) \/ IssueInvitation(m) \/ Expire(m)
                                    \/ RetryFailed(m) \/ CleanupSelects(m) \/ CleanupDeletes(m)
             \/ \E w \in Workers : \/ Deliver(w) \/ RecordSent(w) \/ RecordSentFails(w)
                                   \/ Crash(w)
             \/ \E key \in inFlight : LateAnswer(key)
      PROVE  UNCHANGED delivery
  BY <1>5 DEF vars, EnqueueNotice, IssueInvitation, Expire, RetryFailed, CleanupSelects,
     CleanupDeletes, Deliver, RecordSent, RecordSentFails, Crash, LateAnswer, tokenVars
<1>6. A
  <2>. HIDE DEF A
  <2>. QED  BY <1>1, <1>2, <1>3, <1>4, <1>5 DEF Next, Business, WorkerStep
<1>. QED  BY <1>6

\* A worker that lost its lease changes nothing any more, whatever the provider
\* answers it.
LEMMA LostLease ==
  ASSUME OutboxTypeOK, [Next]_vars, NEW w \in Workers,
         run[w] # Idle, run'[w] # run[w], owner[run[w].msg] # w
  PROVE  UNCHANGED <<outboxVars, tokenVars>>
<1>1. ASSUME UNCHANGED run
      PROVE  FALSE
  BY <1>1
<1>2. ASSUME NEW v \in Workers, Claim(v) \/ WorkerStep(v) \/ Crash(v)
      PROVE  v = w
  <2>1. \A r : run' = [run EXCEPT ![v] = r] => (v # w => run'[w] = run[w])
    BY DEF OutboxTypeOK
  <2>. QED  BY <1>2, <2>1 DEF Claim, SettleAndTake, WorkerStep, Deliver, RecordSent,
       RecordSentFails, RecordFailure, Crash, Catch, Return
<1>3. ~Claim(w)
  BY DEF Claim, SettleAndTake
<1>4. ASSUME WorkerStep(w) \/ Crash(w)
      PROVE  UNCHANGED <<outboxVars, tokenVars>>
  BY <1>4 DEF WorkerStep, Deliver, RecordSent, RecordSentFails, RecordFailure, Crash, Owns,
     tokenVars
<1>5. ASSUME \/ UNCHANGED vars
             \/ \E m \in Messages : \/ Business(m) \/ Expire(m) \/ RetryFailed(m)
                                    \/ CleanupSelects(m) \/ CleanupDeletes(m)
             \/ \E key \in inFlight : LateAnswer(key)
      PROVE  UNCHANGED run
  BY <1>5 DEF vars, Business, EnqueueNotice, IssueInvitation, AcceptInvitation,
     RevokeInvitation, Expire, RetryFailed, CleanupSelects, CleanupDeletes, LateAnswer
<1>. QED  BY <1>1, <1>2, <1>3, <1>4, <1>5 DEF Next

\* Only an invitation whose link may still be used is marked as not delivered, and
\* a worker that lost its lease changes nothing any more, whatever the provider
\* answers it.
THEOREM LateAnswersAreHarmless == Spec => LateAnswersHarmless
<1>1. OutboxTypeOK /\ [Next]_vars =>
        [/\ \A m \in Messages :
              delivery'[m] = "delivery_failed" /\ delivery[m] # "delivery_failed"
              => token[m] = "pending"
         /\ \A w \in Workers :
              /\ run[w] # Idle /\ run'[w] # run[w]
              /\ owner[run[w].msg] # w
              => UNCHANGED <<outboxVars, tokenVars>>]_vars
  BY LateFailure, LostLease
<1>. QED  BY <1>1, OutboxTypeCorrect, PTL DEF Spec, LateAnswersHarmless

\* Seen as a leased job, a message is submitted, taken, given back, settled or
\* removed, or nothing happens to it.
LEMMA MessageIsLeased ==
  ASSUME OutboxInv, [Next]_vars, NEW m \in Messages
  PROVE  [Message(m)!Next]_(Message(m)!jobVars)
<1>. DEFINE before == QueueStatus(m)
            after == QueueStatus(m)'
<1>1. /\ status[m] \in {"none", "queued", "processing", "retry", "sent", "failed", "deleted"}
      /\ attempts[m] \in Nat
      /\ status[m] # "processing" => owner[m] = NoWorker
      /\ status[m] \in {"none", "deleted"} => attempts[m] = 0
  BY OutboxAttempts DEF OutboxInv, OutboxTypeOK, HeldInProgress
<1>2. /\ status[m] = "sent" => before = "completed"
      /\ status[m] = "retry" => before = "queued"
      /\ status[m] \in {"failed", "deleted"} => before = "none"
      /\ status[m] \in {"none", "queued", "processing"} => before = status[m]
  BY DEF QueueStatus
<1>3. /\ status'[m] = "sent" => after = "completed"
      /\ status'[m] = "retry" => after = "queued"
      /\ status'[m] \in {"failed", "deleted"} => after = "none"
      /\ status'[m] \in {"none", "queued", "processing"} => after = status'[m]
      /\ status'[m] = status[m] => after = before
  BY DEF QueueStatus
<1>. HIDE DEF before, after
<1>. USE DEF Message!Next, Message!jobVars
<1>4. CASE Waits(m)
  BY <1>3, <1>4 DEF Waits, before, after
<1>5. CASE Submitted(m)
  BY <1>1, <1>2, <1>3, <1>5 DEF Submitted, Message!Submit, before, after
<1>6. CASE Taken(m)
  BY <1>1, <1>2, <1>3, <1>6 DEF Taken, Due, Message!Take, before, after
<1>7. CASE GivenUp(m)
  BY <1>1, <1>2, <1>3, <1>7 DEF GivenUp, Message!Remove, before, after
<1>8. CASE PutBack(m)
  BY <1>1, <1>2, <1>3, <1>8 DEF PutBack, Message!GiveBack, before, after
<1>9. CASE Acknowledged(m)
  BY <1>1, <1>2, <1>3, <1>9 DEF Acknowledged, Message!Settle, Message!Settled, before, after
<1>10. CASE Purged(m)
  BY <1>1, <1>2, <1>3, <1>10 DEF Purged, Message!Remove, before, after
<1>. HIDE DEF Message!Next, Message!jobVars
<1>. QED  BY <1>4, <1>5, <1>6, <1>7, <1>8, <1>9, <1>10, MessageEffect

\* Every row of email_outbox behaves as a leased job, a failed message being out
\* of the queue until an administrator submits it again: attempts are counted
\* before they start and never exceed the limit, and a sent message is never
\* taken again.
THEOREM MessagesKeepTheLease == Spec => MessagesAreLeased
<1>. DEFINE I == \A m \in Messages : Message(m)!Init
            A == \A m \in Messages : [Message(m)!Next]_(Message(m)!jobVars)
<1>1. Init => I
  <2>. SUFFICES ASSUME Init, NEW m \in Messages PROVE Message(m)!Init
    OBVIOUS
  <2>1. QueueStatus(m) = "none"
    BY DEF Init, QueueStatus
  <2>. QED  BY <2>1 DEF Init, Message!Init
<1>2. OutboxInv /\ [Next]_vars => [A]_vars
  BY MessageIsLeased
<1>. QED  BY <1>1, <1>2, OutboxInvCorrect, PTL DEF Spec, MessagesAreLeased

=============================================================================
