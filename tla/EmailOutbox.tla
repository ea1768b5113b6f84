----------------------------- MODULE EmailOutbox -----------------------------
(***************************************************************************)
(* The durable email outbox: business transactions insert messages, email  *)
(* workers take them under expiring leases and hand them to a provider,    *)
(* administrators retry failed ones and the retention cleanup deletes      *)
(* settled ones.                                                           *)
(*                                                                         *)
(* A worker waits for the provider only until a timer fires.  The delivery *)
(* is not cancelled then: the provider may accept it any time later.       *)
(* Leases are not renewed.                                                 *)
(***************************************************************************)
EXTENDS Naturals

CONSTANTS
  Messages,    \* rows of email_outbox
  Workers,     \* slots of email-worker processes
  NoWorker,    \* SQL NULL in leaseOwner
  NoMessage,   \* a worker that holds no message
  MaxAttempts  \* email_outbox.maxAttempts

ASSUME OutboxNulls == NoWorker \notin Workers /\ NoMessage \notin Messages
ASSUME OutboxAttempts == MaxAttempts \in Nat \ {0}

VARIABLES
  status,     \* email_outbox.status; "none" before and "deleted" after the row
  attempts,   \* attemptCount
  owner,      \* leaseOwner
  expired,    \* leaseExpiresAt is not after the current time
  payload,    \* encryptedPayload is not NULL
  kind,       \* messageType, as far as the outbox tells types apart
  token,      \* the invitation token the message refers to
  delivery,   \* account_invitation_tokens.deliveryStatus
  inFlight,   \* deliveries nobody waits for any more, by idempotency key
  received,   \* idempotency keys under which the provider accepted a message
  run,        \* what each worker is doing
  selected    \* ids that a run of the retention cleanup is about to delete

outboxVars == <<status, attempts, owner, expired, payload, kind>>
tokenVars == <<token, delivery>>
providerVars == <<inFlight, received>>
vars == <<status, attempts, owner, expired, payload, kind,
          token, delivery, inFlight, received, run, selected>>

Idle == [at |-> "idle", msg |-> NoMessage, permanent |-> FALSE]

Runs == {Idle} \cup [at : {"deliver", "accepted", "catch"}, msg : Messages, permanent : BOOLEAN]

Kinds == {"account_invitation", "account_invitation_resent", "other"}

\* Keys a provider may see: a message and what else tells its deliveries apart.
Keys == Messages \X (0..MaxAttempts)

\* The token-bearing payload is gone exactly when the message was sent.
PayloadKept ==
  \A m \in Messages :
    status[m] \notin {"none", "deleted"} => (payload[m] <=> status[m] # "sent")

\* The tables keep their types, no message is attempted more often than
\* allowed, and the token-bearing payload is gone exactly when it was sent.
OutboxTypeOK ==
  /\ status \in [Messages ->
       {"none", "queued", "processing", "retry", "sent", "failed", "deleted"}]
  /\ attempts \in [Messages -> 0..MaxAttempts]
  /\ owner \in [Messages -> Workers \cup {NoWorker}]
  /\ expired \in [Messages -> BOOLEAN]
  /\ payload \in [Messages -> BOOLEAN]
  /\ kind \in [Messages -> Kinds]
  /\ token \in [Messages -> {"none", "pending", "used", "revoked"}]
  /\ delivery \in [Messages -> {"pending", "delivery_failed", "accepted", "revoked"}]
  /\ inFlight \subseteq Keys
  /\ received \subseteq Keys
  /\ run \in [Workers -> Runs]
  /\ selected \subseteq Messages
  /\ PayloadKept

Init ==
  /\ status = [m \in Messages |-> "none"]
  /\ attempts = [m \in Messages |-> 0]
  /\ owner = [m \in Messages |-> NoWorker]
  /\ expired = [m \in Messages |-> FALSE]
  /\ payload = [m \in Messages |-> FALSE]
  /\ kind = [m \in Messages |-> "other"]
  /\ token = [m \in Messages |-> "none"]
  /\ delivery = [m \in Messages |-> "pending"]
  /\ inFlight = {}
  /\ received = {}
  /\ run = [w \in Workers |-> Idle]
  /\ selected = {}

-----------------------------------------------------------------------------
(* Business transactions *)

\* enqueueEmailOutbox, inside the transaction of the business change.
Insert(m, type) ==
  /\ status[m] = "none"
  /\ status' = [status EXCEPT ![m] = "queued"]
  /\ payload' = [payload EXCEPT ![m] = TRUE]
  /\ kind' = [kind EXCEPT ![m] = type]
  /\ UNCHANGED <<attempts, owner, expired>>

EnqueueNotice(m) ==
  /\ Insert(m, "other")
  /\ UNCHANGED <<tokenVars, providerVars, run>>

\* issueInvitation: pending tokens are revoked, their deliveryStatus stays as it
\* is.  Whether it replaces another invitation was read before the transaction,
\* and that other one need not be among Messages.
IssueInvitation(m) ==
  /\ Insert(m, "account_invitation") \/ Insert(m, "account_invitation_resent")
  /\ token' = [n \in Messages |->
       IF n = m THEN "pending" ELSE IF token[n] = "pending" THEN "revoked" ELSE token[n]]
  /\ UNCHANGED <<delivery, providerVars, run>>

\* acceptInvitation: a link may be used although its delivery was given up.
AcceptInvitation(m) ==
  /\ token[m] = "pending"
  /\ token' = [token EXCEPT ![m] = "used"]
  /\ delivery' = [delivery EXCEPT ![m] = "accepted"]
  /\ UNCHANGED <<outboxVars, providerVars, run>>

\* A password reset or an administrator revokes the pending invitations, or an
\* invitation that is not among Messages replaces them.
RevokeInvitation(m) ==
  /\ token[m] = "pending"
  /\ token' = [token EXCEPT ![m] = "revoked"]
  /\ delivery' \in {delivery, [delivery EXCEPT ![m] = "revoked"]}
  /\ UNCHANGED <<outboxVars, providerVars, run>>

-----------------------------------------------------------------------------
(* claimNextEmail *)

Due(m) == status[m] \in {"queued", "retry"} \/ (status[m] = "processing" /\ expired[m])

\* Deliberately wrong: the last lease that ran out is left alone.
NeverExhausted == {}

Exhausted ==
  {m \in Messages : status[m] = "processing" /\ expired[m] /\ attempts[m] >= MaxAttempts}

Claimable == {m \in Messages : Due(m) /\ attempts[m] < MaxAttempts}

\* Deliberately wrong: the failure is written to the token whatever it has
\* become.
FailureOverwritesToken(m) ==
  delivery' = IF m # NoMessage /\ kind[m] = "account_invitation"
              THEN [delivery EXCEPT ![m] = "delivery_failed"] ELSE delivery

\* The terminal failure of a message is reflected on its invitation: on a first
\* one, and unless its token was used or revoked.
ReflectFailure(m) ==
  delivery' = IF m # NoMessage /\ kind[m] = "account_invitation" /\ token[m] = "pending"
              THEN [delivery EXCEPT ![m] = "delivery_failed"] ELSE delivery

\* One transaction fails at most one exhausted message and takes at most one;
\* SKIP LOCKED passes over rows others are writing.
SettleAndTake(w, x, m) ==
  /\ run[w] = Idle
  /\ x # NoMessage \/ m # NoMessage
  /\ status' = [n \in Messages |->
       CASE n = x -> "failed" [] n = m -> "processing" [] OTHER -> status[n]]
  /\ owner' = [n \in Messages |->
       CASE n = x -> NoWorker [] n = m -> w [] OTHER -> owner[n]]
  /\ attempts' = [n \in Messages |-> IF n = m THEN attempts[n] + 1 ELSE attempts[n]]
  /\ expired' = [n \in Messages |-> n \notin {x, m} /\ expired[n]]
  /\ ReflectFailure(x)
  /\ run' = IF m = NoMessage THEN run
            ELSE [run EXCEPT ![w] = [Idle EXCEPT !.at = "deliver", !.msg = m]]
  /\ UNCHANGED <<payload, kind, token, providerVars>>

Claim(w) ==
  \E x \in Exhausted \cup {NoMessage}, m \in Claimable \cup {NoMessage} :
    SettleAndTake(w, x, m)

\* Time passes: the provider is slow, or the worker is gone.
Expire(m) ==
  /\ status[m] = "processing"
  /\ ~expired[m]
  /\ expired' = [expired EXCEPT ![m] = TRUE]
  /\ UNCHANGED <<status, attempts, owner, payload, kind, tokenVars, providerVars, run>>

-----------------------------------------------------------------------------
(* The provider *)

\* Deliberately wrong: each attempt has a key of its own.
KeyOfAttempt(m) == <<m, attempts[m]>>

\* email_outbox.idempotencyKey, the same for every attempt.
IdempotencyKey(m) == <<m, 0>>

\* The provider accepts a delivery whose worker has stopped waiting, or never
\* gets to it.
LateAnswer(key) ==
  /\ key \in inFlight
  /\ inFlight' = inFlight \ {key}
  /\ received' \in {received, received \cup {key}}
  /\ UNCHANGED <<outboxVars, tokenVars, run>>

-----------------------------------------------------------------------------
(* processNextEmail *)

\* Deliberately wrong: any delivery of a message in progress is recorded.
OwnsAny(w) == status[run[w].msg] = "processing"

\* The lease of the message, whose expiry is not part of the test.
Owns(w) == status[run[w].msg] = "processing" /\ owner[run[w].msg] = w

Catch(w, permanent) ==
  run' = [run EXCEPT ![w].at = "catch", ![w].permanent = permanent]

Return(w) == run' = [run EXCEPT ![w] = Idle]

\* Deliberately wrong: a delivery that timed out counts as accepted.
DeliverTrustsTimeout(w) ==
  LET key == IdempotencyKey(run[w].msg) IN
  /\ run[w].at = "deliver"
  /\ inFlight' = inFlight \cup {key}
  /\ run' = [run EXCEPT ![w].at = "accepted"]
  /\ UNCHANGED <<outboxVars, tokenVars, received>>

\* deliverWithTimeout: the provider accepts, refuses for now or for good, or
\* the timer fires first.
Deliver(w) ==
  LET key == IdempotencyKey(run[w].msg) IN
  /\ run[w].at = "deliver"
  /\ \/ received' = received \cup {key} /\ run' = [run EXCEPT ![w].at = "accepted"]
        /\ UNCHANGED inFlight
     \/ \E permanent \in BOOLEAN : Catch(w, permanent) /\ UNCHANGED providerVars
     \/ inFlight' = inFlight \cup {key} /\ Catch(w, FALSE) /\ UNCHANGED received
  /\ UNCHANGED <<outboxVars, tokenVars>>

\* The acknowledgement, by the owner of the lease only.
RecordSent(w) ==
  /\ run[w].at = "accepted"
  /\ IF Owns(w)
     THEN /\ status' = [status EXCEPT ![run[w].msg] = "sent"]
          /\ owner' = [owner EXCEPT ![run[w].msg] = NoWorker]
          /\ expired' = [expired EXCEPT ![run[w].msg] = FALSE]
          /\ payload' = [payload EXCEPT ![run[w].msg] = FALSE]
          /\ UNCHANGED <<attempts, kind>>
     ELSE UNCHANGED outboxVars
  /\ Return(w)
  /\ UNCHANGED <<tokenVars, providerVars>>

\* The acknowledgement fails in the try block: the message was accepted, and is
\* handled as one that was not.  What the text of a database error says decides
\* whether it counts as permanent.
RecordSentFails(w) ==
  /\ run[w].at = "accepted"
  /\ \E permanent \in BOOLEAN : Catch(w, permanent)
  /\ UNCHANGED <<outboxVars, tokenVars, providerVars>>

Retries(w) == ~run[w].permanent /\ attempts[run[w].msg] < MaxAttempts

\* The catch block.
RecordFailure(w) ==
  /\ run[w].at = "catch"
  /\ IF Owns(w)
     THEN /\ status' = [status EXCEPT ![run[w].msg] = IF Retries(w) THEN "retry" ELSE "failed"]
          /\ owner' = [owner EXCEPT ![run[w].msg] = NoWorker]
          /\ expired' = [expired EXCEPT ![run[w].msg] = FALSE]
          /\ ReflectFailure(IF Retries(w) THEN NoMessage ELSE run[w].msg)
          /\ UNCHANGED <<attempts, payload, kind>>
     ELSE UNCHANGED <<outboxVars, delivery>>
  /\ Return(w)
  /\ UNCHANGED <<token, providerVars>>

\* The process dies, or the transaction of the catch block fails, which ends the
\* worker.  A delivery it had begun may still arrive.
Crash(w) ==
  /\ run[w] # Idle
  /\ \/ UNCHANGED inFlight
     \/ run[w].at = "deliver" /\ inFlight' = inFlight \cup {IdempotencyKey(run[w].msg)}
  /\ Return(w)
  /\ UNCHANGED <<outboxVars, tokenVars, received>>

-----------------------------------------------------------------------------
(* Operators and the cleanup *)

\* Deliberately wrong: a retried message keeps its count of attempts.
RetryKeepsAttempts(m) ==
  /\ status[m] = "failed"
  /\ status' = [status EXCEPT ![m] = "queued"]
  /\ UNCHANGED <<attempts, owner, expired, payload, kind, tokenVars, providerVars, run>>

\* retryFailedEmail
RetryFailed(m) ==
  /\ status[m] = "failed"
  /\ status' = [status EXCEPT ![m] = "queued"]
  /\ attempts' = [attempts EXCEPT ![m] = 0]
  /\ UNCHANGED <<owner, expired, payload, kind, tokenVars, providerVars, run>>

\* runRetentionCleanup selects the ids of settled messages ...
CleanupSelects(m) ==
  /\ status[m] \in {"sent", "failed"}
  /\ m \notin selected
  /\ selected' = selected \cup {m}
  /\ UNCHANGED <<outboxVars, tokenVars, providerVars, run>>

\* ... and later deletes by these ids, whatever the messages have become, unless
\* it dies before.
CleanupDeletes(m) ==
  /\ m \in selected
  /\ selected' = selected \ {m}
  /\ \/ UNCHANGED outboxVars
     \/ /\ status' = [status EXCEPT ![m] = "deleted"]
        /\ attempts' = [attempts EXCEPT ![m] = 0]
        /\ owner' = [owner EXCEPT ![m] = NoWorker]
        /\ expired' = [expired EXCEPT ![m] = FALSE]
        /\ payload' = [payload EXCEPT ![m] = FALSE]
        /\ UNCHANGED kind
  /\ UNCHANGED <<tokenVars, providerVars, run>>

-----------------------------------------------------------------------------
(* Specification *)

WorkerStep(w) == Deliver(w) \/ RecordSent(w) \/ RecordSentFails(w) \/ RecordFailure(w)

Business(m) ==
  EnqueueNotice(m) \/ IssueInvitation(m) \/ AcceptInvitation(m) \/ RevokeInvitation(m)

Next ==
  \/ /\ \/ \E m \in Messages : Business(m) \/ Expire(m) \/ RetryFailed(m)
        \/ \E w \in Workers : Claim(w) \/ WorkerStep(w) \/ Crash(w)
        \/ \E key \in inFlight : LateAnswer(key)
     /\ UNCHANGED selected
  \/ \E m \in Messages : CleanupSelects(m) \/ CleanupDeletes(m)

Spec == Init /\ [][Next]_vars

\* A worker takes or fails this message.
ClaimFor(m) ==
  /\ \E w \in Workers, n \in Messages \cup {NoMessage} :
       \/ m \in Exhausted /\ n \in Claimable \cup {NoMessage} /\ SettleAndTake(w, m, n)
       \/ m \in Claimable /\ n \in Exhausted \cup {NoMessage} /\ SettleAndTake(w, n, m)
  /\ UNCHANGED selected

\* Workers poll, the queue is ordered by the time at which messages are due, so
\* none is passed over forever, a worker that is not killed goes on, and a lease,
\* which nothing renews, runs out.  Nothing is assumed of the provider, of
\* administrators or of the cleanup.
Fairness ==
  /\ \A m \in Messages : SF_vars(ClaimFor(m)) /\ WF_vars(Expire(m) /\ UNCHANGED selected)
  /\ \A w \in Workers : WF_vars(WorkerStep(w) /\ UNCHANGED selected)

FairSpec == Spec /\ Fairness

-----------------------------------------------------------------------------
(* Properties *)

\* The outbox keeps the promise of LeasedJob for each message, "retry" being a
\* queue like the other and a failed message being out of it until an
\* administrator submits it again: attempts are counted before they start and
\* are bounded, and a message that was sent is never taken again.
QueueStatus(m) ==
  CASE status[m] = "sent" -> "completed"
    [] status[m] = "retry" -> "queued"
    [] status[m] \in {"failed", "deleted"} -> "none"
    [] OTHER -> status[m]

Message(m) == INSTANCE LeasedJob WITH
  status <- QueueStatus(m),
  attempts <- IF status[m] = "failed" THEN 0 ELSE attempts[m],
  holder <- owner[m]

MessagesAreLeased ==
  /\ \A m \in Messages : Message(m)!Init
  /\ [][\A m \in Messages : [Message(m)!Next]_(Message(m)!jobVars)]_vars

\* A message is recorded as sent only if the provider accepted it, where a
\* timeout, a late answer or the answer to another attempt does not count; and
\* through timeouts, takeovers, crashes after acceptance and retries by hand, a
\* provider that honours idempotency keys delivers it once
\* (processNextEmail, retryFailedEmail).
SentOnce ==
  /\ \A m \in Messages : status[m] = "sent" => \E key \in received : key[1] = m
  /\ \A k, l \in received : k[1] = l[1] => k = l

\* A delivery that fails late does not change what is recorded of an invitation
\* that was used, revoked or replaced meanwhile; and a worker whose message was
\* taken over, settled or deleted since it began to deliver changes neither the
\* outbox nor the invitation.
LateAnswersHarmless ==
  [][/\ \A m \in Messages :
          delivery'[m] = "delivery_failed" /\ delivery[m] # "delivery_failed"
          => token[m] = "pending"
     /\ \A w \in Workers :
          /\ run[w] # Idle /\ run'[w] # run[w]
          /\ owner[run[w].msg] # w
          => UNCHANGED <<outboxVars, tokenVars>>]_vars

\* A committed message does not wait forever: it is sent, visibly failed or
\* deleted, through crashes, timeouts and late answers.
MessageSettles ==
  \A m \in Messages :
    status[m] \in {"queued", "retry"} ~> status[m] \in {"sent", "failed", "deleted"}

=============================================================================
