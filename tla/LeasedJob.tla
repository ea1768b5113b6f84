------------------------------ MODULE LeasedJob ------------------------------
(***************************************************************************)
(* What a queue of leased jobs promises of each job, whoever the workers   *)
(* are and whatever the work is: every attempt is counted before it        *)
(* starts, a job waits in the queue only while it has attempts left and    *)
(* nobody holds it, and a job that is settled stays settled.               *)
(*                                                                         *)
(* import_jobs keeps this promise (see ImportPipeline).                    *)
(***************************************************************************)
EXTENDS Naturals

CONSTANTS
  Workers,
  NoWorker,    \* SQL NULL in leaseOwner
  MaxAttempts

VARIABLES
  status,
  attempts,    \* attemptCount
  holder       \* leaseOwner

jobVars == <<status, attempts, holder>>

Settled == {"completed", "failed"}

Init ==
  /\ status = "none"
  /\ attempts = 0
  /\ holder = NoWorker

Submit ==
  /\ status = "none"
  /\ status' = "queued"
  /\ UNCHANGED <<attempts, holder>>

\* A job is taken from the queue, or from a holder whose lease ran out.
Take(w) ==
  /\ status \in {"queued", "processing"}
  /\ attempts < MaxAttempts
  /\ status' = "processing"
  /\ attempts' = attempts + 1
  /\ holder' = w

\* The holder gives up for now.
GiveBack ==
  /\ status = "processing"
  /\ attempts < MaxAttempts
  /\ status' = "queued"
  /\ holder' = NoWorker
  /\ UNCHANGED attempts

\* By the holder, or on behalf of a holder that is gone.
Settle(outcome) ==
  /\ status = "processing"
  /\ status' = outcome
  /\ holder' = NoWorker
  /\ UNCHANGED attempts

Remove ==
  /\ status # "none"
  /\ status' = "none"
  /\ attempts' = 0
  /\ holder' = NoWorker

Next ==
  \/ Submit
  \/ \E w \in Workers : Take(w)
  \/ GiveBack
  \/ \E outcome \in Settled : Settle(outcome)
  \/ Remove

Spec == Init /\ [][Next]_jobVars

=============================================================================
