------------------------------ MODULE JobLifecycle ------------------------------
(***************************************************************************)
(* What the job queue of src/core/queues.ts promises about one job row,    *)
(* with no scheduler, no processes and no snapshots: a job is enqueued     *)
(* once, each run starts it from "queued" and ends it, a failed run either *)
(* hands it to the next attempt or, once the retry budget is spent,        *)
(* dead-letters it, and only an operator brings a finished job back.       *)
(***************************************************************************)
EXTENDS Naturals

CONSTANTS
  Job,        \* job ids
  RetryMax    \* retry_max of the queue's worker

VARIABLES
  status,     \* status[j]: "unborn", a JobStatus of the code, or "deleted"
  attempt     \* attempt[j]: the 1-indexed attempt counter

vars == <<status, attempt>>

Init ==
  /\ status = [j \in Job |-> "unborn"]
  /\ attempt = [j \in Job |-> 1]

Move(j, from, to) ==
  /\ status[j] = from
  /\ status' = [status EXCEPT ![j] = to]

Enqueue(j) ==
  /\ Move(j, "unborn", "queued")
  /\ attempt' = [attempt EXCEPT ![j] = 1]

Start(j) == Move(j, "queued", "running") /\ UNCHANGED attempt

Succeed(j) == Move(j, "running", "succeeded") /\ UNCHANGED attempt

(* A run failed, timed out or was lost with its process. *)
NextAttempt(j) ==
  /\ attempt[j] < RetryMax
  /\ Move(j, "running", "queued")
  /\ attempt' = [attempt EXCEPT ![j] = @ + 1]

DeadLetter(j) ==
  /\ attempt[j] >= RetryMax
  /\ Move(j, "running", "dead")
  /\ UNCHANGED attempt

(* An operator re-queues finished jobs with a fresh budget. *)
Revive(S) ==
  /\ \A j \in S : status[j] \in {"succeeded", "dead"}
  /\ status' = [j \in Job |-> IF j \in S THEN "queued" ELSE status[j]]
  /\ attempt' = [j \in Job |-> IF j \in S THEN 1 ELSE attempt[j]]

Discard(j) ==
  /\ status[j] \in {"queued", "dead"}
  /\ status' = [status EXCEPT ![j] = "deleted"]
  /\ UNCHANGED attempt

Next ==
  \/ \E j \in Job : \/ Enqueue(j) \/ Start(j) \/ Succeed(j)
                    \/ NextAttempt(j) \/ DeadLetter(j) \/ Discard(j)
  \/ \E S \in SUBSET Job : Revive(S)

Spec == Init /\ [][Next]_vars

=============================================================================
