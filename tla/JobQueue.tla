-------------------------------- MODULE JobQueue --------------------------------
(***************************************************************************)
(* The job queue of src/core/queues.ts: cogworks_jobs_log rows shared by   *)
(* the worker processes of one deployment, each running a scheduler tick   *)
(* (reap, count, select, claim) and the runs it started.                   *)
(*                                                                         *)
(* Every SQL statement is atomic and every await lets the other processes  *)
(* and tasks step, so an operation is split exactly at its statements.     *)
(* What a step read earlier (the rows a SELECT returned, the row runJob    *)
(* was handed) is a copy that the table may have left behind.              *)
(*                                                                         *)
(* Time is abstracted to the comparisons the code makes: scheduled_at has  *)
(* arrived (due), started_at is past the visibility timeout (late). A row  *)
(* scheduled for now is one whose time arrives at once. Whether a tick     *)
(* finds REAP_INTERVAL_SEC elapsed is left open.                           *)
(***************************************************************************)
EXTENDS Integers, FiniteSets

CONSTANTS
  Proc,         \* worker processes; one element is `cogworks serve`, more `cogworks cluster`
  Job,          \* ids randomUUID() can still hand out
  Key,          \* unique keys
  NoKey,        \* unique_key IS NULL
  Caller,       \* callers of enqueue() with a uniqueKey
  Task,         \* 1..n: at most n runs in flight at once
  RetryMax,     \* retry_max of the queue's worker
  Concurrency,  \* its concurrency
  Timely,       \* TRUE: every run settles before its row passes the visibility timeout
  MaxCrash,     \* bound on process crashes
  Revivable     \* bound on operators' retries: these jobs, once each

ASSUME JobQueueAssumption ==
  /\ IsFiniteSet(Proc) /\ IsFiniteSet(Job)
  /\ NoKey \notin Key
  /\ RetryMax \in Nat
  /\ Concurrency \in Nat \ {0}
  /\ Timely \in BOOLEAN
  /\ MaxCrash \in Nat
  /\ Revivable \subseteq Job

VARIABLES
  jobs,         \* the cogworks_jobs_log table, row by row
  tick,         \* tick[p]: where p's scheduler tick is, and what it has read
  tasks,        \* runJob calls in flight, each with the copy of the row it was handed
  checked,      \* checked[c]: the key whose dedup SELECT found nothing, before the INSERT
  revived,      \* history: jobs an operator re-queued
  crashes       \* history: how many crashes so far

vars == <<jobs, tick, tasks, checked, revived, crashes>>

Status == {"unborn", "queued", "running", "succeeded", "dead", "deleted"}

(* `late` is kept for running rows and `due` for queued ones; elsewhere    *)
(* neither is read.                                                        *)
Row == [status : Status, attempt : Nat \ {0}, key : Key \cup {NoKey},
        due : BOOLEAN, late : BOOLEAN]

Copy == [job : Job, attempt : Nat \ {0}]

Tick == [pc : {"idle", "reap", "select", "claim"}, rows : SUBSET Copy,
         slots : 0 .. Concurrency]

TaskRec == [id : Task, proc : Proc, job : Job, attempt : Nat \ {0}]

(* Every variable holds values of the columns and locals it stands for; in *)
(* particular a tick never selects with a negative LIMIT.                  *)
TypeOK ==
  /\ jobs \in [Job -> Row]
  /\ tick \in [Proc -> Tick]
  /\ tasks \subseteq TaskRec
  /\ checked \in [Caller -> Key \cup {NoKey}]
  /\ revived \subseteq Job
  /\ crashes \in 0 .. MaxCrash

IdleTick == [pc |-> "idle", rows |-> {}, slots |-> 0]

Init ==
  /\ jobs = [j \in Job |-> [status |-> "unborn", attempt |-> 1, key |-> NoKey,
                            due |-> FALSE, late |-> FALSE]]
  /\ tick = [p \in Proc |-> IdleTick]
  /\ tasks = {}
  /\ checked = [c \in Caller |-> NoKey]
  /\ revived = {}
  /\ crashes = 0

-----------------------------------------------------------------------------
(* Row images written by the UPDATE statements *)

Queued(row, n) ==
  [row EXCEPT !.status = "queued", !.attempt = n, !.due = FALSE, !.late = FALSE]

Running(row) == [row EXCEPT !.status = "running", !.due = FALSE, !.late = FALSE]

Finished(row, s) == [row EXCEPT !.status = s, !.due = FALSE, !.late = FALSE]

With(s) == {j \in Job : jobs[j].status = s}

(* Mutant: the dedup SELECT forgets that a running job still blocks its key. *)
BlocksQueuedOnly(row, k) == row.key = k /\ row.status = "queued"

(* A row that still blocks its unique key. *)
Blocks(row, k) == row.key = k /\ row.status \in {"queued", "running"}

CopyOf(j) == [job |-> j, attempt |-> jobs[j].attempt]

-----------------------------------------------------------------------------
(* enqueue() *)

Insert(j, k) ==
  /\ jobs[j].status = "unborn"
  /\ jobs' = [jobs EXCEPT ![j] = [Queued(@, 1) EXCEPT !.key = k]]

(* The dedup SELECT; finding a blocking row returns it and changes nothing. *)
EnqueueCheck(c, k) ==
  /\ checked[c] = NoKey
  /\ ~ \E j \in Job : Blocks(jobs[j], k)
  /\ checked' = [checked EXCEPT ![c] = k]
  /\ UNCHANGED <<jobs, tick, tasks, revived, crashes>>

EnqueueInsert(c, j) ==
  /\ checked[c] # NoKey
  /\ Insert(j, checked[c])
  /\ checked' = [checked EXCEPT ![c] = NoKey]
  /\ UNCHANGED <<tick, tasks, revived, crashes>>

EnqueueNoKey(j) ==
  /\ Insert(j, NoKey)
  /\ UNCHANGED <<tick, tasks, checked, revived, crashes>>

-----------------------------------------------------------------------------
(* tick(): the reaper *)

(* Mutant: the started_at < cutoff condition is missing. *)
StuckAnyAge == {CopyOf(j) : j \in With("running")}

(* Mutant: a job on its last attempt is not swept. *)
StuckWithBudget ==
  {CopyOf(j) : j \in {i \in With("running") : jobs[i].late /\ jobs[i].attempt < RetryMax}}

(* The SELECT of reapStuckJobs: running rows past the visibility timeout. *)
Stuck == {CopyOf(j) : j \in {i \in With("running") : jobs[i].late}}

ReapSelect(p) ==
  /\ tick[p].pc = "idle"
  /\ tick' = [tick EXCEPT ![p] = [pc |-> "reap", rows |-> Stuck, slots |-> 0]]
  /\ UNCHANGED <<jobs, tasks, checked, revived, crashes>>

(* Mutant: the budget check is off by one. *)
ReclaimedOnceMore(row, n) ==
  IF row.status # "running" THEN row
  ELSE IF n > RetryMax THEN Finished(row, "dead")
  ELSE Queued(row, n + 1)

(* Mutant: a reclaim keeps the attempt number. *)
ReclaimedSameAttempt(row, n) ==
  IF row.status # "running" THEN row
  ELSE IF n >= RetryMax THEN Finished(row, "dead")
  ELSE Queued(row, n)

(* The reaper's UPDATE: guarded by the status alone, it writes the attempt *)
(* of the copy.                                                            *)
Reclaimed(row, n) ==
  IF row.status # "running" THEN row
  ELSE IF n >= RetryMax THEN Finished(row, "dead")
  ELSE Queued(row, n + 1)

ReapRow(p) ==
  /\ tick[p].pc = "reap"
  /\ \E s \in tick[p].rows :
       /\ jobs' = [jobs EXCEPT ![s.job] = Reclaimed(@, s.attempt)]
       /\ tick' = [tick EXCEPT ![p].rows = @ \ {s}]
  /\ UNCHANGED <<tasks, checked, revived, crashes>>

-----------------------------------------------------------------------------
(* tick(): counting, selecting and claiming *)

(* Mutant: `slots <= 0` is compared as `slots = 0`. *)
FreeSlotsUnclamped(used) == Concurrency - used

(* Mutant: the cap is not reduced by what is running. *)
FreeSlotsAlways(used) == IF used >= 0 THEN Concurrency ELSE 0

FreeSlots(used) == IF used < Concurrency THEN Concurrency - used ELSE 0

CountRunning(p) ==
  /\ \/ tick[p].pc = "idle"
     \/ tick[p].pc = "reap" /\ tick[p].rows = {}
  /\ LET n == FreeSlots(Cardinality(With("running")))
     IN  tick' = [tick EXCEPT ![p] =
                    IF n = 0 THEN IdleTick
                    ELSE [pc |-> "select", rows |-> {}, slots |-> n]]
  /\ UNCHANGED <<jobs, tasks, checked, revived, crashes>>

(* The SELECT of claimAndRun, up to `slots` due rows. Which ones the       *)
(* ORDER BY scheduled_at puts first is left open.                          *)
ClaimSelect(p) ==
  LET due == {j \in With("queued") : jobs[j].due}
  IN  /\ tick[p].pc = "select"
      /\ \E S \in SUBSET due :
           /\ Cardinality(S) <= tick[p].slots
           /\ S = due \/ Cardinality(S) = tick[p].slots
           /\ tick' = [tick EXCEPT ![p] =
                         IF S = {} THEN IdleTick
                         ELSE [pc |-> "claim", rows |-> {CopyOf(j) : j \in S}, slots |-> 0]]
      /\ UNCHANGED <<jobs, tasks, checked, revived, crashes>>

FreeTask == {i \in Task : \A t \in tasks : t.id # i}

(* Mutant: the claim UPDATE lost its status guard. *)
ClaimableById(s) == jobs[s.job].status # "deleted"

(* The row the optimistic claim UPDATE matches. *)
Claimable(s) == jobs[s.job].status = "queued"

(* The claim UPDATE and, if it hit, the start of runJob with the copy. *)
Claim(p) ==
  /\ tick[p].pc = "claim"
  /\ \E s \in tick[p].rows :
       LET rest == tick[p].rows \ {s}
       IN  /\ tick' = [tick EXCEPT ![p] = IF rest = {} THEN IdleTick
                                          ELSE [@ EXCEPT !.rows = rest]]
           /\ IF Claimable(s)
              THEN /\ FreeTask # {}
                   /\ jobs' = [jobs EXCEPT ![s.job] = Running(@)]
                   /\ tasks' = tasks \cup {[id |-> CHOOSE i \in FreeTask : TRUE, proc |-> p,
                                            job |-> s.job, attempt |-> s.attempt]}
              ELSE UNCHANGED <<jobs, tasks>>
  /\ UNCHANGED <<checked, revived, crashes>>

-----------------------------------------------------------------------------
(* runJob(): the outcome of one run, written by id alone. A deleted row    *)
(* matches no UPDATE.                                                      *)

Settle(t, image) ==
  /\ jobs' = [jobs EXCEPT ![t.job] = IF @.status = "deleted" THEN @ ELSE image]
  /\ tasks' = tasks \ {t}
  /\ UNCHANGED <<tick, checked, revived, crashes>>

RunSucceeds(t) == Settle(t, Finished(jobs[t.job], "succeeded"))

(* The worker's function threw or exceeded its time budget. *)
RunFails(t) ==
  Settle(t, IF t.attempt < RetryMax
            THEN Queued(jobs[t.job], t.attempt + 1)
            ELSE Finished(jobs[t.job], "dead"))

-----------------------------------------------------------------------------
(* Operators: the admin API *)

RetryJob(j) ==
  /\ j \in Revivable \ revived
  /\ jobs[j].status \in {"dead", "succeeded"}
  /\ jobs' = [jobs EXCEPT ![j] = Queued(@, 1)]
  /\ revived' = revived \cup {j}
  /\ UNCHANGED <<tick, tasks, checked, crashes>>

RetryDeadJobs ==
  /\ With("dead") # {} /\ With("dead") \subseteq Revivable \ revived
  /\ jobs' = [j \in Job |-> IF jobs[j].status = "dead"
                            THEN Queued(jobs[j], 1) ELSE jobs[j]]
  /\ revived' = revived \cup With("dead")
  /\ UNCHANGED <<tick, tasks, checked, crashes>>

DiscardJob(j) ==
  /\ jobs[j].status \in {"queued", "dead"}
  /\ jobs' = [jobs EXCEPT ![j] = Finished(@, "deleted")]
  /\ UNCHANGED <<tick, tasks, checked, revived, crashes>>

-----------------------------------------------------------------------------
(* The environment: clocks and crashes *)

ScheduleArrives(j) ==
  /\ jobs[j].status = "queued" /\ ~ jobs[j].due
  /\ jobs' = [jobs EXCEPT ![j].due = TRUE]
  /\ UNCHANGED <<tick, tasks, checked, revived, crashes>>

VisibilityPasses(j) ==
  /\ jobs[j].status = "running" /\ ~ jobs[j].late
  /\ Timely => \A t \in tasks : t.job # j
  /\ jobs' = [jobs EXCEPT ![j].late = TRUE]
  /\ UNCHANGED <<tick, tasks, checked, revived, crashes>>

(* A killed process takes its tick and its runs with it; the supervisor    *)
(* starts it again with lastReapAt = 0.                                    *)
Crash(p) ==
  /\ crashes < MaxCrash
  /\ crashes' = crashes + 1
  /\ tick' = [tick EXCEPT ![p] = IdleTick]
  /\ tasks' = {t \in tasks : t.proc # p}
  /\ UNCHANGED <<jobs, checked, revived>>

-----------------------------------------------------------------------------
TickStep(p) == ReapSelect(p) \/ ReapRow(p) \/ CountRunning(p) \/ ClaimSelect(p) \/ Claim(p)

Enqueues ==
  \/ \E c \in Caller, k \in Key : EnqueueCheck(c, k)
  \/ \E c \in Caller, j \in Job : EnqueueInsert(c, j)
  \/ \E j \in Job : EnqueueNoKey(j)

Runs == \E t \in tasks : RunSucceeds(t) \/ RunFails(t)

Operator == RetryDeadJobs \/ \E j \in Job : RetryJob(j) \/ DiscardJob(j)

Clock == \E j \in Job : ScheduleArrives(j) \/ VisibilityPasses(j)

Next ==
  \/ \E p \in Proc : TickStep(p) \/ Crash(p)
  \/ Enqueues \/ Runs \/ Operator \/ Clock

(* setInterval keeps ticking, a tick reaps whenever the reap interval has  *)
(* elapsed (so again and again), a run settles (runWithTimeout), clocks    *)
(* advance. Nothing obliges callers, operators or crashes.                 *)
Fairness ==
  /\ \A p \in Proc : WF_vars(TickStep(p)) /\ SF_vars(ReapSelect(p))
  /\ \A i \in Task : WF_vars(\E t \in tasks : t.id = i /\ (RunSucceeds(t) \/ RunFails(t)))
  /\ \A j \in Job : WF_vars(ScheduleArrives(j)) /\ WF_vars(VisibilityPasses(j))

Spec == Init /\ [][Next]_vars

FairSpec == Spec /\ Fairness

-----------------------------------------------------------------------------
(* Properties *)

(* A run in flight owns its row: the row is running, in the attempt the    *)
(* run was started for, and no second run of that job is in flight. This   *)
(* is what the conditional claim, the visibility timeout and the reaper    *)
(* are for; it holds for one timely process.                               *)
ExclusiveRun ==
  \A t \in tasks :
    /\ jobs[t.job].status = "running"
    /\ jobs[t.job].attempt = t.attempt
    /\ \A u \in tasks : u.job = t.job => u = t

(* No job is ever run by two tasks at once: "The WHERE status='running'    *)
(* guard makes the reclaim atomic, so concurrent cluster workers can't     *)
(* double-process" (reapStuckJobs).                                        *)
NoDoubleProcessing == \A t, u \in tasks : t.job = u.job => t = u

(* Enqueues of one caller at a time never leave two unfinished rows with   *)
(* one unique key, through reaps, retries and crashes; only an operator's  *)
(* retry, which does not look at the key, can.                             *)
UniqueLive ==
  LET live == With("queued") \cup With("running")
  IN  \A j, i \in live :
        jobs[j].key = jobs[i].key /\ jobs[j].key # NoKey
          => j = i \/ {j, i} \cap revived # {}

(* No interleaving of stale copies, zombies and reaps gives a job more     *)
(* attempts than the worker's retry_max (one at least).                    *)
AttemptBounded ==
  \A j \in Job : jobs[j].attempt <= (IF RetryMax = 0 THEN 1 ELSE RetryMax)

(* countRunning's cap is exact in one process: whatever settles, is        *)
(* reaped, retried or lost between the count, the select and the claims,   *)
(* the rows in `running` never exceed the worker's concurrency.            *)
RunningCapped == Cardinality(With("running")) <= Concurrency

(* The two limits that are computed from one statement and applied in      *)
(* another: one unfinished row for a key, so many running rows.            *)
LimitsKept == UniqueLive /\ RunningCapped

(* However many ticks selected a job, each queued-to-running transition    *)
(* starts exactly one run and no run starts without one.                   *)
OneStartPerClaim ==
  [][\A j \in Job :
       LET started == {t \in tasks' \ tasks : t.job = j}
       IN  IF jobs[j].status = "queued" /\ jobs'[j].status = "running"
           THEN Cardinality(started) = 1
           ELSE started = {}]_vars

(* Every queued job is eventually finished or discarded, whatever crashes  *)
(* and races it meets: nothing stays queued or running for ever.           *)
EventuallySettles ==
  \A j \in Job : jobs[j].status = "queued"
                   ~> jobs[j].status \in {"succeeded", "dead", "deleted"}

(* The rows, seen one by one, live the life JobLifecycle promises.         *)
Lifecycle == INSTANCE JobLifecycle WITH
  status <- [j \in Job |-> jobs[j].status],
  attempt <- [j \in Job |-> jobs[j].attempt]

(* A row goes through whole runs only, each counted once: no zombie write, *)
(* no skipped or repeated attempt number, no death before the budget is    *)
(* spent. It holds for one timely process.                                 *)
ImplementsLifecycle == Lifecycle!Spec

=============================================================================
