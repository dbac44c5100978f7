---------------------------- MODULE OperationsProofs ----------------------------
(***************************************************************************)
(* Theorems about JobQueue, for every number of processes, jobs, callers   *)
(* and tasks and every retry_max and concurrency; about RateLimit, for any *)
(* rules, principals and processes; about Sandbox, for any processes,      *)
(* tables and administrators; about Upgrade, for any accounts,             *)
(* collections, releases and updaters; about Tokens, for any tokens,       *)
(* bearers and processes; and about Logs, for any requests and spans.      *)
(***************************************************************************)
EXTENDS JobQueue, RateLimit, Sandbox, Upgrade, Tokens, Logs, FunctionTheorems, SequenceTheorems,
        FiniteSetTheorems, WellFoundedInduction, TLAPS

-----------------------------------------------------------------------------
(* Type correctness *)

LEMMA RowImages ==
  ASSUME NEW row \in Row, NEW n \in Nat \ {0}, NEW s \in Status
  PROVE  /\ Queued(row, n) \in Row
         /\ Running(row) \in Row
         /\ Finished(row, s) \in Row
         /\ Reclaimed(row, n) \in Row
<1>1. \A m \in Nat \ {0} : Queued(row, m) \in Row
  BY DEF Queued, Row, Status
<1>2. Running(row) \in Row
  BY DEF Running, Row, Status
<1>3. \A v \in Status : Finished(row, v) \in Row
  BY DEF Finished, Row
<1>4. n + 1 \in Nat \ {0} /\ "dead" \in Status
  BY DEF Status
<1> QED
  BY <1>1, <1>2, <1>3, <1>4 DEF Reclaimed

LEMMA FreeSlotsType ==
  ASSUME TypeOK
  PROVE  FreeSlots(Cardinality(With("running"))) \in 0 .. Concurrency
<1>1. IsFiniteSet(With("running"))
  BY JobQueueAssumption, FS_Subset DEF With
<1>2. Cardinality(With("running")) \in Nat
  BY <1>1, FS_CardinalityType
<1> QED
  BY <1>2, JobQueueAssumption DEF FreeSlots

LEMMA TypeInit == Init => TypeOK
BY JobQueueAssumption DEF Init, TypeOK, Row, Status, Tick, IdleTick, TaskRec

LEMMA CopyType ==
  ASSUME TypeOK, NEW j \in Job
  PROVE  CopyOf(j) \in Copy
BY DEF TypeOK, Row, CopyOf, Copy

LEMMA TypeStep == TypeOK /\ [Next]_vars => TypeOK'
<1> SUFFICES ASSUME TypeOK, [Next]_vars
             PROVE  TypeOK'
  OBVIOUS
<1> USE JobQueueAssumption
<1>1. ASSUME NEW c \in Caller, NEW k \in Key, EnqueueCheck(c, k)
      PROVE  TypeOK'
  BY <1>1 DEF TypeOK, EnqueueCheck
<1>2. ASSUME NEW j \in Job, NEW k \in Key \cup {NoKey}, Insert(j, k)
      PROVE  jobs' \in [Job -> Row]
  <2>1. jobs[j] \in Row
    BY DEF TypeOK
  <2>2. Queued(jobs[j], 1) \in Row
    BY <2>1, RowImages DEF Status
  <2>3. [Queued(jobs[j], 1) EXCEPT !.key = k] \in Row
    BY <2>2 DEF Row
  <2> QED
    BY <1>2, <2>3 DEF TypeOK, Insert
<1>3. ASSUME NEW c \in Caller, NEW j \in Job, EnqueueInsert(c, j)
      PROVE  TypeOK'
  BY <1>2, <1>3 DEF TypeOK, EnqueueInsert
<1>4. ASSUME NEW j \in Job, EnqueueNoKey(j)
      PROVE  TypeOK'
  BY <1>2, <1>4 DEF TypeOK, EnqueueNoKey
<1>5. ASSUME NEW p \in Proc, ReapSelect(p)
      PROVE  TypeOK'
  <2>1. Stuck \subseteq Copy
    BY CopyType DEF Stuck, With
  <2> QED
    BY <1>5, <2>1 DEF TypeOK, ReapSelect, Tick
<1>6. ASSUME NEW p \in Proc, ReapRow(p)
      PROVE  TypeOK'
  <2>1. PICK s \in tick[p].rows :
          /\ jobs' = [jobs EXCEPT ![s.job] = Reclaimed(@, s.attempt)]
          /\ tick' = [tick EXCEPT ![p].rows = @ \ {s}]
    BY <1>6 DEF ReapRow
  <2>2. s \in Copy
    BY DEF TypeOK, Tick
  <2>3. Reclaimed(jobs[s.job], s.attempt) \in Row
    BY <2>2, RowImages DEF TypeOK, Copy, Status
  <2>4. jobs' \in [Job -> Row]
    BY <2>1, <2>2, <2>3 DEF TypeOK, Copy
  <2>5. tick' \in [Proc -> Tick]
    BY <2>1 DEF TypeOK, Tick
  <2> QED
    BY <1>6, <2>4, <2>5 DEF TypeOK, ReapRow
<1>7. ASSUME NEW p \in Proc, CountRunning(p)
      PROVE  TypeOK'
  BY <1>7, FreeSlotsType DEF TypeOK, CountRunning, Tick, IdleTick
<1>8. ASSUME NEW p \in Proc, ClaimSelect(p)
      PROVE  TypeOK'
  <2>1. PICK S \in SUBSET Job :
          tick' = [tick EXCEPT ![p] =
                     IF S = {} THEN IdleTick
                     ELSE [pc |-> "claim", rows |-> {CopyOf(j) : j \in S}, slots |-> 0]]
    BY <1>8 DEF ClaimSelect, With
  <2> DEFINE found == {CopyOf(j) : j \in S}
  <2>2. found \subseteq Copy
    BY CopyType
  <2>3. [pc |-> "claim", rows |-> found, slots |-> 0] \in Tick /\ IdleTick \in Tick
    BY <2>2 DEF Tick, IdleTick
  <2>4. tick' \in [Proc -> Tick]
    BY <2>1, <2>3 DEF TypeOK
  <2> QED
    BY <1>8, <2>4 DEF TypeOK, ClaimSelect
<1>9. ASSUME NEW p \in Proc, Claim(p)
      PROVE  TypeOK'
  <2>1. PICK s \in tick[p].rows :
          /\ tick' = [tick EXCEPT ![p] = IF tick[p].rows \ {s} = {} THEN IdleTick
                                         ELSE [@ EXCEPT !.rows = tick[p].rows \ {s}]]
          /\ IF Claimable(s)
             THEN /\ FreeTask # {}
                  /\ jobs' = [jobs EXCEPT ![s.job] = Running(@)]
                  /\ tasks' = tasks \cup {[id |-> CHOOSE i \in FreeTask : TRUE, proc |-> p,
                                           job |-> s.job, attempt |-> s.attempt]}
             ELSE UNCHANGED <<jobs, tasks>>
    BY <1>9 DEF Claim
  <2>2. s \in Copy
    BY DEF TypeOK, Tick
  <2>3. tick' \in [Proc -> Tick]
    BY <2>1 DEF TypeOK, Tick, IdleTick
  <2>4. Running(jobs[s.job]) \in Row
    BY <2>2, RowImages DEF TypeOK, Status, Copy
  <2>5. jobs' \in [Job -> Row]
    BY <2>1, <2>2, <2>4 DEF TypeOK
  <2>6. FreeTask # {} => (CHOOSE i \in FreeTask : TRUE) \in Task
    BY DEF FreeTask
  <2>7. tasks' \subseteq TaskRec
    <3>1. CASE Claimable(s)
      <4>1. [id |-> CHOOSE i \in FreeTask : TRUE, proc |-> p,
             job |-> s.job, attempt |-> s.attempt] \in TaskRec
        BY <2>1, <2>2, <2>6, <3>1 DEF TaskRec, Copy
      <4> QED
        BY <2>1, <3>1, <4>1 DEF TypeOK
    <3>2. CASE ~ Claimable(s)
      BY <2>1, <3>2 DEF TypeOK
    <3> QED
      BY <3>1, <3>2
  <2> QED
    BY <1>9, <2>3, <2>5, <2>7 DEF TypeOK, Claim
<1>10. ASSUME NEW t \in tasks, NEW image \in Row, Settle(t, image)
       PROVE  TypeOK'
  BY <1>10 DEF TypeOK, Settle
<1>11. ASSUME NEW t \in tasks, RunSucceeds(t) \/ RunFails(t)
       PROVE  TypeOK'
  <2>1. t \in TaskRec /\ t.job \in Job /\ t.attempt \in Nat \ {0}
    BY DEF TypeOK, TaskRec
  <2>2. /\ jobs[t.job] \in Row /\ t.attempt + 1 \in Nat \ {0}
        /\ "succeeded" \in Status /\ "dead" \in Status
    BY <2>1 DEF TypeOK, Status
  <2>3. /\ Finished(jobs[t.job], "succeeded") \in Row
        /\ Finished(jobs[t.job], "dead") \in Row
        /\ Queued(jobs[t.job], t.attempt + 1) \in Row
    BY <2>2, RowImages
  <2> QED
    BY <1>10, <1>11, <2>3 DEF RunSucceeds, RunFails
<1>12. ASSUME NEW j \in Job, RetryJob(j) \/ DiscardJob(j)
       PROVE  TypeOK'
  <2>1. Queued(jobs[j], 1) \in Row /\ Finished(jobs[j], "deleted") \in Row
    BY RowImages DEF TypeOK, Status
  <2> QED
    BY <1>12, <2>1 DEF TypeOK, RetryJob, DiscardJob
<1>13. ASSUME RetryDeadJobs
       PROVE  TypeOK'
  <2>1. \A j \in Job : Queued(jobs[j], 1) \in Row
    BY RowImages DEF TypeOK, Status
  <2> QED
    BY <1>13, <2>1 DEF TypeOK, RetryDeadJobs, With
<1>14. ASSUME NEW j \in Job, ScheduleArrives(j) \/ VisibilityPasses(j)
       PROVE  TypeOK'
  <2>1. jobs[j] \in Row
    BY DEF TypeOK
  <2>2. [jobs[j] EXCEPT !.due = TRUE] \in Row /\ [jobs[j] EXCEPT !.late = TRUE] \in Row
    BY <2>1 DEF Row
  <2> QED
    BY <1>14, <2>2 DEF TypeOK, ScheduleArrives, VisibilityPasses
<1>15. ASSUME NEW p \in Proc, Crash(p)
       PROVE  TypeOK'
  BY <1>15 DEF TypeOK, Crash, Tick, IdleTick
<1>16. CASE UNCHANGED vars
  BY <1>16 DEF TypeOK, vars
<1> QED
  BY <1>1, <1>3, <1>4, <1>5, <1>6, <1>7, <1>8, <1>9, <1>11, <1>12, <1>13, <1>14, <1>15, <1>16
  DEF Next, TickStep, Enqueues, Runs, Operator, Clock

(* The tables and every process's locals keep the types of their columns,  *)
(* whatever the processes do.                                              *)
THEOREM TypeCorrect == Spec => []TypeOK
BY TypeInit, TypeStep, PTL DEF Spec
-----------------------------------------------------------------------------
(* The retry budget *)

(* The highest attempt number a row may carry: a new row has attempt 1     *)
(* even for a worker that never retries.                                   *)
Budget == IF RetryMax = 0 THEN 1 ELSE RetryMax

LEMMA BudgetStep == TypeOK /\ AttemptBounded /\ [Next]_vars => AttemptBounded'
<1> SUFFICES ASSUME TypeOK, \A j \in Job : jobs[j].attempt <= Budget, [Next]_vars
             PROVE  \A j \in Job : jobs'[j].attempt <= Budget
  BY DEF AttemptBounded, Budget
<1> DEFINE InBudget(row) == row.attempt <= Budget
<1>1. ASSUME NEW i \in Job, NEW r, InBudget(r), jobs' = [jobs EXCEPT ![i] = r]
      PROVE  \A j \in Job : InBudget(jobs'[j])
  BY <1>1 DEF TypeOK
<1>2. ASSUME NEW i \in Job, NEW n \in Nat \ {0}
      PROVE  /\ n <= Budget => InBudget(Queued(jobs[i], n))
             /\ InBudget(Running(jobs[i]))
             /\ InBudget(Reclaimed(jobs[i], n))
             /\ \A v : InBudget(Finished(jobs[i], v))
             /\ \A k : n <= Budget => InBudget([Queued(jobs[i], n) EXCEPT !.key = k])
  <2>1. jobs[i] \in Row /\ Budget \in Nat \ {0} /\ InBudget(jobs[i])
    BY JobQueueAssumption DEF TypeOK, Budget
  <2>2. n <= Budget => Queued(jobs[i], n).attempt <= Budget
    BY <2>1 DEF Queued, Row
  <2>3. /\ Running(jobs[i]).attempt = jobs[i].attempt
        /\ \A v : Finished(jobs[i], v).attempt = jobs[i].attempt
    BY <2>1 DEF Running, Finished, Row
  <2>4. \A k : [Queued(jobs[i], n) EXCEPT !.key = k].attempt = n
    BY <2>1 DEF Queued, Row
  <2>5. n < RetryMax => n + 1 <= Budget
    BY JobQueueAssumption DEF Budget
  <2>6. n < RetryMax => Queued(jobs[i], n + 1).attempt <= Budget
    BY <2>1, <2>5 DEF Queued, Row
  <2>7. InBudget(Reclaimed(jobs[i], n))
    BY <2>1, <2>3, <2>6, JobQueueAssumption DEF Reclaimed
  <2> QED
    BY <2>2, <2>3, <2>4, <2>7, <2>1
<1>3. 1 \in Nat \ {0} /\ 1 <= Budget
  BY JobQueueAssumption DEF Budget
<1>4. CASE UNCHANGED jobs
  BY <1>4
<1>5. ASSUME NEW j \in Job, NEW k, Insert(j, k)
      PROVE  \A i \in Job : InBudget(jobs'[i])
  BY <1>1, <1>2, <1>3, <1>5 DEF Insert
<1>6. ASSUME NEW p \in Proc, ReapRow(p)
      PROVE  \A j \in Job : InBudget(jobs'[j])
  <2>1. PICK s \in Copy : jobs' = [jobs EXCEPT ![s.job] = Reclaimed(@, s.attempt)]
    BY <1>6 DEF ReapRow, TypeOK, Tick
  <2>2. s.job \in Job /\ s.attempt \in Nat \ {0}
    BY DEF Copy
  <2> QED
    BY <2>1, <2>2, <1>1, <1>2
<1>7. ASSUME NEW p \in Proc, Claim(p)
      PROVE  \A j \in Job : InBudget(jobs'[j])
  <2>1. PICK s \in Copy : UNCHANGED jobs \/ jobs' = [jobs EXCEPT ![s.job] = Running(@)]
    BY <1>7 DEF Claim, TypeOK, Tick
  <2>2. s.job \in Job
    BY DEF Copy
  <2> QED
    BY <2>1, <2>2, <1>1, <1>2, <1>3, <1>4
<1>8. ASSUME NEW t \in tasks, RunSucceeds(t) \/ RunFails(t)
      PROVE  \A j \in Job : InBudget(jobs'[j])
  <2>1. t.job \in Job /\ t.attempt \in Nat \ {0} /\ t.attempt + 1 \in Nat \ {0}
    BY DEF TypeOK, TaskRec
  <2>2. t.attempt < RetryMax => t.attempt + 1 <= Budget
    BY <2>1, JobQueueAssumption DEF Budget
  <2>3. InBudget(jobs[t.job])
    BY <2>1
  <2>4. PICK image :
          /\ InBudget(image)
          /\ jobs' = [jobs EXCEPT ![t.job] = IF @.status = "deleted" THEN @ ELSE image]
    <3>1. CASE RunSucceeds(t)
      BY <3>1, <2>1, <1>2 DEF RunSucceeds, Settle
    <3>2. CASE RunFails(t)
      <4>1. CASE t.attempt < RetryMax
        BY <3>2, <4>1, <2>1, <2>2, <1>2 DEF RunFails, Settle
      <4>2. CASE ~ (t.attempt < RetryMax)
        BY <3>2, <4>2, <2>1, <1>2 DEF RunFails, Settle
      <4> QED
        BY <4>1, <4>2
    <3> QED
      BY <1>8, <3>1, <3>2
  <2> QED
    BY <2>1, <2>3, <2>4, <1>1
<1>9. ASSUME NEW j \in Job, RetryJob(j) \/ DiscardJob(j)
      PROVE  \A i \in Job : InBudget(jobs'[i])
  BY <1>9, <1>1, <1>2, <1>3 DEF RetryJob, DiscardJob
<1>10. ASSUME RetryDeadJobs
       PROVE  \A i \in Job : InBudget(jobs'[i])
  BY <1>10, <1>2, <1>3 DEF RetryDeadJobs
<1>11. ASSUME NEW j \in Job, ScheduleArrives(j) \/ VisibilityPasses(j)
       PROVE  \A i \in Job : InBudget(jobs'[i])
  <2>1. jobs[j] \in Row /\ InBudget(jobs[j])
    BY DEF TypeOK
  <2>2. InBudget([jobs[j] EXCEPT !.due = TRUE]) /\ InBudget([jobs[j] EXCEPT !.late = TRUE])
    BY <2>1 DEF Row
  <2> QED
    BY <1>11, <1>1, <2>2 DEF ScheduleArrives, VisibilityPasses
<1> QED
  BY <1>4, <1>5, <1>6, <1>7, <1>8, <1>9, <1>10, <1>11
  DEF Next, TickStep, Enqueues, Runs, Operator, Clock, vars, EnqueueCheck, EnqueueInsert,
      EnqueueNoKey, ReapSelect, CountRunning, ClaimSelect, Crash

(* A job never carries an attempt number above the worker's retry_max (1   *)
(* for a worker that never retries), in any deployment: the stale copies   *)
(* that ticks, runs and reapers write back were themselves within budget.  *)
THEOREM RetryBudgetHolds == Spec => []AttemptBounded
<1>1. Init => AttemptBounded
  BY JobQueueAssumption DEF Init, AttemptBounded
<1> QED
  BY <1>1, BudgetStep, TypeCorrect, PTL DEF Spec

-----------------------------------------------------------------------------
(* One worker process whose timeouts are kept (`cogworks serve` with the   *)
(* visibility timeout above execution.timeout_ms): no job is run twice at  *)
(* a time, and the rows live the life JobLifecycle promises.               *)

OneTimelyProcess == Timely /\ \A p, q \in Proc : p = q

(* The copies a tick holds between its SELECT and its UPDATEs still agree  *)
(* with the table: a stuck row has no run left that could change it, and a *)
(* selected row can only be discarded before its claim.                    *)
FreshCopies ==
  \A p \in Proc : \A s \in tick[p].rows :
    /\ jobs[s.job].attempt = s.attempt
    /\ tick[p].pc = "reap" => jobs[s.job].status = "running" /\ jobs[s.job].late
    /\ tick[p].pc = "claim" => jobs[s.job].status \in {"queued", "deleted"}
    /\ tick[p].pc \in {"reap", "claim"}

(* The inductive invariant: a run owns its row, whose visibility timeout   *)
(* has not passed, and the tick's copies are fresh.                        *)
Ownership ==
  /\ ExclusiveRun
  /\ \A t \in tasks : ~ jobs[t.job].late
  /\ FreshCopies
-----------------------------------------------------------------------------
LEMMA ImageFields ==
  ASSUME NEW row \in Row, NEW n \in Nat \ {0}, NEW v
  PROVE  /\ Queued(row, n).status = "queued" /\ Queued(row, n).attempt = n
         /\ Queued(row, n).late = FALSE
         /\ Running(row).status = "running" /\ Running(row).attempt = row.attempt
         /\ Running(row).late = FALSE
         /\ Finished(row, v).status = v /\ Finished(row, v).attempt = row.attempt
         /\ Finished(row, v).late = FALSE
BY DEF Queued, Running, Finished, Row

(* A step that writes a row no run owns and no tick has copied, or that    *)
(* writes no row, leaves the ownership alone.                              *)
LEMMA UntouchedStep ==
  ASSUME TypeOK, Ownership, UNCHANGED <<tick, tasks>>,
         NEW S \in SUBSET Job,
         \A j \in Job \ S : jobs'[j] = jobs[j],
         \A t \in tasks : t.job \notin S,
         \A p \in Proc : \A s \in tick[p].rows : s.job \notin S
  PROVE  Ownership'
<1>1. \A t \in tasks : t.job \in Job /\ jobs'[t.job] = jobs[t.job]
  BY DEF TypeOK, TaskRec
<1>2. \A p \in Proc : \A s \in tick[p].rows : s.job \in Job /\ jobs'[s.job] = jobs[s.job]
  BY DEF TypeOK, Tick, Copy
<1>3. ExclusiveRun' /\ (\A t \in tasks : ~ jobs[t.job].late)'
  BY <1>1 DEF Ownership, ExclusiveRun
<1>4. FreshCopies'
  BY <1>2 DEF Ownership, FreshCopies
<1> QED
  BY <1>3, <1>4 DEF Ownership

(* A tick that reads rows and writes none. *)
LEMMA ReadStep ==
  ASSUME TypeOK, Ownership, UNCHANGED <<jobs, tasks>>, NEW p \in Proc, NEW pc, NEW S \in SUBSET Job,
         NEW n,
         tick' = [tick EXCEPT ![p] = [pc |-> pc, rows |-> {CopyOf(j) : j \in S}, slots |-> n]],
         S # {} => pc \in {"reap", "claim"},
         \A j \in S : /\ pc = "reap" => jobs[j].status = "running" /\ jobs[j].late
                      /\ pc = "claim" => jobs[j].status = "queued"
  PROVE  Ownership'
<1>1. \A s \in tick'[p].rows : \E j \in S : s = CopyOf(j)
  BY DEF TypeOK
<1>2. \A s \in tick'[p].rows :
        /\ jobs[s.job].attempt = s.attempt
        /\ pc = "reap" => jobs[s.job].status = "running" /\ jobs[s.job].late
        /\ pc = "claim" => jobs[s.job].status \in {"queued", "deleted"}
        /\ pc \in {"reap", "claim"}
  BY <1>1 DEF CopyOf
<1>3. tick'[p].pc = pc /\ \A q \in Proc \ {p} : tick'[q] = tick[q]
  BY DEF TypeOK
<1>4. FreshCopies'
  BY <1>2, <1>3 DEF Ownership, FreshCopies
<1> QED
  BY <1>4 DEF Ownership, ExclusiveRun

LEMMA OwnershipInit == Init => Ownership
BY DEF Init, Ownership, ExclusiveRun, FreshCopies, IdleTick

LEMMA ReapRowStep ==
  ASSUME OneTimelyProcess, TypeOK, Ownership, NEW p \in Proc, ReapRow(p)
  PROVE  Ownership'
<1>1. PICK s \in tick[p].rows :
        /\ jobs' = [jobs EXCEPT ![s.job] = Reclaimed(@, s.attempt)]
        /\ tick' = [tick EXCEPT ![p].rows = @ \ {s}]
  BY DEF ReapRow
<1>2. s \in Copy /\ s.job \in Job /\ tick[p].rows \subseteq Copy
  BY DEF TypeOK, Tick, Copy
<1>3. \A q \in Proc : q = p
  BY DEF OneTimelyProcess
<1>4. \A u \in tick[p].rows \ {s} : u.job # s.job
  <2> SUFFICES ASSUME NEW u \in tick[p].rows, u.job = s.job
               PROVE  u = s
    OBVIOUS
  <2>1. u.attempt = s.attempt
    BY DEF Ownership, FreshCopies
  <2> QED
    BY <1>2, <2>1 DEF Copy
<1>5. \A t \in tasks : t.job # s.job /\ t.job \in Job
  BY DEF ReapRow, Ownership, FreshCopies, TypeOK, TaskRec
<1>6. \A j \in Job \ {s.job} : jobs'[j] = jobs[j]
  BY <1>1, <1>2 DEF TypeOK
<1>7. tasks' = tasks
  BY DEF ReapRow
<1>8. ExclusiveRun' /\ (\A t \in tasks : ~ jobs[t.job].late)'
  BY <1>5, <1>6, <1>7 DEF Ownership, ExclusiveRun
<1>9. tick'[p].rows = tick[p].rows \ {s} /\ tick'[p].pc = tick[p].pc
  BY <1>1 DEF TypeOK, Tick
<1>10. \A u \in tick'[p].rows : u.job \in Job /\ jobs'[u.job] = jobs[u.job] /\ u \in tick[p].rows
  BY <1>2, <1>4, <1>6, <1>9 DEF Copy
<1>11. FreshCopies'
  BY <1>3, <1>9, <1>10 DEF Ownership, FreshCopies
<1> QED
  BY <1>8, <1>11 DEF Ownership

LEMMA ClaimStep ==
  ASSUME OneTimelyProcess, TypeOK, Ownership, NEW p \in Proc, Claim(p)
  PROVE  Ownership'
<1>1. PICK s \in tick[p].rows :
        /\ tick' = [tick EXCEPT ![p] = IF tick[p].rows \ {s} = {} THEN IdleTick
                                       ELSE [@ EXCEPT !.rows = tick[p].rows \ {s}]]
        /\ IF Claimable(s)
           THEN /\ FreeTask # {}
                /\ jobs' = [jobs EXCEPT ![s.job] = Running(@)]
                /\ tasks' = tasks \cup {[id |-> CHOOSE i \in FreeTask : TRUE, proc |-> p,
                                         job |-> s.job, attempt |-> s.attempt]}
           ELSE UNCHANGED <<jobs, tasks>>
  BY DEF Claim
<1>2. s \in Copy /\ s.job \in Job /\ tick[p].rows \subseteq Copy /\ jobs[s.job] \in Row
  BY DEF TypeOK, Tick, Copy
<1>3. \A q \in Proc : q = p
  BY DEF OneTimelyProcess
<1>4. \A u \in tick[p].rows \ {s} : u.job # s.job
  <2> SUFFICES ASSUME NEW u \in tick[p].rows, u.job = s.job
               PROVE  u = s
    OBVIOUS
  <2>1. u.attempt = s.attempt
    BY DEF Ownership, FreshCopies
  <2> QED
    BY <1>2, <2>1 DEF Copy
<1>5. jobs[s.job].attempt = s.attempt
  BY DEF Ownership, FreshCopies
<1>6. \A j \in Job \ {s.job} : jobs'[j] = jobs[j]
  BY <1>1, <1>2 DEF TypeOK
<1>7. \A u \in tick'[p].rows : u \in tick[p].rows \ {s} /\ tick'[p].pc = tick[p].pc
  BY <1>1 DEF TypeOK, Tick, IdleTick
<1>8. \A u \in tick'[p].rows : u \in tick[p].rows /\ u.job \in Job /\ jobs'[u.job] = jobs[u.job]
  BY <1>2, <1>4, <1>6, <1>7 DEF Copy
<1>9. FreshCopies'
  BY <1>3, <1>7, <1>8 DEF Ownership, FreshCopies
<1>10. CASE ~ Claimable(s)
  BY <1>1, <1>9, <1>10 DEF Ownership, ExclusiveRun
<1>11. CASE Claimable(s)
  <2> DEFINE new == [id |-> CHOOSE i \in FreeTask : TRUE, proc |-> p,
                     job |-> s.job, attempt |-> s.attempt]
  <2>1. tasks' = tasks \cup {new} /\ new.job = s.job /\ new.attempt = s.attempt
    BY <1>1, <1>11
  <2>2. \A t \in tasks : t.job \in Job /\ t.job # s.job
    BY <1>11 DEF Ownership, ExclusiveRun, Claimable, TypeOK, TaskRec
  <2>3. jobs'[s.job] = Running(jobs[s.job])
    BY <1>1, <1>2, <1>11 DEF TypeOK
  <2>4. /\ jobs'[s.job].status = "running" /\ jobs'[s.job].attempt = s.attempt
        /\ ~ jobs'[s.job].late
    BY <1>2, <1>5, <2>3 DEF Running, Row
  <2> HIDE DEF new
  <2>5. ExclusiveRun'
    BY <1>6, <2>1, <2>2, <2>4 DEF Ownership, ExclusiveRun
  <2>6. \A t \in tasks' : ~ jobs'[t.job].late
    BY <1>6, <2>1, <2>2, <2>4 DEF Ownership
  <2> QED
    BY <1>9, <2>5, <2>6 DEF Ownership
<1> QED
  BY <1>10, <1>11

LEMMA SettleStep ==
  ASSUME TypeOK, Ownership, NEW t \in tasks, NEW image, Settle(t, image)
  PROVE  Ownership'
<1>1. t.job \in Job /\ \A u \in tasks : u.job \in Job
  BY DEF TypeOK, TaskRec
<1>2. \A j \in Job \ {t.job} : jobs'[j] = jobs[j]
  BY <1>1 DEF Settle, TypeOK
<1>3. \A u \in tasks' : u \in tasks /\ u.job # t.job
  BY DEF Settle, Ownership, ExclusiveRun
<1>4. \A p \in Proc : \A s \in tick[p].rows : s.job \in Job /\ s.job # t.job
  BY DEF Ownership, FreshCopies, ExclusiveRun, TypeOK, Tick, Copy
<1>5. ExclusiveRun' /\ (\A u \in tasks : ~ jobs[u.job].late)'
  BY <1>1, <1>2, <1>3 DEF Ownership, ExclusiveRun
<1>6. FreshCopies'
  BY <1>2, <1>4 DEF Ownership, FreshCopies, Settle
<1> QED
  BY <1>5, <1>6 DEF Ownership

LEMMA DiscardStep ==
  ASSUME TypeOK, Ownership, NEW j \in Job, DiscardJob(j)
  PROVE  Ownership'
<1>1. /\ jobs' = [jobs EXCEPT ![j] = Finished(@, "deleted")]
      /\ tick' = tick /\ tasks' = tasks /\ jobs[j].status \in {"queued", "dead"}
  BY DEF DiscardJob
<1>2. \A i \in Job \ {j} : jobs'[i] = jobs[i]
  BY <1>1 DEF TypeOK
<1>3. jobs'[j].status = "deleted" /\ jobs'[j].attempt = jobs[j].attempt
  BY <1>1 DEF TypeOK, Finished, Row
<1>4. \A t \in tasks : t.job \in Job /\ t.job # j
  BY <1>1 DEF Ownership, ExclusiveRun, TypeOK, TaskRec
<1>5. ExclusiveRun' /\ (\A t \in tasks : ~ jobs[t.job].late)'
  BY <1>1, <1>2, <1>4 DEF Ownership, ExclusiveRun
<1>6. \A p \in Proc : \A s \in tick[p].rows : s.job \in Job
  BY DEF TypeOK, Tick, Copy
<1>7. FreshCopies'
  BY <1>1, <1>2, <1>3, <1>6 DEF Ownership, FreshCopies
<1> QED
  BY <1>5, <1>7 DEF Ownership

LEMMA ClockStep ==
  ASSUME OneTimelyProcess, TypeOK, Ownership, NEW j \in Job,
         ScheduleArrives(j) \/ VisibilityPasses(j)
  PROVE  Ownership'
<1>1. \A i \in Job : /\ jobs'[i].status = jobs[i].status
                     /\ jobs'[i].attempt = jobs[i].attempt
                     /\ jobs[i].late => jobs'[i].late
  BY DEF ScheduleArrives, VisibilityPasses, TypeOK, Row
<1>2. \A t \in tasks : t.job \in Job /\ ~ jobs'[t.job].late
  BY DEF ScheduleArrives, VisibilityPasses, TypeOK, Row, OneTimelyProcess, Ownership, TaskRec
<1>3. \A p \in Proc : \A s \in tick[p].rows : s.job \in Job
  BY DEF TypeOK, Tick, Copy
<1>4. tick' = tick /\ tasks' = tasks
  BY DEF ScheduleArrives, VisibilityPasses
<1>5. ExclusiveRun'
  BY <1>1, <1>2, <1>4 DEF Ownership, ExclusiveRun
<1>6. FreshCopies'
  BY <1>1, <1>3, <1>4 DEF Ownership, FreshCopies
<1> QED
  BY <1>2, <1>4, <1>5, <1>6 DEF Ownership

LEMMA CrashStep ==
  ASSUME TypeOK, Ownership, NEW p \in Proc, Crash(p)
  PROVE  Ownership'
BY DEF TypeOK, Ownership, ExclusiveRun, FreshCopies, Crash, IdleTick

LEMMA OwnershipStep ==
  ASSUME OneTimelyProcess
  PROVE  TypeOK /\ Ownership /\ [Next]_vars => Ownership'
<1> SUFFICES ASSUME TypeOK, Ownership, [Next]_vars
             PROVE  Ownership'
  OBVIOUS
<1>1. \A t \in tasks : t.job \in Job /\ jobs[t.job].status = "running"
  BY DEF Ownership, ExclusiveRun, TypeOK, TaskRec
<1>2. \A p \in Proc : \A s \in tick[p].rows :
        s.job \in Job /\ jobs[s.job].status \in {"running", "queued", "deleted"}
  BY DEF Ownership, FreshCopies, TypeOK, Tick, Copy
<1>3. ASSUME NEW j \in Job, NEW k, Insert(j, k), UNCHANGED <<tick, tasks>>
      PROVE  Ownership'
  <2>1. \A i \in Job \ {j} : jobs'[i] = jobs[i]
    BY <1>3 DEF Insert, TypeOK
  <2>2. jobs[j].status = "unborn"
    BY <1>3 DEF Insert
  <2>3. /\ \A t \in tasks : t.job \notin {j}
        /\ \A p \in Proc : \A s \in tick[p].rows : s.job \notin {j}
    BY <1>1, <1>2, <2>2
  <2> QED
    BY <1>3, <2>1, <2>3, UntouchedStep
<1>4. ASSUME NEW j \in Job, RetryJob(j)
      PROVE  Ownership'
  <2>1. /\ \A i \in Job \ {j} : jobs'[i] = jobs[i]
        /\ jobs[j].status \in {"dead", "succeeded"}
        /\ UNCHANGED <<tick, tasks>>
    BY <1>4 DEF RetryJob, TypeOK
  <2>2. /\ \A t \in tasks : t.job \notin {j}
        /\ \A p \in Proc : \A s \in tick[p].rows : s.job \notin {j}
    BY <1>1, <1>2, <2>1
  <2> QED
    BY <2>1, <2>2, UntouchedStep
<1>5. ASSUME RetryDeadJobs
      PROVE  Ownership'
  <2>1. /\ \A i \in Job \ With("dead") : jobs'[i] = jobs[i]
        /\ UNCHANGED <<tick, tasks>>
    BY <1>5 DEF RetryDeadJobs, With
  <2>2. /\ With("dead") \subseteq Job
        /\ \A t \in tasks : t.job \notin With("dead")
        /\ \A p \in Proc : \A s \in tick[p].rows : s.job \notin With("dead")
    BY <1>1, <1>2 DEF With
  <2> QED
    BY <2>1, <2>2, UntouchedStep
<1>6. ASSUME UNCHANGED <<jobs, tick, tasks>>
      PROVE  Ownership'
  BY <1>6 DEF Ownership, ExclusiveRun, FreshCopies
<1>7. ASSUME NEW p \in Proc, ReapSelect(p)
      PROVE  Ownership'
  <2> DEFINE S == {i \in With("running") : jobs[i].late}
  <2>1. /\ S \in SUBSET Job
        /\ \A j \in S : jobs[j].status = "running" /\ jobs[j].late
        /\ tick' = [tick EXCEPT ![p] = [pc |-> "reap", rows |-> {CopyOf(j) : j \in S}, slots |-> 0]]
        /\ UNCHANGED <<jobs, tasks>>
    BY <1>7 DEF ReapSelect, Stuck, With
  <2> HIDE DEF S
  <2> QED
    BY <2>1, ReadStep
<1>8. ASSUME NEW p \in Proc, CountRunning(p)
      PROVE  Ownership'
  <2>1. /\ tick'[p].rows = {}
        /\ \A q \in Proc \ {p} : tick'[q] = tick[q]
        /\ UNCHANGED <<jobs, tasks>>
    BY <1>8 DEF CountRunning, TypeOK, IdleTick
  <2> QED
    BY <2>1 DEF Ownership, ExclusiveRun, FreshCopies
<1>9. ASSUME NEW p \in Proc, ClaimSelect(p)
      PROVE  Ownership'
  <2>1. PICK S \in SUBSET With("queued") :
          /\ tick' = [tick EXCEPT ![p] =
                        IF S = {} THEN IdleTick
                        ELSE [pc |-> "claim", rows |-> {CopyOf(j) : j \in S}, slots |-> 0]]
          /\ UNCHANGED <<jobs, tasks>>
    BY <1>9 DEF ClaimSelect
  <2>2. S \in SUBSET Job /\ \A j \in S : jobs[j].status = "queued"
    BY DEF With
  <2>3. CASE S = {}
    <3>1. tick'[p].rows = {} /\ \A q \in Proc \ {p} : tick'[q] = tick[q]
      BY <2>1, <2>3 DEF TypeOK, IdleTick
    <3> QED
      BY <2>1, <3>1 DEF Ownership, ExclusiveRun, FreshCopies
  <2>4. CASE S # {}
    <3>1. tick' = [tick EXCEPT ![p] = [pc |-> "claim", rows |-> {CopyOf(j) : j \in S}, slots |-> 0]]
      BY <2>1, <2>4
    <3>2. UNCHANGED <<jobs, tasks>>
      BY <2>1
    <3> QED
      BY <2>2, <3>1, <3>2, ReadStep
  <2> QED
    BY <2>3, <2>4
<1>10. ASSUME NEW t \in tasks, RunSucceeds(t) \/ RunFails(t)
       PROVE  Ownership'
  BY <1>10, SettleStep DEF RunSucceeds, RunFails
<1>11. ASSUME Enqueues
       PROVE  Ownership'
  BY <1>3, <1>6, <1>11 DEF Enqueues, EnqueueCheck, EnqueueInsert, EnqueueNoKey
<1>12. ASSUME NEW p \in Proc, TickStep(p) \/ Crash(p)
       PROVE  Ownership'
  BY <1>7, <1>8, <1>9, <1>12, ReapRowStep, ClaimStep, CrashStep DEF TickStep
<1>13. ASSUME Operator \/ Clock
       PROVE  Ownership'
  BY <1>4, <1>5, <1>13, DiscardStep, ClockStep DEF Operator, Clock
<1> QED
  BY <1>6, <1>10, <1>11, <1>12, <1>13 DEF Next, Runs, vars

LEMMA OwnershipAlways ==
  ASSUME OneTimelyProcess
  PROVE  Spec => []Ownership
<1>1. TypeOK /\ Ownership /\ [Next]_vars => Ownership'
  BY OwnershipStep
<1> QED
  BY <1>1, OwnershipInit, TypeCorrect, PTL DEF Spec

(* In one process whose timeouts are kept, a job is never run twice at a   *)
(* time, and a run in flight is always the one its row is waiting for:     *)
(* runJob's unguarded UPDATEs by id then write only to a row of their own. *)
THEOREM ExclusiveRuns ==
  ASSUME OneTimelyProcess
  PROVE  Spec => []ExclusiveRun
<1>1. Ownership => ExclusiveRun
  BY DEF Ownership
<1> QED
  BY <1>1, OwnershipAlways, PTL

-----------------------------------------------------------------------------
(* The implementation of JobLifecycle *)

(* What one written row amounts to for the abstract job. *)
LEMMA RowStep ==
  ASSUME TypeOK, NEW j \in Job, NEW image, jobs' = [jobs EXCEPT ![j] = image]
  PROVE  /\ [i \in Job |-> jobs[i].status]'
              = [[i \in Job |-> jobs[i].status] EXCEPT ![j] = image.status]
         /\ [i \in Job |-> jobs[i].attempt]'
              = [[i \in Job |-> jobs[i].attempt] EXCEPT ![j] = image.attempt]
BY DEF TypeOK

LEMMA LifecycleInit == Init => Lifecycle!Init
BY DEF Init, Lifecycle!Init

LEMMA LifecycleStep == TypeOK /\ Ownership /\ [Next]_vars => [Lifecycle!Next]_(Lifecycle!vars)
<1> SUFFICES ASSUME TypeOK, Ownership, [Next]_vars
             PROVE  Lifecycle!Next \/ UNCHANGED Lifecycle!vars
  OBVIOUS
<1> USE DEF Lifecycle!Next
<1>1. CASE UNCHANGED jobs
  BY <1>1 DEF Lifecycle!vars
<1>2. ASSUME NEW j \in Job, NEW k, Insert(j, k)
      PROVE  Lifecycle!Next
  <2> DEFINE image == [Queued(jobs[j], 1) EXCEPT !.key = k]
  <2>1. jobs[j] \in Row /\ jobs[j].status = "unborn" /\ jobs' = [jobs EXCEPT ![j] = image]
    BY <1>2 DEF Insert, TypeOK
  <2>2. image.status = "queued" /\ image.attempt = 1
    BY <2>1 DEF Queued, Row
  <2> HIDE DEF image
  <2> QED
    <3>1. /\ [i \in Job |-> jobs[i].status]'
               = [[i \in Job |-> jobs[i].status] EXCEPT ![j] = "queued"]
          /\ [i \in Job |-> jobs[i].attempt]'
               = [[i \in Job |-> jobs[i].attempt] EXCEPT ![j] = 1]
      BY <2>1, <2>2 DEF TypeOK
    <3>2. Lifecycle!Enqueue(j)
      BY <2>1, <3>1 DEF Lifecycle!Enqueue, Lifecycle!Move
    <3> QED
      BY <3>2
<1>3. ASSUME NEW j \in Job, NEW n \in Nat \ {0}, jobs[j].status = "running",
             jobs[j].attempt = n,
             \/ jobs' = [jobs EXCEPT ![j] = Finished(@, "succeeded")]
             \/ jobs' = [jobs EXCEPT ![j] = Queued(@, n + 1)] /\ n < RetryMax
             \/ jobs' = [jobs EXCEPT ![j] = Finished(@, "dead")] /\ n >= RetryMax
      PROVE  Lifecycle!Next
  <2>1. jobs[j] \in Row
    BY DEF TypeOK
  <2>2. CASE jobs' = [jobs EXCEPT ![j] = Finished(jobs[j], "succeeded")]
    <3>1. /\ Finished(jobs[j], "succeeded").status = "succeeded"
          /\ Finished(jobs[j], "succeeded").attempt = jobs[j].attempt
      BY <2>1 DEF Finished, Row
    <3>2. Lifecycle!Succeed(j)
      BY <1>3, <2>2, <3>1, RowStep DEF Lifecycle!Succeed, Lifecycle!Move, TypeOK
    <3> QED
      BY <3>2
  <2>3. CASE jobs' = [jobs EXCEPT ![j] = Queued(jobs[j], n + 1)] /\ n < RetryMax
    <3>1. /\ Queued(jobs[j], n + 1).status = "queued"
          /\ Queued(jobs[j], n + 1).attempt = n + 1
      BY <2>1 DEF Queued, Row
    <3>2. /\ [i \in Job |-> jobs[i].status]'
               = [[i \in Job |-> jobs[i].status] EXCEPT ![j] = "queued"]
          /\ [i \in Job |-> jobs[i].attempt]'
               = [[i \in Job |-> jobs[i].attempt] EXCEPT ![j] = n + 1]
      BY <2>3, <3>1 DEF TypeOK
    <3>3. [i \in Job |-> jobs[i].attempt][j] = n /\ [i \in Job |-> jobs[i].status][j] = "running"
      BY <1>3
    <3>4. Lifecycle!NextAttempt(j)
      BY <2>3, <3>2, <3>3 DEF Lifecycle!NextAttempt, Lifecycle!Move
    <3> QED
      BY <3>4
  <2>4. CASE jobs' = [jobs EXCEPT ![j] = Finished(jobs[j], "dead")] /\ n >= RetryMax
    <3>1. /\ Finished(jobs[j], "dead").status = "dead"
          /\ Finished(jobs[j], "dead").attempt = jobs[j].attempt
      BY <2>1 DEF Finished, Row
    <3>2. Lifecycle!DeadLetter(j)
      BY <1>3, <2>4, <3>1, RowStep DEF Lifecycle!DeadLetter, Lifecycle!Move, TypeOK
    <3> QED
      BY <3>2
  <2> QED
    BY <1>3, <2>2, <2>3, <2>4
<1>4. ASSUME NEW p \in Proc, ReapRow(p)
      PROVE  Lifecycle!Next
  <2>1. PICK s \in tick[p].rows : jobs' = [jobs EXCEPT ![s.job] = Reclaimed(@, s.attempt)]
    BY <1>4 DEF ReapRow
  <2>2. s.job \in Job /\ s.attempt \in Nat \ {0}
    BY DEF TypeOK, Tick, Copy
  <2>3. jobs[s.job].status = "running" /\ jobs[s.job].attempt = s.attempt
    BY <1>4 DEF ReapRow, Ownership, FreshCopies
  <2>4. Reclaimed(jobs[s.job], s.attempt) =
          IF s.attempt >= RetryMax THEN Finished(jobs[s.job], "dead")
          ELSE Queued(jobs[s.job], s.attempt + 1)
    BY <2>3 DEF Reclaimed
  <2>5. s.attempt >= RetryMax \/ s.attempt < RetryMax
    BY <2>2, JobQueueAssumption
  <2> QED
    BY <1>3, <2>1, <2>2, <2>3, <2>4, <2>5, JobQueueAssumption
<1>5. ASSUME NEW p \in Proc, Claim(p)
      PROVE  Lifecycle!Next \/ UNCHANGED jobs
  <2>1. PICK s \in tick[p].rows :
          \/ UNCHANGED jobs
          \/ jobs[s.job].status = "queued" /\ jobs' = [jobs EXCEPT ![s.job] = Running(@)]
    BY <1>5 DEF Claim, Claimable
  <2>2. s.job \in Job /\ jobs[s.job] \in Row
    BY DEF TypeOK, Tick, Copy
  <2>3. /\ Running(jobs[s.job]).status = "running"
        /\ Running(jobs[s.job]).attempt = jobs[s.job].attempt
    BY <2>2 DEF Running, Row
  <2>4. CASE jobs[s.job].status = "queued" /\ jobs' = [jobs EXCEPT ![s.job] = Running(@)]
    <3>1. Lifecycle!Start(s.job)
      BY <2>2, <2>3, <2>4, RowStep DEF Lifecycle!Start, Lifecycle!Move, TypeOK
    <3> QED
      BY <2>2, <3>1
  <2> QED
    BY <2>1, <2>4
<1>6. ASSUME NEW t \in tasks, RunSucceeds(t) \/ RunFails(t)
      PROVE  Lifecycle!Next
  <2>1. t.job \in Job /\ t.attempt \in Nat \ {0}
    BY DEF TypeOK, TaskRec
  <2>2. jobs[t.job].status = "running" /\ jobs[t.job].attempt = t.attempt
    BY DEF Ownership, ExclusiveRun
  <2>3. t.attempt >= RetryMax \/ t.attempt < RetryMax
    BY <2>1, JobQueueAssumption
  <2>4. \/ jobs' = [jobs EXCEPT ![t.job] = Finished(@, "succeeded")]
        \/ jobs' = [jobs EXCEPT ![t.job] = Queued(@, t.attempt + 1)] /\ t.attempt < RetryMax
        \/ jobs' = [jobs EXCEPT ![t.job] = Finished(@, "dead")] /\ t.attempt >= RetryMax
    BY <1>6, <2>2, <2>3 DEF RunSucceeds, RunFails, Settle
  <2> QED
    BY <1>3, <2>1, <2>2, <2>4
<1>7. ASSUME NEW S \in SUBSET Job, \A j \in S : jobs[j].status \in {"succeeded", "dead"},
             jobs' = [j \in Job |-> IF j \in S THEN Queued(jobs[j], 1) ELSE jobs[j]]
      PROVE  Lifecycle!Next
  <2>1. \A j \in Job : Queued(jobs[j], 1).status = "queued" /\ Queued(jobs[j], 1).attempt = 1
    BY DEF TypeOK, Queued, Row
  <2>2. Lifecycle!Revive(S)
    BY <1>7, <2>1 DEF Lifecycle!Revive
  <2> QED
    BY <2>2
<1>8. ASSUME NEW j \in Job, RetryJob(j)
      PROVE  Lifecycle!Next
  <2>1. jobs' = [i \in Job |-> IF i \in {j} THEN Queued(jobs[i], 1) ELSE jobs[i]]
    BY <1>8 DEF RetryJob, TypeOK
  <2>2. \A i \in {j} : jobs[i].status \in {"succeeded", "dead"}
    BY <1>8 DEF RetryJob
  <2> QED
    BY <1>7, <2>1, <2>2
<1>9. ASSUME RetryDeadJobs
      PROVE  Lifecycle!Next
  <2>1. jobs' = [i \in Job |-> IF i \in With("dead") THEN Queued(jobs[i], 1) ELSE jobs[i]]
    BY <1>9 DEF RetryDeadJobs, With
  <2>2. With("dead") \in SUBSET Job /\ \A i \in With("dead") : jobs[i].status \in {"succeeded", "dead"}
    BY DEF With
  <2> QED
    BY <1>7, <2>1, <2>2
<1>10. ASSUME NEW j \in Job, DiscardJob(j)
       PROVE  Lifecycle!Next
  <2>1. /\ jobs[j] \in Row /\ jobs[j].status \in {"queued", "dead"}
        /\ jobs' = [jobs EXCEPT ![j] = Finished(@, "deleted")]
    BY <1>10 DEF DiscardJob, TypeOK
  <2>2. /\ Finished(jobs[j], "deleted").status = "deleted"
        /\ Finished(jobs[j], "deleted").attempt = jobs[j].attempt
    BY <2>1 DEF Finished, Row
  <2>3. Lifecycle!Discard(j)
    BY <2>1, <2>2, RowStep DEF Lifecycle!Discard, TypeOK
  <2> QED
    BY <2>3
<1>11. ASSUME NEW j \in Job, ScheduleArrives(j) \/ VisibilityPasses(j)
       PROVE  UNCHANGED Lifecycle!vars
  <2>1. \A i \in Job : jobs'[i].status = jobs[i].status /\ jobs'[i].attempt = jobs[i].attempt
    BY <1>11 DEF ScheduleArrives, VisibilityPasses, TypeOK, Row
  <2> QED
    BY <2>1 DEF Lifecycle!vars
<1> QED
  BY <1>1, <1>2, <1>4, <1>5, <1>6, <1>8, <1>9, <1>10, <1>11
  DEF Next, TickStep, Enqueues, Runs, Operator, Clock, vars, EnqueueCheck, EnqueueInsert,
      EnqueueNoKey, ReapSelect, CountRunning, ClaimSelect, Crash

(* In one process whose timeouts are kept, the queue implements the job    *)
(* lifecycle: every attempt is counted once, no finished job comes back    *)
(* but by an operator, none is dead-lettered before its budget is spent.   *)
THEOREM QueueImplementsLifecycle ==
  ASSUME OneTimelyProcess
  PROVE  Spec => ImplementsLifecycle
<1>1. TypeOK /\ Ownership /\ [Next]_vars => [Lifecycle!Next]_(Lifecycle!vars)
  BY LifecycleStep
<1> QED
  BY <1>1, LifecycleInit, OwnershipAlways, TypeCorrect, PTL
  DEF Spec, ImplementsLifecycle, Lifecycle!Spec

-----------------------------------------------------------------------------
(* The cap on running rows *)

OneProcess == \A p, q \in Proc : p = q

(* The rows a tick has yet to claim. *)
Selected(p) == {j \in Job : \E s \in tick[p].rows : s.job = j}

(* The inductive invariant: what the tick has counted leaves room for what *)
(* it may still claim, and it holds one copy of a row at most.             *)
Room ==
  /\ RunningCapped
  /\ \A p \in Proc :
       /\ tick[p].pc = "select" => Cardinality(With("running")) + tick[p].slots <= Concurrency
       /\ tick[p].pc = "claim" =>
            Cardinality(With("running")) + Cardinality(Selected(p)) <= Concurrency
       /\ \A s, u \in tick[p].rows : s.job = u.job => s = u

LEMMA SizeOf ==
  ASSUME NEW S \in SUBSET Job
  PROVE  /\ IsFiniteSet(S) /\ Cardinality(S) \in Nat
         /\ \A T \in SUBSET S : Cardinality(T) \in Nat /\ Cardinality(T) <= Cardinality(S)
         /\ \A j \in Job : Cardinality(S \cup {j}) <= Cardinality(S) + 1
         /\ \A j \in S : Cardinality(S \ {j}) = Cardinality(S) - 1
<1>1. IsFiniteSet(S)
  BY FS_Subset, JobQueueAssumption
<1> QED
  BY <1>1, FS_CardinalityType, FS_Subset, FS_AddElement, FS_RemoveElement

LEMMA RoomInit == Init => Room
<1> SUFFICES ASSUME Init
             PROVE  Room
  OBVIOUS
<1>1. With("running") = {}
  BY DEF Init, With
<1>2. Cardinality(With("running")) = 0
  BY <1>1, FS_EmptySet
<1> QED
  BY <1>2, JobQueueAssumption DEF Init, IdleTick, Room, RunningCapped

(* A step that starts no row keeps the room there is. *)
LEMMA RoomKept ==
  ASSUME TypeOK, Room, With("running")' \subseteq With("running"),
         \A p \in Proc : \/ tick'[p] = tick[p]
                         \/ /\ tick'[p].pc \in {"idle", "reap"}
                            /\ \A s, u \in tick'[p].rows : s.job = u.job => s = u
  PROVE  Room'
<1>1. /\ Cardinality(With("running")') <= Cardinality(With("running"))
      /\ Cardinality(With("running")') \in Nat /\ Cardinality(With("running")) \in Nat
  BY SizeOf DEF With
<1>2. Concurrency \in Nat
  BY JobQueueAssumption
<1>3. RunningCapped'
  BY <1>1, <1>2 DEF Room, RunningCapped
<1>4. ASSUME NEW p \in Proc, tick'[p] = tick[p]
      PROVE  /\ tick'[p].pc = "select" => Cardinality(With("running")') + tick'[p].slots <= Concurrency
             /\ tick'[p].pc = "claim" =>
                  Cardinality(With("running")') + Cardinality(Selected(p)') <= Concurrency
             /\ \A s, u \in tick'[p].rows : s.job = u.job => s = u
  <2>1. Selected(p)' = Selected(p) /\ Cardinality(Selected(p)) \in Nat
    BY <1>4, SizeOf DEF Selected
  <2>2. tick[p].slots \in Nat
    BY <1>2 DEF TypeOK, Tick
  <2> QED
    BY <1>1, <1>2, <1>4, <2>1, <2>2 DEF Room
<1>5. ASSUME NEW p \in Proc, tick'[p].pc \in {"idle", "reap"}
      PROVE  /\ tick'[p].pc = "select" => Cardinality(With("running")') + tick'[p].slots <= Concurrency
             /\ tick'[p].pc = "claim" =>
                  Cardinality(With("running")') + Cardinality(Selected(p)') <= Concurrency
  BY <1>5
<1> QED
  BY <1>3, <1>4, <1>5 DEF Room

(* Only a claim puts a row into `running`. *)
LEMMA OnlyClaimsRun ==
  ASSUME TypeOK, [Next]_vars, \A p \in Proc : ~ Claim(p)
  PROVE  With("running")' \subseteq With("running")
<1>1. ASSUME NEW S \in SUBSET Job, \A j \in Job \ S : jobs'[j] = jobs[j],
             \A j \in S : jobs'[j].status # "running" \/ jobs[j].status = "running"
      PROVE  With("running")' \subseteq With("running")
  BY <1>1 DEF With
<1>2. ASSUME NEW j \in Job, NEW image, jobs' = [jobs EXCEPT ![j] = image],
             image.status # "running" \/ jobs[j].status = "running"
      PROVE  With("running")' \subseteq With("running")
  BY <1>2 DEF With, TypeOK
<1>3. \A j \in Job : jobs[j] \in Row
  BY DEF TypeOK
<1>4. ASSUME NEW j \in Job, NEW k, Insert(j, k)
      PROVE  With("running")' \subseteq With("running")
  <2>1. [Queued(jobs[j], 1) EXCEPT !.key = k].status = "queued"
    BY <1>3 DEF Queued, Row
  <2> QED
    BY <1>2, <1>4, <2>1 DEF Insert
<1>5. ASSUME NEW p \in Proc, ReapRow(p)
      PROVE  With("running")' \subseteq With("running")
  <2>1. PICK s \in Copy : jobs' = [jobs EXCEPT ![s.job] = Reclaimed(@, s.attempt)]
    BY <1>5 DEF ReapRow, TypeOK, Tick
  <2>2. s.job \in Job /\ s.attempt + 1 \in Nat \ {0}
    BY DEF Copy
  <2>3. Reclaimed(jobs[s.job], s.attempt).status # "running"
    BY <1>3, <2>2 DEF Reclaimed, Queued, Finished, Row
  <2> QED
    BY <1>2, <2>1, <2>2, <2>3
<1>6. ASSUME NEW t \in tasks, RunSucceeds(t) \/ RunFails(t)
      PROVE  With("running")' \subseteq With("running")
  <2>1. t.job \in Job /\ t.attempt + 1 \in Nat \ {0}
    BY DEF TypeOK, TaskRec
  <2>2. /\ Finished(jobs[t.job], "succeeded").status # "running"
        /\ Finished(jobs[t.job], "dead").status # "running"
        /\ Queued(jobs[t.job], t.attempt + 1).status # "running"
    BY <1>3, <2>1 DEF Queued, Finished, Row
  <2>3. PICK image : image.status # "running" /\ Settle(t, image)
    BY <1>6, <2>2 DEF RunSucceeds, RunFails
  <2> QED
    BY <1>2, <2>1, <2>3 DEF Settle
<1>7. ASSUME NEW j \in Job, RetryJob(j) \/ DiscardJob(j)
      PROVE  With("running")' \subseteq With("running")
  <2>1. Queued(jobs[j], 1).status # "running" /\ Finished(jobs[j], "deleted").status # "running"
    BY <1>3 DEF Queued, Finished, Row
  <2> QED
    BY <1>2, <1>7, <2>1 DEF RetryJob, DiscardJob
<1>8. ASSUME RetryDeadJobs
      PROVE  With("running")' \subseteq With("running")
  <2>1. \A j \in Job : Queued(jobs[j], 1).status # "running"
    BY <1>3 DEF Queued, Row
  <2> QED
    BY <1>8, <2>1 DEF RetryDeadJobs, With
<1>9. ASSUME NEW j \in Job, ScheduleArrives(j) \/ VisibilityPasses(j)
      PROVE  With("running")' \subseteq With("running")
  <2>1. /\ [jobs[j] EXCEPT !.due = TRUE].status = jobs[j].status
        /\ [jobs[j] EXCEPT !.late = TRUE].status = jobs[j].status
    BY <1>3 DEF Row
  <2> QED
    BY <1>2, <1>9, <2>1 DEF ScheduleArrives, VisibilityPasses
<1>10. CASE UNCHANGED jobs
  BY <1>10 DEF With
<1> QED
  BY <1>4, <1>5, <1>6, <1>7, <1>8, <1>9, <1>10
  DEF Next, TickStep, Enqueues, Runs, Operator, Clock, vars, EnqueueCheck, EnqueueInsert,
      EnqueueNoKey, ReapSelect, CountRunning, ClaimSelect, Crash

LEMMA RoomStep == OneProcess /\ TypeOK /\ Room /\ [Next]_vars => Room'
<1> SUFFICES ASSUME OneProcess, TypeOK, Room, [Next]_vars
             PROVE  Room'
  OBVIOUS
<1>1. \A p, q \in Proc : p = q
  BY DEF OneProcess
<1>2. Concurrency \in Nat
  BY JobQueueAssumption
<1>3. With("running") \in SUBSET Job /\ With("running")' \in SUBSET Job
  BY DEF With
<1>4. Cardinality(With("running")) \in Nat
  BY <1>3, SizeOf
<1>5. ASSUME NEW S \in SUBSET Job, NEW s \in {CopyOf(j) : j \in S}, NEW u \in {CopyOf(j) : j \in S},
             s.job = u.job
      PROVE  s = u
  BY <1>5 DEF CopyOf
<1>6. ASSUME NEW p \in Proc, ReapSelect(p)
      PROVE  Room'
  <2>1. PICK S \in SUBSET Job : Stuck = {CopyOf(j) : j \in S}
    BY DEF Stuck, With
  <2>2. tick'[p].pc = "reap" /\ tick'[p].rows = {CopyOf(j) : j \in S}
    BY <1>6, <2>1 DEF ReapSelect, TypeOK
  <2>3. \A s, u \in tick'[p].rows : s.job = u.job => s = u
    BY <1>5, <2>2
  <2>4. With("running")' \subseteq With("running")
    BY <1>6 DEF ReapSelect, With
  <2> QED
    BY <1>1, <2>2, <2>3, <2>4, RoomKept
<1>7. ASSUME NEW p \in Proc, ReapRow(p)
      PROVE  Room'
  <2>1. tick'[p].pc = "reap" /\ tick'[p].rows \subseteq tick[p].rows
    BY <1>7 DEF ReapRow, TypeOK, Tick
  <2>2. ~ Claim(p)
    BY <1>7 DEF ReapRow, Claim
  <2>3. With("running")' \subseteq With("running")
    BY <1>1, <2>2, OnlyClaimsRun
  <2>4. \A s, u \in tick'[p].rows : s.job = u.job => s = u
    BY <2>1 DEF Room
  <2> QED
    BY <1>1, <2>1, <2>3, <2>4, RoomKept
<1>8. ASSUME NEW p \in Proc, CountRunning(p)
      PROVE  Room'
  <2>1. With("running")' = With("running")
    BY <1>8 DEF CountRunning, With
  <2>2. PICK n : n = FreeSlots(Cardinality(With("running")))
    OBVIOUS
  <2>3. tick'[p] = IF n = 0 THEN IdleTick ELSE [pc |-> "select", rows |-> {}, slots |-> n]
    BY <1>8, <2>2 DEF CountRunning, TypeOK
  <2>4. CASE n = 0
    BY <1>1, <2>1, <2>3, <2>4, RoomKept DEF IdleTick
  <2>5. CASE n # 0
    <3>1. tick'[p].pc = "select" /\ tick'[p].rows = {} /\ tick'[p].slots = n
      BY <2>3, <2>5
    <3>2. Cardinality(With("running")) + n <= Concurrency
      BY <1>2, <1>4, <2>2, <2>5 DEF FreeSlots
    <3>3. RunningCapped'
      BY <2>1 DEF Room, RunningCapped
    <3> QED
      BY <1>1, <2>1, <3>1, <3>2, <3>3 DEF Room
  <2> QED
    BY <2>4, <2>5
<1>9. ASSUME NEW p \in Proc, ClaimSelect(p)
      PROVE  Room'
  <2>1. PICK S \in SUBSET Job :
          /\ Cardinality(S) <= tick[p].slots
          /\ tick' = [tick EXCEPT ![p] =
                        IF S = {} THEN IdleTick
                        ELSE [pc |-> "claim", rows |-> {CopyOf(j) : j \in S}, slots |-> 0]]
    BY <1>9 DEF ClaimSelect, With
  <2>2. With("running")' = With("running")
    BY <1>9 DEF ClaimSelect, With
  <2>3. CASE S = {}
    <3>1. tick'[p] = IdleTick
      BY <2>1, <2>3 DEF TypeOK
    <3> QED
      BY <1>1, <2>2, <3>1, RoomKept DEF IdleTick
  <2>4. CASE S # {}
    <3>1. tick'[p].pc = "claim" /\ tick'[p].rows = {CopyOf(j) : j \in S}
      BY <2>1, <2>4 DEF TypeOK
    <3>2. Selected(p)' = S
      <4>1. \A j \in S : CopyOf(j).job = j /\ CopyOf(j) \in tick'[p].rows
        BY <3>1 DEF CopyOf
      <4>2. \A s \in tick'[p].rows : s.job \in S
        BY <3>1 DEF CopyOf
      <4> QED
        BY <4>1, <4>2 DEF Selected
    <3>3. Cardinality(With("running")) + tick[p].slots <= Concurrency /\ tick[p].slots \in Nat
      BY <1>2, <1>9 DEF ClaimSelect, Room, TypeOK, Tick
    <3>4. Cardinality(S) \in Nat
      BY SizeOf
    <3>5. Cardinality(With("running")') + Cardinality(Selected(p)') <= Concurrency
      BY <1>2, <1>4, <2>1, <2>2, <3>2, <3>3, <3>4
    <3>6. \A s, u \in tick'[p].rows : s.job = u.job => s = u
      BY <1>5, <3>1
    <3>7. RunningCapped'
      BY <2>2 DEF Room, RunningCapped
    <3> QED
      BY <1>1, <3>1, <3>5, <3>6, <3>7 DEF Room
  <2> QED
    BY <2>3, <2>4
<1>10. ASSUME NEW p \in Proc, Claim(p)
       PROVE  Room'
  <2>1. PICK s \in tick[p].rows :
          /\ tick' = [tick EXCEPT ![p] = IF tick[p].rows \ {s} = {} THEN IdleTick
                                         ELSE [@ EXCEPT !.rows = tick[p].rows \ {s}]]
          /\ jobs' = [jobs EXCEPT ![s.job] = Running(@)] \/ UNCHANGED jobs
    BY <1>10 DEF Claim
  <2>2. s.job \in Job /\ tick[p].pc = "claim"
    BY <1>10 DEF Claim, TypeOK, Tick, Copy
  <2>3. With("running")' \subseteq With("running") \cup {s.job}
    BY <2>1, <2>2 DEF With, TypeOK
  <2>4. /\ Cardinality(With("running")') <= Cardinality(With("running")) + 1
        /\ Cardinality(With("running")') \in Nat
    <3>1. With("running") \cup {s.job} \in SUBSET Job
      BY <1>3, <2>2
    <3>2. Cardinality(With("running") \cup {s.job}) <= Cardinality(With("running")) + 1
      BY <1>3, <2>2, SizeOf
    <3>3. /\ Cardinality(With("running") \cup {s.job}) \in Nat
          /\ Cardinality(With("running")') \in Nat
          /\ Cardinality(With("running")') <= Cardinality(With("running") \cup {s.job})
      BY <2>3, <3>1, SizeOf
    <3> QED
      BY <1>4, <3>2, <3>3
  <2>5. s.job \in Selected(p) /\ Selected(p) \in SUBSET Job
    BY <2>2 DEF Selected
  <2>6. tick'[p] = IF tick[p].rows \ {s} = {} THEN IdleTick
                   ELSE [tick[p] EXCEPT !.rows = tick[p].rows \ {s}]
    BY <2>1 DEF TypeOK
  <2>7. /\ tick'[p].pc \in {"idle", "claim"} /\ tick'[p].rows = tick[p].rows \ {s}
    BY <2>2, <2>6 DEF TypeOK, Tick, IdleTick
  <2>8. \A a, b \in tick[p].rows : a.job = b.job => a = b
    BY DEF Room
  <2>9. Selected(p)' \subseteq Selected(p) \ {s.job}
    BY <2>7, <2>8 DEF Selected
  <2>10. /\ Cardinality(Selected(p)) \in Nat /\ Cardinality(Selected(p)') \in Nat
         /\ Cardinality(Selected(p)') <= Cardinality(Selected(p)) - 1
    <3>1. /\ Cardinality(Selected(p) \ {s.job}) = Cardinality(Selected(p)) - 1
          /\ Cardinality(Selected(p)) \in Nat
      BY <2>5, SizeOf
    <3>2. Selected(p) \ {s.job} \in SUBSET Job
      BY <2>5
    <3> QED
      BY <2>9, <3>1, <3>2, SizeOf
  <2>11. Cardinality(With("running")) + Cardinality(Selected(p)) <= Concurrency
    BY <2>2 DEF Room
  <2>12. Cardinality(With("running")') + Cardinality(Selected(p)') <= Concurrency
    BY <1>2, <1>4, <2>4, <2>10, <2>11
  <2>13. RunningCapped'
    BY <1>2, <2>4, <2>10, <2>12 DEF RunningCapped
  <2> QED
    BY <1>1, <2>7, <2>8, <2>12, <2>13 DEF Room
<1>11. ASSUME UNCHANGED tick, \A p \in Proc : ~ Claim(p)
       PROVE  Room'
  BY <1>11, OnlyClaimsRun, RoomKept
<1>12. ASSUME NEW p \in Proc, Crash(p)
       PROVE  Room'
  <2>1. tick'[p] = IdleTick
    BY <1>12 DEF Crash, TypeOK
  <2>2. With("running")' \subseteq With("running")
    BY <1>12 DEF Crash, With
  <2> QED
    BY <1>1, <2>1, <2>2, RoomKept DEF IdleTick
<1>13. CASE \E p \in Proc : Claim(p)
  BY <1>10, <1>13
<1>14. CASE \A p \in Proc : ~ Claim(p)
  BY <1>6, <1>7, <1>8, <1>9, <1>11, <1>12, <1>14
  DEF Next, TickStep, Enqueues, Runs, Operator, Clock, vars, EnqueueCheck, EnqueueInsert,
      EnqueueNoKey, RunSucceeds, RunFails, Settle, RetryJob, RetryDeadJobs, DiscardJob,
      ScheduleArrives, VisibilityPasses
<1> QED
  BY <1>13, <1>14

(* One process never has more rows in `running` than the worker's          *)
(* concurrency, whatever settles, is reaped, retried or lost between the   *)
(* count, the select and the claims; its timeouts need not be kept.        *)
THEOREM RunningStaysCapped ==
  ASSUME OneProcess
  PROVE  Spec => []RunningCapped
<1>1. TypeOK /\ Room /\ [Next]_vars => Room'
  BY RoomStep
<1>2. Room => RunningCapped
  BY DEF Room
<1> QED
  BY <1>1, <1>2, RoomInit, TypeCorrect, PTL DEF Spec
-----------------------------------------------------------------------------
(* One unfinished row for a key *)

OneCaller == \A c, d \in Caller : c = d

LiveRow(row) == row.status \in {"queued", "running"}

(* The inductive invariant: what a caller's dedup SELECT found is still so *)
(* at its INSERT, but for the jobs an operator has re-queued.              *)
KeysHeld ==
  /\ UniqueLive
  /\ \A c \in Caller : checked[c] # NoKey =>
       \A j \in Job : Blocks(jobs[j], checked[c]) => j \in revived

(* A step that makes no row live but those an operator re-queues, and      *)
(* changes no key.                                                         *)
LEMMA KeysKept ==
  ASSUME KeysHeld, UNCHANGED checked, revived \subseteq revived',
         \A j \in Job : /\ jobs'[j].key = jobs[j].key
                        /\ LiveRow(jobs'[j]) => LiveRow(jobs[j]) \/ j \in revived'
  PROVE  KeysHeld'
<1>1. \A j \in With("queued")' \cup With("running")' :
        j \in Job /\ (j \in With("queued") \cup With("running") \/ j \in revived')
  BY DEF With, LiveRow
<1>2. UniqueLive'
  <2>1. ASSUME NEW j \in With("queued")' \cup With("running")',
               NEW i \in With("queued")' \cup With("running")',
               jobs'[j].key = jobs'[i].key, jobs'[j].key # NoKey, j # i
        PROVE  {j, i} \cap revived' # {}
    <3>1. CASE j \in revived' \/ i \in revived'
      BY <3>1
    <3>2. CASE j \notin revived' /\ i \notin revived'
      <4>1. /\ j \in With("queued") \cup With("running")
            /\ i \in With("queued") \cup With("running")
        BY <1>1, <3>2
      <4>2. jobs[j].key = jobs[i].key /\ jobs[j].key # NoKey
        BY <1>1, <2>1
      <4> QED
        BY <2>1, <4>1, <4>2 DEF KeysHeld, UniqueLive
    <3> QED
      BY <3>1, <3>2
  <2> QED
    BY <2>1 DEF UniqueLive
<1>3. ASSUME NEW c \in Caller, checked'[c] # NoKey, NEW j \in Job, Blocks(jobs'[j], checked'[c])
      PROVE  j \in revived'
  BY <1>3 DEF KeysHeld, Blocks, LiveRow
<1> QED
  BY <1>2, <1>3 DEF KeysHeld

(* A row written in place: its key is kept. *)
LEMMA KeysKeptRow ==
  ASSUME TypeOK, KeysHeld, UNCHANGED checked, revived \subseteq revived', NEW i \in Job, NEW image,
         jobs' = [jobs EXCEPT ![i] = image], image.key = jobs[i].key,
         LiveRow(image) => LiveRow(jobs[i]) \/ i \in revived'
  PROVE  KeysHeld'
<1>1. \A j \in Job : /\ jobs'[j].key = jobs[j].key
                     /\ LiveRow(jobs'[j]) => LiveRow(jobs[j]) \/ j \in revived'
  BY DEF TypeOK
<1> QED
  BY <1>1, KeysKept

(* A new row, with no key or with one that no other live row holds. *)
LEMMA KeysInserted ==
  ASSUME TypeOK, KeysHeld, UNCHANGED revived, NEW i \in Job, NEW k \in Key \cup {NoKey}, Insert(i, k),
         k # NoKey => \A j \in Job : Blocks(jobs[j], k) => j \in revived,
         \A c \in Caller : checked'[c] # NoKey => checked'[c] = checked[c] /\ k = NoKey
  PROVE  KeysHeld'
<1>1. jobs[i] \in Row
  BY DEF TypeOK
<1>2. jobs'[i].key = k /\ \A j \in Job \ {i} : jobs'[j] = jobs[j]
  BY <1>1 DEF Insert, TypeOK, Queued, Row
<1>3. With("queued")' \cup With("running")' \subseteq Job
  BY DEF With
<1>4. \A j \in (With("queued")' \cup With("running")') \ {i} :
        j \in With("queued") \cup With("running")
  BY <1>2 DEF With
<1>5. \A j \in (With("queued")' \cup With("running")') \ {i} :
        jobs'[j].key = k /\ k # NoKey => j \in revived
  BY <1>2, <1>3, <1>4 DEF With, Blocks
<1>6. UniqueLive'
  <2>1. ASSUME NEW j \in With("queued")' \cup With("running")',
               NEW l \in With("queued")' \cup With("running")',
               jobs'[j].key = jobs'[l].key, jobs'[j].key # NoKey, j # l
        PROVE  {j, l} \cap revived' # {}
    <3>1. CASE j = i
      BY <1>2, <1>5, <2>1, <3>1
    <3>2. CASE l = i
      BY <1>2, <1>5, <2>1, <3>2
    <3>3. CASE j # i /\ l # i
      <4>1. /\ j \in With("queued") \cup With("running")
            /\ l \in With("queued") \cup With("running")
        BY <1>4, <3>3
      <4>2. jobs[j].key = jobs[l].key /\ jobs[j].key # NoKey
        BY <1>2, <1>3, <2>1, <3>3
      <4> QED
        BY <2>1, <4>1, <4>2 DEF KeysHeld, UniqueLive
    <3> QED
      BY <3>1, <3>2, <3>3
  <2> QED
    BY <2>1 DEF UniqueLive
<1>7. ASSUME NEW c \in Caller, checked'[c] # NoKey, NEW j \in Job, Blocks(jobs'[j], checked'[c])
      PROVE  j \in revived'
  BY <1>2, <1>7 DEF KeysHeld, Blocks
<1> QED
  BY <1>6, <1>7 DEF KeysHeld

LEMMA KeysInit == Init => KeysHeld
BY DEF Init, KeysHeld, UniqueLive, With

LEMMA KeysStep ==
  OneTimelyProcess /\ OneCaller /\ TypeOK /\ Ownership /\ KeysHeld /\ [Next]_vars => KeysHeld'
<1> SUFFICES ASSUME OneTimelyProcess, OneCaller, TypeOK, Ownership, KeysHeld, [Next]_vars
             PROVE  KeysHeld'
  OBVIOUS
<1>1. \A j \in Job : jobs[j] \in Row
  BY DEF TypeOK
<1>2. ASSUME NEW j \in Job, NEW n, NEW v
      PROVE  /\ Queued(jobs[j], n).key = jobs[j].key
             /\ Running(jobs[j]).key = jobs[j].key
             /\ Finished(jobs[j], v).key = jobs[j].key /\ Finished(jobs[j], v).status = v
             /\ Reclaimed(jobs[j], n).key = jobs[j].key
  BY <1>1 DEF Queued, Running, Finished, Reclaimed, Row
<1>3. ASSUME NEW c \in Caller, NEW k \in Key, EnqueueCheck(c, k)
      PROVE  KeysHeld'
  <2>1. /\ jobs' = jobs /\ revived' = revived /\ \A d \in Caller : checked'[d] # NoKey =>
             checked'[d] = checked[d] \/ ~ \E j \in Job : Blocks(jobs[j], checked'[d])
    BY <1>3 DEF EnqueueCheck, TypeOK
  <2>2. UniqueLive'
    BY <2>1 DEF KeysHeld, UniqueLive, With
  <2> QED
    BY <2>1, <2>2 DEF KeysHeld
<1>4. ASSUME NEW c \in Caller, NEW j \in Job, EnqueueInsert(c, j)
      PROVE  KeysHeld'
  <2>1. \A d \in Caller : checked'[d] = NoKey
    BY <1>4 DEF EnqueueInsert, OneCaller, TypeOK
  <2>2. checked[c] \in Key \cup {NoKey} /\ checked[c] # NoKey /\ Insert(j, checked[c])
    BY <1>4 DEF EnqueueInsert, TypeOK
  <2>3. \A i \in Job : Blocks(jobs[i], checked[c]) => i \in revived
    BY <2>2 DEF KeysHeld
  <2> QED
    BY <1>4, <2>1, <2>2, <2>3, KeysInserted DEF EnqueueInsert
<1>5. ASSUME NEW j \in Job, EnqueueNoKey(j)
      PROVE  KeysHeld'
  BY <1>5, KeysInserted DEF EnqueueNoKey
<1>6. ASSUME NEW p \in Proc, ReapRow(p)
      PROVE  KeysHeld'
  <2>1. PICK s \in Copy : jobs' = [jobs EXCEPT ![s.job] = Reclaimed(@, s.attempt)]
    BY <1>6 DEF ReapRow, TypeOK, Tick
  <2>2. s.job \in Job
    BY DEF Copy
  <2>3. LiveRow(Reclaimed(jobs[s.job], s.attempt)) => LiveRow(jobs[s.job])
    BY DEF Reclaimed, LiveRow
  <2> QED
    BY <1>2, <1>6, <2>1, <2>2, <2>3, KeysKeptRow DEF ReapRow
<1>7. ASSUME NEW p \in Proc, Claim(p)
      PROVE  KeysHeld'
  <2>1. PICK s \in Copy : \/ UNCHANGED jobs
                          \/ Claimable(s) /\ jobs' = [jobs EXCEPT ![s.job] = Running(@)]
    BY <1>7 DEF Claim, TypeOK, Tick
  <2>2. s.job \in Job
    BY DEF Copy
  <2>3. CASE UNCHANGED jobs
    BY <1>7, <2>3, KeysKept DEF Claim
  <2>4. CASE Claimable(s) /\ jobs' = [jobs EXCEPT ![s.job] = Running(@)]
    BY <1>2, <1>7, <2>2, <2>4, KeysKeptRow DEF Claim, Claimable, LiveRow
  <2> QED
    BY <2>1, <2>3, <2>4
<1>8. ASSUME NEW t \in tasks, RunSucceeds(t) \/ RunFails(t)
      PROVE  KeysHeld'
  <2>1. t.job \in Job /\ LiveRow(jobs[t.job])
    BY DEF TypeOK, TaskRec, Ownership, ExclusiveRun, LiveRow
  <2>2. PICK image : image.key = jobs[t.job].key /\ Settle(t, image)
    BY <1>2, <1>8, <2>1 DEF RunSucceeds, RunFails
  <2> QED
    BY <2>1, <2>2, KeysKeptRow DEF Settle
<1>9. ASSUME NEW j \in Job, RetryJob(j)
      PROVE  KeysHeld'
  BY <1>2, <1>9, KeysKeptRow DEF RetryJob
<1>10. ASSUME NEW j \in Job, DiscardJob(j)
       PROVE  KeysHeld'
  <2>1. ~ LiveRow(Finished(jobs[j], "deleted"))
    BY <1>2, <1>10 DEF DiscardJob, Finished, LiveRow, TypeOK, Row
  <2> QED
    BY <1>2, <1>10, <2>1, KeysKeptRow DEF DiscardJob
<1>11. ASSUME RetryDeadJobs
       PROVE  KeysHeld'
  <2>1. \A j \in Job : /\ jobs'[j].key = jobs[j].key
                       /\ LiveRow(jobs'[j]) => LiveRow(jobs[j]) \/ j \in revived'
    BY <1>2, <1>11 DEF RetryDeadJobs, With
  <2> QED
    BY <1>11, <2>1, KeysKept DEF RetryDeadJobs
<1>12. ASSUME NEW j \in Job, ScheduleArrives(j) \/ VisibilityPasses(j)
       PROVE  KeysHeld'
  <2>1. PICK image : /\ jobs' = [jobs EXCEPT ![j] = image]
                     /\ image.status = jobs[j].status /\ image.key = jobs[j].key
    BY <1>1, <1>12 DEF ScheduleArrives, VisibilityPasses, Row
  <2> QED
    BY <1>12, <2>1, KeysKeptRow DEF ScheduleArrives, VisibilityPasses, LiveRow
<1>13. CASE UNCHANGED <<jobs, checked, revived>>
  BY <1>13, KeysKept
<1> QED
  BY <1>3, <1>4, <1>5, <1>6, <1>7, <1>8, <1>9, <1>10, <1>11, <1>12, <1>13
  DEF Next, TickStep, Enqueues, Runs, Operator, Clock, vars, ReapSelect, CountRunning,
      ClaimSelect, Crash

(* One timely process and one caller of enqueue() at a time: neither the   *)
(* dedup SELECT nor the count of running rows is overtaken by what happens *)
(* between it and the statement that relies on it.                         *)
THEOREM LimitsAlwaysKept ==
  ASSUME OneTimelyProcess, OneCaller
  PROVE  Spec => []LimitsKept
<1>1. TypeOK /\ Ownership /\ KeysHeld /\ [Next]_vars => KeysHeld'
  BY KeysStep
<1>2. Spec => []RunningCapped
  BY RunningStaysCapped DEF OneTimelyProcess, OneProcess
<1>3. KeysHeld /\ RunningCapped => LimitsKept
  BY DEF KeysHeld, LimitsKept
<1> QED
  BY <1>1, <1>2, <1>3, KeysInit, OwnershipAlways, TypeCorrect, PTL DEF Spec

-----------------------------------------------------------------------------
(***************************************************************************)
(* RateLimit.  What a principal was let through for is paid for by what    *)
(* its bucket held and was refilled with.                                  *)
(***************************************************************************)
Cap(r) == r.max * Unit
Rate(r) == r.max * (Unit \div r.window)
Rule == [covers : SUBSET Kinds, max : Nat \ {0}, window : Nat \ {0}]
Uses(A, w, i, a, b) == Cardinality({j \in a..b : A[j].rule = i /\ A[j].who = w})

LEMMA Rates ==
  ASSUME NEW list \in RuleLists, NEW i \in DOMAIN list
  PROVE  LET r == list[i] IN
         /\ i \in Slots /\ r.max \in Nat /\ r.window \in Nat /\ Cap(r) \in Nat /\ Rate(r) \in Nat
         /\ \E u \in Nat : u > 0 /\ Unit = r.window * u /\ Rate(r) = r.max * u
         /\ r.window <= IdleFor => Cap(r) <= IdleFor * Rate(r)
<1> USE RateAssumption
<1>1. PICK m \in Nat : m = list[i].max
  OBVIOUS
<1>2. PICK v \in Nat \ {0} : v = list[i].window
  OBVIOUS
<1>3. PICK u \in Int : u = Unit \div v
  BY <1>2
<1>4. Unit = v * u /\ u > 0
  BY <1>2, <1>3
<1>5. Cap(list[i]) = m * (v * u) /\ Rate(list[i]) = m * u
  BY <1>1, <1>2, <1>3, <1>4 DEF Cap, Rate
<1>6. v <= IdleFor => m * (v * u) <= IdleFor * (m * u)
  <2>1. m * u \in Nat /\ m * (v * u) = v * (m * u)
    BY <1>4
  <2>2. \A x \in Nat : v <= IdleFor => v * x <= IdleFor * x
    BY <1>2
  <2> QED
    BY <2>1, <2>2
<1>7. m * u \in Nat /\ m * (v * u) \in Nat
  BY <1>2, <1>4
<1> QED
  BY <1>1, <1>2, <1>3, <1>4, <1>5, <1>6, <1>7

LEMMA LowerOfTwo ==
  ASSUME NEW x \in Int, NEW y \in Int PROVE Min({x, y}) \in {x, y} /\ Min({x, y}) <= x /\ Min({x, y}) <= y
<1>1. \E z \in {x, y} : \A n \in {x, y} : z <= n
  <2>1. x <= y \/ y <= x
    OBVIOUS
  <2>2. CASE x <= y
    BY <2>2
  <2>3. CASE y <= x
    BY <2>3
  <2> QED
    BY <2>1, <2>2, <2>3
<1> QED
  BY <1>1 DEF Min

SmallestNat == \A T \in SUBSET Nat : T # {} => \E x \in T : \A y \in T : x <= y
LEMMA SmallestIs == SmallestNat
<1> SUFFICES ASSUME NEW T \in SUBSET Nat, T # {} PROVE \E x \in T : \A y \in T : x <= y
  BY DEF SmallestNat
<1>1. IsWellFoundedOn(OpToRel(<, Nat), Nat)
  BY NatLessThanWellFounded
<1>2. PICK x \in T : \A y \in T : ~ (<<y, x>> \in OpToRel(<, Nat))
  BY <1>1, WFMin
<1>3. \A y \in T : ~ (y < x)
  BY <1>2 DEF OpToRel
<1> QED
  BY <1>3

LEMMA FirstCovers ==
  ASSUME NEW list, NEW k, DOMAIN list \subseteq Nat, Covering(list, k) # {} PROVE Min(Covering(list, k)) \in DOMAIN list
<1>1. Covering(list, k) \in SUBSET Nat /\ Covering(list, k) \subseteq DOMAIN list
  BY DEF Covering
<1>2. \E x \in Covering(list, k) : \A y \in Covering(list, k) : x <= y
  BY <1>1, SmallestIs DEF SmallestNat
<1> QED
  BY <1>1, <1>2 DEF Min

(* Counting the uses of one bucket: those of other principals and rules do not change it. *)
LEMMA UsesCounted ==
  ASSUME NEW A, NEW w, NEW i, NEW a \in Nat, NEW b \in Nat
  PROVE  Uses(A, w, i, a, b) \in Nat
<1>1. IsFiniteSet(a..b)
  BY FS_Interval
<1>2. IsFiniteSet({j \in a..b : A[j].rule = i /\ A[j].who = w})
  BY <1>1, FS_Subset
<1> QED
  BY <1>2, FS_CardinalityType DEF Uses

LEMMA UsesAppended ==
  ASSUME NEW Entries, NEW A \in Seq(Entries), NEW e \in Entries, NEW w, NEW i, NEW a \in 1..(Len(A) + 1)
  PROVE  LET N == Len(A)  S == Append(A, e) IN
         /\ \A b \in 1..N : Uses(S, w, i, a, b) = Uses(A, w, i, a, b)
         /\ Uses(S, w, i, a, N + 1) = Uses(A, w, i, a, N) + IF e.rule = i /\ e.who = w THEN 1 ELSE 0
         /\ a = N + 1 => Uses(A, w, i, a, N) = 0
<1>1. PICK N : N = Len(A)
  OBVIOUS
<1>2. PICK S : S = Append(A, e)
  OBVIOUS
<1>3. N \in Nat /\ a \in 1..(N + 1) /\ S[N + 1] = e /\ \A j \in 1..N : S[j] = A[j]
  BY <1>1, <1>2, AppendProperties
<1>4. ASSUME NEW b \in 0..N
      PROVE  {j \in a..b : S[j].rule = i /\ S[j].who = w} = {j \in a..b : A[j].rule = i /\ A[j].who = w}
  <2>1. \A j \in a..b : j \in 1..N
    BY <1>3
  <2> QED
    BY <1>3, <2>1
<1>5. \A b \in 1..N : Uses(S, w, i, a, b) = Uses(A, w, i, a, b)
  <2> SUFFICES ASSUME NEW b \in 1..N PROVE Uses(S, w, i, a, b) = Uses(A, w, i, a, b)
    OBVIOUS
  <2>1. b \in 0..N
    BY <1>3
  <2>2. {j \in a..b : S[j].rule = i /\ S[j].who = w} = {j \in a..b : A[j].rule = i /\ A[j].who = w}
    BY <1>4, <2>1
  <2> QED
    BY <2>2 DEF Uses
<1>6. PICK T : T = {j \in a..N : A[j].rule = i /\ A[j].who = w}
  OBVIOUS
<1>7. IsFiniteSet(T) /\ N + 1 \notin T /\ Cardinality(T) \in Nat
  <2>1. IsFiniteSet(a..N)
    BY <1>3, FS_Interval
  <2>2. IsFiniteSet(T)
    BY <1>6, <2>1, FS_Subset
  <2> QED
    BY <1>3, <1>6, <2>2, FS_CardinalityType
<1>8. Uses(S, w, i, a, N + 1) = Cardinality(T) + IF e.rule = i /\ e.who = w THEN 1 ELSE 0
  <2>1. PICK U : U = {j \in a..(N + 1) : S[j].rule = i /\ S[j].who = w}
    OBVIOUS
  <2>2. a..(N + 1) = (a..N) \cup {N + 1}
    BY <1>3
  <2>3. U = IF e.rule = i /\ e.who = w THEN T \cup {N + 1} ELSE T
    BY <1>3, <1>4, <1>6, <2>1, <2>2
  <2>4. Cardinality(T \cup {N + 1}) = Cardinality(T) + 1
    BY <1>7, FS_AddElement
  <2>5. Cardinality(U) = Cardinality(T) + IF e.rule = i /\ e.who = w THEN 1 ELSE 0
    BY <1>7, <2>3, <2>4
  <2> QED
    BY <2>1, <2>5 DEF Uses
<1>9. Cardinality(T) = Uses(A, w, i, a, N)
  BY <1>6 DEF Uses
<1>10. a = N + 1 => Cardinality(T) = 0
  <2>1. a = N + 1 => T = {}
    BY <1>3, <1>6
  <2> QED
    BY <2>1, FS_EmptySet
<1> QED
  BY <1>1, <1>2, <1>5, <1>8, <1>9, <1>10

(***************************************************************************)
(* What is so of a process whose rules are list, whose buckets are B, and  *)
(* which let A through since it has those rules, at time t.                *)
(***************************************************************************)
Entry == [who : Principals, rule : Slots, at : Nat]
Bucket == [tokens : Int, at : Int]

(* What a bucket gave since a, and what it has left, is what it held and was refilled with. *)
Funded(A, w, i, r, b, t) ==
  \A a \in 1..Len(A) : A[a].rule = i /\ A[a].who = w /\ A[a].at > A[1].at =>
    IF b = NoBucket THEN Uses(A, w, i, a, Len(A)) * Unit <= (t - A[a].at) * Rate(r)
    ELSE Uses(A, w, i, a, Len(A)) * Unit + b.tokens <= Cap(r) + (b.at - A[a].at) * Rate(r)
(* A bucket used since the moment of the first entry was cut down to the rule. *)
Capped(A, r, b) == b # NoBucket /\ Len(A) > 0 /\ b.at > A[1].at => b.tokens <= Cap(r)
BucketFits(A, list, w, i, b, t) ==
  Capped(A, list[i], b) /\ (list[i].window <= IdleFor => Funded(A, w, i, list[i], b, t))
PairFits(A, list, a, b) ==
  LET i == A[a].rule  w == A[a].who  r == list[i] IN
  A[b].rule = i /\ A[b].who = w /\ A[a].at > A[1].at /\ r.window <= IdleFor =>
    Uses(A, w, i, a, b) * Unit <= Cap(r) + (A[b].at - A[a].at) * Rate(r)
BucketsTyped(B, t) ==
  /\ B \in [Principals -> [Slots -> Bucket]]
  /\ \A w \in Principals, i \in Slots : B[w][i].at <= t /\ (B[w][i] = NoBucket \/ B[w][i].tokens >= 0)
Paid(A, list, B, t) ==
  /\ list \in RuleLists \cup {<<>>}
  /\ A \in Seq(Entry) /\ \A j \in 1..Len(A) : A[j].rule \in DOMAIN list /\ A[j].at <= t
  /\ \A w \in Principals, i \in DOMAIN list : BucketFits(A, list, w, i, B[w][i], t)
  /\ \A a, b \in 1..Len(A) : a <= b => PairFits(A, list, a, b)

RateInv ==
  /\ clock \in Nat /\ rules \in RuleLists
  /\ config \in [LimitProcs -> [list : RuleLists \cup {<<>>}, until : Int]]
  /\ bucket = [p \in LimitProcs |-> bucket[p]] /\ admitted = [p \in LimitProcs |-> admitted[p]]
  /\ \A p \in LimitProcs : BucketsTyped(bucket[p], clock) /\ Paid(admitted[p], config[p].list, bucket[p], clock)

LEMMA RateNextState ==
  ASSUME clock' \in Nat, rules' \in RuleLists, config' \in [LimitProcs -> [list : RuleLists \cup {<<>>}, until : Int]],
         bucket' = [p \in LimitProcs |-> bucket'[p]], admitted' = [p \in LimitProcs |-> admitted'[p]],
         \A p \in LimitProcs : BucketsTyped(bucket'[p], clock') /\ Paid(admitted'[p], config'[p].list, bucket'[p], clock')
  PROVE  RateInv'
BY DEF RateInv, BucketsTyped, Paid, BucketFits, PairFits, Capped, Funded, Uses

LEMMA RuleNumbers == ASSUME NEW list \in RuleLists \cup {<<>>} PROVE DOMAIN list \subseteq Slots /\ (\A i \in DOMAIN list : list \in RuleLists)
<1>1. DOMAIN <<>> = {}
  OBVIOUS
<1> QED
  BY <1>1, RateAssumption

(* With the entries forgotten there is nothing to pay for, whatever the buckets hold. *)
LEMMA NothingOwed == ASSUME NEW list \in RuleLists \cup {<<>>}, NEW B, NEW t PROVE Paid(<<>>, list, B, t)
<1>1. <<>> \in Seq(Entry) /\ Len(<<>>) = 0 /\ 1..0 = {}
  OBVIOUS
<1> QED
  BY <1>1 DEF Paid, BucketFits, Capped, Funded

LEMMA EntryTyped ==
  ASSUME NEW A \in Seq(Entry), NEW j \in 1..Len(A)
  PROVE  A[j] \in Entry /\ A[j].who \in Principals /\ A[j].rule \in Slots /\ A[j].at \in Nat
<1>1. A[j] \in Entry
  OBVIOUS
<1> QED
  BY <1>1 DEF Entry

LEMMA TimeFits ==
  ASSUME NEW A, NEW list, NEW B, NEW t \in Nat, Paid(A, list, B, t), BucketsTyped(B, t)
  PROVE  Paid(A, list, B, t + 1) /\ BucketsTyped(B, t + 1)
<1>1. list \in RuleLists \cup {<<>>} /\ A \in Seq(Entry) /\ \A j \in 1..Len(A) : A[j].rule \in DOMAIN list /\ A[j].at <= t
  BY DEF Paid
<1>2. \A j \in 1..Len(A) : A[j].at \in Nat
  BY <1>1, EntryTyped
<1>3. ASSUME NEW w \in Principals, NEW i \in DOMAIN list PROVE BucketFits(A, list, w, i, B[w][i], t + 1)
  <2>1. PICK b : b = B[w][i]
    OBVIOUS
  <2>2. BucketFits(A, list, w, i, b, t)
    BY <2>1 DEF Paid
  <2>3. PICK q \in Nat : q = Rate(list[i])
    BY <1>1, RuleNumbers, Rates
  <2>4. ASSUME b = NoBucket, list[i].window <= IdleFor, NEW a \in 1..Len(A), A[a].rule = i, A[a].who = w, A[a].at > A[1].at
        PROVE  Uses(A, w, i, a, Len(A)) * Unit <= ((t + 1) - A[a].at) * q
    <3>1. PICK n \in Int : n = Uses(A, w, i, a, Len(A)) * Unit
      <4>1. Uses(A, w, i, a, Len(A)) \in Nat
        BY <1>1, UsesCounted
      <4> QED
        BY <4>1, RateAssumption
    <3>2. n <= (t - A[a].at) * q
      BY <2>2, <2>3, <2>4, <3>1 DEF BucketFits, Funded
    <3>3. PICK at \in Int : at = A[a].at
      BY <1>2
    <3>4. ((t + 1) - at) * q = (t - at) * q + q /\ (t - at) * q \in Int
      BY <2>3, <3>3
    <3> QED
      <4>1. n <= (t - at) * q
        BY <3>2, <3>3
      <4>2. n <= ((t + 1) - at) * q
        BY <2>3, <3>1, <3>4, <4>1
      <4> QED
        BY <3>1, <3>3, <4>2
  <2>5. list[i].window <= IdleFor => Funded(A, w, i, list[i], b, t + 1)
    BY <2>2, <2>3, <2>4 DEF BucketFits, Funded
  <2> QED
    BY <2>1, <2>2, <2>5 DEF BucketFits
<1>4. \A j \in 1..Len(A) : A[j].at <= t + 1
  BY <1>1, <1>2
<1>5. BucketsTyped(B, t + 1)
  <2>1. ASSUME NEW w \in Principals, NEW i \in Slots PROVE B[w][i].at <= t + 1
    <3>1. B[w][i] \in Bucket /\ B[w][i].at <= t
      BY DEF BucketsTyped
    <3> QED
      BY <3>1 DEF Bucket
  <2> QED
    BY <2>1 DEF BucketsTyped
<1> QED
  BY <1>1, <1>3, <1>4, <1>5 DEF Paid

LEMMA SweptFits ==
  ASSUME NEW A, NEW list, NEW B, clock \in Nat, Paid(A, list, B, clock), BucketsTyped(B, clock)
  PROVE  LET S == [w \in Principals |-> [i \in Slots |-> Swept(B[w][i])]] IN
         Paid(A, list, S, clock) /\ BucketsTyped(S, clock)
<1>1. list \in RuleLists \cup {<<>>} /\ A \in Seq(Entry) /\ \A j \in 1..Len(A) : A[j].rule \in DOMAIN list /\ A[j].at <= clock
  BY DEF Paid
<1>2. \A j \in 1..Len(A) : A[j].at \in Nat
  BY <1>1, EntryTyped
<1>3. PICK S : S = [w \in Principals |-> [i \in Slots |-> Swept(B[w][i])]]
  OBVIOUS
<1>4. BucketsTyped(S, clock)
  <2>1. NoBucket \in Bucket /\ NoBucket.at <= clock
    BY DEF NoBucket, Bucket
  <2>2. \A w \in Principals, i \in Slots : Swept(B[w][i]) \in {B[w][i], NoBucket}
    BY DEF Swept
  <2> QED
    BY <1>3, <2>1, <2>2 DEF BucketsTyped
<1>5. ASSUME NEW w \in Principals, NEW i \in DOMAIN list PROVE BucketFits(A, list, w, i, S[w][i], clock)
  <2>1. PICK b : b = B[w][i]
    OBVIOUS
  <2>2. i \in Slots /\ list \in RuleLists
    BY <1>1, RuleNumbers
  <2>3. BucketFits(A, list, w, i, b, clock) /\ b \in Bucket /\ (b = NoBucket \/ b.tokens >= 0)
    BY <2>1, <2>2 DEF Paid, BucketsTyped
  <2>4. S[w][i] = Swept(b)
    BY <1>3, <2>1, <2>2
  <2>5. CASE S[w][i] = b
    BY <2>3, <2>5
  <2>6. CASE S[w][i] # b
    <3>1. S[w][i] = NoBucket /\ b # NoBucket /\ b.at < clock - IdleFor
      BY <2>4, <2>6 DEF Swept
    <3>2. Capped(A, list[i], S[w][i])
      BY <3>1 DEF Capped
    <3>3. ASSUME list[i].window <= IdleFor PROVE Funded(A, w, i, list[i], S[w][i], clock)
      <4> SUFFICES ASSUME NEW a \in 1..Len(A), A[a].rule = i, A[a].who = w, A[a].at > A[1].at
                   PROVE  Uses(A, w, i, a, Len(A)) * Unit <= (clock - A[a].at) * Rate(list[i])
        BY <3>1 DEF Funded
      <4>1. PICK n \in Int : n = Uses(A, w, i, a, Len(A)) * Unit
        <5>1. Uses(A, w, i, a, Len(A)) \in Nat
          BY <1>1, UsesCounted
        <5> QED
          BY <5>1, RateAssumption
      <4>2. PICK q \in Nat : q = Rate(list[i])
        BY <2>2, Rates
      <4>3. PICK cap \in Nat : cap = Cap(list[i])
        BY <2>2, Rates
      <4>4. PICK at \in Int : at = A[a].at
        BY <1>2
      <4>5. PICK since \in Int : since = b.at
        BY <2>3 DEF Bucket
      <4>6. PICK left \in Nat : left = b.tokens
        BY <2>3, <3>1 DEF Bucket
      <4>7. n + left <= cap + (since - at) * q
        BY <2>3, <3>1, <3>3, <4>1, <4>2, <4>3, <4>4, <4>5, <4>6 DEF BucketFits, Funded
      <4>8. cap <= IdleFor * q
        BY <2>2, <3>3, <4>2, <4>3, Rates
      <4>9. PICK gap \in Nat : gap = clock - since
        BY <3>1, <4>5, RateAssumption
      <4>10. IdleFor * q <= gap * q
        <5>1. IdleFor <= gap
          BY <3>1, <4>5, <4>9, RateAssumption
        <5>2. PICK idle \in Nat : idle = IdleFor
          BY RateAssumption
        <5> QED
          BY <5>1, <5>2
      <4>11. (clock - at) * q = gap * q + (since - at) * q /\ gap * q \in Int /\ (since - at) * q \in Int /\ IdleFor * q \in Int
        BY <4>9, RateAssumption
      <4>12. n <= (clock - at) * q
        BY <4>7, <4>8, <4>10, <4>11
      <4> QED
        BY <4>1, <4>2, <4>4, <4>12
    <3> QED
      BY <3>2, <3>3 DEF BucketFits
  <2> QED
    BY <2>5, <2>6
<1>6. Paid(A, list, S, clock)
  BY <1>1, <1>5 DEF Paid
<1> QED
  BY <1>3, <1>4, <1>6

(* What a bucket has when a request comes: no more than what is still to be paid allows. *)
LEMMA RefillFits ==
  ASSUME NEW A \in Seq(Entry), NEW list \in RuleLists, NEW w, NEW i \in DOMAIN list, NEW b \in Bucket,
         clock \in Nat, b.at <= clock, b = NoBucket \/ b.tokens >= 0, BucketFits(A, list, w, i, b, clock)
  PROVE  LET has == Refill(b, list[i]) IN
         /\ has \in Nat
         /\ Len(A) > 0 /\ clock > A[1].at => has <= Cap(list[i])
         /\ list[i].window <= IdleFor =>
              \A a \in 1..Len(A) : A[a].rule = i /\ A[a].who = w /\ A[a].at > A[1].at =>
                Uses(A, w, i, a, Len(A)) * Unit + has <= Cap(list[i]) + (clock - A[a].at) * Rate(list[i])
<1>1. PICK has : has = Refill(b, list[i])
  OBVIOUS
<1>2. PICK q \in Nat : q = Rate(list[i])
  BY Rates
<1>3. PICK cap \in Nat : cap = Cap(list[i])
  BY Rates
<1>4. PICK since \in Int : since = b.at
  BY DEF Bucket
<1>5. PICK left \in Int : left = b.tokens
  BY DEF Bucket
<1>6. PICK gap \in Nat : gap = clock - since
  BY <1>4
<1>7. left + gap * q \in Int /\ gap * q \in Nat
  BY <1>6
<1>13. PICK sum \in Int : sum = left + gap * q
  BY <1>7
<1>8. /\ b = NoBucket => has = cap
      /\ b # NoBucket /\ clock = since => has = left
      /\ b # NoBucket /\ clock # since => has = Min({cap, sum})
  <2>1. (clock - b.at) * list[i].max * (Unit \div list[i].window) = gap * q
    <3>1. PICK m \in Int : m = list[i].max
      BY Rates
    <3>2. PICK u \in Int : u = Unit \div list[i].window
      BY RateAssumption
    <3>3. q = m * u
      BY <1>2, <3>1, <3>2 DEF Rate
    <3>4. gap * m * u = gap * (m * u)
      OBVIOUS
    <3> QED
      BY <1>4, <1>6, <3>1, <3>2, <3>3, <3>4
  <2>2. Cap(list[i]) = list[i].max * Unit
    BY DEF Cap
  <2> QED
    BY <1>1, <1>3, <1>4, <1>5, <1>13, <2>1, <2>2 DEF Refill
<1>9. Min({cap, sum}) \in {cap, sum} /\ Min({cap, sum}) <= cap /\ Min({cap, sum}) <= sum
  <2>1. cap \in Int
    OBVIOUS
  <2> QED
    BY <2>1, LowerOfTwo
<1>10. has \in Nat
  <2>1. b # NoBucket => left >= 0
    BY <1>5
  <2> QED
    BY <1>7, <1>8, <1>9, <1>13, <2>1
<1>11. ASSUME Len(A) > 0, clock > A[1].at PROVE has <= cap
  <2>1. CASE b # NoBucket /\ clock = since
    BY <1>3, <1>4, <1>5, <1>8, <1>11, <2>1 DEF BucketFits, Capped
  <2>2. CASE ~(b # NoBucket /\ clock = since)
    BY <1>8, <1>9, <2>2
  <2> QED
    BY <2>1, <2>2
<1>12. ASSUME list[i].window <= IdleFor, NEW a \in 1..Len(A), A[a].rule = i, A[a].who = w, A[a].at > A[1].at
       PROVE  Uses(A, w, i, a, Len(A)) * Unit + has <= cap + (clock - A[a].at) * q
  <2>1. PICK n \in Int : n = Uses(A, w, i, a, Len(A)) * Unit
    <3>1. Uses(A, w, i, a, Len(A)) \in Nat
      BY UsesCounted
    <3> QED
      BY <3>1, RateAssumption
  <2>2. PICK at \in Int : at = A[a].at
    BY EntryTyped
  <2>3. IF b = NoBucket THEN n <= (clock - at) * q ELSE n + left <= cap + (since - at) * q
    BY <1>2, <1>3, <1>4, <1>5, <1>12, <2>1, <2>2 DEF BucketFits, Funded
  <2>4. (clock - at) * q = gap * q + (since - at) * q /\ (clock - at) * q \in Int /\ (since - at) * q \in Int
    BY <1>4, <1>6, SMTT(20)
  <2>5. n + has <= cap + (clock - at) * q
    <3>1. CASE b = NoBucket
      BY <1>8, <2>3, <2>4, <3>1
    <3>2. CASE b # NoBucket /\ clock = since
      BY <1>8, <2>3, <3>2
    <3>3. CASE b # NoBucket /\ clock # since
      BY <1>7, <1>8, <1>9, <1>10, <1>13, <2>3, <2>4, <3>3
    <3> QED
      BY <3>1, <3>2, <3>3
  <2> QED
    BY <2>1, <2>2, <2>5
<1> QED
  BY <1>1, <1>2, <1>3, <1>10, <1>11, <1>12

(* A request that is refused leaves the bucket refilled. *)
LEMMA RefusalFits ==
  ASSUME NEW A, NEW list, NEW B, clock \in Nat, Paid(A, list, B, clock), BucketsTyped(B, clock),
         NEW w \in Principals, NEW i \in DOMAIN list
  PROVE  LET S == [B EXCEPT ![w][i] = [tokens |-> Refill(B[w][i], list[i]), at |-> clock]] IN
         Paid(A, list, S, clock) /\ BucketsTyped(S, clock)
<1>1. list \in RuleLists /\ i \in Slots /\ A \in Seq(Entry) /\ \A j \in 1..Len(A) : A[j].rule \in DOMAIN list /\ A[j].at <= clock
  BY RuleNumbers DEF Paid
<1>2. PICK b : b = B[w][i]
  OBVIOUS
<1>3. PICK has : has = Refill(b, list[i])
  OBVIOUS
<1>4. b \in Bucket /\ b.at <= clock /\ (b = NoBucket \/ b.tokens >= 0) /\ BucketFits(A, list, w, i, b, clock)
  BY <1>1, <1>2 DEF Paid, BucketsTyped
<1>5. /\ has \in Nat
      /\ Len(A) > 0 /\ clock > A[1].at => has <= Cap(list[i])
      /\ list[i].window <= IdleFor =>
           \A a \in 1..Len(A) : A[a].rule = i /\ A[a].who = w /\ A[a].at > A[1].at =>
             Uses(A, w, i, a, Len(A)) * Unit + has <= Cap(list[i]) + (clock - A[a].at) * Rate(list[i])
  BY <1>1, <1>3, <1>4, RefillFits
<1>6. PICK c : c = [tokens |-> has, at |-> clock]
  OBVIOUS
<1>7. c \in Bucket /\ c.tokens = has /\ c.at = clock /\ c # NoBucket
  BY <1>5, <1>6 DEF Bucket, NoBucket
<1>8. PICK S : S = [B EXCEPT ![w][i] = c]
  OBVIOUS
<1>9. /\ BucketsTyped(S, clock) /\ S[w][i] = c
      /\ \A v \in Principals, j \in Slots : ~(v = w /\ j = i) => S[v][j] = B[v][j]
  BY <1>1, <1>5, <1>7, <1>8 DEF BucketsTyped
<1>10. BucketFits(A, list, w, i, c, clock)
  BY <1>5, <1>7 DEF BucketFits, Capped, Funded
<1>11. ASSUME NEW v \in Principals, NEW j \in DOMAIN list PROVE BucketFits(A, list, v, j, S[v][j], clock)
  <2>1. j \in Slots /\ BucketFits(A, list, v, j, B[v][j], clock)
    BY <1>1, RuleNumbers DEF Paid
  <2> QED
    BY <1>9, <1>10, <2>1
<1>12. Paid(A, list, S, clock)
  BY <1>11 DEF Paid
<1> QED
  BY <1>2, <1>3, <1>6, <1>8, <1>9, <1>12

(* A request that is let through takes a token, and its entry is paid for. *)
LEMMA AdmissionFits ==
  ASSUME NEW A, NEW list, NEW B, clock \in Nat, Paid(A, list, B, clock), BucketsTyped(B, clock),
         NEW w \in Principals, NEW i \in DOMAIN list, ~(Refill(B[w][i], list[i]) < Unit)
  PROVE  LET S == [B EXCEPT ![w][i] = [tokens |-> Refill(B[w][i], list[i]) - Unit, at |-> clock]]
             X == Append(A, [who |-> w, rule |-> i, at |-> clock]) IN
         Paid(X, list, S, clock) /\ BucketsTyped(S, clock)
<1>1. list \in RuleLists /\ i \in Slots /\ A \in Seq(Entry) /\ \A j \in 1..Len(A) : A[j].rule \in DOMAIN list /\ A[j].at <= clock
  BY RuleNumbers DEF Paid
<1>2. PICK b : b = B[w][i]
  OBVIOUS
<1>3. PICK has : has = Refill(b, list[i])
  OBVIOUS
<1>4. b \in Bucket /\ b.at <= clock /\ (b = NoBucket \/ b.tokens >= 0) /\ BucketFits(A, list, w, i, b, clock)
  BY <1>1, <1>2 DEF Paid, BucketsTyped
<1>5. /\ has \in Nat
      /\ Len(A) > 0 /\ clock > A[1].at => has <= Cap(list[i])
      /\ list[i].window <= IdleFor =>
           \A a \in 1..Len(A) : A[a].rule = i /\ A[a].who = w /\ A[a].at > A[1].at =>
             Uses(A, w, i, a, Len(A)) * Unit + has <= Cap(list[i]) + (clock - A[a].at) * Rate(list[i])
  BY <1>1, <1>3, <1>4, RefillFits
<1>6. has - Unit \in Nat /\ Unit \in Nat
  BY <1>2, <1>3, <1>5, RateAssumption
<1>7. PICK c : c = [tokens |-> has - Unit, at |-> clock]
  OBVIOUS
<1>8. c \in Bucket /\ c.tokens = has - Unit /\ c.at = clock /\ c # NoBucket
  BY <1>6, <1>7 DEF Bucket, NoBucket
<1>9. PICK S : S = [B EXCEPT ![w][i] = c]
  OBVIOUS
<1>10. /\ BucketsTyped(S, clock) /\ S[w][i] = c
       /\ \A v \in Principals, j \in Slots : ~(v = w /\ j = i) => S[v][j] = B[v][j]
  BY <1>1, <1>6, <1>8, <1>9 DEF BucketsTyped
<1>11. PICK e : e = [who |-> w, rule |-> i, at |-> clock]
  OBVIOUS
<1>12. e \in Entry /\ e.who = w /\ e.rule = i /\ e.at = clock
  BY <1>1, <1>11 DEF Entry
<1>13. PICK N \in Nat : N = Len(A)
  BY <1>1
<1>14. PICK X : X = Append(A, e)
  OBVIOUS
<1>15. /\ X \in Seq(Entry) /\ Len(X) = N + 1 /\ X[N + 1] = e /\ \A j \in 1..N : X[j] = A[j]
  BY <1>1, <1>12, <1>13, <1>14, AppendProperties
<1>16. ASSUME NEW v, NEW j, NEW a \in 1..(N + 1)
       PROVE  /\ \A m \in 1..N : Uses(X, v, j, a, m) = Uses(A, v, j, a, m)
              /\ Uses(X, v, j, a, N + 1) = Uses(A, v, j, a, N) + IF i = j /\ w = v THEN 1 ELSE 0
              /\ a = N + 1 => Uses(A, v, j, a, N) = 0
              /\ Uses(A, v, j, a, N) \in Nat
  <2>1. Uses(A, v, j, a, N) \in Nat
    BY UsesCounted
  <2> QED
    BY <1>1, <1>12, <1>13, <1>14, <2>1, UsesAppended
<1>17. \A j \in 1..Len(X) : X[j].rule \in DOMAIN list /\ X[j].at <= clock
  <2>1. \A j \in 1..(N + 1) : j = N + 1 \/ j \in 1..N
    OBVIOUS
  <2> QED
    BY <1>1, <1>12, <1>13, <1>15, <2>1
<1>18. N = 0 => X[1].at = clock
  BY <1>12, <1>15
<1>19. N > 0 => X[1] = A[1] /\ A[1].at \in Nat
  BY <1>1, <1>13, <1>15, EntryTyped
<1>20. PICK q \in Nat : q = Rate(list[i])
  BY <1>1, Rates
<1>21. PICK cap \in Nat : cap = Cap(list[i])
  BY <1>1, Rates
<1>22. BucketFits(X, list, w, i, c, clock)
  <2>1. Capped(X, list[i], c)
    <3>1. c.at > X[1].at => N > 0 /\ clock > A[1].at
      BY <1>8, <1>18, <1>19
    <3> QED
      BY <1>5, <1>6, <1>8, <1>13, <1>21, <3>1 DEF Capped
  <2>2. ASSUME list[i].window <= IdleFor, NEW a \in 1..(N + 1), X[a].rule = i, X[a].who = w, X[a].at > X[1].at
        PROVE  Uses(X, w, i, a, N + 1) * Unit + (has - Unit) <= cap + (clock - X[a].at) * q
    <3>1. N > 0 /\ clock > A[1].at
      <4>1. X[a].at <= clock /\ X[a].at \in Nat
        BY <1>15, <1>17, EntryTyped
      <4> QED
        BY <1>18, <1>19, <2>2, <4>1
    <3>2. PICK n \in Nat : n = Uses(A, w, i, a, N)
      BY <1>16
    <3>3. PICK at \in Nat : at = X[a].at
      BY <1>15, EntryTyped
    <3>4. Uses(X, w, i, a, N + 1) = n + 1 /\ (a = N + 1 => n = 0)
      BY <1>16, <3>2
    <3>5. n * Unit + has <= cap + (clock - at) * q
      <4>1. CASE a = N + 1
        <5>1. at = clock /\ n = 0
          BY <1>12, <1>15, <3>3, <3>4, <4>1
        <5>2. has <= cap
          BY <1>5, <1>13, <1>21, <3>1
        <5>3. n * Unit = 0 /\ (clock - at) * q = 0
          BY <1>6, <5>1
        <5> QED
          BY <1>5, <5>2, <5>3
      <4>2. CASE a # N + 1
        <5>1. a \in 1..N /\ X[a] = A[a]
          BY <1>15, <4>2
        <5>2. A[a].rule = i /\ A[a].who = w /\ A[a].at > A[1].at
          BY <1>19, <2>2, <3>1, <5>1
        <5>3. Uses(A, w, i, a, Len(A)) * Unit + has <= Cap(list[i]) + (clock - A[a].at) * Rate(list[i])
          BY <1>5, <1>13, <2>2, <5>1, <5>2
        <5> QED
          BY <1>13, <1>20, <1>21, <3>2, <3>3, <5>1, <5>3
      <4> QED
        BY <4>1, <4>2
    <3>6. (n + 1) * Unit = n * Unit + Unit /\ n * Unit \in Int /\ (clock - at) * q \in Int
      BY <1>6
    <3> QED
      BY <1>5, <1>6, <3>3, <3>4, <3>5, <3>6
  <2> QED
    BY <1>8, <1>15, <1>20, <1>21, <2>1, <2>2 DEF BucketFits, Funded
<1>23. ASSUME NEW v \in Principals, NEW j \in DOMAIN list PROVE BucketFits(X, list, v, j, S[v][j], clock)
  <2>1. j \in Slots
    BY <1>1, RuleNumbers
  <2>2. CASE v = w /\ j = i
    BY <1>10, <1>22, <2>2
  <2>3. CASE ~(v = w /\ j = i)
    <3>1. PICK d : d = B[v][j]
      OBVIOUS
    <3>2. S[v][j] = d /\ BucketFits(A, list, v, j, d, clock) /\ d \in Bucket /\ d.at <= clock
      BY <1>10, <2>1, <2>3, <3>1 DEF Paid, BucketsTyped
    <3>3. Capped(X, list[j], d)
      <4>1. d # NoBucket /\ d.at > X[1].at => N > 0 /\ d.at > A[1].at
        BY <1>18, <1>19, <3>2 DEF Bucket
      <4> QED
        BY <1>13, <3>2, <4>1 DEF Capped, BucketFits
    <3>4. ASSUME list[j].window <= IdleFor PROVE Funded(X, v, j, list[j], d, clock)
      <4> SUFFICES ASSUME NEW a \in 1..(N + 1), X[a].rule = j, X[a].who = v, X[a].at > X[1].at
                   PROVE  IF d = NoBucket THEN Uses(X, v, j, a, N + 1) * Unit <= (clock - X[a].at) * Rate(list[j])
                          ELSE Uses(X, v, j, a, N + 1) * Unit + d.tokens <= Cap(list[j]) + (d.at - X[a].at) * Rate(list[j])
        BY <1>15 DEF Funded
      <4>1. a # N + 1
        BY <1>12, <1>15, <2>3
      <4>2. a \in 1..N /\ X[a] = A[a] /\ N > 0
        BY <1>15, <4>1
      <4>3. Uses(X, v, j, a, N + 1) = Uses(A, v, j, a, Len(A))
        BY <1>13, <1>16, <2>3
      <4>4. A[a].rule = j /\ A[a].who = v /\ A[a].at > A[1].at
        BY <1>19, <4>2
      <4> QED
        BY <1>13, <3>2, <3>4, <4>2, <4>3, <4>4 DEF BucketFits, Funded
    <3> QED
      BY <3>2, <3>3, <3>4 DEF BucketFits
  <2> QED
    BY <2>2, <2>3
<1>24. ASSUME NEW a \in 1..(N + 1), NEW m \in 1..(N + 1), a <= m PROVE PairFits(X, list, a, m)
  <2>1. CASE m = N + 1
    <3> SUFFICES ASSUME X[a].rule = i, X[a].who = w, X[a].at > X[1].at, list[i].window <= IdleFor
                 PROVE  Uses(X, w, i, a, N + 1) * Unit <= cap + (clock - X[a].at) * q
      BY <1>12, <1>15, <1>20, <1>21, <2>1 DEF PairFits
    <3>1. Uses(X, w, i, a, N + 1) * Unit + (has - Unit) <= cap + (clock - X[a].at) * q
      BY <1>8, <1>15, <1>20, <1>21, <1>22 DEF BucketFits, Funded
    <3>2. PICK n \in Int : n = Uses(X, w, i, a, N + 1) * Unit
      BY <1>6, <1>16
    <3>3. PICK x \in Int : x = cap + (clock - X[a].at) * q
      BY <1>15, EntryTyped
    <3> QED
      BY <1>6, <3>1, <3>2, <3>3
  <2>2. CASE m # N + 1
    <3>1. m \in 1..N /\ a \in 1..N /\ N > 0 /\ X[m] = A[m] /\ X[a] = A[a] /\ X[1] = A[1]
      BY <1>15, <1>19, <1>24, <2>2
    <3>2. PairFits(A, list, a, m)
      BY <1>13, <1>24, <3>1 DEF Paid
    <3>3. Uses(X, X[a].who, X[a].rule, a, m) = Uses(A, A[a].who, A[a].rule, a, m)
      <4>1. PICK v : v = A[a].who
        OBVIOUS
      <4>2. PICK j : j = A[a].rule
        OBVIOUS
      <4>3. Uses(X, v, j, a, m) = Uses(A, v, j, a, m)
        BY <1>16, <3>1
      <4> QED
        BY <3>1, <4>1, <4>2, <4>3
    <3> QED
      BY <3>1, <3>2, <3>3 DEF PairFits
  <2> QED
    BY <2>1, <2>2
<1>25. Paid(X, list, S, clock)
  BY <1>1, <1>15, <1>17, <1>23, <1>24 DEF Paid
<1> QED
  BY <1>2, <1>3, <1>7, <1>9, <1>10, <1>11, <1>14, <1>25

LEMMA RateInitially == RateLimitInit => RateInv
<1> SUFFICES ASSUME RateLimitInit PROVE RateInv
  OBVIOUS
<1>1. /\ clock = 0 /\ rules \in RuleLists /\ config = [p \in LimitProcs |-> [list |-> <<>>, until |-> 0]]
      /\ bucket = [p \in LimitProcs |-> NoBuckets] /\ admitted = [p \in LimitProcs |-> <<>>]
  BY DEF RateLimitInit
<1>2. BucketsTyped(NoBuckets, 0)
  BY DEF BucketsTyped, NoBuckets, NoBucket, Bucket
<1>3. Paid(<<>>, <<>>, NoBuckets, 0)
  BY NothingOwed
<1> QED
  BY <1>1, <1>2, <1>3 DEF RateInv

LEMMA RequestKeeps ==
  ASSUME RateInv, NEW p \in LimitProcs, NEW w \in Principals, NEW k \in Kinds, Request(p, w, k) PROVE RateInv'
<1>1. PICK B : B = bucket[p]
  OBVIOUS
<1>2. PICK loaded : loaded = Loaded(p)
  OBVIOUS
<1>3. PICK list : list = loaded.list
  OBVIOUS
<1>4. /\ clock \in Nat /\ rules \in RuleLists
      /\ config \in [LimitProcs -> [list : RuleLists \cup {<<>>}, until : Int]]
      /\ bucket = [q \in LimitProcs |-> bucket[q]] /\ admitted = [q \in LimitProcs |-> admitted[q]]
      /\ BucketsTyped(B, clock) /\ Paid(admitted[p], config[p].list, B, clock)
  BY <1>1 DEF RateInv
<1>5. loaded \in [list : RuleLists \cup {<<>>}, until : Int] /\ list \in RuleLists \cup {<<>>}
  <2>1. clock + KeepConfig \in Int
    BY <1>4, RateAssumption
  <2>2. loaded = config[p] \/ loaded = [list |-> rules, until |-> clock + KeepConfig]
    BY <1>2 DEF Loaded
  <2>3. loaded \in [list : RuleLists \cup {<<>>}, until : Int]
    BY <1>4, <2>1, <2>2
  <2> QED
    BY <1>3, <2>3
<1>6. PICK seen : seen = IF list = config[p].list THEN admitted[p] ELSE <<>>
  OBVIOUS
<1>7. Paid(seen, list, B, clock)
  BY <1>4, <1>5, <1>6, NothingOwed
<1>8. clock' = clock /\ rules' = rules /\ config' = [config EXCEPT ![p] = loaded]
  BY <1>2 DEF Request
<1>9. config' \in [LimitProcs -> [list : RuleLists \cup {<<>>}, until : Int]] /\ config'[p].list = list
      /\ \A q \in LimitProcs : q # p => config'[q] = config[q]
  BY <1>3, <1>4, <1>5, <1>8
<1>10. ASSUME NEW S, NEW X, bucket' = [bucket EXCEPT ![p] = S], admitted' = [admitted EXCEPT ![p] = X],
              Paid(X, list, S, clock), BucketsTyped(S, clock)
       PROVE  RateInv'
  <2>1. /\ bucket' = [q \in LimitProcs |-> bucket'[q]] /\ admitted' = [q \in LimitProcs |-> admitted'[q]]
        /\ bucket'[p] = S /\ admitted'[p] = X
        /\ \A q \in LimitProcs : q # p => bucket'[q] = bucket[q] /\ admitted'[q] = admitted[q]
    BY <1>4, <1>10
  <2>2. ASSUME NEW q \in LimitProcs
        PROVE  BucketsTyped(bucket'[q], clock) /\ Paid(admitted'[q], config'[q].list, bucket'[q], clock)
    <3>1. CASE q = p
      BY <1>9, <1>10, <2>1, <3>1
    <3>2. CASE q # p
      BY <1>9, <2>1, <3>2 DEF RateInv
    <3> QED
      BY <3>1, <3>2
  <2> QED
    BY <1>4, <1>8, <1>9, <2>1, <2>2, RateNextState
<1>11. PICK covered : covered = Covering(list, k)
  OBVIOUS
<1>12. PICK i : i = Min(covered)
  OBVIOUS
<1>13. PICK has : has = Refill(B[w][i], list[i])
  OBVIOUS
<1>14. CASE covered = {}
  <2>1. bucket' = bucket /\ admitted' = [admitted EXCEPT ![p] = seen]
    BY <1>2, <1>3, <1>6, <1>11, <1>14 DEF Request
  <2>2. bucket' = [bucket EXCEPT ![p] = B]
    BY <1>1, <1>4, <2>1
  <2> QED
    BY <1>4, <1>7, <1>10, <2>1, <2>2
<1>15. CASE covered # {}
  <2>1. i \in DOMAIN list
    <3>1. DOMAIN list \subseteq Nat
      BY <1>5, RuleNumbers, RateAssumption
    <3> QED
      BY <1>11, <1>12, <1>15, <3>1, FirstCovers
  <2>2. IF has < Unit
        THEN /\ bucket' = [bucket EXCEPT ![p][w][i] = [tokens |-> has, at |-> clock]]
             /\ admitted' = [admitted EXCEPT ![p] = seen]
        ELSE /\ bucket' = [bucket EXCEPT ![p][w][i] = [tokens |-> has - Unit, at |-> clock]]
             /\ admitted' = [admitted EXCEPT ![p] = Append(seen, [who |-> w, rule |-> i, at |-> clock])]
    BY <1>1, <1>2, <1>3, <1>6, <1>11, <1>12, <1>13, <1>15 DEF Request
  <2>3. CASE has < Unit
    <3>1. PICK S : S = [B EXCEPT ![w][i] = [tokens |-> has, at |-> clock]]
      OBVIOUS
    <3>2. Paid(seen, list, S, clock) /\ BucketsTyped(S, clock)
      BY <1>4, <1>7, <1>13, <2>1, <3>1, RefusalFits
    <3>3. bucket' = [bucket EXCEPT ![p] = S]
      BY <1>1, <2>2, <2>3, <3>1
    <3> QED
      BY <1>10, <2>2, <2>3, <3>2, <3>3
  <2>4. CASE ~(has < Unit)
    <3>1. PICK S : S = [B EXCEPT ![w][i] = [tokens |-> has - Unit, at |-> clock]]
      OBVIOUS
    <3>2. PICK X : X = Append(seen, [who |-> w, rule |-> i, at |-> clock])
      OBVIOUS
    <3>3. Paid(X, list, S, clock) /\ BucketsTyped(S, clock)
      BY <1>4, <1>7, <1>13, <2>1, <2>4, <3>1, <3>2, AdmissionFits
    <3>4. bucket' = [bucket EXCEPT ![p] = S]
      BY <1>1, <2>2, <2>4, <3>1
    <3> QED
      BY <1>10, <2>2, <2>4, <3>2, <3>3, <3>4
  <2> QED
    BY <2>3, <2>4
<1> QED
  BY <1>14, <1>15

LEMMA RateKeeps == RateInv /\ [RateLimitNext]_rateLimitVars => RateInv'
<1> SUFFICES ASSUME RateInv, [RateLimitNext]_rateLimitVars PROVE RateInv'
  OBVIOUS
<1>1. /\ clock \in Nat /\ rules \in RuleLists
      /\ config \in [LimitProcs -> [list : RuleLists \cup {<<>>}, until : Int]]
      /\ bucket = [q \in LimitProcs |-> bucket[q]] /\ admitted = [q \in LimitProcs |-> admitted[q]]
      /\ \A p \in LimitProcs : BucketsTyped(bucket[p], clock) /\ Paid(admitted[p], config[p].list, bucket[p], clock)
  BY DEF RateInv
<1>2. ASSUME clock' \in Nat, rules' \in RuleLists, config' \in [LimitProcs -> [list : RuleLists \cup {<<>>}, until : Int]],
             bucket' = [p \in LimitProcs |-> bucket'[p]], admitted' = [p \in LimitProcs |-> admitted'[p]],
             \A p \in LimitProcs : BucketsTyped(bucket'[p], clock') /\ Paid(admitted'[p], config'[p].list, bucket'[p], clock')
      PROVE  RateInv'
  BY <1>2, RateNextState
<1>3. CASE UNCHANGED rateLimitVars
  <2>1. clock' = clock /\ rules' = rules /\ config' = config /\ bucket' = bucket /\ admitted' = admitted
    BY <1>3 DEF rateLimitVars
  <2> QED
    BY <1>1, <1>2, <2>1
<1>4. CASE TimePasses
  <2>1. clock' = clock + 1 /\ rules' = rules /\ config' = config /\ bucket' = bucket /\ admitted' = admitted
    BY <1>4 DEF TimePasses
  <2>2. \A p \in LimitProcs : BucketsTyped(bucket[p], clock + 1) /\ Paid(admitted[p], config[p].list, bucket[p], clock + 1)
    BY <1>1, TimeFits
  <2> QED
    BY <1>1, <1>2, <2>1, <2>2
<1>5. ASSUME NEW p \in LimitProcs, Sweep(p) PROVE RateInv'
  <2>1. PICK S : S = [w \in Principals |-> [i \in Slots |-> Swept(bucket[p][w][i])]]
    OBVIOUS
  <2>2. bucket' = [bucket EXCEPT ![p] = S] /\ clock' = clock /\ rules' = rules /\ config' = config /\ admitted' = admitted
    BY <1>5, <2>1 DEF Sweep
  <2>3. Paid(admitted[p], config[p].list, S, clock) /\ BucketsTyped(S, clock)
    BY <1>1, <2>1, SweptFits
  <2>4. \A q \in LimitProcs : BucketsTyped(bucket'[q], clock) /\ Paid(admitted[q], config[q].list, bucket'[q], clock)
    BY <1>1, <2>2, <2>3
  <2> QED
    BY <1>1, <1>2, <2>2, <2>4
<1>6. ASSUME NEW p \in LimitProcs, NEW list \in RuleLists, Configure(p, list) PROVE RateInv'
  <2>1. /\ rules' = list /\ clock' = clock /\ config' = [config EXCEPT ![p].until = 0]
        /\ bucket' = [bucket EXCEPT ![p] = NoBuckets] /\ admitted' = [admitted EXCEPT ![p] = <<>>]
    BY <1>6 DEF Configure
  <2>2. /\ config' \in [LimitProcs -> [list : RuleLists \cup {<<>>}, until : Int]]
        /\ \A q \in LimitProcs : config'[q].list = config[q].list
    BY <1>1, <2>1
  <2>3. BucketsTyped(NoBuckets, clock) /\ Paid(<<>>, config[p].list, NoBuckets, clock)
    <3>1. config[p].list \in RuleLists \cup {<<>>}
      BY <1>1
    <3> QED
      BY <1>1, <3>1, NothingOwed DEF BucketsTyped, NoBuckets, NoBucket, Bucket
  <2>4. ASSUME NEW q \in LimitProcs
        PROVE  BucketsTyped(bucket'[q], clock) /\ Paid(admitted'[q], config'[q].list, bucket'[q], clock)
    <3>1. CASE q = p
      BY <1>1, <2>1, <2>2, <2>3, <3>1
    <3>2. CASE q # p
      BY <1>1, <2>1, <2>2, <3>2
    <3> QED
      BY <3>1, <3>2
  <2> QED
    BY <1>1, <1>2, <2>1, <2>2, <2>4
<1> QED
  BY <1>3, <1>4, <1>5, <1>6, RequestKeeps DEF RateLimitNext

LEMMA RateConcludes == RateInv => BurstBounded
<1> SUFFICES ASSUME RateInv, NEW p \in LimitProcs, NEW a \in DOMAIN admitted[p], NEW b \in DOMAIN admitted[p],
                    a <= b, admitted[p][a].at > admitted[p][1].at
             PROVE  Within(p, a, b)
  BY DEF BurstBounded
<1>1. PICK A : A = admitted[p]
  OBVIOUS
<1>2. PICK list : list = config[p].list
  OBVIOUS
<1>3. Paid(A, list, bucket[p], clock)
  BY <1>1, <1>2 DEF RateInv
<1>4. A \in Seq(Entry) /\ a \in 1..Len(A) /\ b \in 1..Len(A) /\ A[a].rule \in DOMAIN list /\ list \in RuleLists \cup {<<>>}
  BY <1>1, <1>3 DEF Paid
<1>5. PICK i : i = A[a].rule
  OBVIOUS
<1>6. list \in RuleLists /\ i \in DOMAIN list
  BY <1>4, <1>5, RuleNumbers
<1>7. PICK n \in Nat : n = Uses(A, A[a].who, i, a, b)
  BY <1>4, UsesCounted
<1>8. n = Cardinality({j \in a..b : A[j].rule = i /\ A[j].who = A[a].who})
  BY <1>7 DEF Uses
<1>9. PICK dt \in Int : dt = A[b].at - A[a].at
  BY <1>4, EntryTyped
<1>10. ASSUME A[b].rule = i, A[b].who = A[a].who, ~(list[i].window > IdleFor)
       PROVE  n * list[i].window <= (list[i].max * list[i].window) + dt * list[i].max
  <2>1. PICK m \in Nat : m = list[i].max
    BY <1>6, Rates
  <2>2. PICK v \in Nat : v = list[i].window
    BY <1>6, Rates
  <2>3. PICK u \in Nat : u > 0 /\ Unit = v * u /\ Rate(list[i]) = m * u
    BY <1>6, <2>1, <2>2, Rates
  <2>4. n * (v * u) <= m * (v * u) + dt * (m * u)
    <3>1. PairFits(A, list, a, b) /\ v <= IdleFor
      BY <1>3, <1>4, <1>10, <2>2, RateAssumption DEF Paid
    <3> QED
      BY <1>1, <1>5, <1>7, <1>9, <1>10, <2>1, <2>2, <2>3, <3>1 DEF PairFits, Cap
  <2>5. PICK x \in Int : x = n * v
    OBVIOUS
  <2>6. PICK y \in Int : y = m * v + dt * m
    OBVIOUS
  <2>7. n * (v * u) = x * u /\ m * (v * u) + dt * (m * u) = y * u
    BY <2>5, <2>6
  <2>8. x * u <= y * u
    BY <2>4, <2>7
  <2>9. x <= y
    <3> SUFFICES ASSUME x >= y + 1 PROVE FALSE
      OBVIOUS
    <3>1. (y + 1) * u <= x * u /\ (y + 1) * u = y * u + u
      BY <2>3
    <3> QED
      BY <2>3, <2>8, <3>1
  <2> QED
    BY <2>1, <2>2, <2>5, <2>6, <2>9
<1> QED
  BY <1>1, <1>2, <1>5, <1>8, <1>9, <1>10 DEF Within

(* Whatever is refused, swept, read anew or configured meanwhile: but for the moment in     *)
(* which the rules were read and for windows longer than a bucket is kept, no stretch of    *)
(* time sees a principal pass a rule more often than its max and what that time refills.    *)
THEOREM BurstsBounded == RateLimitSpec => []BurstBounded
<1>1. RateLimitInit => RateInv
  BY RateInitially
<1>2. RateInv /\ [RateLimitNext]_rateLimitVars => RateInv'
  BY RateKeeps
<1>3. RateInv => BurstBounded
  BY RateConcludes
<1> QED
  BY <1>1, <1>2, <1>3, PTL DEF RateLimitSpec

-----------------------------------------------------------------------------
(***************************************************************************)
(* Sandbox.  The copies: what a copy under way has read lies between the   *)
(* database of its beginning and that of now, and a slot was used last     *)
(* when its administrator used it.                                         *)
(***************************************************************************)
Versions == [TableIds -> Nat]
CopyRows == [of : Consoles, tables : Seq(Int), first : {"reads", "writes"}, begun : Versions]
SlotRows == [tables : Seq(Int), own : Nat, createdAt : Nat, lastUsedAt : Nat]
Notes == [begun : Versions, ended : Versions, ran : Nat, used : Nat]
Outcomes == [text : Statements, ok : BOOLEAN]
Queries == [owner : Consoles, text : Statements, last : Outcomes \cup {Absent}]
AskVisits == [step : {"insert", "update", "delete", "run"}, text : Statements]
RunVisits == [step : {"find", "record"}, text : Statements, ok : BOOLEAN]

\* The mark of what is absent is not taken for anything that is there.
AbsentMarks ==
  /\ Absent \notin CopyRows /\ Absent \notin SlotRows /\ Absent \notin Notes
  /\ Absent \notin Outcomes /\ Absent \notin Queries /\ Absent \notin AskVisits /\ Absent \notin RunVisits

CopiesTyped ==
  /\ versions \in Versions /\ hour \in Nat
  /\ slots \in [SqlProcs -> [Consoles -> SlotRows \cup {Absent}]]
  /\ copying \in [SqlProcs -> CopyRows \cup {Absent}]
  /\ past \in [SqlProcs -> [Consoles -> Notes \cup {Absent}]]

Alone == Cardinality(SqlProcs) = 1
ReadBetween(tables, from, to) ==
  \A t \in 1..Len(tables) : tables[t] = Empty \/ (from[t] <= tables[t] /\ tables[t] <= to[t])
Underway(copy, now) ==
  /\ Len(copy.tables) <= TableCount /\ ReadBetween(copy.tables, copy.begun, now)
  /\ \A t \in TableIds : copy.begun[t] <= now[t]
  /\ Alone => copy.begun = now
Holds(slot, note) ==
  /\ Len(slot.tables) = TableCount /\ ReadBetween(slot.tables, note.begun, note.ended)
  /\ Alone => note.begun = note.ended
  /\ slot.own = note.ran /\ slot.lastUsedAt = note.used
Kept(slot, note, now) ==
  /\ slot # Absent => note # Absent /\ Holds(slot, note)
  /\ note # Absent => note.used < now - SlotIdle \/ slot # Absent
CopiesInv ==
  /\ CopiesTyped
  /\ \A p \in SqlProcs : copying[p] # Absent => Underway(copying[p], versions)
  /\ \A p \in SqlProcs, a \in Consoles : Kept(slots[p][a], past[p][a], hour)

LEMMA RanOnIs ==
  ASSUME NEW slot \in SlotRows, NEW kind \in {"reads", "writes"}, hour \in Nat
  PROVE  /\ RanOn(slot, kind) \in SlotRows
         /\ RanOn(slot, kind).tables = slot.tables
         /\ RanOn(slot, kind).own = slot.own + Changed(kind)
         /\ RanOn(slot, kind).lastUsedAt = hour
<1>1. Changed(kind) \in Nat
  BY DEF Changed
<1>2. PICK n \in Nat : n = slot.own + Changed(kind)
  BY <1>1 DEF SlotRows
<1>3. RanOn(slot, kind) = [slot EXCEPT !.own = n, !.lastUsedAt = hour]
  BY <1>2 DEF RanOn
<1>4. [slot EXCEPT !.own = n, !.lastUsedAt = hour] \in SlotRows
  BY <1>2, Zenon DEF SlotRows
<1> QED
  BY <1>2, <1>3, <1>4 DEF SlotRows

LEMMA NotedIs ==
  ASSUME NEW note \in Notes, NEW kind \in {"reads", "writes"}, hour \in Nat
  PROVE  /\ Noted(note, kind) \in Notes
         /\ Noted(note, kind).begun = note.begun /\ Noted(note, kind).ended = note.ended
         /\ Noted(note, kind).ran = note.ran + Changed(kind)
         /\ Noted(note, kind).used = hour
<1>1. Changed(kind) \in Nat
  BY DEF Changed
<1>2. PICK n \in Nat : n = note.ran + Changed(kind)
  BY <1>1 DEF Notes
<1>3. Noted(note, kind) = [note EXCEPT !.ran = n, !.used = hour]
  BY <1>2 DEF Noted
<1>4. [note EXCEPT !.ran = n, !.used = hour] \in Notes
  BY <1>2, Zenon DEF Notes
<1> QED
  BY <1>2, <1>3, <1>4 DEF Notes

LEMMA CopiesStart == SandboxInit => CopiesInv
<1> SUFFICES ASSUME SandboxInit PROVE CopiesInv
  OBVIOUS
<1>1. CopiesTyped
  BY DEF SandboxInit, CopiesTyped, Versions
<1> QED
  BY <1>1 DEF SandboxInit, CopiesInv, Kept

\* A slot that is emptied with its note, or is left as it was.
LEMMA GivenUpKeeps ==
  ASSUME CopiesInv, NEW p \in SqlProcs, NEW a \in Consoles, GivenUp(p, a)
  PROVE  /\ slots' \in [SqlProcs -> [Consoles -> SlotRows \cup {Absent}]]
         /\ past' \in [SqlProcs -> [Consoles -> Notes \cup {Absent}]]
         /\ \A q \in SqlProcs, b \in Consoles : Kept(slots'[q][b], past'[q][b], hour)
<1>1. /\ slots' \in [SqlProcs -> [Consoles -> SlotRows \cup {Absent}]]
      /\ past' \in [SqlProcs -> [Consoles -> Notes \cup {Absent}]]
  BY DEF CopiesInv, CopiesTyped, GivenUp
<1>2. ASSUME NEW q \in SqlProcs, NEW b \in Consoles PROVE Kept(slots'[q][b], past'[q][b], hour)
  <2>1. CASE q = p /\ b = a
    <3>1. slots'[q][b] = Absent /\ past'[q][b] = Absent
      BY <2>1 DEF GivenUp, CopiesInv, CopiesTyped
    <3> QED
      BY <3>1 DEF Kept
  <2>2. CASE ~(q = p /\ b = a)
    <3>1. slots'[q][b] = slots[q][b] /\ past'[q][b] = past[q][b]
      BY <2>2 DEF GivenUp, CopiesInv, CopiesTyped
    <3> QED
      BY <3>1 DEF CopiesInv
  <2> QED
    BY <2>1, <2>2
<1> QED
  BY <1>1, <1>2

LEMMA CommitKeeps ==
  ASSUME CopiesInv, NEW p \in SqlProcs, Commit(p)
  PROVE  CopiesInv'
<1>1. PICK written \in SUBSET TableIds \ {{}} :
        versions' = [t \in TableIds |-> IF t \in written THEN versions[t] + 1 ELSE versions[t]]
  BY DEF Commit
<1>2. versions' \in Versions /\ \A t \in TableIds : versions[t] \in Nat /\ versions'[t] \in Nat /\ versions[t] <= versions'[t]
  BY <1>1 DEF CopiesInv, CopiesTyped, Versions
<1>3. UNCHANGED <<slots, copying, hour, past>> /\ copying[p] = Absent
  BY DEF Commit, Free
<1>4. ASSUME NEW q \in SqlProcs, copying[q] # Absent PROVE Underway(copying[q], versions')
  <2>1. PICK copy \in CopyRows : copy = copying[q]
    BY <1>4 DEF CopiesInv, CopiesTyped
  <2>2. Underway(copy, versions)
    BY <1>4, <2>1 DEF CopiesInv
  <2>3. ~Alone
    BY <1>3, <1>4, SandboxAssumption, FS_Singleton DEF Alone
  <2>4. copy.begun \in [TableIds -> Nat] /\ copy.tables \in Seq(Int)
    BY DEF CopyRows, Versions
  <2>5. \A t \in TableIds : copy.begun[t] \in Nat /\ copy.begun[t] <= versions'[t]
    BY <1>2, <2>2, <2>4 DEF Underway
  <2>6. ReadBetween(copy.tables, copy.begun, versions')
    <3>1. ReadBetween(copy.tables, copy.begun, versions) /\ Len(copy.tables) \in Nat /\ Len(copy.tables) <= TableCount
      BY <2>2, <2>4 DEF Underway
    <3>2. \A t \in 1..Len(copy.tables) : t \in TableIds /\ copy.tables[t] \in Int
      BY <3>1, <2>4, SandboxAssumption DEF TableIds
    <3> QED
      BY <1>2, <2>5, <3>1, <3>2 DEF ReadBetween
  <2> QED
    BY <2>1, <2>2, <2>3, <2>5, <2>6 DEF Underway
<1> QED
  BY <1>2, <1>3, <1>4 DEF CopiesInv, CopiesTyped

LEMMA HourKeeps ==
  ASSUME CopiesInv, HourPasses
  PROVE  CopiesInv'
<1>1. hour \in Nat /\ hour' = hour + 1 /\ UNCHANGED <<versions, slots, copying, past>> /\ CopiesTyped'
  BY DEF CopiesInv, CopiesTyped, HourPasses
<1>2. ASSUME NEW p \in SqlProcs, NEW a \in Consoles PROVE Kept(slots[p][a], past[p][a], hour')
  <2>1. past[p][a] # Absent => past[p][a].used \in Nat
    BY DEF CopiesInv, CopiesTyped, Notes
  <2> QED
    BY <1>1, <2>1, SandboxAssumption DEF CopiesInv, Kept
<1> QED
  BY <1>1, <1>2 DEF CopiesInv

LEMMA BeginCopyKeeps ==
  ASSUME CopiesInv, NEW p \in SqlProcs, NEW a \in Consoles, NEW first \in {"reads", "writes"}, BeginCopy(p, a, first)
  PROVE  CopiesInv'
<1> DEFINE copy == [of |-> a, tables |-> <<>>, first |-> first, begun |-> versions]
<1>1. GivenUp(p, a) /\ UNCHANGED <<versions, hour>> /\ copying' = [copying EXCEPT ![p] = copy]
  BY DEF BeginCopy
<1>2. copy \in CopyRows /\ Underway(copy, versions)
  <2>1. versions \in Versions /\ \A t \in TableIds : versions[t] \in Nat
    BY DEF CopiesInv, CopiesTyped, Versions
  <2>2. <<>> \in Seq(Int) /\ Len(<<>>) = 0
    OBVIOUS
  <2> QED
    BY <2>1, <2>2, SandboxAssumption DEF CopyRows, Underway, ReadBetween
<1>3. copying' \in [SqlProcs -> CopyRows \cup {Absent}] /\ \A q \in SqlProcs : copying'[q] = IF q = p THEN copy ELSE copying[q]
  BY <1>1, <1>2 DEF CopiesInv, CopiesTyped
<1>4. \A q \in SqlProcs : copying'[q] # Absent => Underway(copying'[q], versions)
  BY <1>2, <1>3 DEF CopiesInv
<1> QED
  BY <1>1, <1>3, <1>4, GivenUpKeeps DEF CopiesInv, CopiesTyped

LEMMA CopyTableKeeps ==
  ASSUME CopiesInv, NEW p \in SqlProcs, CopyTable(p)
  PROVE  CopiesInv'
<1>1. PICK copy \in CopyRows : copy = copying[p] /\ Underway(copy, versions)
  BY DEF CopyTable, Free, CopiesInv, CopiesTyped
<1>2. PICK version \in {versions[Len(copy.tables) + 1], Empty} :
        copying' = [copying EXCEPT ![p].tables = Append(copy.tables, version)]
  BY <1>1 DEF CopyTable, CopiesInv, CopiesTyped
<1>3. /\ UNCHANGED <<versions, slots, hour, past>> /\ copy.tables \in Seq(Int)
      /\ Len(copy.tables) \in Nat /\ Len(copy.tables) < TableCount
  BY <1>1 DEF CopyTable, CopyRows
<1>4. PICK n \in TableIds : n = Len(copy.tables) + 1
  BY <1>3, SandboxAssumption DEF TableIds
<1>5. versions[n] \in Nat /\ version \in Int /\ copy.begun[n] \in Nat /\ copy.begun[n] <= versions[n]
  BY <1>1, <1>2, <1>4 DEF CopiesInv, CopiesTyped, Versions, CopyRows, Underway, Empty
<1>6. PICK tables \in Seq(Int) : tables = Append(copy.tables, version)
  BY <1>3, <1>5, AppendProperties
<1>7. Len(tables) = n /\ tables[n] = version /\ \A t \in 1..Len(copy.tables) : tables[t] = copy.tables[t]
  BY <1>3, <1>4, <1>5, <1>6
<1>8. ReadBetween(tables, copy.begun, versions)
  <2> SUFFICES ASSUME NEW t \in 1..n
               PROVE  tables[t] = Empty \/ (copy.begun[t] <= tables[t] /\ tables[t] <= versions[t])
    BY <1>7 DEF ReadBetween
  <2>1. CASE t = n
    BY <1>2, <1>4, <1>5, <1>7, <2>1
  <2>2. CASE t # n
    <3>1. t \in 1..Len(copy.tables)
      BY <1>3, <1>4, <2>2 DEF TableIds
    <3> QED
      BY <1>1, <1>7, <3>1 DEF Underway, ReadBetween
  <2> QED
    BY <2>1, <2>2
<1>9. PICK next : next = [of |-> copy.of, tables |-> tables, first |-> copy.first, begun |-> copy.begun]
  OBVIOUS
<1>10. next \in CopyRows /\ next = [copy EXCEPT !.tables = tables]
  <2>1. copy = [of |-> copy.of, tables |-> copy.tables, first |-> copy.first, begun |-> copy.begun]
    BY DEF CopyRows
  <2>2. next = [copy EXCEPT !.tables = tables]
    BY <1>9, <2>1
  <2> QED
    BY <1>6, <1>9, <2>2 DEF CopyRows
<1>11. Underway(next, versions)
  BY <1>1, <1>3, <1>4, <1>7, <1>8, <1>9 DEF Underway, TableIds
<1>12. copying' = [copying EXCEPT ![p] = next]
  BY <1>1, <1>2, <1>6, <1>10 DEF CopiesInv, CopiesTyped
<1>13. copying' \in [SqlProcs -> CopyRows \cup {Absent}] /\ \A q \in SqlProcs : copying'[q] = IF q = p THEN next ELSE copying[q]
  BY <1>10, <1>12 DEF CopiesInv, CopiesTyped
<1>14. \A q \in SqlProcs : copying'[q] # Absent => Underway(copying'[q], versions)
  BY <1>11, <1>13 DEF CopiesInv
<1> QED
  BY <1>3, <1>13, <1>14 DEF CopiesInv, CopiesTyped

\* A slot and its note are written together.
LEMMA WrittenKeeps ==
  ASSUME CopiesInv, NEW p \in SqlProcs, NEW a \in Consoles, NEW slot \in SlotRows, NEW note \in Notes,
         slots' = [slots EXCEPT ![p][a] = slot], past' = [past EXCEPT ![p][a] = note],
         AbsentMarks, Holds(slot, note)
  PROVE  /\ slots' \in [SqlProcs -> [Consoles -> SlotRows \cup {Absent}]]
         /\ past' \in [SqlProcs -> [Consoles -> Notes \cup {Absent}]]
         /\ \A q \in SqlProcs, b \in Consoles : Kept(slots'[q][b], past'[q][b], hour)
<1>1. /\ slots' \in [SqlProcs -> [Consoles -> SlotRows \cup {Absent}]]
      /\ past' \in [SqlProcs -> [Consoles -> Notes \cup {Absent}]]
  BY DEF CopiesInv, CopiesTyped
<1>2. ASSUME NEW q \in SqlProcs, NEW b \in Consoles PROVE Kept(slots'[q][b], past'[q][b], hour)
  <2>1. CASE q = p /\ b = a
    <3>1. slots'[q][b] = slot /\ past'[q][b] = note
      BY <2>1 DEF CopiesInv, CopiesTyped
    <3> QED
      BY <3>1 DEF Kept, AbsentMarks
  <2>2. CASE ~(q = p /\ b = a)
    <3>1. slots'[q][b] = slots[q][b] /\ past'[q][b] = past[q][b]
      BY <2>2 DEF CopiesInv, CopiesTyped
    <3> QED
      BY <3>1 DEF CopiesInv
  <2> QED
    BY <2>1, <2>2
<1> QED
  BY <1>1, <1>2

LEMMA CopyEndsKeeps ==
  ASSUME CopiesInv, AbsentMarks, NEW p \in SqlProcs, CopyEnds(p)
  PROVE  CopiesInv'
<1>1. PICK copy \in CopyRows : copy = copying[p] /\ Underway(copy, versions) /\ Len(copy.tables) = TableCount
  BY DEF CopyEnds, Free, CopiesInv, CopiesTyped
<1>2. hour \in Nat /\ versions \in Versions /\ copy.first \in {"reads", "writes"} /\ copy.of \in Consoles
  BY DEF CopiesInv, CopiesTyped, CopyRows
<1>3. PICK slot : slot = [tables |-> copy.tables, own |-> 0, createdAt |-> hour, lastUsedAt |-> hour]
  OBVIOUS
<1>4. PICK note : note = [begun |-> copy.begun, ended |-> versions, ran |-> 0, used |-> hour]
  OBVIOUS
<1>5. /\ slots' = [slots EXCEPT ![p][copy.of] = RanOn(slot, copy.first)]
      /\ past' = [past EXCEPT ![p][copy.of] = Noted(note, copy.first)]
      /\ copying' = [copying EXCEPT ![p] = Absent] /\ UNCHANGED <<versions, hour>>
  BY <1>1, <1>3, <1>4 DEF CopyEnds
<1>6. slot \in SlotRows /\ note \in Notes
  BY <1>2, <1>3, <1>4 DEF SlotRows, Notes, CopyRows
<1>7. Holds(RanOn(slot, copy.first), Noted(note, copy.first))
  BY <1>1, <1>2, <1>3, <1>4, <1>6, RanOnIs, NotedIs DEF Holds, Underway
<1>8. /\ slots' \in [SqlProcs -> [Consoles -> SlotRows \cup {Absent}]]
      /\ past' \in [SqlProcs -> [Consoles -> Notes \cup {Absent}]]
      /\ \A q \in SqlProcs, b \in Consoles : Kept(slots'[q][b], past'[q][b], hour)
  BY <1>2, <1>5, <1>6, <1>7, RanOnIs, NotedIs, WrittenKeeps
<1>9. copying' \in [SqlProcs -> CopyRows \cup {Absent}] /\ \A q \in SqlProcs : copying'[q] # Absent => copying'[q] = copying[q]
  BY <1>5 DEF CopiesInv, CopiesTyped
<1> QED
  BY <1>5, <1>8, <1>9 DEF CopiesInv, CopiesTyped

LEMMA RunKeeps ==
  ASSUME CopiesInv, AbsentMarks, NEW p \in SqlProcs, NEW a \in Consoles, NEW kind \in {"reads", "writes"},
         Has(p, a), slots' = [slots EXCEPT ![p][a] = RanOn(@, kind)], past' = [past EXCEPT ![p][a] = Noted(@, kind)],
         UNCHANGED <<versions, copying, hour>>
  PROVE  CopiesInv'
<1>1. Kept(slots[p][a], past[p][a], hour) /\ hour \in Nat
  BY DEF CopiesInv, CopiesTyped
<1>2. PICK slot \in SlotRows : slot = slots[p][a]
  BY DEF Has, CopiesInv, CopiesTyped
<1>3. PICK note \in Notes : note = past[p][a]
  BY <1>1 DEF Has, Kept, CopiesInv, CopiesTyped
<1>4. Holds(slot, note)
  BY <1>1, <1>2, <1>3 DEF Has, Kept
<1>5. Changed(kind) \in Nat
  BY DEF Changed
<1>6. Holds(RanOn(slot, kind), Noted(note, kind))
  BY <1>1, <1>4, <1>5, RanOnIs, NotedIs DEF Holds
<1>7. slots' = [slots EXCEPT ![p][a] = RanOn(slot, kind)] /\ past' = [past EXCEPT ![p][a] = Noted(note, kind)]
  BY <1>2, <1>3 DEF CopiesInv, CopiesTyped
<1>8. /\ slots' \in [SqlProcs -> [Consoles -> SlotRows \cup {Absent}]]
      /\ past' \in [SqlProcs -> [Consoles -> Notes \cup {Absent}]]
      /\ \A q \in SqlProcs, b \in Consoles : Kept(slots'[q][b], past'[q][b], hour)
  BY <1>1, <1>6, <1>7, RanOnIs, NotedIs, WrittenKeeps
<1> QED
  BY <1>8 DEF CopiesInv, CopiesTyped

LEMMA PruneKeeps ==
  ASSUME CopiesInv, NEW p \in SqlProcs, Prune(p)
  PROVE  CopiesInv'
<1>1. /\ UNCHANGED <<versions, copying, hour, past>> /\ slots' \in [SqlProcs -> [Consoles -> SlotRows \cup {Absent}]]
      /\ \A q \in SqlProcs, b \in Consoles :
           slots'[q][b] = IF q = p /\ Has(p, b) /\ StaleSlot(slots[p][b]) THEN Absent ELSE slots[q][b]
  BY DEF Prune, CopiesInv, CopiesTyped
<1>2. ASSUME NEW q \in SqlProcs, NEW b \in Consoles PROVE Kept(slots'[q][b], past[q][b], hour)
  <2>1. Kept(slots[q][b], past[q][b], hour)
    BY DEF CopiesInv
  <2>2. CASE slots'[q][b] = slots[q][b]
    BY <2>1, <2>2
  <2>3. CASE slots'[q][b] # slots[q][b]
    <3>1. slots'[q][b] = Absent /\ slots[q][b] # Absent /\ slots[q][b].lastUsedAt < hour - SlotIdle
      BY <1>1, <2>3 DEF Has, StaleSlot
    <3> QED
      BY <2>1, <3>1 DEF Kept, Holds
  <2> QED
    BY <2>2, <2>3
<1> QED
  BY <1>1, <1>2 DEF CopiesInv, CopiesTyped

LEMMA RestartKeeps ==
  ASSUME CopiesInv, NEW p \in SqlProcs, Restart(p)
  PROVE  CopiesInv'
<1>1. CopiesTyped' /\ UNCHANGED <<versions, hour>>
  BY DEF Restart, CopiesInv, CopiesTyped
<1>2. \A q \in SqlProcs : copying'[q] = (IF q = p THEN Absent ELSE copying[q])
  BY DEF Restart, CopiesInv, CopiesTyped
<1>3. \A q \in SqlProcs, b \in Consoles :
        /\ slots'[q][b] = (IF q = p THEN Absent ELSE slots[q][b])
        /\ past'[q][b] = (IF q = p THEN Absent ELSE past[q][b])
  BY DEF Restart, CopiesInv, CopiesTyped
<1>4. \A q \in SqlProcs, b \in Consoles : Kept(slots'[q][b], past'[q][b], hour)
  BY <1>3 DEF CopiesInv, Kept
<1> QED
  BY <1>1, <1>2, <1>4 DEF CopiesInv

LEMMA SandboxStep ==
  ASSUME CopiesInv, AbsentMarks, SandboxNext
  PROVE  CopiesInv'
<1>1. CASE HourPasses
  BY <1>1, HourKeeps
<1>2. CASE \E p \in SqlProcs : Commit(p) \/ CopyTable(p) \/ CopyEnds(p) \/ Prune(p) \/ Restart(p)
  BY <1>2, CommitKeeps, CopyTableKeeps, CopyEndsKeeps, PruneKeeps, RestartKeeps
<1>3. ASSUME NEW p \in SqlProcs, NEW a \in Consoles, GivenUp(p, a), UNCHANGED <<versions, copying, hour>>
      PROVE  CopiesInv'
  BY <1>3, GivenUpKeeps DEF CopiesInv, CopiesTyped
<1>4. CASE \E p \in SqlProcs, a \in Consoles : ResetFails(p, a) \/ DropSandbox(p, a)
  BY <1>3, <1>4 DEF ResetFails, DropSandbox
<1>5. CASE \E p \in SqlProcs, a \in Consoles : BeginCopy(p, a, "reads")
  BY <1>5, BeginCopyKeeps
<1>6. CASE \E p \in SqlProcs, a \in Consoles, kind \in {"reads", "writes"} : RunSql(p, a, kind)
  BY <1>6, BeginCopyKeeps, RunKeeps DEF RunSql
<1> QED
  BY <1>1, <1>2, <1>4, <1>5, <1>6 DEF SandboxNext

(***************************************************************************)
(* The saved query.  Whoever found it owns it, so whatever is written of   *)
(* it by id is its owner's; a run carries the text it ran.                 *)
(***************************************************************************)
QueryTyped ==
  /\ query \in Queries \cup {Absent}
  /\ visit \in [Consoles -> AskVisits \cup RunVisits \cup {Absent}]
  /\ given \in [texts : SUBSET Statements, by : SUBSET Consoles, visits : Nat]
NeverGiven == given.texts = {} => query = Absent /\ given.by = {}
Owned ==
  query # Absent => /\ query.text \in given.texts /\ given.by = {query.owner}
                    /\ query.last # Absent => query.last.text \in given.texts /\ (query.last.text = "fails" => ~query.last.ok)
Visiting ==
  \A a \in Consoles : visit[a] # Absent /\ visit[a].step # "insert" =>
    /\ given.by = {a} /\ given.texts # {}
    /\ visit[a].step \in {"run", "find", "record"} => visit[a].text \in given.texts
    /\ visit[a].step \in {"find", "record"} => (visit[a].text = "fails" => ~visit[a].ok)
OneGave == \A a, b \in given.by : a = b
QueriesInv == QueryTyped /\ NeverGiven /\ Owned /\ Visiting /\ OneGave

LEMMA QueriesStart == SandboxInit => QueriesInv
<1> SUFFICES ASSUME SandboxInit PROVE QueriesInv
  OBVIOUS
<1>1. QueryTyped
  BY DEF SandboxInit, QueryTyped
<1> QED
  BY <1>1 DEF SandboxInit, QueriesInv, NeverGiven, Owned, Visiting, OneGave

\* A visit's request as it is seen by those who look at it.
LEMMA VisitKinds ==
  ASSUME NEW v \in AskVisits \cup RunVisits \cup {Absent}, v # Absent
  PROVE  /\ v.text \in Statements /\ v.step \in {"insert", "update", "delete", "run", "find", "record"}
         /\ v.step \in {"find", "record"} => v \in RunVisits
  BY DEF AskVisits, RunVisits

\* A step that gives no text and leaves the query; one visit becomes v.
LEMMA VisitMoves ==
  ASSUME QueriesInv, NEW a \in Consoles, NEW v \in AskVisits \cup RunVisits \cup {Absent},
         visit' = [visit EXCEPT ![a] = v], query' = query, given'.texts = given.texts, given'.by = given.by,
         given' \in [texts : SUBSET Statements, by : SUBSET Consoles, visits : Nat],
         v # Absent /\ v.step # "insert" =>
           /\ given.by = {a} /\ given.texts # {}
           /\ v.step \in {"run", "find", "record"} => v.text \in given.texts
           /\ v.step \in {"find", "record"} => (v.text = "fails" => ~v.ok)
  PROVE  QueriesInv'
<1>1. visit' \in [Consoles -> AskVisits \cup RunVisits \cup {Absent}] /\ \A b \in Consoles : visit'[b] = IF b = a THEN v ELSE visit[b]
  BY DEF QueriesInv, QueryTyped
<1>2. QueryTyped'
  BY <1>1 DEF QueriesInv, QueryTyped
<1>3. NeverGiven' /\ Owned' /\ OneGave'
  BY DEF QueriesInv, NeverGiven, Owned, OneGave
<1>4. Visiting'
  <2> SUFFICES ASSUME NEW b \in Consoles, visit'[b] # Absent, visit'[b].step # "insert"
               PROVE  /\ given.by = {b} /\ given.texts # {}
                      /\ visit'[b].step \in {"run", "find", "record"} => visit'[b].text \in given.texts
                      /\ visit'[b].step \in {"find", "record"} => (visit'[b].text = "fails" => ~visit'[b].ok)
    BY DEF Visiting
  <2>1. CASE b = a
    BY <1>1, <2>1
  <2>2. CASE b # a
    BY <1>1, <2>2 DEF QueriesInv, Visiting
  <2> QED
    BY <2>1, <2>2
<1> QED
  BY <1>2, <1>3, <1>4 DEF QueriesInv

\* A step that ends a visit and may write the query.
LEMMA VisitWrites ==
  ASSUME QueriesInv, NEW a \in Consoles, visit' = [visit EXCEPT ![a] = Absent],
         query' \in Queries \cup {Absent}, given' \in [texts : SUBSET Statements, by : SUBSET Consoles, visits : Nat],
         given.texts \subseteq given'.texts, given.texts # {} => given'.by = given.by,
         NeverGiven', Owned', OneGave'
  PROVE  QueriesInv'
<1>1. visit' \in [Consoles -> AskVisits \cup RunVisits \cup {Absent}] /\ \A b \in Consoles : visit'[b] = IF b = a THEN Absent ELSE visit[b]
  BY DEF QueriesInv, QueryTyped
<1>2. QueryTyped'
  BY <1>1 DEF QueryTyped
<1>3. Visiting'
  <2> SUFFICES ASSUME NEW b \in Consoles, visit'[b] # Absent, visit'[b].step # "insert"
               PROVE  /\ given'.by = {b} /\ given'.texts # {}
                      /\ visit'[b].step \in {"run", "find", "record"} => visit'[b].text \in given'.texts
                      /\ visit'[b].step \in {"find", "record"} => (visit'[b].text = "fails" => ~visit'[b].ok)
    BY DEF Visiting
  <2>1. visit'[b] = visit[b]
    BY <1>1
  <2> QED
    BY <2>1 DEF QueriesInv, Visiting
<1> QED
  BY <1>2, <1>3 DEF QueriesInv

LEMMA GivenTyped ==
  ASSUME QueriesInv
  PROVE  /\ given.texts \subseteq Statements /\ given.by \subseteq Consoles /\ given.visits \in Nat
         /\ given = [texts |-> given.texts, by |-> given.by, visits |-> given.visits]
         /\ \A a \in Consoles : visit[a] \in AskVisits \cup RunVisits \cup {Absent}
         /\ query # Absent => query \in Queries /\ query.owner \in Consoles /\ query.text \in Statements
  BY DEF QueriesInv, QueryTyped, Queries

LEMMA ArrivesIs ==
  ASSUME QueriesInv, NEW a \in Consoles, Arrives(a)
  PROVE  /\ given'.texts = given.texts /\ given'.by = given.by
         /\ given' \in [texts : SUBSET Statements, by : SUBSET Consoles, visits : Nat]
<1>1. given \in [texts : SUBSET Statements, by : SUBSET Consoles, visits : Nat] /\ given' = [given EXCEPT !.visits = @ + 1]
  BY DEF Arrives, QueriesInv, QueryTyped
<1> QED
  BY <1>1

LEMMA CreateQueryKeeps ==
  ASSUME QueriesInv, AbsentMarks, NEW a \in Consoles, CreateQuery(a)
  PROVE  QueriesInv'
<1>1. PICK kind \in Statements : visit' = [visit EXCEPT ![a] = [step |-> "insert", text |-> kind]]
  BY DEF CreateQuery
<1>2. PICK v : v = [step |-> "insert", text |-> kind]
  OBVIOUS
<1>3. v \in AskVisits /\ v.step = "insert" /\ query' = query
  BY <1>2 DEF AskVisits, CreateQuery
<1> QED
  BY <1>1, <1>2, <1>3, ArrivesIs, VisitMoves DEF CreateQuery

LEMMA InsertQueryKeeps ==
  ASSUME QueriesInv, AbsentMarks, NEW a \in Consoles, InsertQuery(a)
  PROVE  QueriesInv'
<1>1. visit[a] # Absent /\ visit[a].text \in Statements
  BY GivenTyped, VisitKinds DEF InsertQuery, At
<1>2. PICK text \in Statements : text = visit[a].text
  BY <1>1
<1>3. visit' = [visit EXCEPT ![a] = Absent] /\ given.texts = {}
  BY DEF InsertQuery, Ended
<1>4. query' = [owner |-> a, text |-> text, last |-> Absent] /\ query' \in Queries
  BY <1>2 DEF InsertQuery, Queries
<1>5. given'.texts = {text} /\ given'.by = {a} /\ given' = [texts |-> {text}, by |-> {a}, visits |-> given.visits]
  <2>1. given' = [given EXCEPT !.texts = {text}, !.by = {a}]
    BY <1>2 DEF InsertQuery
  <2>2. given' = [[texts |-> given.texts, by |-> given.by, visits |-> given.visits] EXCEPT !.texts = {text}, !.by = {a}]
    BY <2>1, GivenTyped, Zenon
  <2> QED
    BY <2>2
<1>6. given' \in [texts : SUBSET Statements, by : SUBSET Consoles, visits : Nat]
  BY <1>5, GivenTyped
<1>7. NeverGiven' /\ Owned' /\ OneGave'
  BY <1>4, <1>5 DEF NeverGiven, Owned, OneGave
<1> QED
  BY <1>3, <1>4, <1>6, <1>7, VisitWrites

LEMMA AsksKeeps ==
  ASSUME QueriesInv, AbsentMarks, NEW a \in Consoles, Asks(a)
  PROVE  QueriesInv'
<1>1. /\ given.texts # {} /\ query' = query /\ given'.texts = given.texts /\ given'.by = given.by
      /\ given' \in [texts : SUBSET Statements, by : SUBSET Consoles, visits : Nat]
  BY ArrivesIs DEF Asks
<1>2. CASE visit' = visit
  <2>1. visit' = [visit EXCEPT ![a] = visit[a]]
    BY <1>2 DEF QueriesInv, QueryTyped
  <2>2. visit[a] = Absent
    BY DEF Asks, Arrives
  <2> QED
    BY <1>1, <2>1, <2>2, VisitMoves
<1>3. CASE Found(a)
  <2>1. query # Absent /\ query.owner = a /\ given.by = {a} /\ query.text \in given.texts /\ query.text \in Statements
    BY <1>3, GivenTyped DEF Found, QueriesInv, Owned
  <2>2. CASE \E kind \in Statements : visit' = [visit EXCEPT ![a] = [step |-> "update", text |-> kind]]
    <3>1. PICK kind \in Statements : visit' = [visit EXCEPT ![a] = [step |-> "update", text |-> kind]]
      BY <2>2
    <3>2. PICK v : v = [step |-> "update", text |-> kind]
      OBVIOUS
    <3>3. v \in AskVisits /\ v.step = "update"
      BY <3>2 DEF AskVisits
    <3> QED
      BY <1>1, <2>1, <3>1, <3>2, <3>3, VisitMoves
  <2>3. CASE \E next \in {"delete", "run"} : visit' = [visit EXCEPT ![a] = [step |-> next, text |-> query.text]]
    <3>1. PICK next \in {"delete", "run"} : visit' = [visit EXCEPT ![a] = [step |-> next, text |-> query.text]]
      BY <2>3
    <3>2. PICK v : v = [step |-> next, text |-> query.text]
      OBVIOUS
    <3>3. v \in AskVisits /\ v.step = next /\ v.text = query.text
      BY <2>1, <3>2 DEF AskVisits
    <3> QED
      BY <1>1, <2>1, <3>1, <3>2, <3>3, VisitMoves
  <2>4. CASE visit' = visit
    BY <1>2, <2>4
  <2> QED
    BY <1>3, <2>2, <2>3, <2>4 DEF Asks
<1> QED
  BY <1>2, <1>3 DEF Asks

LEMMA UpdateQueryKeeps ==
  ASSUME QueriesInv, AbsentMarks, NEW a \in Consoles, UpdateQuery(a)
  PROVE  QueriesInv'
<1>1. visit[a] # Absent /\ visit[a].step = "update" /\ visit' = [visit EXCEPT ![a] = Absent]
  BY DEF UpdateQuery, At, Ended
<1>2. given.by = {a} /\ given.texts # {}
  BY <1>1 DEF QueriesInv, Visiting
<1>3. PICK text \in Statements : text = visit[a].text
  BY <1>1, GivenTyped, VisitKinds
<1>4. CASE query = Absent
  <2>1. query' = query /\ given' = given
    BY <1>4 DEF UpdateQuery
  <2> QED
    BY <1>1, <2>1, VisitWrites DEF QueriesInv, QueryTyped, NeverGiven, Owned, OneGave
<1>5. CASE query # Absent
  <2>1. PICK q \in Queries : q = query
    BY <1>5, GivenTyped
  <2>2. query' = [q EXCEPT !.text = text]
    BY <1>3, <1>5, <2>1 DEF UpdateQuery
  <2>3. query' \in Queries /\ query'.text = text /\ query'.owner = q.owner /\ query'.last = q.last
    BY <2>2 DEF Queries
  <2>4. given' = [given EXCEPT !.texts = @ \cup {text}, !.by = @ \cup {a}]
    BY <1>3, <1>5 DEF UpdateQuery
  <2>5. given' = [[texts |-> given.texts, by |-> given.by, visits |-> given.visits] EXCEPT !.texts = @ \cup {text}, !.by = @ \cup {a}]
    BY <2>4, GivenTyped, Zenon
  <2>6. given' = [texts |-> given.texts \cup {text}, by |-> given.by \cup {a}, visits |-> given.visits]
    BY <2>5
  <2>7. given'.texts = given.texts \cup {text} /\ given'.by = given.by
    BY <1>2, <2>6
  <2>8. given' \in [texts : SUBSET Statements, by : SUBSET Consoles, visits : Nat]
    BY <2>6, GivenTyped
  <2>9. Owned' /\ NeverGiven' /\ OneGave'
    BY <1>2, <1>5, <2>1, <2>3, <2>7 DEF QueriesInv, Owned, NeverGiven, OneGave
  <2> QED
    BY <1>1, <2>3, <2>7, <2>8, <2>9, VisitWrites
<1> QED
  BY <1>4, <1>5

LEMMA DeleteQueryKeeps ==
  ASSUME QueriesInv, NEW a \in Consoles, DeleteQuery(a)
  PROVE  QueriesInv'
<1>1. visit' = [visit EXCEPT ![a] = Absent] /\ query' = Absent /\ given' = given
  BY DEF DeleteQuery, Ended
<1> QED
  BY <1>1, VisitWrites DEF QueriesInv, QueryTyped, NeverGiven, Owned, OneGave

LEMMA RunQueryKeeps ==
  ASSUME QueriesInv, AbsentMarks, NEW a \in Consoles, RunQuery(a)
  PROVE  QueriesInv'
<1>1. visit[a] # Absent /\ visit[a].step = "run" /\ query' = query /\ given' = given
  BY DEF RunQuery, At
<1>2. PICK text \in Statements : text = visit[a].text /\ text \in given.texts /\ given.by = {a}
  BY <1>1, GivenTyped, VisitKinds DEF QueriesInv, Visiting
<1>3. PICK mode \in {"readonly", "sandbox"} :
        visit' = [visit EXCEPT ![a] = [step |-> "find", text |-> text, ok |-> Succeeds(text, mode)]]
  BY <1>2 DEF RunQuery, QueriesInv, QueryTyped
<1>4. PICK ok \in BOOLEAN : ok = Succeeds(text, mode) /\ (text = "fails" => ~ok)
  BY DEF Succeeds
<1>5. PICK v : v = [step |-> "find", text |-> text, ok |-> ok]
  OBVIOUS
<1>6. v \in RunVisits /\ v.step = "find" /\ v.text = text /\ v.ok = ok
  BY <1>5 DEF RunVisits
<1>7. visit' = [visit EXCEPT ![a] = v]
  BY <1>3, <1>4, <1>5
<1> QED
  BY <1>1, <1>2, <1>4, <1>6, <1>7, VisitMoves DEF QueriesInv, QueryTyped

LEMMA FindAgainKeeps ==
  ASSUME QueriesInv, AbsentMarks, NEW a \in Consoles, FindAgain(a)
  PROVE  QueriesInv'
<1>1. visit[a] # Absent /\ visit[a].step = "find" /\ query' = query /\ given' = given
  BY DEF FindAgain, At
<1>2. PICK r \in RunVisits : r = visit[a]
  BY <1>1, GivenTyped, VisitKinds
<1>3. CASE visit' = [visit EXCEPT ![a] = Absent]
  BY <1>1, <1>3, VisitMoves DEF QueriesInv, QueryTyped
<1>4. CASE visit' = [visit EXCEPT ![a] = [r EXCEPT !.step = "record"]]
  <2>1. PICK v : v = [r EXCEPT !.step = "record"]
    OBVIOUS
  <2>2. v \in RunVisits
    BY <2>1, Zenon DEF RunVisits
  <2>3. v.step = "record" /\ v.text = r.text /\ v.ok = r.ok
    BY <2>1 DEF RunVisits
  <2> QED
    BY <1>1, <1>2, <1>4, <2>1, <2>2, <2>3, VisitMoves DEF QueriesInv, QueryTyped, Visiting
<1> QED
  BY <1>2, <1>3, <1>4 DEF FindAgain, QueriesInv, QueryTyped

LEMMA RecordRunKeeps ==
  ASSUME QueriesInv, AbsentMarks, NEW a \in Consoles, RecordRun(a)
  PROVE  QueriesInv'
<1>1. visit[a] # Absent /\ visit[a].step = "record" /\ visit' = [visit EXCEPT ![a] = Absent] /\ given' = given
  BY DEF RecordRun, At, Ended
<1>2. PICK r \in RunVisits : r = visit[a]
  BY <1>1, GivenTyped, VisitKinds
<1>3. r.text \in given.texts /\ (r.text = "fails" => ~r.ok)
  BY <1>1, <1>2 DEF QueriesInv, Visiting
<1>4. PICK outcome : outcome = [text |-> r.text, ok |-> r.ok]
  OBVIOUS
<1>5. outcome \in Outcomes /\ outcome.text = r.text /\ outcome.ok = r.ok
  BY <1>4 DEF RunVisits, Outcomes
<1>6. CASE query = Absent
  <2>1. query' = query
    BY <1>6 DEF RecordRun
  <2> QED
    BY <1>1, <2>1, VisitWrites DEF QueriesInv, QueryTyped, NeverGiven, Owned, OneGave
<1>7. CASE query # Absent
  <2>1. PICK q \in Queries : q = query
    BY <1>7, GivenTyped
  <2>2. query' = [q EXCEPT !.last = outcome]
    BY <1>2, <1>4, <1>7, <2>1 DEF RecordRun
  <2>3. query' \in Queries /\ query'.text = q.text /\ query'.owner = q.owner /\ query'.last = outcome
    BY <1>5, <2>2 DEF Queries
  <2>4. Owned' /\ NeverGiven' /\ OneGave'
    BY <1>1, <1>3, <1>5, <1>7, <2>1, <2>3 DEF QueriesInv, Owned, NeverGiven, OneGave
  <2> QED
    BY <1>1, <2>3, <2>4, VisitWrites DEF QueriesInv, QueryTyped
<1> QED
  BY <1>6, <1>7

LEMMA SavedStep ==
  ASSUME QueriesInv, AbsentMarks, SavedNext
  PROVE  QueriesInv'
BY CreateQueryKeeps, InsertQueryKeeps, AsksKeeps, UpdateQueryKeeps, DeleteQueryKeeps, RunQueryKeeps,
   FindAgainKeeps, RecordRunKeeps DEF SavedNext

LEMMA SandboxConcludes ==
  ASSUME CopiesInv, QueriesInv
  PROVE  SandboxKept
<1>1. CopiesKept
  <2> SUFFICES ASSUME NEW p \in SqlProcs, NEW a \in Consoles
               PROVE  /\ Has(p, a) => past[p][a] # Absent /\ CopyIs(slots[p][a], past[p][a])
                      /\ past[p][a] # Absent => past[p][a].used < hour - SlotIdle \/ Has(p, a)
    BY DEF CopiesKept
  <2>1. Kept(slots[p][a], past[p][a], hour)
    BY DEF CopiesInv
  <2>2. ASSUME Has(p, a) PROVE CopyIs(slots[p][a], past[p][a])
    <3>1. PICK slot \in SlotRows : slot = slots[p][a]
      BY <2>2 DEF Has, CopiesInv, CopiesTyped
    <3>2. PICK note \in Notes : note = past[p][a]
      BY <2>1, <2>2 DEF Has, Kept, CopiesInv, CopiesTyped
    <3>3. Holds(slot, note)
      BY <2>1, <2>2, <3>1, <3>2 DEF Has, Kept
    <3>4. slot.tables \in Seq(Int) /\ note.begun \in [TableIds -> Nat] /\ note.ended \in [TableIds -> Nat]
      BY DEF SlotRows, Notes, Versions
    <3>5. \A t \in TableIds : slot.tables[t] = Empty \/ slot.tables[t] \in note.begun[t]..note.ended[t]
      BY <3>3, <3>4, SandboxAssumption DEF Holds, ReadBetween, TableIds
    <3> QED
      BY <3>1, <3>2, <3>3, <3>5 DEF CopyIs, Holds, Alone
  <2> QED
    BY <2>1, <2>2 DEF Kept, Has
<1>2. QueriesKept
  <2>1. Cardinality(given.by) <= 1
    <3>1. CASE given.by = {}
      BY <3>1, FS_EmptySet
    <3>2. CASE given.by # {}
      <4>1. PICK a : given.by = {a}
        BY <3>2 DEF QueriesInv, OneGave
      <4>2. Cardinality({a}) = 1
        BY FS_Singleton
      <4> QED
        BY <4>1, <4>2
    <3> QED
      BY <3>1, <3>2
  <2> QED
    BY <2>1 DEF QueriesKept, QueriesInv, Owned
<1> QED
  BY <1>1, <1>2 DEF SandboxKept

(* A copy that was used within the idle time is there and holds rows of the time it was made *)
(* and what its administrator did since; a saved query is its owner's, with the last run of  *)
(* a text it had: for any processes, tables, administrators and requests, if Absent is told  *)
(* apart from what is there.                                                                 *)
THEOREM ConsolesKept == ASSUME AbsentMarks PROVE SandboxSpec => []SandboxKept
<1>1. SandboxInit => CopiesInv /\ QueriesInv
  BY CopiesStart, QueriesStart
<1>2. CopiesInv /\ QueriesInv /\ [(SandboxNext /\ UNCHANGED savedVars) \/ (SavedNext /\ UNCHANGED sandboxVars)]_<<sandboxVars, savedVars>>
        => CopiesInv' /\ QueriesInv'
  <2> SUFFICES ASSUME CopiesInv, QueriesInv,
                      [(SandboxNext /\ UNCHANGED savedVars) \/ (SavedNext /\ UNCHANGED sandboxVars)]_<<sandboxVars, savedVars>>
               PROVE  CopiesInv' /\ QueriesInv'
    OBVIOUS
  <2>1. UNCHANGED savedVars => QueriesInv'
    BY DEF savedVars, QueriesInv, QueryTyped, NeverGiven, Owned, Visiting, OneGave
  <2>2. UNCHANGED sandboxVars => CopiesInv'
    BY DEF sandboxVars, CopiesInv, CopiesTyped
  <2>3. CASE SandboxNext /\ UNCHANGED savedVars
    BY <2>1, <2>3, SandboxStep
  <2>4. CASE SavedNext /\ UNCHANGED sandboxVars
    BY <2>2, <2>4, SavedStep
  <2> QED
    BY <2>1, <2>2, <2>3, <2>4
<1>3. CopiesInv /\ QueriesInv => SandboxKept
  BY SandboxConcludes
<1> QED
  BY <1>1, <1>2, <1>3, PTL DEF SandboxSpec

-----------------------------------------------------------------------------
(***************************************************************************)
(* The binary.  An update that goes on is of something newer than what is  *)
(* there, unless it was allowed not to be or did not run alone; and what   *)
(* it installs it has verified.                                            *)
(***************************************************************************)
UpdateSteps ==
  {Ready} \cup [at : {"asks"}, own : Releases, wanted : SUBSET Releases, down : BOOLEAN]
    \cup [at : {"downloads"}, target : Releases]
    \cup [at : {"verifies", "installs", "copies"}, target : Releases, whole : BOOLEAN]
UpdatesTyped ==
  /\ latest \in Releases /\ known \in Releases /\ running \in Releases
  /\ binary \in [version : Releases, whole : BOOLEAN, writers : SUBSET Updaters]
  /\ updater \in [Updaters -> UpdateSteps]
  /\ newest \in Nat /\ cut \in BOOLEAN /\ rash \in BOOLEAN

\* What an update under way may rely on while only it ran and no downgrade was allowed.
Ascends(s, v) ==
  /\ s.at = "asks" => s.own = v /\ ~s.down
  /\ s.at \in {"downloads", "verifies", "installs"} => Older(v, s.target)
  /\ s.at = "copies" => s.target = v
OneAscends ==
  ~rash => /\ \A u, v \in Busy : u = v
           /\ \A u \in Updaters : Ascends(updater[u], binary.version)
           /\ binary.version[1] = newest
VerifiedFirst == \A u \in Updaters : updater[u].at \in {"installs", "copies"} => updater[u].whole
UpdatesInv ==
  /\ UpdatesTyped /\ OneAscends /\ VerifiedFirst
  /\ Startable /\ known[1] <= latest[1]

LEMMA ReleaseNumbers == \A v \in Releases : v[1] \in Nat /\ v[2] \in Nat
  BY SelfUpdateAssumption

LEMMA StepKinds ==
  ASSUME NEW s \in UpdateSteps
  PROVE  /\ s.at \in {"none", "asks", "downloads", "verifies", "installs", "copies"}
         /\ s.at = "none" <=> s = Ready
         /\ s.at \in {"downloads", "verifies", "installs", "copies"} => s.target \in Releases
         /\ s.at \in {"verifies", "installs", "copies"} =>
              /\ s.whole \in BOOLEAN
              /\ s = [at |-> s.at, target |-> s.target, whole |-> s.whole]
         /\ s.at = "asks" => s.own \in Releases /\ s.wanted \in SUBSET Releases
  BY DEF UpdateSteps, Ready

LEMMA UpdatesStart == SelfUpdateInit => UpdatesInv
<1> SUFFICES ASSUME SelfUpdateInit PROVE UpdatesInv
  OBVIOUS
<1>1. First \in Releases /\ First[1] \in Nat
  BY SelfUpdateAssumption, ReleaseNumbers
<1>2. binary \in [version : Releases, whole : BOOLEAN, writers : SUBSET Updaters] /\ binary.version = First /\ binary.whole
  BY <1>1 DEF SelfUpdateInit, File
<1>3. UpdatesTyped
  BY <1>1, <1>2 DEF SelfUpdateInit, UpdatesTyped, UpdateSteps
<1>4. Busy = {} /\ \A u \in Updaters : updater[u] = Ready /\ Ready.at = "none"
  BY DEF SelfUpdateInit, Busy, Ready
<1>5. OneAscends
  BY <1>1, <1>2, <1>4 DEF SelfUpdateInit, OneAscends, Ascends
<1>6. known = First /\ latest = First /\ Startable
  BY <1>2 DEF SelfUpdateInit, Startable
<1>7. known[1] <= latest[1]
  BY <1>1, <1>6
<1> QED
  BY <1>3, <1>4, <1>5, <1>6, <1>7 DEF UpdatesInv, VerifiedFirst

\* One update moves to s and leaves the file.
LEMMA UpdateMoves ==
  ASSUME UpdatesInv, NEW u \in Updaters, NEW s \in UpdateSteps, updater' = [updater EXCEPT ![u] = s],
         UNCHANGED <<latest, binary, running, known, newest, cut>>, rash' \in BOOLEAN, rash => rash',
         s.at \in {"installs", "copies"} => s.whole,
         ~rash' => Ascends(s, binary.version) /\ (s # Ready => \A v \in Updaters \ {u} : updater[v] = Ready)
  PROVE  UpdatesInv'
<1>1. updater' \in [Updaters -> UpdateSteps] /\ \A v \in Updaters : updater'[v] = IF v = u THEN s ELSE updater[v]
  BY DEF UpdatesInv, UpdatesTyped
<1>2. UpdatesTyped'
  BY <1>1 DEF UpdatesInv, UpdatesTyped
<1>3. OneAscends'
  <2> SUFFICES ASSUME ~rash' PROVE /\ \A v, w \in Busy' : v = w
                                   /\ \A v \in Updaters : Ascends(updater'[v], binary'.version)
                                   /\ binary'.version[1] = newest'
    BY DEF OneAscends
  <2>1. ~rash
    OBVIOUS
  <2>2. \A v, w \in Busy' : v = w
    BY <1>1, <2>1 DEF UpdatesInv, OneAscends, Busy
  <2>3. \A v \in Updaters : Ascends(updater'[v], binary.version)
    BY <1>1, <2>1 DEF UpdatesInv, OneAscends
  <2>4. \A v \in Updaters : Ascends(updater'[v], binary'.version)
    BY <2>3
  <2> QED
    BY <2>1, <2>2, <2>4 DEF UpdatesInv, OneAscends
<1>4. VerifiedFirst' /\ Startable' /\ known'[1] <= latest'[1]
  BY <1>1 DEF UpdatesInv, VerifiedFirst, Startable
<1> QED
  BY <1>2, <1>3, <1>4 DEF UpdatesInv

\* Of an update that goes on in its next step, under the same eyes.
LEMMA Others ==
  ASSUME UpdatesInv, NEW u \in Updaters, updater[u] # Ready, ~rash
  PROVE  Ascends(updater[u], binary.version) /\ \A v \in Updaters \ {u} : updater[v] = Ready
  BY DEF UpdatesInv, OneAscends, Busy

LEMMA ReadyIs == Ready \in UpdateSteps /\ Ready.at = "none" /\ \A v : Ascends(Ready, v)
  BY DEF Ready, UpdateSteps, Ascends

LEMMA EndsKeeps ==
  ASSUME UpdatesInv, NEW u \in Updaters, Ends(u), UNCHANGED <<latest, binary, running, known, newest, cut, rash>>
  PROVE  UpdatesInv'
  BY UpdateMoves, ReadyIs DEF Ends, UpdatesInv, UpdatesTyped

LEMMA UpdateKeeps ==
  ASSUME UpdatesInv, NEW u \in Updaters, NEW down \in BOOLEAN, NEW wanted \in SUBSET Releases, Update(u, wanted, down)
  PROVE  UpdatesInv'
<1>1. PICK s : s = [at |-> "asks", own |-> binary.version, wanted |-> wanted, down |-> down]
  OBVIOUS
<1>2. s \in UpdateSteps /\ s.at = "asks" /\ s.own = binary.version /\ s.down = down
  BY <1>1 DEF UpdateSteps, UpdatesInv, UpdatesTyped
<1>3. rash' = (rash \/ down \/ Busy # {}) /\ updater' = [updater EXCEPT ![u] = s]
  BY <1>1 DEF Update
<1>4. ~rash' => Ascends(s, binary.version) /\ \A v \in Updaters \ {u} : updater[v] = Ready
  BY <1>2, <1>3 DEF Ascends, Busy
<1> QED
  BY <1>2, <1>3, <1>4, UpdateMoves DEF Update, UpdatesInv, UpdatesTyped

LEMMA FetchKeeps ==
  ASSUME UpdatesInv, NEW u \in Updaters, FetchRelease(u)
  PROVE  UpdatesInv'
<1>1. updater[u] \in UpdateSteps /\ updater[u].at = "asks" /\ UNCHANGED <<latest, binary, running, known, newest, cut, rash>>
  BY DEF FetchRelease, UpdatesInv, UpdatesTyped
<1>2. CASE Ends(u)
  BY <1>1, <1>2, EndsKeeps
<1>3. CASE \E v \in Asked(u) :
             /\ Older(updater[u].own, v) \/ (updater[u].down /\ v # updater[u].own)
             /\ updater' = [updater EXCEPT ![u] = [at |-> "downloads", target |-> v]]
  <2>1. PICK v \in Asked(u) :
             /\ Older(updater[u].own, v) \/ (updater[u].down /\ v # updater[u].own)
             /\ updater' = [updater EXCEPT ![u] = [at |-> "downloads", target |-> v]]
    BY <1>3
  <2>2. v \in Releases
    BY <1>1, StepKinds DEF Asked, UpdatesInv, UpdatesTyped
  <2>3. PICK s : s = [at |-> "downloads", target |-> v]
    OBVIOUS
  <2>4. s \in UpdateSteps /\ s.at = "downloads" /\ s.target = v
    BY <2>2, <2>3 DEF UpdateSteps
  <2>5. updater[u] # Ready
    BY <1>1, StepKinds
  <2>6. ~rash => Ascends(s, binary.version) /\ \A w \in Updaters \ {u} : updater[w] = Ready
    BY <1>1, <2>1, <2>4, <2>5, Others DEF Ascends
  <2> QED
    BY <1>1, <2>1, <2>3, <2>4, <2>6, UpdateMoves DEF UpdatesInv, UpdatesTyped
<1> QED
  BY <1>2, <1>3 DEF FetchRelease

LEMMA DownloadKeeps ==
  ASSUME UpdatesInv, NEW u \in Updaters, DownloadTo(u)
  PROVE  UpdatesInv'
<1>1. updater[u] \in UpdateSteps /\ updater[u].at = "downloads" /\ UNCHANGED <<latest, binary, running, known, newest, cut, rash>>
  BY DEF DownloadTo, UpdatesInv, UpdatesTyped
<1>2. CASE Ends(u)
  BY <1>1, <1>2, EndsKeeps
<1>3. CASE \E whole \in BOOLEAN : updater' = [updater EXCEPT ![u] = [at |-> "verifies", target |-> updater[u].target, whole |-> whole]]
  <2>1. PICK whole \in BOOLEAN : updater' = [updater EXCEPT ![u] = [at |-> "verifies", target |-> updater[u].target, whole |-> whole]]
    BY <1>3
  <2>2. PICK v \in Releases : v = updater[u].target
    BY <1>1, StepKinds
  <2>3. PICK s : s = [at |-> "verifies", target |-> v, whole |-> whole]
    OBVIOUS
  <2>4. s \in UpdateSteps /\ s.at = "verifies" /\ s.target = v
    BY <2>3 DEF UpdateSteps
  <2>5. updater[u] # Ready
    BY <1>1, StepKinds
  <2>6. ~rash => Ascends(s, binary.version) /\ \A w \in Updaters \ {u} : updater[w] = Ready
    BY <1>1, <2>2, <2>4, <2>5, Others DEF Ascends
  <2> QED
    BY <1>1, <2>1, <2>2, <2>3, <2>4, <2>6, UpdateMoves DEF UpdatesInv, UpdatesTyped
<1> QED
  BY <1>2, <1>3 DEF DownloadTo

LEMMA VerifyKeeps ==
  ASSUME UpdatesInv, NEW u \in Updaters, Verify(u)
  PROVE  UpdatesInv'
<1>1. updater[u] \in UpdateSteps /\ updater[u].at = "verifies" /\ UNCHANGED <<latest, binary, running, known, newest, cut, rash>>
  BY DEF Verify, UpdatesInv, UpdatesTyped
<1>2. CASE Ends(u)
  BY <1>1, <1>2, EndsKeeps
<1>3. CASE Verified(u) /\ Comes(u, "installs")
  <2>1. PICK old \in UpdateSteps : old = updater[u] /\ old = [at |-> "verifies", target |-> old.target, whole |-> old.whole]
                                   /\ old.target \in Releases /\ old.whole \in BOOLEAN /\ old.whole
    BY <1>1, <1>3, StepKinds DEF Verified
  <2>2. PICK s : s = [at |-> "installs", target |-> old.target, whole |-> old.whole]
    OBVIOUS
  <2>3. s \in UpdateSteps /\ s.at = "installs" /\ s.target = old.target /\ s.whole
    BY <2>1, <2>2 DEF UpdateSteps
  <2>4. s = [old EXCEPT !.at = "installs"]
    BY <2>1, <2>2
  <2>5. updater' = [updater EXCEPT ![u] = s]
    BY <1>3, <2>1, <2>4 DEF Comes, UpdatesInv, UpdatesTyped
  <2>6. updater[u] # Ready
    BY <1>1, StepKinds
  <2>7. ~rash => Ascends(s, binary.version) /\ \A w \in Updaters \ {u} : updater[w] = Ready
    BY <1>1, <2>1, <2>3, <2>6, Others DEF Ascends
  <2> QED
    BY <1>1, <2>3, <2>5, <2>7, UpdateMoves DEF UpdatesInv, UpdatesTyped
<1> QED
  BY <1>2, <1>3 DEF Verify

\* The update that installs, what it installs, and what that makes of the newest number.
LEMMA Installs ==
  ASSUME UpdatesInv, NEW u \in Updaters, updater[u].at \in {"installs", "copies"}
  PROVE  /\ updater[u] \in UpdateSteps /\ updater[u] # Ready /\ updater[u].target \in Releases /\ updater[u].whole = TRUE
         /\ Higher(updater[u].target) \in Nat
         /\ updater[u].at = "installs" /\ ~rash => Higher(updater[u].target) = updater[u].target[1]
<1>1. updater[u] \in UpdateSteps /\ updater[u] # Ready /\ updater[u].target \in Releases /\ updater[u].whole = TRUE
  BY StepKinds DEF UpdatesInv, UpdatesTyped, VerifiedFirst
<1>2. PICK n \in Nat : n = updater[u].target[1]
  BY <1>1, ReleaseNumbers
<1>3. newest \in Nat /\ binary.version[1] \in Nat
  BY ReleaseNumbers DEF UpdatesInv, UpdatesTyped
<1>4. updater[u].at = "installs" /\ ~rash => newest <= n
  BY <1>1, <1>2, <1>3, Others DEF Ascends, Older, UpdatesInv, OneAscends
<1> QED
  BY <1>1, <1>2, <1>3, <1>4 DEF Higher

\* An update writes the file and ends, or goes on with its copy.
LEMMA FileWritten ==
  ASSUME UpdatesInv, NEW u \in Updaters, NEW s \in UpdateSteps, s = Ready \/ (s.at = "copies" /\ s.whole),
         updater[u] # Ready, updater' = [updater EXCEPT ![u] = s],
         binary' \in [version : Releases, whole : BOOLEAN, writers : SUBSET Updaters],
         UNCHANGED <<latest, running, known, rash>>, newest' \in Nat, cut' \in BOOLEAN, Startable',
         ~rash => binary'.version[1] = newest' /\ (s.at = "copies" => s.target = binary'.version)
  PROVE  UpdatesInv'
<1>1. s.at \in {"none", "copies"} /\ (s.at = "copies" => s.whole /\ s # Ready)
  BY ReadyIs
<1>2. updater' \in [Updaters -> UpdateSteps] /\ \A w \in Updaters : updater'[w] = IF w = u THEN s ELSE updater[w]
  BY DEF UpdatesInv, UpdatesTyped
<1>3. UpdatesTyped'
  BY <1>2 DEF UpdatesInv, UpdatesTyped
<1>4. OneAscends'
  <2> SUFFICES ASSUME ~rash' PROVE /\ \A w, x \in Busy' : w = x
                                   /\ \A w \in Updaters : Ascends(updater'[w], binary'.version)
                                   /\ binary'.version[1] = newest'
    BY DEF OneAscends
  <2>1. \A w \in Updaters \ {u} : updater'[w] = Ready
    BY <1>2, Others
  <2>2. \A w \in Updaters : Ascends(updater'[w], binary'.version)
    BY <1>1, <1>2, <2>1, ReadyIs DEF Ascends
  <2> QED
    BY <2>1, <2>2 DEF Busy
<1>5. VerifiedFirst' /\ known'[1] <= latest'[1]
  BY <1>1, <1>2 DEF UpdatesInv, VerifiedFirst
<1> QED
  BY <1>3, <1>4, <1>5 DEF UpdatesInv

LEMMA FileIs ==
  ASSUME NEW v \in Releases, NEW whole \in BOOLEAN, NEW writers \in SUBSET Updaters
  PROVE  /\ File(v, whole, writers) \in [version : Releases, whole : BOOLEAN, writers : SUBSET Updaters]
         /\ File(v, whole, writers).version = v /\ File(v, whole, writers).whole = whole
         /\ File(v, whole, writers).writers = writers
  BY DEF File

LEMMA ReplaceKeeps ==
  ASSUME UpdatesInv, NEW u \in Updaters, Replace(u)
  PROVE  UpdatesInv'
<1>1. updater[u].at = "installs" /\ updater' = [updater EXCEPT ![u] = Ready] /\ cut' = cut /\ cut \in BOOLEAN
  BY DEF Replace, Ends, UpdatesInv, UpdatesTyped
<1>2. PICK v \in Releases : v = updater[u].target /\ Higher(v) \in Nat /\ (~rash => Higher(v) = v[1])
  BY <1>1, Installs
<1>3. binary' = File(v, TRUE, {}) /\ newest' = Higher(v) /\ UNCHANGED <<latest, running, known, rash>>
  BY <1>1, <1>2, Installs DEF Replace
<1>4. /\ binary' \in [version : Releases, whole : BOOLEAN, writers : SUBSET Updaters]
      /\ binary'.version = v /\ binary'.whole
  BY <1>3, FileIs
<1>5. Startable'
  BY <1>4 DEF Startable
<1>6. updater[u] # Ready
  BY <1>1, Installs
<1> QED
  BY <1>1, <1>2, <1>3, <1>4, <1>5, <1>6, ReadyIs, FileWritten

LEMMA StartCopyKeeps ==
  ASSUME UpdatesInv, NEW u \in Updaters, StartCopy(u)
  PROVE  UpdatesInv'
<1>1. updater[u].at = "installs" /\ UNCHANGED <<latest, running, known, rash>>
  BY DEF StartCopy
<1>2. PICK v \in Releases : v = updater[u].target /\ Higher(v) \in Nat /\ (~rash => Higher(v) = v[1])
  BY <1>1, Installs
<1>3. CASE Ends(u) /\ UNCHANGED <<binary, newest, cut>>
  BY <1>1, <1>3, EndsKeeps
<1>4. CASE /\ Comes(u, "copies") /\ binary' = File(updater[u].target, FALSE, binary.writers \cup {u})
           /\ newest' = Higher(updater[u].target) /\ cut' = (cut \/ binary.writers # {})
  <2>1. PICK old \in UpdateSteps : old = updater[u] /\ old = [at |-> "installs", target |-> old.target, whole |-> old.whole]
                                   /\ old.target = v /\ old.whole = TRUE /\ old # Ready
    BY <1>1, <1>2, Installs, StepKinds
  <2>2. PICK s : s = [at |-> "copies", target |-> old.target, whole |-> old.whole]
    OBVIOUS
  <2>3. s = [old EXCEPT !.at = "copies"]
    BY <2>1, <2>2
  <2>4. s \in UpdateSteps /\ s.at = "copies" /\ s.whole /\ s.target = v
    BY <2>1, <2>2 DEF UpdateSteps
  <2>5. updater' = [updater EXCEPT ![u] = s]
    BY <1>4, <2>1, <2>3 DEF Comes, UpdatesInv, UpdatesTyped
  <2>6. binary.writers \in SUBSET Updaters
    BY DEF UpdatesInv, UpdatesTyped
  <2>7. PICK writers \in SUBSET Updaters : writers = binary.writers \cup {u} /\ writers # {}
    BY <2>6
  <2>8. binary' = File(v, FALSE, writers) /\ newest' = Higher(v) /\ cut' \in BOOLEAN
    BY <1>2, <1>4, <2>7
  <2>9. /\ binary' \in [version : Releases, whole : BOOLEAN, writers : SUBSET Updaters]
        /\ binary'.version = v /\ binary'.writers # {}
    <3>1. PICK whole \in BOOLEAN : whole = FALSE
      OBVIOUS
    <3>2. binary' = File(v, whole, writers)
      BY <2>8, <3>1
    <3> QED
      BY <2>7, <3>2, FileIs
  <2>10. Startable'
    BY <2>9 DEF Startable
  <2> QED
    BY <1>1, <1>2, <2>1, <2>4, <2>5, <2>8, <2>9, <2>10, FileWritten
<1> QED
  BY <1>3, <1>4 DEF StartCopy

LEMMA CopyDoneKeeps ==
  ASSUME UpdatesInv, NEW u \in Updaters, CopyDone(u)
  PROVE  UpdatesInv'
<1>1. updater[u].at = "copies" /\ Ends(u) /\ UNCHANGED <<latest, running, known, newest, cut, rash>>
  BY DEF CopyDone
<1>2. CASE u \notin binary.writers
  BY <1>1, <1>2, EndsKeeps DEF CopyDone
<1>3. CASE u \in binary.writers
  <2>1. PICK v \in Releases : v = updater[u].target
    BY <1>1, Installs
  <2>2. cut \in BOOLEAN /\ binary.writers \in SUBSET Updaters /\ newest \in Nat
    BY DEF UpdatesInv, UpdatesTyped
  <2>3. PICK writers \in SUBSET Updaters : writers = binary.writers \ {u}
    BY <2>2
  <2>4. PICK whole \in BOOLEAN : whole = ~cut
    BY <2>2
  <2>5. binary' = File(v, whole, writers)
    BY <1>1, <1>3, <2>1, <2>3, <2>4, Installs DEF CopyDone
  <2>6. /\ binary' \in [version : Releases, whole : BOOLEAN, writers : SUBSET Updaters]
        /\ binary'.version = v /\ binary'.whole = whole
    BY <2>5, FileIs
  <2>7. Startable'
    BY <1>1, <2>2, <2>4, <2>6 DEF Startable
  <2>8. updater[u] # Ready
    BY <1>1, Installs
  <2>9. ~rash => v[1] = newest
    BY <1>1, <2>1, <2>8, Others DEF Ascends, UpdatesInv, OneAscends
  <2> QED
    BY <1>1, <2>2, <2>6, <2>7, <2>8, <2>9, ReadyIs, FileWritten DEF Ends
<1> QED
  BY <1>2, <1>3

LEMMA KilledKeeps ==
  ASSUME UpdatesInv, NEW u \in Updaters, Killed(u)
  PROVE  UpdatesInv'
<1>1. PICK held \in [version : Releases, whole : BOOLEAN, writers : SUBSET Updaters] : held = binary
  BY DEF UpdatesInv, UpdatesTyped
<1>2. binary' = [held EXCEPT !.writers = @ \ {u}]
  BY <1>1 DEF Killed
<1>3. /\ updater[u] # Ready /\ Ends(u) /\ cut' = (cut \/ u \in held.writers) /\ cut \in BOOLEAN /\ newest \in Nat
      /\ UNCHANGED <<latest, running, known, newest, rash>>
  BY <1>1 DEF Killed, UpdatesInv, UpdatesTyped
<1>4. /\ binary' \in [version : Releases, whole : BOOLEAN, writers : SUBSET Updaters]
      /\ binary'.version = held.version /\ binary'.whole = held.whole /\ binary'.writers = held.writers \ {u}
  BY <1>2
<1>5. Startable'
  BY <1>1, <1>3, <1>4 DEF UpdatesInv, Startable
<1>6. ~rash => held.version[1] = newest
  BY <1>1 DEF UpdatesInv, OneAscends
<1> QED
  BY <1>3, <1>4, <1>5, <1>6, ReadyIs, FileWritten DEF Ends

LEMMA ReleasesKeep ==
  ASSUME UpdatesInv, (\E v \in Releases : Publish(v)) \/ UpdateCheck \/ RestartServer
  PROVE  UpdatesInv'
<1>1. UNCHANGED <<binary, updater, newest, cut, rash>>
  BY DEF Publish, UpdateCheck, RestartServer
<1>2. latest' \in Releases /\ known' \in Releases /\ running' \in Releases
  BY DEF Publish, UpdateCheck, RestartServer, UpdatesInv, UpdatesTyped
<1>3. known'[1] <= latest'[1]
  BY ReleaseNumbers DEF Publish, UpdateCheck, RestartServer, UpdatesInv, UpdatesTyped, Older
<1>4. OneAscends' /\ VerifiedFirst' /\ Startable'
  BY <1>1 DEF UpdatesInv, OneAscends, Busy, Ascends, VerifiedFirst, Startable
<1> QED
  BY <1>1, <1>2, <1>3, <1>4 DEF UpdatesInv, UpdatesTyped

LEMMA UpdatesKept == SelfUpdateSpec => []UpdatesInv
<1>1. UpdatesInv /\ [SelfUpdateNext]_updateVars => UpdatesInv'
  <2> SUFFICES ASSUME UpdatesInv, [SelfUpdateNext]_updateVars PROVE UpdatesInv'
    OBVIOUS
  <2>1. CASE \E u \in Updaters : \/ FetchRelease(u) \/ DownloadTo(u) \/ Verify(u) \/ Replace(u)
                                 \/ StartCopy(u) \/ CopyDone(u) \/ Killed(u)
    BY <2>1, FetchKeeps, DownloadKeeps, VerifyKeeps, ReplaceKeeps, StartCopyKeeps, CopyDoneKeeps, KilledKeeps
  <2>2. CASE \E u \in Updaters, down \in BOOLEAN, wanted \in {{}} \cup {{v} : v \in Releases} : Update(u, wanted, down)
    BY <2>2, UpdateKeeps
  <2>3. CASE UpdateCheck \/ RestartServer \/ \E v \in Releases : Publish(v)
    BY <2>3, ReleasesKeep
  <2>4. CASE UNCHANGED updateVars
    BY <2>4 DEF updateVars, UpdatesInv, UpdatesTyped, OneAscends, Busy, Ascends, VerifiedFirst, Startable
  <2> QED
    BY <2>1, <2>2, <2>3, <2>4 DEF SelfUpdateNext
<1> QED
  BY <1>1, UpdatesStart, PTL DEF SelfUpdateSpec

LEMMA UpdatesConclude == UpdatesInv => UpdatesWell
<1> SUFFICES ASSUME UpdatesInv PROVE UpdatesWell
  OBVIOUS
<1>1. known[1] \in Nat /\ running[1] \in Nat /\ latest[1] \in Nat /\ known[1] <= latest[1]
  BY ReleaseNumbers DEF UpdatesInv, UpdatesTyped
<1>2. BannerHolds
  BY <1>1 DEF BannerHolds, Newer, Older
<1> QED
  BY <1>2 DEF UpdatesInv, OneAscends, UpdatesWell, Forward

-----------------------------------------------------------------------------
(***************************************************************************)
(* Upgrade.  A migration keeps every account where it is or moves it to    *)
(* its collection's table; the shared table goes only when each of its     *)
(* rows has arrived, because the rows are counted one by one: an account   *)
(* has at most one.                                                        *)
(***************************************************************************)
SharedRows == [id : Accounts, coll : AuthColls, email : Addresses]
UserRows == [id : Accounts, email : Addresses]
Databases ==
  [brand : {"vaultbase", "cogworks"}, shared : SUBSET SharedRows, bears : SUBSET AuthColls, moved : SUBSET AuthColls,
   rows : [AuthColls -> SUBSET UserRows], mailed : SUBSET AuthColls, unique : SUBSET AuthColls,
   home : [Accounts -> AuthColls \cup {NoColl}]]
OneRowEach(d) == \A s, t \in d.shared : s.id = t.id => s = t
AllThere(d) ==
  \A u \in Accounts : d.home[u] # NoColl =>
    u \in IdsOf(d.rows[d.home[u]]) \/ \E s \in d.shared : s.id = u /\ s.coll = d.home[u]
Sound(d) == d \in Databases /\ OneRowEach(d) /\ AllThere(d)
\* What a start leaves and every later one finds.
Indexed(d) == d.bears \cup d.moved \subseteq d.mailed \cap d.unique
\* What earlier versions left.
Untouched(d) ==
  /\ d.moved = {} /\ d.bears = AuthColls
  /\ \/ d.unique = {} /\ \A c \in AuthColls : d.rows[c] = {}
     \/ d.unique = AuthColls /\ d.shared = {}
UpgradesInv ==
  /\ Sound(db) /\ serving \in BOOLEAN /\ migrated \in BOOLEAN
  /\ (migrated => Indexed(db)) /\ (serving => migrated) /\ (~migrated => Untouched(db))
  /\ backup # NoBackup => \E d \in Databases : backup = <<d>> /\ Sound(d) /\ Indexed(d)

LEMMA IdsOfIs == \A rows, u : u \in IdsOf(rows) <=> \E r \in rows : r.id = u
  BY DEF IdsOf

LEMMA UserIs ==
  ASSUME NEW u \in Accounts, NEW e \in Addresses
  PROVE  User(u, e) \in UserRows /\ User(u, e).id = u
  BY DEF User, UserRows

\* Rows of the shared table are finitely many, and as many as their ids.
LEMMA SharedCounts ==
  ASSUME NEW d \in Databases, OneRowEach(d), NEW S \in SUBSET d.shared
  PROVE  IsFiniteSet(S) /\ IsFiniteSet({s.id : s \in S}) /\ Cardinality({s.id : s \in S}) = Cardinality(S)
<1> DEFINE ids == {s.id : s \in S}
           f == [s \in S |-> s.id]
<1>1. S \subseteq d.shared /\ \A s \in S : s.id \in Accounts
  BY DEF Databases, SharedRows
<1>2. IsFiniteSet(Accounts) /\ ids \subseteq Accounts
  BY <1>1, UpgradeAssumption
<1>3. IsFiniteSet(ids)
  BY <1>2, FS_Subset
<1>4. f \in [S -> ids] /\ \A s \in S : f[s] = s.id
  OBVIOUS
<1>5. \A s, t \in S : s.id = t.id => s = t
  BY <1>1 DEF OneRowEach
<1>6. f \in Injection(S, ids)
  BY <1>4, <1>5 DEF Injection, IsInjective
<1>7. f \in Surjection(S, ids)
  BY <1>4 DEF Surjection
<1> QED
  BY <1>3, <1>6, <1>7, FS_Injection

LEMMA DistinctIs ==
  ASSUME NEW rows, IsFiniteSet(rows)
  PROVE  Distinct(rows) <=> \A r, s \in rows : r.email = s.email => r = s
<1> DEFINE f == [r \in rows |-> r.email]
<1>1. f \in [rows -> Mails(rows)] /\ \A r \in rows : f[r] = r.email
  BY DEF Mails
<1>2. f \in Surjection(rows, Mails(rows))
  BY <1>1 DEF Surjection, Mails
<1>3. Cardinality(Mails(rows)) = Cardinality(rows) <=> f \in Injection(rows, Mails(rows))
  BY <1>2, FS_Surjection
<1>4. f \in Injection(rows, Mails(rows)) <=> \A r, s \in rows : r.email = s.email => r = s
  BY <1>1 DEF Injection, IsInjective
<1> QED
  BY <1>3, <1>4 DEF Distinct

-----------------------------------------------------------------------------
(* What a migration makes of a database. *)

LEMMA RenamedIs ==
  ASSUME NEW d \in Databases
  PROVE  /\ Renamed(d) \in Databases
         /\ Renamed(d).shared = d.shared /\ Renamed(d).bears = d.bears /\ Renamed(d).moved = d.moved
         /\ Renamed(d).rows = d.rows /\ Renamed(d).mailed = d.mailed /\ Renamed(d).home = d.home
         /\ Renamed(d).unique = d.unique \cup d.bears
<1>1. PICK unique \in SUBSET AuthColls : unique = d.unique \cup d.bears
  BY DEF Databases
<1>2. Renamed(d) = [d EXCEPT !.brand = "cogworks", !.unique = unique]
  BY <1>1 DEF Renamed
<1>3. [d EXCEPT !.brand = "cogworks", !.unique = unique] \in Databases
  BY Zenon DEF Databases
<1> QED
  BY <1>1, <1>2, <1>3 DEF Databases

LEMMA CopiedIs ==
  ASSUME NEW d \in Databases, NEW in \in [AuthColls -> SUBSET d.shared]
  PROVE  LET m == Copied(d, in) IN
         /\ m \in Databases
         /\ m.shared = d.shared /\ m.bears = d.bears /\ m.moved = d.moved /\ m.mailed = d.mailed /\ m.home = d.home
         /\ d.unique \subseteq m.unique
         /\ \A c \in AuthColls : m.rows[c] = d.rows[c] \cup {User(s.id, s.email) : s \in in[c]}
<1>1. PICK rows : rows = [c \in AuthColls |-> d.rows[c] \cup {User(s.id, s.email) : s \in in[c]}]
  OBVIOUS
<1>2. rows \in [AuthColls -> SUBSET UserRows]
  <2>1. ASSUME NEW c \in AuthColls PROVE d.rows[c] \cup {User(s.id, s.email) : s \in in[c]} \subseteq UserRows
    <3>1. \A s \in in[c] : s.id \in Accounts /\ s.email \in Addresses
      BY DEF Databases, SharedRows
    <3>2. \A s \in in[c] : User(s.id, s.email) \in UserRows
      BY <3>1, UserIs
    <3>3. d.rows[c] \subseteq UserRows
      BY DEF Databases
    <3> QED
      BY <3>2, <3>3
  <2> QED
    BY <1>1, <2>1
<1>3. PICK unique \in SUBSET AuthColls : unique = d.unique \cup {c \in d.bears : Distinct(rows[c])}
  BY DEF Databases
<1>4. Copied(d, in) = [d EXCEPT !.rows = rows, !.unique = unique]
  BY <1>1, <1>3 DEF Copied
<1>5. [d EXCEPT !.rows = rows, !.unique = unique] \in Databases
  BY <1>2, Zenon DEF Databases
<1>6. PICK m : m = [d EXCEPT !.rows = rows, !.unique = unique]
  OBVIOUS
<1>7. /\ m.shared = d.shared /\ m.bears = d.bears /\ m.moved = d.moved /\ m.mailed = d.mailed /\ m.home = d.home
      /\ m.unique = unique /\ m.rows = rows
  BY <1>6 DEF Databases
<1> QED
  BY <1>1, <1>3, <1>4, <1>5, <1>6, <1>7

Arrived(d) == \A s \in d.shared : s.coll \in d.bears /\ s.id \in IdsOf(d.rows[s.coll])

LEMMA CountTells ==
  ASSUME NEW d \in Databases, OneRowEach(d)
  PROVE  Cardinality(Mirrored(d)) >= Cardinality(d.shared) <=> Arrived(d)
<1> DEFINE S == {s \in d.shared : s.coll \in d.bears /\ s.id \in IdsOf(d.rows[s.coll])}
<1>1. S \in SUBSET d.shared /\ Mirrored(d) = {s.id : s \in S}
  BY DEF Mirrored
<1>2. IsFiniteSet(S) /\ Cardinality(Mirrored(d)) = Cardinality(S)
  BY <1>1, SharedCounts
<1>3. IsFiniteSet(d.shared)
  BY SharedCounts
<1>4. Cardinality(S) \in Nat /\ Cardinality(d.shared) \in Nat /\ Cardinality(S) <= Cardinality(d.shared)
  BY <1>1, <1>2, <1>3, FS_Subset, FS_CardinalityType
<1>5. Cardinality(S) = Cardinality(d.shared) <=> S = d.shared
  BY <1>1, <1>3, FS_Subset
<1>6. S = d.shared <=> Arrived(d)
  BY DEF Arrived
<1> QED
  BY <1>2, <1>4, <1>5, <1>6

LEMMA FinalizedIs ==
  ASSUME NEW d \in Databases, OneRowEach(d)
  PROVE  LET m == Finalized(d) IN
         /\ m \in Databases
         /\ m.bears = d.bears /\ m.moved = d.moved /\ m.mailed = d.mailed /\ m.home = d.home
         /\ m.unique = d.unique /\ m.rows = d.rows
         /\ m.shared = IF Arrived(d) THEN {} ELSE d.shared
<1>1. PICK none \in SUBSET SharedRows : none = {}
  OBVIOUS
<1>2. Finalized(d) = IF Arrived(d) THEN [d EXCEPT !.shared = none] ELSE d
  BY <1>1, CountTells DEF Finalized
<1>3. [d EXCEPT !.shared = none] \in Databases
  BY Zenon DEF Databases
<1> QED
  BY <1>1, <1>2, <1>3 DEF Databases

LEMMA MigratedIs ==
  ASSUME NEW d, Sound(d), NEW m \in Migrated(d)
  PROVE  Sound(m) /\ Indexed(m)
<1>1. d \in Databases /\ Indexable(d) /\ Prepared(d)
  BY DEF Sound, Migrated
<1>2. PICK r : r = Renamed(d)
  OBVIOUS
<1>3. /\ r \in Databases /\ r.shared = d.shared /\ r.bears = d.bears /\ r.moved = d.moved /\ r.rows = d.rows
      /\ r.mailed = d.mailed /\ r.home = d.home /\ r.unique = d.unique \cup d.bears
  BY <1>1, <1>2, RenamedIs
<1>4. PICK in \in Copies(r) : m = Finalized(Copied(r, in))
  BY <1>1, <1>2 DEF Migrated
<1>5. in \in [AuthColls -> SUBSET r.shared]
  BY <1>4 DEF Copies
<1>6. PICK n : n = Copied(r, in)
  OBVIOUS
<1>7. /\ n \in Databases /\ n.shared = r.shared /\ n.bears = r.bears /\ n.moved = r.moved /\ n.mailed = r.mailed
      /\ n.home = r.home /\ r.unique \subseteq n.unique
      /\ \A c \in AuthColls : n.rows[c] = r.rows[c] \cup {User(s.id, s.email) : s \in in[c]}
  BY <1>3, <1>5, <1>6, CopiedIs
<1>8. OneRowEach(n)
  BY <1>3, <1>7 DEF Sound, OneRowEach
<1>9. /\ m \in Databases /\ m.bears = n.bears /\ m.moved = n.moved /\ m.mailed = n.mailed /\ m.home = n.home
      /\ m.unique = n.unique /\ m.rows = n.rows /\ m.shared = IF Arrived(n) THEN {} ELSE n.shared
  BY <1>4, <1>6, <1>7, <1>8, FinalizedIs
<1>10. OneRowEach(m)
  BY <1>8, <1>9 DEF OneRowEach
<1>11. AllThere(m)
  <2> SUFFICES ASSUME NEW u \in Accounts, m.home[u] # NoColl
               PROVE  u \in IdsOf(m.rows[m.home[u]]) \/ \E s \in m.shared : s.id = u /\ s.coll = m.home[u]
    BY DEF AllThere
  <2>1. PICK c \in AuthColls : c = d.home[u] /\ c = m.home[u] /\ c # NoColl
    BY <1>1, <1>3, <1>7, <1>9, UpgradeAssumption DEF Databases
  <2>2. CASE u \in IdsOf(d.rows[c])
    BY <1>3, <1>7, <1>9, <2>1, <2>2, IdsOfIs
  <2>3. CASE \E s \in d.shared : s.id = u /\ s.coll = c
    BY <1>3, <1>7, <1>9, <2>1, <2>3 DEF Arrived
  <2> QED
    BY <2>1, <2>2, <2>3 DEF Sound, AllThere
<1>12. Indexed(m)
  BY <1>1, <1>3, <1>7, <1>9 DEF Indexed, Indexable, Prepared
<1> QED
  BY <1>9, <1>10, <1>11, <1>12 DEF Sound

-----------------------------------------------------------------------------
(* The doctor's word. *)

LEMMA NothingCopied ==
  ASSUME NEW r \in Databases
  PROVE  [c \in AuthColls |-> {}] \in Copies(r)
  BY DEF Copies

LEMMA StartsWhenIndexed ==
  ASSUME NEW d, Sound(d), Indexed(d), d.moved = {}
  PROVE  Migrated(d) # {}
<1>1. d \in Databases /\ Indexable(d) /\ Prepared(d)
  BY DEF Sound, Indexed, Indexable, Prepared
<1>2. [c \in AuthColls |-> {}] \in Copies(Renamed(d))
  BY <1>1, RenamedIs, NothingCopied
<1> QED
  BY <1>1, <1>2 DEF Migrated

\* Of a database with empty tables: all rows may be copied when no address is there twice,
\* and when the shared table goes none was.
LEMMA DoctorOfShared ==
  ASSUME NEW d, Sound(d), Untouched(d), d.unique = {}, \A c \in AuthColls : d.rows[c] = {}, d.mailed = AuthColls
  PROVE  Twice(d) = {} <=> \E m \in Migrated(d) : m.shared = {}
<1>1. d \in Databases /\ OneRowEach(d) /\ d.bears = AuthColls /\ d.moved = {} /\ Prepared(d)
  BY DEF Sound, Untouched, Prepared
<1>2. Indexable(d)
  <2>1. \A c \in AuthColls : Distinct(d.rows[c])
    BY FS_EmptySet, DistinctIs
  <2> QED
    BY <1>1, <2>1 DEF Indexable
<1>3. PICK r : r = Renamed(d)
  OBVIOUS
<1>4. /\ r \in Databases /\ r.shared = d.shared /\ r.bears = AuthColls /\ r.unique = AuthColls
      /\ r.rows = d.rows /\ OneRowEach(r)
  BY <1>1, <1>3, RenamedIs DEF OneRowEach
<1>5. Migrated(d) = {Finalized(Copied(r, in)) : in \in Copies(r)}
  BY <1>1, <1>2, <1>3 DEF Migrated
<1>6. \A c \in AuthColls : Waiting(r, c) = {s \in d.shared : s.coll = c}
  BY <1>4 DEF Waiting, IdsOf, Mails
<1>7. \A S \in SUBSET d.shared : IsFiniteSet(S)
  BY <1>1, SharedCounts
<1>8. \A s \in d.shared : s.coll \in AuthColls
  BY <1>1 DEF Databases, SharedRows
<1>9. ASSUME NEW in \in [AuthColls -> SUBSET d.shared]
      PROVE  LET n == Copied(r, in) IN
             /\ Finalized(n).shared = IF Arrived(n) THEN {} ELSE d.shared
             /\ Arrived(n) <=> \A s \in d.shared : s \in in[s.coll]
  <2>1. PICK n : n = Copied(r, in)
    OBVIOUS
  <2>2. /\ n \in Databases /\ n.shared = d.shared /\ n.bears = AuthColls
        /\ \A c \in AuthColls : n.rows[c] = {User(s.id, s.email) : s \in in[c]}
    BY <1>4, <2>1, CopiedIs
  <2>3. Finalized(n).shared = IF Arrived(n) THEN {} ELSE d.shared
    BY <1>1, <2>2, FinalizedIs DEF OneRowEach
  <2>4. ASSUME NEW s \in d.shared PROVE s.id \in IdsOf(n.rows[s.coll]) <=> s \in in[s.coll]
    <3>1. s.id \in IdsOf(n.rows[s.coll]) <=> \E t \in in[s.coll] : User(t.id, t.email).id = s.id
      BY <1>8, <2>2, IdsOfIs
    <3>2. \A t \in in[s.coll] : t \in d.shared /\ User(t.id, t.email).id = t.id
      BY <1>8 DEF User
    <3> QED
      BY <1>1, <3>1, <3>2 DEF OneRowEach
  <2>5. Arrived(n) <=> \A s \in d.shared : s \in in[s.coll]
    BY <1>8, <2>2, <2>4 DEF Arrived
  <2> QED
    BY <2>1, <2>3, <2>5
<1>10. ASSUME Twice(d) = {} PROVE \E m \in Migrated(d) : m.shared = {}
  <2>1. PICK in \in [AuthColls -> SUBSET d.shared] : in = [c \in AuthColls |-> {s \in d.shared : s.coll = c}]
    OBVIOUS
  <2>2. \A c \in AuthColls : \A s, t \in in[c] : s.email = t.email => s = t
    BY <1>1, <1>10, <2>1 DEF Twice
  <2>3. \A c \in AuthColls : Distinct(in[c])
    BY <1>7, <2>1, <2>2, DistinctIs
  <2>4. in \in Copies(r)
    BY <1>4, <1>6, <2>1, <2>3 DEF Copies, Fits, Mails
  <2>5. \A s \in d.shared : s \in in[s.coll]
    BY <1>8, <2>1
  <2> QED
    BY <1>5, <1>9, <2>4, <2>5
<1>11. ASSUME NEW m \in Migrated(d), m.shared = {} PROVE Twice(d) = {}
  <2>1. PICK in \in Copies(r) : m = Finalized(Copied(r, in))
    BY <1>5
  <2>2. in \in [AuthColls -> SUBSET d.shared]
    BY <1>4, <2>1 DEF Copies
  <2>3. \A s \in d.shared : s \in in[s.coll]
    BY <1>9, <1>11, <2>1, <2>2
  <2>4. \A c \in AuthColls : in[c] # {} => Distinct(in[c])
    BY <1>4, <2>1 DEF Copies, Fits
  <2>5. ASSUME NEW s \in d.shared, NEW t \in d.shared, s # t, s.coll = t.coll, s.email = t.email PROVE FALSE
    <3>1. s.coll \in AuthColls /\ s \in in[s.coll] /\ t \in in[s.coll]
      BY <1>8, <2>3, <2>5
    <3>2. IsFiniteSet(in[s.coll]) /\ Distinct(in[s.coll])
      BY <1>7, <2>2, <2>4, <3>1
    <3> QED
      BY <2>5, <3>1, <3>2, DistinctIs
  <2> QED
    BY <2>5 DEF Twice
<1> QED
  BY <1>10, <1>11

LEMMA DoctorRight ==
  ASSUME NEW d, Sound(d), Untouched(d), d.brand = "cogworks", d.mailed = AuthColls
  PROVE  Blocked(d) = {} <=> \E m \in Migrated(d) : m.shared = {}
<1>1. Blocked(d) = Twice(d)
  BY DEF Blocked, Stranded, Untouched
<1>2. CASE d.unique = {} /\ \A c \in AuthColls : d.rows[c] = {}
  BY <1>1, <1>2, DoctorOfShared
<1>3. CASE d.unique = AuthColls /\ d.shared = {}
  <2>1. d \in Databases /\ OneRowEach(d) /\ Twice(d) = {}
    BY <1>3 DEF Sound, Twice
  <2>2. PICK m \in Migrated(d) : TRUE
    BY <1>3, StartsWhenIndexed DEF Indexed, Untouched
  <2>3. PICK in \in Copies(Renamed(d)) : m = Finalized(Copied(Renamed(d), in))
    BY <2>2 DEF Migrated
  <2>4. Renamed(d) \in Databases /\ Renamed(d).shared = {} /\ in \in [AuthColls -> SUBSET Renamed(d).shared]
    BY <1>3, <2>1, <2>3, RenamedIs DEF Copies
  <2>5. Copied(Renamed(d), in) \in Databases /\ Copied(Renamed(d), in).shared = {}
    BY <2>4, CopiedIs
  <2>6. m.shared = {}
    BY <2>3, <2>5, FinalizedIs DEF OneRowEach
  <2> QED
    BY <1>1, <2>1, <2>2, <2>6
<1> QED
  BY <1>2, <1>3 DEF Untouched

-----------------------------------------------------------------------------
(* Upgrades, restarts, restores and what the users do in between. *)

LEMMA OlderSound ==
  ASSUME NEW brand \in {"vaultbase", "cogworks"}, NEW at \in [Accounts -> AuthColls \cup {NoColl}],
         NEW mail \in [Accounts -> Addresses]
  PROVE  /\ \A mailed \in SUBSET AuthColls : Sound(V10(brand, at, mail, mailed)) /\ Untouched(V10(brand, at, mail, mailed))
         /\ Sound(V11(brand, at, mail)) /\ Untouched(V11(brand, at, mail))
<1>1. PICK shared : shared = {[id |-> u, coll |-> at[u], email |-> mail[u]] : u \in {x \in Accounts : at[x] # NoColl}}
  OBVIOUS
<1>2. /\ shared \subseteq SharedRows
      /\ \A s, t \in shared : s.id = t.id => s = t
      /\ \A u \in Accounts : at[u] # NoColl => \E s \in shared : s.id = u /\ s.coll = at[u]
  <2>1. \A u \in Accounts : at[u] # NoColl => at[u] \in AuthColls /\ mail[u] \in Addresses
    OBVIOUS
  <2>2. shared \subseteq SharedRows
    BY <1>1, <2>1 DEF SharedRows
  <2>3. \A s \in shared : \E u \in Accounts : s = [id |-> u, coll |-> at[u], email |-> mail[u]]
    BY <1>1
  <2>4. \A s, t \in shared : s.id = t.id => s = t
    BY <2>3
  <2>5. ASSUME NEW u \in Accounts, at[u] # NoColl PROVE \E s \in shared : s.id = u /\ s.coll = at[u]
    <3>1. [id |-> u, coll |-> at[u], email |-> mail[u]] \in shared
      BY <1>1, <2>5
    <3> QED
      BY <3>1
  <2> QED
    BY <2>2, <2>4, <2>5
<1>3. PICK empty : empty = [c \in AuthColls |-> {}]
  OBVIOUS
<1>4. empty \in [AuthColls -> SUBSET UserRows]
  BY <1>3
<1>5. ASSUME NEW mailed \in SUBSET AuthColls
      PROVE  /\ V10(brand, at, mail, mailed) =
                  [brand |-> brand, shared |-> shared, bears |-> AuthColls, moved |-> {}, rows |-> empty,
                   mailed |-> mailed, unique |-> {}, home |-> at]
             /\ V10(brand, at, mail, mailed) \in Databases
  BY <1>1, <1>2, <1>3, <1>4 DEF V10, Databases
<1>6. ASSUME NEW mailed \in SUBSET AuthColls
      PROVE  Sound(V10(brand, at, mail, mailed)) /\ Untouched(V10(brand, at, mail, mailed))
  <2>1. PICK d : d = V10(brand, at, mail, mailed)
    OBVIOUS
  <2>2. /\ d \in Databases /\ d.shared = shared /\ d.bears = AuthColls /\ d.moved = {} /\ d.rows = empty
        /\ d.unique = {} /\ d.home = at
    BY <1>5, <2>1
  <2>3. OneRowEach(d) /\ AllThere(d)
    BY <1>2, <2>2 DEF OneRowEach, AllThere
  <2>4. Untouched(d)
    BY <1>3, <2>2 DEF Untouched
  <2> QED
    BY <2>1, <2>2, <2>3, <2>4 DEF Sound
<1>7. PICK rows : rows = [c \in AuthColls |-> {User(u, mail[u]) : u \in {x \in Accounts : at[x] = c}}]
  OBVIOUS
<1>8. /\ rows \in [AuthColls -> SUBSET UserRows]
      /\ \A u \in Accounts : at[u] # NoColl => u \in IdsOf(rows[at[u]])
  <2>1. \A u \in Accounts : User(u, mail[u]) \in UserRows /\ User(u, mail[u]).id = u
    BY UserIs
  <2>2. ASSUME NEW u \in Accounts, at[u] # NoColl PROVE u \in IdsOf(rows[at[u]])
    <3>1. at[u] \in AuthColls /\ User(u, mail[u]) \in rows[at[u]]
      BY <1>7, <2>2
    <3> QED
      BY <2>1, <3>1, IdsOfIs
  <2> QED
    <3>1. \A c \in AuthColls : {User(u, mail[u]) : u \in {x \in Accounts : at[x] = c}} \subseteq UserRows
      BY <2>1
    <3>2. rows \in [AuthColls -> SUBSET UserRows]
      BY <1>7, <3>1
    <3> QED
      BY <2>2, <3>2
<1>9. PICK v : v = V10(brand, at, mail, AuthColls)
  OBVIOUS
<1>10. v = [brand |-> brand, shared |-> shared, bears |-> AuthColls, moved |-> {}, rows |-> empty,
            mailed |-> AuthColls, unique |-> {}, home |-> at]
  BY <1>5, <1>9
<1>11. PICK d : d = [v EXCEPT !.shared = {}, !.unique = AuthColls, !.rows = rows]
  OBVIOUS
<1>12. d = V11(brand, at, mail)
  BY <1>7, <1>9, <1>11 DEF V11
<1>13. d = [brand |-> brand, shared |-> {}, bears |-> AuthColls, moved |-> {}, rows |-> rows,
            mailed |-> AuthColls, unique |-> AuthColls, home |-> at]
  BY <1>10, <1>11
<1>14. /\ d.shared = {} /\ d.bears = AuthColls /\ d.moved = {} /\ d.rows = rows /\ d.unique = AuthColls /\ d.home = at
  BY <1>13
<1>15. d \in Databases
  BY <1>8, <1>13 DEF Databases
<1>16. OneRowEach(d) /\ AllThere(d)
  BY <1>8, <1>14 DEF OneRowEach, AllThere
<1>17. Untouched(d)
  BY <1>14 DEF Untouched
<1> QED
  BY <1>6, <1>12, <1>15, <1>16, <1>17 DEF Sound

LEMMA UpgradesStart == UpInit => UpgradesInv
<1> SUFFICES ASSUME UpInit PROVE UpgradesInv
  OBVIOUS
<1>1. Sound(db) /\ Untouched(db)
  BY OlderSound DEF UpInit
<1> QED
  BY <1>1 DEF UpgradesInv, UpInit

\* What the users do between two starts leaves the shared table and the indexes alone; who
\* has a row keeps it, or is nowhere, or gets one.
LEMMA UsersKept ==
  ASSUME Sound(db), db' \in Databases,
         db'.shared = db.shared, db'.mailed = db.mailed, db'.unique = db.unique,
         db'.bears \cup db'.moved \subseteq db.bears \cup db.moved,
         \A v \in Accounts : LET c == db'.home[v] IN
           c # NoColl => \/ v \in IdsOf(db'.rows[c])
                         \/ c = db.home[v] /\ (v \in IdsOf(db.rows[c]) => v \in IdsOf(db'.rows[c]))
  PROVE  Sound(db') /\ (Indexed(db) => Indexed(db'))
<1>1. OneRowEach(db')
  BY DEF Sound, OneRowEach
<1>2. AllThere(db')
  BY DEF Sound, AllThere
<1>3. Indexed(db) => Indexed(db')
  BY DEF Indexed
<1> QED
  BY <1>1, <1>2, <1>3 DEF Sound

LEMMA SignUpKeeps ==
  ASSUME Sound(db), NEW u \in Accounts, NEW c \in AuthColls, NEW e \in Addresses, SignUp(u, c, e)
  PROVE  Sound(db') /\ (Indexed(db) => Indexed(db'))
<1>1. db \in Databases
  BY DEF Sound
<1>2. PICK rows : rows = [db.rows EXCEPT ![c] = @ \cup {User(u, e)}]
  OBVIOUS
<1>3. PICK home : home = [db.home EXCEPT ![u] = c]
  OBVIOUS
<1>4. /\ rows \in [AuthColls -> SUBSET UserRows] /\ home \in [Accounts -> AuthColls \cup {NoColl}]
      /\ \A b \in AuthColls : db.rows[b] \subseteq rows[b]
      /\ User(u, e) \in rows[c] /\ home[u] = c /\ \A v \in Accounts \ {u} : home[v] = db.home[v]
  BY <1>1, <1>2, <1>3, UserIs DEF Databases
<1>5. db' = [db EXCEPT !.rows = rows, !.home = home]
  BY <1>2, <1>3 DEF SignUp
<1>6. db' \in Databases
  BY <1>1, <1>4, <1>5, Zenon DEF Databases
<1>7. /\ db'.shared = db.shared /\ db'.mailed = db.mailed /\ db'.unique = db.unique /\ db'.bears = db.bears
      /\ db'.moved = db.moved /\ db'.rows = rows /\ db'.home = home
  BY <1>1, <1>5 DEF Databases
<1>8. u \in IdsOf(rows[c])
  BY <1>4, UserIs, IdsOfIs
<1>9. \A v \in Accounts : home[v] # NoColl =>
        \/ v \in IdsOf(rows[home[v]])
        \/ home[v] = db.home[v] /\ (v \in IdsOf(db.rows[home[v]]) => v \in IdsOf(rows[home[v]]))
  BY <1>4, <1>8, IdsOfIs
<1> QED
  BY <1>6, <1>7, <1>9, UsersKept

LEMMA NewAddressKeeps ==
  ASSUME Sound(db), NEW u \in Accounts, NEW c \in AuthColls, NEW e \in Addresses, NewAddress(u, c, e)
  PROVE  Sound(db') /\ (Indexed(db) => Indexed(db'))
<1>1. db \in Databases
  BY DEF Sound
<1>2. PICK rows : rows = [db.rows EXCEPT ![c] = {r \in @ : r.id # u} \cup {User(u, e)}]
  OBVIOUS
<1>3. /\ rows \in [AuthColls -> SUBSET UserRows] /\ User(u, e) \in rows[c]
      /\ \A b \in AuthColls : \A r \in db.rows[b] : r.id # u \/ b # c => r \in rows[b]
  BY <1>1, <1>2, UserIs DEF Databases
<1>4. db' = [db EXCEPT !.rows = rows]
  BY <1>2 DEF NewAddress
<1>5. db' \in Databases
  BY <1>1, <1>3, <1>4, Zenon DEF Databases
<1>6. /\ db'.shared = db.shared /\ db'.mailed = db.mailed /\ db'.unique = db.unique /\ db'.bears = db.bears
      /\ db'.moved = db.moved /\ db'.rows = rows /\ db'.home = db.home
  BY <1>1, <1>4 DEF Databases
<1>7. u \in IdsOf(rows[c])
  BY <1>3, UserIs, IdsOfIs
<1>8. \A b \in AuthColls, v \in Accounts : v \in IdsOf(db.rows[b]) => v \in IdsOf(rows[b])
  BY <1>3, <1>7, IdsOfIs
<1>9. \A v \in Accounts : db.home[v] # NoColl => db.home[v] \in AuthColls
  BY <1>1 DEF Databases
<1> QED
  BY <1>5, <1>6, <1>8, <1>9, UsersKept

LEMMA DeleteUserKeeps ==
  ASSUME Sound(db), NEW u \in Accounts, NEW c \in AuthColls, DeleteUser(u, c)
  PROVE  Sound(db') /\ (Indexed(db) => Indexed(db'))
<1>1. db \in Databases
  BY DEF Sound
<1>2. PICK rows : rows = [db.rows EXCEPT ![c] = {r \in @ : r.id # u}]
  OBVIOUS
<1>3. PICK home : home = [db.home EXCEPT ![u] = NoColl]
  OBVIOUS
<1>4. /\ rows \in [AuthColls -> SUBSET UserRows] /\ home \in [Accounts -> AuthColls \cup {NoColl}]
      /\ \A b \in AuthColls : \A r \in db.rows[b] : r.id # u => r \in rows[b]
      /\ home[u] = NoColl /\ \A v \in Accounts \ {u} : home[v] = db.home[v]
  BY <1>1, <1>2, <1>3 DEF Databases
<1>5. db' = [db EXCEPT !.rows = rows, !.home = home]
  BY <1>2, <1>3 DEF DeleteUser
<1>6. db' \in Databases
  BY <1>1, <1>4, <1>5, Zenon DEF Databases
<1>7. /\ db'.shared = db.shared /\ db'.mailed = db.mailed /\ db'.unique = db.unique /\ db'.bears = db.bears
      /\ db'.moved = db.moved /\ db'.rows = rows /\ db'.home = home
  BY <1>1, <1>5 DEF Databases
<1>8. \A v \in Accounts : home[v] # NoColl => v # u /\ home[v] \in AuthColls /\ home[v] = db.home[v]
  BY <1>4
<1>9. \A b \in AuthColls, v \in Accounts : v # u /\ v \in IdsOf(db.rows[b]) => v \in IdsOf(rows[b])
  BY <1>4, IdsOfIs
<1> QED
  BY <1>6, <1>7, <1>8, <1>9, UsersKept

LEMMA RenameKeeps ==
  ASSUME Sound(db), NEW c \in AuthColls, Rename(c)
  PROVE  Sound(db') /\ (Indexed(db) => Indexed(db'))
<1>1. db \in Databases
  BY DEF Sound
<1>2. \E bears, moved \in SUBSET AuthColls :
        bears \cup moved = db.bears \cup db.moved /\ db' = [db EXCEPT !.bears = bears, !.moved = moved]
  <2>1. CASE c \in db.bears /\ db' = [db EXCEPT !.bears = @ \ {c}, !.moved = @ \cup {c}]
    <3>1. PICK bears \in SUBSET AuthColls : bears = db.bears \ {c}
      BY <1>1 DEF Databases
    <3>2. PICK moved \in SUBSET AuthColls : moved = db.moved \cup {c}
      BY <1>1 DEF Databases
    <3> QED
      BY <2>1, <3>1, <3>2
  <2>2. CASE c \in db.moved /\ db' = [db EXCEPT !.bears = @ \cup {c}, !.moved = @ \ {c}]
    <3>1. PICK bears \in SUBSET AuthColls : bears = db.bears \cup {c}
      BY <1>1 DEF Databases
    <3>2. PICK moved \in SUBSET AuthColls : moved = db.moved \ {c}
      BY <1>1 DEF Databases
    <3> QED
      BY <2>2, <3>1, <3>2
  <2> QED
    BY <2>1, <2>2 DEF Rename
<1>3. PICK bears, moved \in SUBSET AuthColls :
        bears \cup moved = db.bears \cup db.moved /\ db' = [db EXCEPT !.bears = bears, !.moved = moved]
  BY <1>2
<1>4. db' \in Databases
  BY <1>1, <1>3, Zenon DEF Databases
<1>5. /\ db'.shared = db.shared /\ db'.mailed = db.mailed /\ db'.unique = db.unique /\ db'.bears = bears
      /\ db'.moved = moved /\ db'.rows = db.rows /\ db'.home = db.home
  BY <1>1, <1>3 DEF Databases
<1>6. \A v \in Accounts : LET b == db'.home[v] IN
        b = db.home[v] /\ (v \in IdsOf(db.rows[b]) => v \in IdsOf(db'.rows[b]))
  BY <1>5
<1> QED
  BY <1>3, <1>4, <1>5, <1>6, UsersKept

LEMMA DropCollectionKeeps ==
  ASSUME Sound(db), NEW c \in AuthColls, DropCollection(c)
  PROVE  Sound(db') /\ (Indexed(db) => Indexed(db'))
<1>1. db \in Databases
  BY DEF Sound
<1>2. PICK rows : rows = [db.rows EXCEPT ![c] = IF c \in db.bears THEN {} ELSE @]
  OBVIOUS
<1>3. PICK home : home = [u \in Accounts |-> IF db.home[u] = c THEN NoColl ELSE db.home[u]]
  OBVIOUS
<1>4. PICK bears \in SUBSET AuthColls : bears = db.bears \ {c}
  BY <1>1 DEF Databases
<1>5. PICK moved \in SUBSET AuthColls : moved = db.moved \ {c}
  BY <1>1 DEF Databases
<1>6. /\ rows \in [AuthColls -> SUBSET UserRows] /\ home \in [Accounts -> AuthColls \cup {NoColl}]
      /\ \A b \in AuthColls \ {c} : rows[b] = db.rows[b]
      /\ \A v \in Accounts : home[v] # NoColl => home[v] \in AuthColls \ {c} /\ home[v] = db.home[v]
  BY <1>1, <1>2, <1>3 DEF Databases
<1>7. db' = [db EXCEPT !.bears = bears, !.moved = moved, !.rows = rows, !.home = home]
  BY <1>2, <1>3, <1>4, <1>5 DEF DropCollection
<1>8. db' \in Databases
  BY <1>1, <1>6, <1>7, Zenon DEF Databases
<1>9. /\ db'.shared = db.shared /\ db'.mailed = db.mailed /\ db'.unique = db.unique /\ db'.bears = bears
      /\ db'.moved = moved /\ db'.rows = rows /\ db'.home = home
  BY <1>1, <1>7 DEF Databases
<1> QED
  BY <1>4, <1>5, <1>6, <1>8, <1>9, UsersKept

LEMMA UpgradesStep == UpgradesInv /\ [UpNext]_upVars => UpgradesInv'
<1> SUFFICES ASSUME UpgradesInv, [UpNext]_upVars PROVE UpgradesInv'
  OBVIOUS
<1>1. /\ Sound(db) /\ serving \in BOOLEAN /\ migrated \in BOOLEAN
      /\ (migrated => Indexed(db)) /\ (serving => migrated) /\ (~migrated => Untouched(db))
      /\ backup # NoBackup => \E d \in Databases : backup = <<d>> /\ Sound(d) /\ Indexed(d)
  BY DEF UpgradesInv
<1>2. CASE UNCHANGED upVars
  BY <1>1, <1>2 DEF UpgradesInv, upVars
<1>3. CASE Boot
  <2>1. Sound(db') /\ Indexed(db')
    BY <1>1, <1>3, MigratedIs DEF Boot
  <2> QED
    BY <1>1, <1>3, <2>1 DEF UpgradesInv, Boot
<1>4. CASE Stop
  BY <1>1, <1>4 DEF UpgradesInv, Stop
<1>5. CASE Snapshot
  <2>1. db \in Databases /\ Sound(db) /\ Indexed(db) /\ backup' = <<db>>
    BY <1>1, <1>5 DEF Sound, Snapshot
  <2> QED
    BY <1>1, <1>5, <2>1 DEF UpgradesInv, Snapshot
<1>6. CASE Restore
  <2>1. PICK d \in Databases : backup = <<d>> /\ backup[1] = d /\ Sound(d) /\ Indexed(d)
    BY <1>1, <1>6 DEF Restore
  <2>2. Sound(db') /\ Indexed(db')
    <3>1. CASE Migrated(d) = {}
      BY <1>6, <2>1, <3>1 DEF Restore
    <3>2. CASE Migrated(d) # {}
      BY <1>6, <2>1, <3>2, MigratedIs DEF Restore
    <3> QED
      BY <3>1, <3>2
  <2> QED
    BY <1>1, <1>6, <2>2 DEF UpgradesInv, Restore
<1>7. ASSUME Sound(db') /\ (Indexed(db) => Indexed(db')), serving, UNCHANGED <<serving, migrated, backup>>
      PROVE  UpgradesInv'
  BY <1>1, <1>7 DEF UpgradesInv
<1>8. CASE \E c \in AuthColls : Rename(c)
  BY <1>1, <1>7, <1>8, RenameKeeps DEF Rename
<1>9. CASE \E c \in AuthColls : DropCollection(c)
  BY <1>1, <1>7, <1>9, DropCollectionKeeps DEF DropCollection
<1>10. CASE \E u \in Accounts, c \in AuthColls : DeleteUser(u, c)
  BY <1>1, <1>7, <1>10, DeleteUserKeeps DEF DeleteUser
<1>11. CASE \E u \in Accounts, c \in AuthColls, e \in Addresses : SignUp(u, c, e)
  BY <1>1, <1>7, <1>11, SignUpKeeps DEF SignUp
<1>12. CASE \E u \in Accounts, c \in AuthColls, e \in Addresses : NewAddress(u, c, e)
  BY <1>1, <1>7, <1>12, NewAddressKeeps DEF NewAddress
<1> QED
  BY <1>2, <1>3, <1>4, <1>5, <1>6, <1>8, <1>9, <1>10, <1>11, <1>12 DEF UpNext

LEMMA UpgradesConclude == UpgradesInv => UpgradesSafely
<1> SUFFICES ASSUME UpgradesInv PROVE UpgradesSafely
  OBVIOUS
<1>1. NobodyLost
  BY DEF UpgradesInv, Sound, AllThere, NobodyLost
<1>2. StartsAgain
  BY StartsWhenIndexed DEF UpgradesInv, StartsAgain
<1>3. DoctorTells
  BY DoctorRight DEF UpgradesInv, DoctorTells
<1> QED
  BY <1>1, <1>2, <1>3 DEF UpgradesSafely

LEMMA UpgradesKept == UpSpec => []UpgradesInv
BY UpgradesStart, UpgradesStep, PTL DEF UpSpec

(* No start of any version loses an account, none is the last one, and the doctor's word on  *)
(* a database holds; no update steps back unless it was allowed to or two ran at a time, and *)
(* none installs what it has not verified: for any accounts, collections and addresses, any  *)
(* releases and updaters.                                                                    *)
THEOREM UpgradesHold == UpSpec /\ SelfUpdateSpec => []Upgraded
<1>1. UpSpec => []UpgradesSafely
  BY UpgradesKept, UpgradesConclude, PTL
<1>2. SelfUpdateSpec => []UpdatesWell
  BY UpdatesKept, UpdatesConclude, PTL
<1>3. UpgradesSafely /\ UpdatesWell => Upgraded
  BY DEF Upgraded
<1> QED
  BY <1>1, <1>2, <1>3, PTL

-----------------------------------------------------------------------------
(* Sums: a sum of numbers is a count of pairs, each of an index and one of the units there. *)

Units(f, s) == {u \in s \X Nat : 1 <= u[2] /\ u[2] <= f[u[1]]}

LEMMA UnitsOfOne ==
  ASSUME NEW D, NEW f \in [D -> Nat], NEW x \in D
  PROVE  /\ IsFiniteSet(Units(f, {x})) /\ Cardinality(Units(f, {x})) = f[x]
<1>1. Units(f, {x}) = {x} \X (1..f[x])
  BY DEF Units
<1>2. IsFiniteSet({x}) /\ Cardinality({x}) = 1
  BY FS_Singleton
<1>3. IsFiniteSet(1..f[x]) /\ Cardinality(1..f[x]) = f[x]
  BY FS_Interval
<1>4. IsFiniteSet({x} \X (1..f[x])) /\ Cardinality({x} \X (1..f[x])) = 1 * f[x]
  BY <1>2, <1>3, FS_Product
<1>5. 1 * f[x] = f[x]
  OBVIOUS
<1> QED
  BY <1>1, <1>4, <1>5

LEMMA UnitsFinite ==
  ASSUME NEW D, NEW f \in [D -> Nat], NEW s \in SUBSET D, IsFiniteSet(s)
  PROVE  IsFiniteSet(Units(f, s))
<1> DEFINE h == [x \in s |-> Units(f, {x})]
<1>1. h \in Surjection(s, Range(h))
  <2>1. h \in [s -> {Units(f, {x}) : x \in s}]
    OBVIOUS
  <2> HIDE DEF h
  <2> QED
    BY <2>1, Fun_RangeProperties
<1>2. IsFiniteSet(Range(h))
  BY <1>1, FS_Surjection
<1>3. \A T \in Range(h) : IsFiniteSet(T)
  <2> SUFFICES ASSUME NEW x \in s PROVE IsFiniteSet(Units(f, {x}))
    BY DEF Range
  <2>1. x \in D
    OBVIOUS
  <2> QED
    BY <2>1, UnitsOfOne
<1>4. IsFiniteSet(UNION Range(h))
  BY <1>2, <1>3, FS_UNION
<1>5. Units(f, s) = UNION Range(h)
  BY DEF Units, Range
<1> QED
  BY <1>4, <1>5

LEMMA UnitsWithout ==
  ASSUME NEW D, NEW f \in [D -> Nat], NEW s \in SUBSET D, IsFiniteSet(s), NEW x \in s
  PROVE  Cardinality(Units(f, s)) = f[x] + Cardinality(Units(f, s \ {x}))
<1> DEFINE A == Units(f, {x})
           B == Units(f, s \ {x})
<1>1. Units(f, s) = A \cup B /\ A \cap B = {}
  BY DEF Units
<1>2. IsFiniteSet(A) /\ Cardinality(A) = f[x]
  BY UnitsOfOne
<1>3. IsFiniteSet(s \ {x}) /\ s \ {x} \in SUBSET D
  BY FS_RemoveElement
<1>4. IsFiniteSet(B)
  BY <1>3, UnitsFinite
<1>5. Cardinality(B) \in Nat
  BY <1>4, FS_CardinalityType
<1>6. Cardinality(A \cup B) = Cardinality(A) + Cardinality(B) - Cardinality(A \cap B)
  BY <1>2, <1>4, FS_Union
<1>7. Cardinality(A \cap B) = 0
  BY <1>1, FS_EmptySet
<1> HIDE DEF A, B
<1>8. f[x] \in Nat
  OBVIOUS
<1>9. Cardinality(A \cup B) = f[x] + Cardinality(B)
  BY <1>2, <1>5, <1>6, <1>7, <1>8
<1> QED
  BY <1>1, <1>9 DEF B

Summing(f, g) ==
  g = [s \in SUBSET DOMAIN f |->
         IF s = {} THEN 0 ELSE f[CHOOSE x \in s : TRUE] + g[s \ {CHOOSE x \in s : TRUE}]]

LEMMA SumIsSumming ==
  ASSUME NEW f
  PROVE  SumFunction(f) = (CHOOSE g : Summing(f, g))[DOMAIN f]
BY DEF Summing, SumFunction, SumFunctionOnSet, FoldFunctionOnSet, MapThenFoldSet

LEMMA CountIsSumming ==
  ASSUME NEW D, IsFiniteSet(D), NEW f \in [D -> Nat]
  PROVE  Summing(f, [s \in SUBSET D |-> Cardinality(Units(f, s))])
<1> DEFINE w == [s \in SUBSET D |-> Cardinality(Units(f, s))]
<1>1. ASSUME NEW s \in SUBSET D, s # {}
      PROVE  w[s] = f[CHOOSE x \in s : TRUE] + w[s \ {CHOOSE x \in s : TRUE}]
  <2>1. PICK x : x = CHOOSE y \in s : TRUE
    OBVIOUS
  <2>2. x \in s
    BY <1>1, <2>1
  <2>3. IsFiniteSet(s)
    BY FS_Subset
  <2>4. Cardinality(Units(f, s)) = f[x] + Cardinality(Units(f, s \ {x}))
    BY <2>2, <2>3, UnitsWithout
  <2>5. s \ {x} \in SUBSET D
    OBVIOUS
  <2>6. w[s] = f[x] + w[s \ {x}]
    BY <2>4, <2>5
  <2> QED
    BY <2>1, <2>6
<1>2. w[{}] = 0
  <2>1. Units(f, {}) = {}
    BY DEF Units
  <2> QED
    BY <2>1, FS_EmptySet
<1>3. DOMAIN f = D
  OBVIOUS
<1>4. w = [s \in SUBSET D |-> w[s]]
  OBVIOUS
<1> HIDE DEF w
<1>5. w = [s \in SUBSET D |-> IF s = {} THEN 0 ELSE f[CHOOSE x \in s : TRUE] + w[s \ {CHOOSE x \in s : TRUE}]]
  <2> DEFINE v == [s \in SUBSET D |-> IF s = {} THEN 0 ELSE f[CHOOSE x \in s : TRUE] + w[s \ {CHOOSE x \in s : TRUE}]]
  <2>1. \A s \in SUBSET D : v[s] = w[s]
    BY <1>1, <1>2
  <2> QED
    BY <1>4, <2>1
<1>6. Summing(f, w)
  BY <1>3, <1>5 DEF Summing
<1> QED
  BY <1>6 DEF w

LEMMA SummingCounts ==
  ASSUME NEW D, IsFiniteSet(D), NEW f \in [D -> Nat], NEW g, Summing(f, g), NEW s \in SUBSET D
  PROVE  g[s] = Cardinality(Units(f, s))
<1> DEFINE w == [t \in SUBSET D |-> Cardinality(Units(f, t))]
           Bad == {t \in SUBSET D : g[t] # w[t]}
           Sizes == {n \in Nat : \E t \in Bad : Cardinality(t) = n}
<1> SUFFICES ASSUME g[s] # w[s] PROVE FALSE
  OBVIOUS
<1>0. Summing(f, w)
  BY CountIsSumming
<1> HIDE DEF w
<1>1. \A t \in SUBSET D : IsFiniteSet(t) /\ Cardinality(t) \in Nat
  BY FS_Subset, FS_CardinalityType
<1>2. Sizes \in SUBSET Nat /\ Sizes # {}
  BY <1>1
<1>3. PICK n \in Sizes : \A m \in Sizes : n <= m
  BY <1>2, SmallestIs DEF SmallestNat
<1>4. PICK t \in Bad : Cardinality(t) = n
  BY <1>3
<1>5. DOMAIN f = D
  OBVIOUS
<1>6. t # {}
  BY <1>0, <1>4, <1>5 DEF Summing
<1>7. PICK x : x = CHOOSE y \in t : TRUE
  OBVIOUS
<1>8. x \in t
  BY <1>6, <1>7
<1>9. g[t] = f[x] + g[t \ {x}] /\ w[t] = f[x] + w[t \ {x}]
  BY <1>0, <1>4, <1>5, <1>6, <1>7 DEF Summing
<1>10. t \ {x} \in Bad
  BY <1>4, <1>9
<1>11. Cardinality(t \ {x}) = n - 1 /\ n \in Nat
  BY <1>1, <1>4, <1>8, FS_RemoveElement
<1>12. Cardinality(t \ {x}) \in Sizes
  BY <1>1, <1>10
<1>13. n <= Cardinality(t \ {x})
  BY <1>3, <1>12
<1> HIDE DEF Sizes, Bad
<1> QED
  BY <1>11, <1>13

LEMMA SumIsCount ==
  ASSUME NEW D, IsFiniteSet(D), NEW f \in [D -> Nat]
  PROVE  SumFunction(f) = Cardinality(Units(f, D))
<1>1. \E g : Summing(f, g)
  BY CountIsSumming
<1>2. PICK g : g = CHOOSE h : Summing(f, h)
  OBVIOUS
<1>3. Summing(f, g)
  BY <1>1, <1>2
<1>4. SumFunction(f) = g[D]
  BY <1>2, SumIsSumming
<1> QED
  BY <1>3, <1>4, SummingCounts

(* What the proofs cite of a sum: it is a natural number, a number may be taken out, *)
(* and it does not matter how the numbers are named.                                  *)
LEMMA SumType ==
  ASSUME NEW D, IsFiniteSet(D), NEW f \in [D -> Nat]
  PROVE  SumFunction(f) \in Nat
BY SumIsCount, UnitsFinite, FS_CardinalityType

LEMMA SumOfNone ==
  ASSUME NEW f \in [{} -> Nat]
  PROVE  SumFunction(f) = 0
<1>1. Units(f, {}) = {}
  BY DEF Units
<1> QED
  BY <1>1, FS_EmptySet, SumIsCount

Without(f, r, D, x) ==
  /\ IsFiniteSet(D) /\ f \in [D -> Nat] /\ x \in D
  /\ r \in [D \ {x} -> Nat] /\ \A y \in D \ {x} : r[y] = f[y]

LEMMA SumWithout ==
  ASSUME NEW D, NEW f, NEW r, NEW x, Without(f, r, D, x)
  PROVE  SumFunction(f) = f[x] + SumFunction(r)
<1>0. /\ IsFiniteSet(D) /\ f \in [D -> Nat] /\ x \in D
      /\ r \in [D \ {x} -> Nat] /\ \A y \in D \ {x} : r[y] = f[y]
  BY DEF Without
<1>1. IsFiniteSet(D \ {x})
  BY <1>0, FS_RemoveElement
<1>2. Units(f, D \ {x}) = Units(r, D \ {x})
  BY <1>0 DEF Units
<1>3. SumFunction(r) = Cardinality(Units(r, D \ {x}))
  BY <1>0, <1>1, SumIsCount
<1>4. SumFunction(f) = Cardinality(Units(f, D))
  BY <1>0, SumIsCount
<1>5. D \in SUBSET D
  OBVIOUS
<1> QED
  BY <1>0, <1>2, <1>3, <1>4, <1>5, UnitsWithout

Carried(f, g, D, E, h) ==
  /\ IsFiniteSet(D) /\ f \in [D -> Nat] /\ g \in [E -> Nat]
  /\ h \in Bijection(D, E) /\ \A x \in D : g[h[x]] = f[x]

LEMMA SumRenamed ==
  ASSUME NEW f, NEW g, NEW D, NEW E, NEW h, Carried(f, g, D, E, h)
  PROVE  SumFunction(g) = SumFunction(f)
<1> USE DEF Carried
<1>1. IsFiniteSet(E)
  BY FS_Bijection, Fun_ExistsBij
<1> DEFINE A == Units(f, D)
           B == Units(g, E)
           k == [u \in A |-> <<h[u[1]], u[2]>>]
<1>2. k \in [A -> B]
  BY DEF Units, Bijection, Injection, IsInjective
<1>3. \A u, v \in A : k[u] = k[v] => u = v
  <2> SUFFICES ASSUME NEW u \in A, NEW v \in A, k[u] = k[v] PROVE u = v
    OBVIOUS
  <2>1. u \in D \X Nat /\ v \in D \X Nat
    BY DEF Units
  <2>2. h[u[1]] = h[v[1]] /\ u[2] = v[2]
    OBVIOUS
  <2>3. u[1] = v[1]
    BY <2>1, <2>2 DEF Bijection, Injection, IsInjective
  <2> QED
    BY <2>1, <2>2, <2>3
<1>4. \A b \in B : \E u \in A : k[u] = b
  <2> SUFFICES ASSUME NEW b \in B PROVE \E u \in A : k[u] = b
    OBVIOUS
  <2>1. b \in E \X Nat /\ 1 <= b[2] /\ b[2] <= g[b[1]]
    BY DEF Units
  <2>2. PICK x \in D : h[x] = b[1]
    BY <2>1 DEF Bijection, Surjection
  <2>3. <<x, b[2]>> \in A
    BY <2>1, <2>2 DEF Units
  <2>4. k[<<x, b[2]>>] = b
    BY <2>1, <2>2, <2>3
  <2> QED
    BY <2>3, <2>4
<1>5. k \in Bijection(A, B)
  BY <1>2, <1>3, <1>4 DEF Bijection, Injection, IsInjective, Surjection
<1>6. IsFiniteSet(A)
  BY UnitsFinite
<1>7. Cardinality(A) = Cardinality(B)
  <2> HIDE DEF A, B, k
  <2> QED
    BY <1>5, <1>6, FS_Bijection, Fun_ExistsBij
<1> QED
  BY <1>1, <1>7, SumIsCount

Differ(f, g, D, x) ==
  /\ IsFiniteSet(D) /\ f \in [D -> Nat] /\ g \in [D -> Nat]
  /\ x \in D /\ \A y \in D \ {x} : g[y] = f[y]

LEMMA SumChanged ==
  ASSUME NEW f, NEW g, NEW D, NEW x, Differ(f, g, D, x)
  PROVE  SumFunction(g) + f[x] = SumFunction(f) + g[x]
<1>0. /\ IsFiniteSet(D) /\ f \in [D -> Nat] /\ g \in [D -> Nat]
      /\ x \in D /\ \A y \in D \ {x} : g[y] = f[y]
  BY DEF Differ
<1>1. PICK r : r = [y \in D \ {x} |-> f[y]]
  OBVIOUS
<1>2. Without(f, r, D, x) /\ Without(g, r, D, x)
  BY <1>0, <1>1 DEF Without
<1>3. IsFiniteSet(D \ {x}) /\ r \in [D \ {x} -> Nat]
  BY <1>0, <1>1, FS_RemoveElement
<1>4. SumFunction(r) \in Nat
  BY <1>3, SumType
<1>5. SumFunction(f) = f[x] + SumFunction(r) /\ SumFunction(g) = g[x] + SumFunction(r)
  BY <1>2, SumWithout
<1>6. f[x] \in Nat /\ g[x] \in Nat
  BY <1>0
<1> QED
  BY <1>4, <1>5, <1>6

-----------------------------------------------------------------------------
(* Remainders. *)

LEMMA Divides ==
  ASSUME NEW n \in Nat \ {0}, NEW a \in Int
  PROVE  \E q \in Int, r \in 0..(n - 1) : r = a % n /\ a = n * q + r
  OBVIOUS

LEMMA TimesOver ==
  ASSUME NEW n \in Nat \ {0}, NEW k \in Int, 0 < n * k
  PROVE  n <= n * k
<1>1. CASE k <= 0
  <2>1. PICK m \in Nat : k = - m
    <3>1. -k \in Nat /\ k = -(-k)
      BY <1>1
    <3> QED
      BY <3>1
  <2>2. n * k = -(n * m) /\ n * m >= 0
    BY <2>1
  <2> QED
    BY <2>2
<1>2. CASE k >= 1
  <2>1. PICK m \in Nat : k = m + 1
    <3>1. k - 1 \in Nat /\ k = (k - 1) + 1
      BY <1>2
    <3> QED
      BY <3>1
  <2>2. n * k = n * m + n /\ n * m >= 0
    BY <2>1
  <2> QED
    BY <2>2
<1> QED
  BY <1>1, <1>2

LEMMA ModApart ==
  ASSUME NEW n \in Nat \ {0}, NEW a \in Int, NEW b \in Int, a < b, b - a < n
  PROVE  a % n # b % n
<1> SUFFICES ASSUME a % n = b % n PROVE FALSE
  OBVIOUS
<1>1. PICK q \in Int, r \in 0..(n - 1) : r = a % n /\ a = n * q + r
  BY Divides
<1>5. PICK p \in Int, s \in 0..(n - 1) : s = b % n /\ b = n * p + s
  BY Divides
<1>2. PICK k \in Int : k = p - q
  OBVIOUS
<1>3. n * k = n * p - n * q
  BY <1>2
<1>4. n * k = b - a
  BY <1>1, <1>3, <1>5
<1> QED
  BY <1>4, TimesOver

LEMMA ModIs ==
  ASSUME NEW n \in Nat \ {0}, NEW q \in Int, NEW i \in 0..(n - 1), NEW s \in Int, s = n * q + i
  PROVE  s % n = i
<1>1. PICK p \in Int, r \in 0..(n - 1) : r = s % n /\ s = n * p + r
  BY Divides
<1>2. PICK k \in Int, j \in Int : k = p - q /\ j = q - p
  OBVIOUS
<1>3. PICK x \in Int, y \in Int : x = n * p /\ y = n * q
  OBVIOUS
<1>4. n * k = x - y /\ n * j = y - x
  BY <1>2, <1>3
<1>5. x + r = y + i
  BY <1>1, <1>3
<1>6. ~(0 < n * k) /\ ~(0 < n * j)
  <2>1. n * k < n /\ n * j < n
    BY <1>4, <1>5
  <2> QED
    BY <2>1, TimesOver
<1> QED
  BY <1>1, <1>4, <1>5, <1>6

LEMMA ModOfSmall ==
  ASSUME NEW n \in Nat \ {0}, NEW i \in 0..(n - 1)
  PROVE  i % n = i
<1>1. PICK q \in Int : q = 0
  OBVIOUS
<1>2. i = n * q + i
  BY <1>1
<1> QED
  BY <1>2, ModIs

LEMMA ModBack ==
  ASSUME NEW n \in Nat \ {0}, NEW c \in 0..(n - 1), NEW v, v = (c + 1) % n
  PROVE  (v - 1) % n = c
<1>1. CASE c + 1 < n
  <2>1. c + 1 \in 0..(n - 1)
    BY <1>1
  <2>2. v = c + 1
    BY <2>1, ModOfSmall
  <2>3. v - 1 = c
    BY <2>2
  <2> QED
    BY <2>3, ModOfSmall
<1>2. CASE c + 1 = n
  <2>1. PICK q \in Int, p \in Int : q = 1 /\ p = -1
    OBVIOUS
  <2>2. c + 1 = n * q + 0 /\ -1 = n * p + c
    BY <1>2, <2>1
  <2>3. v = 0
    <3>1. c + 1 \in Int /\ 0 \in 0..(n - 1)
      OBVIOUS
    <3> QED
      BY <2>2, <3>1, ModIs
  <2>4. PICK s \in Int : s = -1
    OBVIOUS
  <2>5. s % n = c
    BY <2>2, <2>4, ModIs
  <2>6. v - 1 = s
    BY <2>3, <2>4
  <2> QED
    BY <2>5, <2>6
<1> QED
  BY <1>1, <1>2

LEMMA ModEvery ==
  ASSUME NEW n \in Nat \ {0}, NEW c \in Int, NEW i \in 0..(n - 1)
  PROVE  \E s \in (c - n + 1)..c : s % n = i
<1>1. PICK r \in 0..(n - 1), q \in Int : r = c % n /\ c = n * q + r
  BY Divides
<1>2. CASE i <= r
  <2>1. PICK s \in Int : s = c - (r - i)
    OBVIOUS
  <2>2. s = n * q + i /\ s \in (c - n + 1)..c
    BY <1>1, <1>2, <2>1
  <2> QED
    <3>1. s % n = i
      BY <2>2, ModIs
    <3> QED
      BY <2>2, <3>1
<1>3. CASE i > r
  <2>1. PICK s \in Int : s = c - (r - i) - n
    OBVIOUS
  <2>2. s = n * (q - 1) + i /\ s \in (c - n + 1)..c /\ q - 1 \in Int
    BY <1>1, <1>3, <2>1
  <2>3. s % n = i
    <3>1. PICK p \in Int : p = q - 1
      OBVIOUS
    <3> QED
      BY <2>2, <3>1, ModIs
  <2> QED
    BY <2>2, <2>3
<1> QED
  BY <1>1, <1>2, <1>3

-----------------------------------------------------------------------------
(* API tokens. *)

Minted == [by : Minters, iat : Nat, exp : Nat \ {0}]
TokenRow == [there : BOOLEAN, revokedAt : Nat \cup {-1}, count : Nat]
Stages == {"idle", "list", "row", "minter", "admitted", "refused"}
Asking == [at : Stages, token : Tokens \cup {Idle.token}, stood : BOOLEAN, asks : AskedFor]
Ending == [at : {"idle", "mark", "list"}, token : Tokens \cup {Idle.token}, stood : BOOLEAN, asks : AskedFor]

TokensTypeOK ==
  /\ day \in Nat
  /\ jwt \in [Tokens -> Minted \cup {NotMinted}]
  /\ tokenRow \in [Tokens -> TokenRow]
  /\ minter \in [Minters -> [there : BOOLEAN, reset : Nat]]
  /\ bearer \in [Bearers -> Asking]
  /\ revoker \in [Revokers -> Ending]
  /\ buffer \in [TokenProcs -> [Tokens -> Nat]]
  /\ flushes \in [TokenProcs -> Seq([Tokens -> Nat])]
  /\ uses \in [Tokens -> Nat] /\ missed \in [Tokens -> Nat]
  /\ \A b \in Bearers : bearer[b].at # "idle" => bearer[b].token \in Tokens
  /\ \A r \in Revokers : revoker[r].at # "idle" => revoker[r].token \in Tokens


(* A sequence without one of its elements. *)
LEMMA RemoveAtIs ==
  ASSUME NEW R, NEW q \in Seq(R), NEW n \in DOMAIN q
  PROVE  /\ RemoveAt(q, n) \in Seq(R) /\ Len(RemoveAt(q, n)) = Len(q) - 1
         /\ \A k \in 1 .. Len(q) - 1 : RemoveAt(q, n)[k] = q[IF k < n THEN k ELSE k + 1]
<1>1. Len(q) \in Nat /\ DOMAIN q = 1 .. Len(q) /\ n \in 1 .. Len(q)
  OBVIOUS
<1>2. PICK a : a = SubSeq(q, 1, n - 1)
  OBVIOUS
<1>3. PICK b : b = SubSeq(q, n + 1, Len(q))
  OBVIOUS
<1>4. a \in Seq(R) /\ Len(a) = n - 1 /\ \A k \in 1 .. n - 1 : a[k] = q[k]
  BY <1>1, <1>2
<1>5. b \in Seq(R) /\ Len(b) = Len(q) - n /\ \A k \in 1 .. Len(q) - n : b[k] = q[k + n]
  BY <1>1, <1>3
<1>6. PICK r : r = a \o b
  OBVIOUS
<1>7. /\ r \in Seq(R) /\ Len(r) = Len(q) - 1
      /\ \A k \in 1 .. n - 1 : r[k] = a[k]
      /\ \A k \in 1 .. Len(q) - n : r[k + (n - 1)] = b[k]
  <2>1. Len(a) + Len(b) = Len(q) - 1
    BY <1>1, <1>4, <1>5
  <2>2. /\ r \in Seq(R) /\ Len(r) = Len(a) + Len(b)
        /\ \A k \in 1 .. Len(a) : r[k] = a[k]
        /\ \A k \in 1 .. Len(b) : r[k + Len(a)] = b[k]
    <3>1. a \in Seq(R) /\ b \in Seq(R)
      BY <1>4, <1>5
    <3> QED
      BY <1>6, <3>1
  <2> QED
    BY <1>4, <1>5, <2>1, <2>2
<1>8. ASSUME NEW k \in 1 .. Len(q) - 1
      PROVE  r[k] = q[IF k < n THEN k ELSE k + 1]
  <2>1. CASE k < n
    <3>1. k \in 1 .. n - 1
      BY <1>1, <2>1
    <3> QED
      BY <1>4, <1>7, <2>1, <3>1
  <2>2. CASE ~ (k < n)
    <3>0. /\ k - (n - 1) \in 1 .. Len(q) - n
          /\ (k - (n - 1)) + (n - 1) = k /\ (k - (n - 1)) + n = k + 1
      BY <1>1, <2>2
    <3>1. PICK m \in 1 .. Len(q) - n : m + (n - 1) = k /\ m + n = k + 1
      BY <3>0
    <3> QED
      BY <1>5, <1>7, <2>2, <3>1
  <2> QED
    BY <2>1, <2>2
<1> QED
  BY <1>2, <1>3, <1>6, <1>7, <1>8 DEF RemoveAt

InFlush(L, t) == SumFunction([n \in DOMAIN L |-> L[n][t]])

LEMMA InFlushType ==
  ASSUME NEW L \in Seq([Tokens -> Nat]), NEW t \in Tokens
  PROVE  /\ IsFiniteSet(DOMAIN L) /\ [n \in DOMAIN L |-> L[n][t]] \in [DOMAIN L -> Nat]
         /\ InFlush(L, t) \in Nat
<1>1. DOMAIN L = 1..Len(L) /\ Len(L) \in Nat
  OBVIOUS
<1>2. IsFiniteSet(DOMAIN L)
  BY <1>1, FS_Interval
<1>3. [n \in DOMAIN L |-> L[n][t]] \in [DOMAIN L -> Nat]
  BY <1>1
<1> QED
  BY <1>2, <1>3, SumType DEF InFlush

LEMMA TokensIdle ==
  /\ Idle \in Asking /\ Idle \in Ending /\ Idle.at = "idle"
  /\ NoRow \in TokenRow /\ Nothing \in [Tokens -> Nat]
<1>1. Idle.at = "idle" /\ Idle.token \in Tokens \cup {Idle.token} /\ Idle.stood = FALSE /\ Idle.asks = "api"
  BY DEF Idle
<1>2. Idle = [at |-> Idle.at, token |-> Idle.token, stood |-> Idle.stood, asks |-> Idle.asks]
  BY DEF Idle
<1>3. Idle \in Asking /\ Idle \in Ending
  <2> DEFINE tok == Idle.token
  <2>1. Idle = [at |-> "idle", token |-> tok, stood |-> FALSE, asks |-> "api"]
    BY <1>1, <1>2
  <2> HIDE DEF tok
  <2>2. [at |-> "idle", token |-> tok, stood |-> FALSE, asks |-> "api"] \in [at : Stages, token : Tokens \cup {tok}, stood : BOOLEAN, asks : AskedFor]
    BY DEF Stages, AskedFor
  <2>3. [at |-> "idle", token |-> tok, stood |-> FALSE, asks |-> "api"] \in [at : {"idle", "mark", "list"}, token : Tokens \cup {tok}, stood : BOOLEAN, asks : AskedFor]
    BY DEF AskedFor
  <2> QED
    BY <2>1, <2>2, <2>3 DEF Asking, Ending, tok
<1>4. NoRow \in TokenRow /\ Nothing \in [Tokens -> Nat]
  BY DEF NoRow, TokenRow, Nothing
<1> QED
  BY <1>1, <1>3, <1>4

LEMMA BeganWith ==
  ASSUME NEW t \in Tokens, NEW at \in {"mark", "list"}
  PROVE  /\ [Idle EXCEPT !.token = t, !.at = at] \in Ending
         /\ [Idle EXCEPT !.token = t, !.at = at].token = t
         /\ [Idle EXCEPT !.token = t, !.at = at].at = at
<1>1. PICK I : I = Idle
  OBVIOUS
<1>2. PICK T : T = Tokens \cup {Idle.token}
  OBVIOUS
<1>3. I \in [at : {"idle", "mark", "list"}, token : T, stood : BOOLEAN, asks : AskedFor]
  BY <1>1, <1>2, TokensIdle DEF Ending
<1>4. t \in T /\ at \in {"idle", "mark", "list"}
  BY <1>2
<1>5. [I EXCEPT !.token = t, !.at = at] \in [at : {"idle", "mark", "list"}, token : T, stood : BOOLEAN, asks : AskedFor]
  BY <1>3, <1>4, Zenon
<1>6. [I EXCEPT !.token = t, !.at = at].token = t /\ [I EXCEPT !.token = t, !.at = at].at = at
  BY <1>3
<1> QED
  BY <1>1, <1>2, <1>5, <1>6 DEF Ending

LEMMA TokensTypeInit == TokensInit => TokensTypeOK
<1> SUFFICES ASSUME TokensInit PROVE TokensTypeOK
  OBVIOUS
<1> USE DEF TokensInit
<1>1. day \in Nat /\ jwt \in [Tokens -> Minted \cup {NotMinted}] /\ tokenRow \in [Tokens -> TokenRow]
  BY TokensIdle
<1>2. minter \in [Minters -> [there : BOOLEAN, reset : Nat]]
  OBVIOUS
<1>3. bearer \in [Bearers -> Asking] /\ revoker \in [Revokers -> Ending]
  BY TokensIdle
<1>4. buffer \in [TokenProcs -> [Tokens -> Nat]] /\ uses \in [Tokens -> Nat] /\ missed \in [Tokens -> Nat]
  BY TokensIdle
<1>5. flushes \in [TokenProcs -> Seq([Tokens -> Nat])]
  OBVIOUS
<1>6. (\A b \in Bearers : bearer[b].at = "idle") /\ (\A r \in Revokers : revoker[r].at = "idle")
  BY TokensIdle
<1> QED
  BY <1>1, <1>2, <1>3, <1>4, <1>5, <1>6 DEF TokensTypeOK

(* The counters alone: what is flushed, written, lost. *)
CountTypes == /\ buffer \in [TokenProcs -> [Tokens -> Nat]]
              /\ flushes \in [TokenProcs -> Seq([Tokens -> Nat])]
              /\ uses \in [Tokens -> Nat] /\ missed \in [Tokens -> Nat]

LEMMA FlushedTypes ==
  ASSUME NEW p \in TokenProcs, NEW now \in [Tokens -> Nat],
         buffer \in [TokenProcs -> [Tokens -> Nat]], flushes \in [TokenProcs -> Seq([Tokens -> Nat])],
         Flushed(p, now)
  PROVE  /\ buffer' \in [TokenProcs -> [Tokens -> Nat]] /\ flushes' \in [TokenProcs -> Seq([Tokens -> Nat])]
         /\ \A q \in TokenProcs \ {p} : buffer'[q] = buffer[q] /\ flushes'[q] = flushes[q]
         /\ \/ now = Nothing /\ buffer'[p] = now /\ flushes'[p] = flushes[p]
            \/ buffer'[p] = Nothing /\ flushes'[p] = Append(flushes[p], now)
<1>1. CASE now = Nothing
  <2>1. buffer' = [buffer EXCEPT ![p] = now] /\ flushes' = flushes
    BY <1>1 DEF Flushed
  <2> QED
    BY <1>1, <2>1
<1>2. CASE now # Nothing
  <2>1. flushes' = [flushes EXCEPT ![p] = Append(flushes[p], now)] /\ buffer' = [buffer EXCEPT ![p] = Nothing]
    BY <1>2 DEF Flushed, Taken
  <2>2. Append(flushes[p], now) \in Seq([Tokens -> Nat])
    OBVIOUS
  <2>3. flushes' \in [TokenProcs -> Seq([Tokens -> Nat])] /\ flushes'[p] = Append(flushes[p], now)
    BY <2>1, <2>2
  <2>4. buffer' \in [TokenProcs -> [Tokens -> Nat]] /\ buffer'[p] = Nothing
    BY <2>1, TokensIdle
  <2> QED
    BY <2>1, <2>3, <2>4
<1> QED
  BY <1>1, <1>2

LEMMA ShorterFlush ==
  ASSUME NEW L \in Seq([Tokens -> Nat]), NEW n \in DOMAIN L, NEW rest \in [Tokens -> Nat]
  PROVE  /\ RemoveAt(L, n) \in Seq([Tokens -> Nat])
         /\ [L EXCEPT ![n] = rest] \in Seq([Tokens -> Nat])
<1>1. [L EXCEPT ![n] = rest] \in Seq([Tokens -> Nat])
  OBVIOUS
<1> QED
  BY <1>1, RemoveAtIs

LEMMA TokensTypeStep == TokensTypeOK /\ [TokensNext]_tokenVars => TokensTypeOK'
<1> SUFFICES ASSUME TokensTypeOK, [TokensNext]_tokenVars PROVE TokensTypeOK'
  OBVIOUS
<1> USE TokensAssumption, TokensIdle
<1>1. CASE UNCHANGED tokenVars
  BY <1>1 DEF TokensTypeOK, tokenVars
<1>2. CASE DayPasses
  BY <1>2 DEF TokensTypeOK, DayPasses, tableVars, countVars
<1>3. ASSUME NEW t \in Tokens, NEW a \in Minters, NEW life \in Lives, Mint(t, a, life) PROVE TokensTypeOK'
  <2>1. [by |-> a, iat |-> day, exp |-> day + life] \in Minted
    BY DEF TokensTypeOK, Minted
  <2>2. jwt' \in [Tokens -> Minted \cup {NotMinted}]
    BY <1>3, <2>1 DEF TokensTypeOK, Mint
  <2>3. [NoRow EXCEPT !.there = TRUE] \in TokenRow
    BY DEF NoRow, TokenRow
  <2>4. tokenRow' \in [Tokens -> TokenRow]
    BY <1>3, <2>3 DEF TokensTypeOK, Mint
  <2> QED
    BY <1>3, <2>2, <2>4 DEF TokensTypeOK, Mint, countVars
<1>4. ASSUME NEW a \in Minters, DeleteMinter(a) PROVE TokensTypeOK'
  <2>1. minter' \in [Minters -> [there : BOOLEAN, reset : Nat]]
    BY <1>4 DEF TokensTypeOK, DeleteMinter
  <2> QED
    BY <1>4, <2>1 DEF TokensTypeOK, DeleteMinter, countVars
<1>5. ASSUME NEW A \in SUBSET Minters, ResetMinters(A) PROVE TokensTypeOK'
  <2>1. minter' \in [Minters -> [there : BOOLEAN, reset : Nat]]
    BY <1>5 DEF TokensTypeOK, ResetMinters
  <2> QED
    BY <1>5, <2>1 DEF TokensTypeOK, ResetMinters, countVars
<1>6. ASSUME NEW r \in Revokers, NEW t \in Tokens, RevokeBegins(r, t) PROVE TokensTypeOK'
  <2>1. PICK at \in {"mark", "list"} : revoker' = [revoker EXCEPT ![r] = [Idle EXCEPT !.token = t, !.at = at]]
    BY <1>6 DEF RevokeBegins
  <2>2. PICK R : R = [Idle EXCEPT !.token = t, !.at = at]
    OBVIOUS
  <2>3. R \in Ending /\ R.token = t
    BY <2>2, BeganWith
  <2>4. revoker' \in [Revokers -> Ending]
    BY <2>1, <2>2, <2>3 DEF TokensTypeOK
  <2>5. \A s \in Revokers : revoker'[s].at # "idle" => revoker'[s].token \in Tokens
    BY <2>1, <2>2 DEF TokensTypeOK
  <2> QED
    BY <1>6, <2>4, <2>5 DEF TokensTypeOK, RevokeBegins, countVars
<1>7. ASSUME NEW r \in Revokers, RevokeMarks(r) PROVE TokensTypeOK'
  <2>1. PICK t : t = revoker[r].token
    OBVIOUS
  <2>2. t \in Tokens /\ revoker[r] \in Ending /\ revoker[r].at = "mark"
    BY <1>7, <2>1 DEF TokensTypeOK, RevokeMarks
  <2>3. revoker' = [revoker EXCEPT ![r].at = "list"]
    BY <1>7 DEF RevokeMarks
  <2>4. [revoker[r] EXCEPT !.at = "list"] \in Ending
    BY <2>2 DEF Ending
  <2>5. revoker' \in [Revokers -> Ending]
    BY <2>3, <2>4 DEF TokensTypeOK
  <2>6. \A s \in Revokers : revoker'[s].at # "idle" => revoker'[s].token \in Tokens
    BY <2>1, <2>2, <2>3 DEF TokensTypeOK, Ending
  <2>7. tokenRow' = [tokenRow EXCEPT ![t].revokedAt = IF tokenRow[t].there THEN day ELSE @]
    BY <1>7, <2>1 DEF RevokeMarks
  <2>8. tokenRow' \in [Tokens -> TokenRow]
    BY <2>2, <2>7 DEF TokensTypeOK, TokenRow
  <2> QED
    BY <1>7, <2>5, <2>6, <2>8 DEF TokensTypeOK, RevokeMarks, countVars
<1>8. ASSUME NEW r \in Revokers, RevokeLists(r) \/ RevokeDies(r) PROVE TokensTypeOK'
  <2>1. revoker' = [revoker EXCEPT ![r] = Idle]
    BY <1>8 DEF RevokeLists, RevokeDies
  <2>2. revoker' \in [Revokers -> Ending]
    BY <2>1 DEF TokensTypeOK
  <2>3. \A s \in Revokers : revoker'[s].at # "idle" => revoker'[s].token \in Tokens
    BY <2>1 DEF TokensTypeOK
  <2> QED
    BY <1>8, <2>2, <2>3 DEF TokensTypeOK, RevokeLists, RevokeDies, countVars
<1>9. CASE PruneTokens
  <2>1. tokenRow' \in [Tokens -> TokenRow]
    BY <1>9 DEF TokensTypeOK, PruneTokens
  <2>2. missed' \in [Tokens -> Nat]
    BY <1>9 DEF TokensTypeOK, PruneTokens, TokenRow
  <2> QED
    BY <1>9, <2>1, <2>2 DEF TokensTypeOK, PruneTokens
<1>10. ASSUME NEW b \in Bearers, NEW t \in Tokens, NEW asks \in AskedFor, Present(b, t, asks) PROVE TokensTypeOK'
  <2>1. PICK at \in {"list", "refused"}, stood \in BOOLEAN :
          bearer' = [bearer EXCEPT ![b] = [at |-> at, token |-> t, stood |-> stood, asks |-> asks]]
    BY <1>10 DEF Present
  <2>2. [at |-> at, token |-> t, stood |-> stood, asks |-> asks] \in Asking
    BY DEF Asking, Stages
  <2>3. bearer' \in [Bearers -> Asking]
    BY <2>1, <2>2 DEF TokensTypeOK
  <2>4. \A c \in Bearers : bearer'[c].at # "idle" => bearer'[c].token \in Tokens
    BY <2>1 DEF TokensTypeOK
  <2> QED
    BY <1>10, <2>3, <2>4 DEF TokensTypeOK, Present, tableVars, countVars
<1>11. ASSUME NEW b \in Bearers, ChecksList(b) \/ ChecksRow(b) \/ ChecksMinter(b) PROVE TokensTypeOK'
  <2>1. PICK at \in Stages : bearer' = [bearer EXCEPT ![b].at = at]
    BY <1>11 DEF ChecksList, ChecksRow, ChecksMinter, Goes, Stages
  <2>2. bearer[b].at # "idle" /\ bearer[b] \in Asking
    BY <1>11 DEF ChecksList, ChecksRow, ChecksMinter, Goes, TokensTypeOK
  <2>3. [bearer[b] EXCEPT !.at = at] \in Asking
    BY <2>2 DEF Asking
  <2>4. bearer' \in [Bearers -> Asking]
    BY <2>1, <2>3 DEF TokensTypeOK
  <2>5. \A c \in Bearers : bearer'[c].at # "idle" => bearer'[c].token \in Tokens
    BY <2>1, <2>2 DEF TokensTypeOK, Asking
  <2> QED
    BY <1>11, <2>4, <2>5 DEF TokensTypeOK, ChecksList, ChecksRow, ChecksMinter, Goes, tableVars, countVars
<1>12. ASSUME NEW b \in Bearers, NEW p \in TokenProcs, Counts(b, p) PROVE TokensTypeOK'
  <2>1. PICK t : t = bearer[b].token
    OBVIOUS
  <2>2. t \in Tokens
    BY <1>12, <2>1 DEF TokensTypeOK, Counts
  <2>3. bearer' \in [Bearers -> Asking]
    BY <1>12 DEF TokensTypeOK, Counts
  <2>4. \A c \in Bearers : bearer'[c].at # "idle" => bearer'[c].token \in Tokens
    BY <1>12 DEF TokensTypeOK, Counts
  <2>5. uses' \in [Tokens -> Nat]
    <3>1. uses' = [uses EXCEPT ![t] = uses[t] + 1]
      BY <1>12, <2>1 DEF Counts
    <3> QED
      BY <2>2, <3>1 DEF TokensTypeOK
  <2>6. PICK now : now = [buffer[p] EXCEPT ![t] = @ + 1]
    OBVIOUS
  <2>7. now \in [Tokens -> Nat]
    BY <2>2, <2>6 DEF TokensTypeOK
  <2>8. Flushed(p, now) \/ (buffer' = [buffer EXCEPT ![p] = now] /\ flushes' = flushes)
    <3>1. ASSUME NEW x, x = [buffer[p] EXCEPT ![bearer[b].token] = @ + 1]
          PROVE  Flushed(p, x) \/ (buffer' = [buffer EXCEPT ![p] = x] /\ flushes' = flushes)
      BY <1>12, <3>1 DEF Counts
    <3> QED
      BY <2>1, <2>6, <3>1
  <2>9. buffer' \in [TokenProcs -> [Tokens -> Nat]] /\ flushes' \in [TokenProcs -> Seq([Tokens -> Nat])]
    BY <2>7, <2>8, FlushedTypes DEF TokensTypeOK
  <2> QED
    BY <1>12, <2>3, <2>4, <2>5, <2>9 DEF TokensTypeOK, Counts, tableVars
<1>13. ASSUME NEW p \in TokenProcs, FlushUsage(p) PROVE TokensTypeOK'
  <2>1. buffer[p] \in [Tokens -> Nat]
    BY DEF TokensTypeOK
  <2>2. buffer' \in [TokenProcs -> [Tokens -> Nat]] /\ flushes' \in [TokenProcs -> Seq([Tokens -> Nat])]
    BY <1>13, <2>1, FlushedTypes DEF TokensTypeOK, FlushUsage
  <2> QED
    BY <1>13, <2>2 DEF TokensTypeOK, FlushUsage, tableVars
<1>14. ASSUME NEW p \in TokenProcs, UsageCrash(p) PROVE TokensTypeOK'
  <2>1. buffer' \in [TokenProcs -> [Tokens -> Nat]]
    BY <1>14 DEF TokensTypeOK, UsageCrash
  <2>2. flushes' \in [TokenProcs -> Seq([Tokens -> Nat])]
    BY <1>14 DEF TokensTypeOK, UsageCrash
  <2>3. \A t \in Tokens : InFlush(flushes[p], t) \in Nat
    BY InFlushType DEF TokensTypeOK
  <2>4. missed' = [t \in Tokens |-> missed[t] + buffer[p][t] + InFlush(flushes[p], t)]
    BY <1>14 DEF UsageCrash, InFlush
  <2>5. missed' \in [Tokens -> Nat]
    BY <2>3, <2>4 DEF TokensTypeOK
  <2> QED
    BY <1>14, <2>1, <2>2, <2>5 DEF TokensTypeOK, UsageCrash, tableVars
<1>15. ASSUME NEW p \in TokenProcs, NEW t \in Tokens, NEW fails \in BOOLEAN, NEW n \in DOMAIN flushes[p],
              FlushRow(p, n, t, fails)
       PROVE  TokensTypeOK'
  <2>1. PICK L : L = flushes[p]
    OBVIOUS
  <2>2. L \in Seq([Tokens -> Nat]) /\ n \in DOMAIN L
    BY <2>1 DEF TokensTypeOK
  <2>3. PICK rest : rest = [L[n] EXCEPT ![t] = 0]
    OBVIOUS
  <2>4. rest \in [Tokens -> Nat] /\ L[n][t] \in Nat
    BY <2>2, <2>3
  <2>5. flushes' = [flushes EXCEPT ![p] = IF rest = Nothing THEN RemoveAt(L, n) ELSE [L EXCEPT ![n] = rest]]
    BY <1>15, <2>1, <2>3 DEF FlushRow
  <2>6. flushes' \in [TokenProcs -> Seq([Tokens -> Nat])]
    <3>1. RemoveAt(L, n) \in Seq([Tokens -> Nat]) /\ [L EXCEPT ![n] = rest] \in Seq([Tokens -> Nat])
      BY <2>2, <2>4, ShorterFlush
    <3>2. PICK M : M = IF rest = Nothing THEN RemoveAt(L, n) ELSE [L EXCEPT ![n] = rest]
      OBVIOUS
    <3>3. M \in Seq([Tokens -> Nat])
      BY <3>1, <3>2
    <3> QED
      BY <2>5, <3>2, <3>3 DEF TokensTypeOK
  <2>c. PICK c \in Nat : c = L[n][t]
    BY <2>4
  <2>7. tokenRow' = tokenRow \/ tokenRow' = [tokenRow EXCEPT ![t].count = tokenRow[t].count + c]
    BY <1>15, <2>1, <2>c DEF FlushRow
  <2>8. tokenRow' \in [Tokens -> TokenRow]
    <3>1. tokenRow \in [Tokens -> TokenRow]
      BY DEF TokensTypeOK
    <3>2. PICK d \in Nat : d = tokenRow[t].count + c
      BY <3>1 DEF TokenRow
    <3>3. [tokenRow[t] EXCEPT !.count = d] \in TokenRow
      BY <3>1 DEF TokenRow
    <3> QED
      BY <2>7, <3>1, <3>2, <3>3
  <2>9. missed' = missed \/ missed' = [missed EXCEPT ![t] = missed[t] + c]
    BY <1>15, <2>1, <2>c DEF FlushRow
  <2>10. missed' \in [Tokens -> Nat]
    <3>1. missed \in [Tokens -> Nat]
      BY DEF TokensTypeOK
    <3>2. PICK d \in Nat : d = missed[t] + c
      BY <3>1
    <3> QED
      BY <2>9, <3>1, <3>2
  <2> QED
    BY <1>15, <2>6, <2>8, <2>10 DEF TokensTypeOK, FlushRow
<1>16. ASSUME NEW a \in Minters, ResetMinters({a}) PROVE TokensTypeOK'
  BY <1>5, <1>16
<1>17. CASE ResetMinters(Minters)
  BY <1>5, <1>17
<1>18. ASSUME NEW b \in Bearers, CustomAnswers(b) PROVE TokensTypeOK'
  <2>1. bearer' \in [Bearers -> Asking]
    BY <1>18 DEF TokensTypeOK, CustomAnswers
  <2>2. \A c \in Bearers : bearer'[c].at # "idle" => bearer'[c].token \in Tokens
    BY <1>18 DEF TokensTypeOK, CustomAnswers
  <2> QED
    BY <1>18, <2>1, <2>2 DEF TokensTypeOK, CustomAnswers, tableVars, countVars
<1> QED
  BY <1>1, <1>2, <1>3, <1>4, <1>6, <1>7, <1>8, <1>9, <1>10, <1>11, <1>12, <1>13, <1>14, <1>15, <1>16, <1>17, <1>18
     DEF TokensNext, Minting, Revoking, Verifying, Counting

(* What a request has looked at tells what of its token's standing is still open. *)
Open(x) ==
  /\ x.at # "idle" => x.token \in Tokens /\ jwt[x.token] # NotMinted
  /\ x.at = "list" => x.stood \/ x.token \in revoked \/ Gone(x.token)
  /\ x.at \in {"row", "minter"} => x.stood \/ Gone(x.token)
  /\ x.at \in {"list", "row", "minter", "admitted"} => x.asks = "api"
  /\ x.at = "admitted" => x.stood
  /\ x.at = "refused" => \/ x.asks # "api"
                         \/ jwt[x.token].exp <= day \/ x.token \in touched \/ Gone(x.token)
OpenAll == \A b \in Bearers : Open(bearer[b])

Listed == /\ revoked \subseteq revocations /\ revocations \subseteq touched
          /\ \A r \in Revokers : revoker[r].at # "idle" => revoker[r].token \in touched
Rowed(t) == /\ jwt[t] = NotMinted => tokenRow[t] = NoRow
            /\ jwt[t] # NotMinted /\ ~tokenRow[t].there => jwt[t].exp <= day \/ t \in touched
            /\ tokenRow[t].revokedAt # -1 => t \in touched
Standing == /\ Listed /\ OpenAll
            /\ \A a \in Minters : minter[a].reset <= day
            /\ \A t \in Tokens : Rowed(t)

LEMMA StandingInit == TokensInit => Standing
<1> SUFFICES ASSUME TokensInit PROVE Standing
  OBVIOUS
<1>1. Listed
  BY TokensIdle DEF TokensInit, Listed
<1>2. OpenAll
  BY TokensIdle DEF TokensInit, OpenAll, Open
<1>3. \A a \in Minters : minter[a].reset <= day
  BY DEF TokensInit
<1>4. \A t \in Tokens : Rowed(t)
  BY DEF TokensInit, Rowed, NoRow
<1> QED
  BY <1>1, <1>2, <1>3, <1>4 DEF Standing

LEMMA StandingAdmits == Standing => AdmitsLive
BY DEF Standing, OpenAll, Open, AdmitsLive

(* A token's maker stays gone, a minted token stays what it is, and what was revoked or *)
(* begun to be stays so.                                                                 *)
LEMMA TokensGrow ==
  ASSUME TokensTypeOK, Standing, [TokensNext]_tokenVars
  PROVE  /\ day' >= day /\ day' \in Nat /\ revoked \subseteq revoked' /\ touched \subseteq touched'
         /\ \A t \in Tokens : jwt[t] # NotMinted => jwt'[t] = jwt[t] /\ (Gone(t) => Gone(t)')
         /\ \A a \in Minters : minter'[a].reset <= day'
<1> USE TokensAssumption
<1> DEFINE G == /\ day' >= day /\ day' \in Nat /\ revoked \subseteq revoked' /\ touched \subseteq touched'
                /\ \A t \in Tokens : jwt[t] # NotMinted => jwt'[t] = jwt[t] /\ (Gone(t) => Gone(t)')
                /\ \A a \in Minters : minter'[a].reset <= day'
<1>0. day \in Nat /\ \A a \in Minters : minter[a].reset <= day /\ minter[a].reset \in Nat
  BY DEF TokensTypeOK, Standing
<1>1. ASSUME day' \in {day, day + 1}, jwt' = jwt, minter' = minter, revoked \subseteq revoked', touched \subseteq touched'
      PROVE  G
  BY <1>0, <1>1 DEF Gone
<1>2. ASSUME NEW t \in Tokens, NEW a \in Minters, NEW life \in Lives, Mint(t, a, life) PROVE G
  <2>1. \A s \in Tokens : jwt[s] # NotMinted => jwt'[s] = jwt[s]
    BY <1>2 DEF Mint, TokensTypeOK
  <2>2. \A s \in Tokens : jwt[s] # NotMinted => (Gone(s) => Gone(s)')
    BY <1>2, <2>1 DEF Mint, Gone
  <2> QED
    BY <1>0, <1>2, <2>1, <2>2 DEF Mint
<1>3. ASSUME NEW A \in SUBSET Minters, ResetMinters(A) PROVE G
  <2>0. jwt' = jwt /\ day' = day /\ revoked' = revoked /\ touched' = touched
    BY <1>3 DEF ResetMinters
  <2>1. \A a \in Minters : /\ minter'[a].there = minter[a].there /\ minter'[a].reset \in {minter[a].reset, day}
    BY <1>3 DEF ResetMinters, TokensTypeOK
  <2>2. \A a \in Minters : minter'[a].reset >= minter[a].reset /\ minter'[a].reset <= day
    BY <1>0, <2>1
  <2>3. \A s \in Tokens : jwt[s] # NotMinted => (Gone(s) => Gone(s)')
    <3> SUFFICES ASSUME NEW s \in Tokens, jwt[s] # NotMinted, Gone(s) PROVE Gone(s)'
      OBVIOUS
    <3>1. PICK a : a = jwt[s].by
      OBVIOUS
    <3>2. PICK i : i = jwt[s].iat
      OBVIOUS
    <3>3. a \in Minters /\ i \in Nat
      BY <3>1, <3>2 DEF TokensTypeOK, Minted
    <3>4. ~minter[a].there \/ minter[a].reset > i
      BY <3>1, <3>2 DEF Gone
    <3>5. minter'[a].reset \in Nat
      BY <1>0, <2>1, <3>3
    <3>6. ~minter'[a].there \/ minter'[a].reset > i
      BY <1>0, <2>1, <2>2, <3>3, <3>4, <3>5
    <3> QED
      BY <2>0, <3>1, <3>2, <3>6 DEF Gone
  <2> QED
    BY <1>0, <2>0, <2>2, <2>3
<1>4. ASSUME NEW a \in Minters, DeleteMinter(a) PROVE G
  <2>0. jwt' = jwt /\ day' = day /\ revoked' = revoked /\ touched' = touched
    BY <1>4 DEF DeleteMinter
  <2>1. \A c \in Minters : /\ minter'[c].reset = minter[c].reset
                           /\ ~minter[c].there => ~minter'[c].there
    BY <1>4 DEF DeleteMinter, TokensTypeOK
  <2>2. \A s \in Tokens : jwt[s] # NotMinted => (Gone(s) => Gone(s)')
    <3> SUFFICES ASSUME NEW s \in Tokens, jwt[s] # NotMinted, Gone(s) PROVE Gone(s)'
      OBVIOUS
    <3>1. jwt[s].by \in Minters
      BY DEF TokensTypeOK, Minted
    <3> QED
      BY <2>0, <2>1, <3>1 DEF Gone
  <2> QED
    BY <1>0, <2>0, <2>1, <2>2
<1>5. CASE UNCHANGED tokenVars
  BY <1>1, <1>5 DEF tokenVars
<1>6. CASE DayPasses
  BY <1>1, <1>6 DEF DayPasses, tableVars
<1>7. ASSUME NEW r \in Revokers, RevokeMarks(r) \/ RevokeLists(r) \/ RevokeDies(r) PROVE G
  BY <1>1, <1>7 DEF RevokeMarks, RevokeLists, RevokeDies
<1>8. ASSUME NEW r \in Revokers, NEW t \in Tokens, RevokeBegins(r, t) PROVE G
  BY <1>1, <1>8 DEF RevokeBegins
<1>9. CASE PruneTokens
  BY <1>1, <1>9 DEF PruneTokens
<1>10. CASE Verifying
  BY <1>1, <1>10 DEF Verifying, Present, ChecksList, ChecksRow, ChecksMinter, CustomAnswers, Goes, tableVars
<1>11. CASE Counting
  BY <1>1, <1>11 DEF Counting, Counts, FlushUsage, UsageCrash, FlushRow, tableVars
<1>12. CASE Minting
  BY <1>2, <1>3, <1>4, <1>12 DEF Minting
<1>13. CASE Revoking
  BY <1>7, <1>8, <1>9, <1>13 DEF Revoking
<1>14. UNCHANGED tokenVars \/ DayPasses \/ Minting \/ Revoking \/ Verifying \/ Counting
  BY DEF TokensNext
<1> QED
  BY <1>5, <1>6, <1>10, <1>11, <1>12, <1>13, <1>14

LEMMA OpenStays ==
  ASSUME TokensTypeOK, Standing, [TokensNext]_tokenVars, NEW x, Open(x)
  PROVE  Open(x)'
<1>0. TokensAssumption
  BY TokensAssumption
<1>1. CASE x.at = "idle"
  BY <1>1 DEF Open
<1>2. CASE x.at # "idle"
  <2>1. PICK t \in Tokens : t = x.token
    BY <1>2 DEF Open
  <2>2. jwt[t] # NotMinted /\ jwt'[t] = jwt[t] /\ (Gone(t) => Gone(t)')
    BY <1>2, <2>1, TokensGrow DEF Open
  <2>3. day' >= day /\ day' \in Nat /\ revoked \subseteq revoked' /\ touched \subseteq touched'
    BY TokensGrow
  <2>4. jwt[t].exp \in Nat /\ day \in Nat
    BY <2>2 DEF TokensTypeOK, Minted
  <2>5. jwt'[t].exp = jwt[t].exp /\ (jwt[t].exp <= day => jwt[t].exp <= day')
    BY <2>2, <2>3, <2>4
  <2> QED
    BY <1>2, <2>1, <2>2, <2>3, <2>5 DEF Open
<1> QED
  BY <1>1, <1>2

LEMMA OpenAllStep ==
  ASSUME TokensTypeOK, Standing, [TokensNext]_tokenVars
  PROVE  OpenAll'
<1> SUFFICES ASSUME NEW c \in Bearers, NEW x, x = bearer'[c] PROVE Open(x)'
  BY DEF OpenAll
<1>o. ASSUME Open(x) PROVE Open(x)'
  BY <1>o, OpenStays
<1>a. Open(bearer[c]) /\ bearer[c] \in Asking
  BY DEF Standing, OpenAll, TokensTypeOK
<1>1. CASE bearer' = bearer
  BY <1>1, <1>a, <1>o
<1>2. ASSUME NEW b \in Bearers, NEW t \in Tokens, NEW asks \in AskedFor, Present(b, t, asks) PROVE Open(x)
  <2>1. CASE b # c
    BY <1>2, <1>a, <2>1 DEF Present, TokensTypeOK
  <2>2. CASE b = c
    <3>s. PICK st \in BOOLEAN : st = (t \notin revoked /\ ~Gone(t) /\ jwt[t].exp > day)
      OBVIOUS
    <3>1. x = [at |-> IF asks = "api" /\ jwt[t].exp > day THEN "list" ELSE "refused", token |-> t, stood |-> st, asks |-> asks]
      BY <1>2, <2>2, <3>s DEF Present, TokensTypeOK
    <3>2. jwt[t] # NotMinted /\ jwt[t].exp \in Nat /\ day \in Nat
      BY <1>2 DEF Present, TokensTypeOK, Minted
    <3>3. PICK e \in Nat : e = jwt[t].exp
      BY <3>2
    <3>4. x.at = (IF asks = "api" /\ e > day THEN "list" ELSE "refused") /\ x.token = t /\ x.asks = asks
      BY <3>1, <3>3
    <3>5. x.stood <=> t \notin revoked /\ ~Gone(t) /\ e > day
      <4>1. x.stood = st
        BY <3>1
      <4>2. st <=> (t \notin revoked /\ ~Gone(t) /\ jwt[t].exp > day)
        BY <3>s
      <4> QED
        BY <3>3, <4>1, <4>2
    <3>6. e > day \/ e <= day
      BY <3>2
    <3>7. CASE e > day
      BY <3>2, <3>4, <3>5, <3>7 DEF Open
    <3>8. CASE ~(e > day)
      BY <3>2, <3>3, <3>4, <3>6, <3>8 DEF Open
    <3> QED
      BY <3>7, <3>8
  <2> QED
    BY <2>1, <2>2
<1>3. ASSUME NEW b \in Bearers, NEW from, NEW to, NEW passes \in BOOLEAN, Goes(b, from, passes, to),
             b = c
      PROVE  x.at = (IF passes THEN to ELSE "refused") /\ x.token = bearer[c].token
             /\ x.stood = bearer[c].stood /\ x.asks = bearer[c].asks
  <2>1. x = [bearer[c] EXCEPT !.at = IF passes THEN to ELSE "refused"]
    BY <1>3 DEF Goes, TokensTypeOK
  <2> QED
    BY <1>a, <2>1 DEF Asking
<1>4. ASSUME NEW b \in Bearers, NEW from, NEW to, NEW passes \in BOOLEAN, Goes(b, from, passes, to), b # c
      PROVE  Open(x)
  BY <1>4, <1>a DEF Goes, TokensTypeOK
<1> DEFINE t == bearer[c].token
<1>5. ASSUME ChecksList(c) PROVE Open(x)
  <2>1. PICK passes \in BOOLEAN : passes <=> t \notin revocations
    OBVIOUS
  <2>2. Goes(c, "list", passes, "row") /\ bearer[c].at = "list"
    BY <1>5, <2>1 DEF ChecksList, Goes
  <2>3. x.at = (IF passes THEN "row" ELSE "refused") /\ x.token = t /\ x.stood = bearer[c].stood /\ x.asks = bearer[c].asks
    BY <1>3, <2>2
  <2> QED
    BY <1>a, <2>1, <2>2, <2>3 DEF Open, Standing, Listed
<1>6. ASSUME ChecksRow(c) PROVE Open(x)
  <2>1. PICK passes \in BOOLEAN : passes <=> tokenRow[t].there /\ tokenRow[t].revokedAt = -1
    OBVIOUS
  <2>2. Goes(c, "row", passes, "minter") /\ bearer[c].at = "row"
    BY <1>6, <2>1 DEF ChecksRow, Goes
  <2>3. x.at = (IF passes THEN "minter" ELSE "refused") /\ x.token = t /\ x.stood = bearer[c].stood /\ x.asks = bearer[c].asks
    BY <1>3, <2>2
  <2>4. t \in Tokens /\ jwt[t] # NotMinted /\ Rowed(t)
    BY <1>a, <2>2 DEF Open, Standing
  <2>5. ~passes => jwt[t].exp <= day \/ t \in touched
    BY <2>1, <2>4 DEF Rowed
  <2> QED
    BY <1>a, <2>2, <2>3, <2>4, <2>5 DEF Open
<1>7. ASSUME ChecksMinter(c) PROVE Open(x)
  <2>1. PICK passes \in BOOLEAN :
          passes <=> minter[jwt[t].by].there /\ ~Outdated(jwt[t].by, jwt[t].iat)
    OBVIOUS
  <2>2. Goes(c, "minter", passes, "admitted") /\ bearer[c].at = "minter"
    BY <1>7, <2>1 DEF ChecksMinter, Goes
  <2>3. x.at = (IF passes THEN "admitted" ELSE "refused") /\ x.token = t /\ x.stood = bearer[c].stood /\ x.asks = bearer[c].asks
    BY <1>3, <2>2
  <2>4. passes <=> ~Gone(t)
    BY <2>1 DEF Gone, Outdated
  <2> QED
    BY <1>a, <2>2, <2>3, <2>4 DEF Open
<1>8. ASSUME NEW b \in Bearers, ChecksList(b) \/ ChecksRow(b) \/ ChecksMinter(b), b # c PROVE Open(x)
  BY <1>8, <1>a DEF ChecksList, ChecksRow, ChecksMinter, Goes, TokensTypeOK
<1>9. ASSUME NEW b \in Bearers, NEW p \in TokenProcs, Counts(b, p) PROVE Open(x)
  <2>1. x = bearer[c] \/ x = Idle
    BY <1>9 DEF Counts, TokensTypeOK
  <2>2. Open(Idle)
    BY TokensIdle DEF Open
  <2> QED
    BY <1>a, <2>1, <2>2
<1>9a. ASSUME NEW b \in Bearers, CustomAnswers(b) PROVE Open(x)
  <2>1. x = bearer[c] \/ x = Idle
    BY <1>9a DEF CustomAnswers, TokensTypeOK
  <2>2. Open(Idle)
    BY TokensIdle DEF Open
  <2> QED
    BY <1>a, <2>1, <2>2
<1>10. CASE Verifying
  <2>1. ASSUME NEW b \in Bearers, CustomAnswers(b) PROVE Open(x)'
    BY <1>9a, <1>o, <2>1
  <2> QED
    BY <1>2, <1>5, <1>6, <1>7, <1>8, <1>10, <1>o, <2>1 DEF Verifying
<1>11. CASE Counting
  <2>1. CASE \E b \in Bearers, p \in TokenProcs : Counts(b, p)
    BY <1>9, <1>o, <2>1
  <2>2. CASE ~ \E b \in Bearers, p \in TokenProcs : Counts(b, p)
    BY <1>1, <1>11, <2>2 DEF Counting, FlushUsage, UsageCrash, FlushRow, tableVars
  <2> QED
    BY <2>1, <2>2
<1>12. CASE UNCHANGED tokenVars \/ DayPasses \/ Minting \/ Revoking
  BY <1>1, <1>12 DEF tokenVars, DayPasses, Minting, Mint, DeleteMinter, ResetMinters,
     Revoking, RevokeBegins, RevokeMarks, RevokeLists, RevokeDies, PruneTokens
<1>13. UNCHANGED tokenVars \/ DayPasses \/ Minting \/ Revoking \/ Verifying \/ Counting
  BY DEF TokensNext
<1> QED
  BY <1>10, <1>11, <1>12, <1>13

LEMMA RowedStays ==
  ASSUME TokensTypeOK, Standing, [TokensNext]_tokenVars, NEW t \in Tokens, jwt'[t] = jwt[t],
         tokenRow'[t].there = tokenRow[t].there, tokenRow'[t].revokedAt = tokenRow[t].revokedAt,
         tokenRow[t] = NoRow => tokenRow'[t] = NoRow
  PROVE  Rowed(t)'
<1>1. Rowed(t)
  BY DEF Standing
<1>2. day' >= day /\ day' \in Nat /\ touched \subseteq touched' /\ day \in Nat
  BY TokensGrow DEF TokensTypeOK
<1>3. jwt[t] # NotMinted => jwt[t].exp \in Nat
  BY DEF TokensTypeOK, Minted
<1>4. jwt[t] # NotMinted /\ jwt[t].exp <= day => jwt[t].exp <= day'
  BY <1>2, <1>3
<1> QED
  BY <1>1, <1>2, <1>4 DEF Rowed

LEMMA RowedStep ==
  ASSUME TokensTypeOK, Standing, [TokensNext]_tokenVars
  PROVE  \A t \in Tokens : Rowed(t)'
<1> SUFFICES ASSUME NEW s \in Tokens PROVE Rowed(s)'
  OBVIOUS
<1>0. tokenRow[s] \in TokenRow /\ Rowed(s) /\ day \in Nat /\ tokenRow \in [Tokens -> TokenRow]
  BY DEF TokensTypeOK, Standing
<1>1. CASE jwt' = jwt /\ tokenRow' = tokenRow
  BY <1>1, RowedStays
<1>2. ASSUME NEW t \in Tokens, NEW a \in Minters, NEW life \in Lives, Mint(t, a, life) PROVE Rowed(s)'
  <2>1. CASE s # t
    BY <1>2, <2>1, RowedStays DEF Mint, TokensTypeOK
  <2>2. CASE s = t
    <3>1. jwt'[s] = [by |-> a, iat |-> day, exp |-> day + life] /\ day + life # 0
      BY <1>2, <2>2, TokensAssumption DEF Mint, TokensTypeOK
    <3>2. jwt'[s] # NotMinted
      BY <3>1 DEF NotMinted
    <3>3. tokenRow'[s] = [NoRow EXCEPT !.there = TRUE]
      BY <1>2, <2>2 DEF Mint, TokensTypeOK
    <3>4. tokenRow'[s].there /\ tokenRow'[s].revokedAt = -1
      BY <3>3 DEF NoRow
    <3> QED
      BY <3>2, <3>4 DEF Rowed
  <2> QED
    BY <2>1, <2>2
<1>3. ASSUME NEW r \in Revokers, RevokeMarks(r) PROVE Rowed(s)'
  <2>1. PICK t : t = revoker[r].token
    OBVIOUS
  <2>2. t \in Tokens /\ t \in touched
    BY <1>3, <2>1 DEF RevokeMarks, TokensTypeOK, Standing, Listed
  <2>3. tokenRow' = [tokenRow EXCEPT ![t].revokedAt = IF tokenRow[t].there THEN day ELSE @]
    BY <1>3, <2>1 DEF RevokeMarks
  <2>4. jwt' = jwt /\ touched' = touched /\ day' = day
    BY <1>3 DEF RevokeMarks
  <2>5. CASE s # t
    BY <1>0, <2>3, <2>4, <2>5, RowedStays
  <2>6. CASE s = t
    <3>1. tokenRow'[s] = [tokenRow[s] EXCEPT !.revokedAt = IF tokenRow[s].there THEN day ELSE @]
      BY <1>0, <2>3, <2>6
    <3>2. tokenRow'[s].there = tokenRow[s].there
      BY <1>0, <3>1 DEF TokenRow
    <3>3. ~tokenRow[s].there => tokenRow'[s] = tokenRow[s]
      BY <1>0, <3>1 DEF TokenRow
    <3>4. tokenRow[s] = NoRow => ~tokenRow[s].there
      BY DEF NoRow
    <3> QED
      BY <1>0, <2>2, <2>4, <2>6, <3>2, <3>3, <3>4 DEF Rowed
  <2> QED
    BY <2>5, <2>6
<1>4. CASE PruneTokens
  <2>0. jwt' = jwt /\ touched' = touched /\ day' = day
    BY <1>4 DEF PruneTokens
  <2>1. CASE ~Stale(s)
    BY <1>4, <2>0, <2>1, RowedStays DEF PruneTokens
  <2>2. CASE Stale(s)
    <3>1. tokenRow'[s] = NoRow
      BY <1>4, <2>2 DEF PruneTokens
    <3>2. jwt[s] # NotMinted => jwt[s].exp <= day \/ s \in touched
      <4> SUFFICES ASSUME jwt[s] # NotMinted PROVE jwt[s].exp <= day \/ s \in touched
        OBVIOUS
      <4>1. jwt[s].exp \in Nat /\ RowsKept \in Nat
        BY TokensAssumption DEF TokensTypeOK, Minted
      <4>2. jwt[s].exp < day - RowsKept \/ tokenRow[s].revokedAt # -1
        BY <2>2 DEF Stale
      <4> QED
        BY <1>0, <4>1, <4>2 DEF Rowed
    <3>3. NoRow.revokedAt = -1
      BY DEF NoRow
    <3> QED
      BY <2>0, <3>1, <3>2, <3>3 DEF Rowed
  <2> QED
    BY <2>1, <2>2
<1>5. ASSUME NEW p \in TokenProcs, NEW t \in Tokens, NEW fails \in BOOLEAN, NEW n \in DOMAIN flushes[p],
             FlushRow(p, n, t, fails)
      PROVE  Rowed(s)'
  <2>1. PICK c : c = flushes[p][n][t]
    OBVIOUS
  <2>2. tokenRow' = tokenRow \/ (tokenRow[t].there /\ tokenRow' = [tokenRow EXCEPT ![t].count = @ + c])
    BY <1>5, <2>1 DEF FlushRow
  <2>3. jwt' = jwt
    BY <1>5 DEF FlushRow
  <2>4. CASE tokenRow' = tokenRow
    BY <1>1, <2>3, <2>4
  <2>5. CASE tokenRow[t].there /\ tokenRow' = [tokenRow EXCEPT ![t].count = @ + c]
    <3>1. tokenRow'[s] = IF s = t THEN [tokenRow[s] EXCEPT !.count = tokenRow[s].count + c] ELSE tokenRow[s]
      BY <1>0, <2>5
    <3>2. tokenRow'[s].there = tokenRow[s].there /\ tokenRow'[s].revokedAt = tokenRow[s].revokedAt
      BY <1>0, <3>1 DEF TokenRow
    <3>3. s = t => tokenRow[s] # NoRow
      BY <2>5 DEF NoRow
    <3> QED
      BY <2>3, <3>1, <3>2, <3>3, RowedStays
  <2> QED
    BY <2>2, <2>4, <2>5
<1>6. CASE DayPasses \/ UNCHANGED tokenVars \/ Verifying
  BY <1>1, <1>6 DEF DayPasses, tokenVars, tableVars, Verifying, Present, ChecksList, ChecksRow, ChecksMinter, CustomAnswers, Goes
<1>7. CASE Minting
  <2>1. CASE \E t \in Tokens, a \in Minters, life \in Lives : Mint(t, a, life)
    BY <1>2, <2>1
  <2>2. CASE ~ \E t \in Tokens, a \in Minters, life \in Lives : Mint(t, a, life)
    BY <1>1, <1>7, <2>2 DEF Minting, DeleteMinter, ResetMinters
  <2> QED
    BY <2>1, <2>2
<1>8. CASE Revoking
  <2>1. ASSUME NEW r \in Revokers, RevokeLists(r) \/ RevokeDies(r) PROVE Rowed(s)'
    BY <1>1, <2>1 DEF RevokeLists, RevokeDies
  <2>2. ASSUME NEW r \in Revokers, NEW t \in Tokens, RevokeBegins(r, t) PROVE Rowed(s)'
    BY <1>1, <2>2 DEF RevokeBegins
  <2> QED
    BY <1>3, <1>4, <1>8, <2>1, <2>2 DEF Revoking
<1>9. CASE Counting
  <2>1. ASSUME NEW b \in Bearers, NEW p \in TokenProcs, Counts(b, p) PROVE Rowed(s)'
    BY <1>1, <2>1 DEF Counts, tableVars
  <2>2. ASSUME NEW p \in TokenProcs, FlushUsage(p) \/ UsageCrash(p) PROVE Rowed(s)'
    BY <1>1, <2>2 DEF FlushUsage, UsageCrash, tableVars
  <2> QED
    BY <1>5, <1>9, <2>1, <2>2 DEF Counting
<1>10. UNCHANGED tokenVars \/ DayPasses \/ Minting \/ Revoking \/ Verifying \/ Counting
  BY DEF TokensNext
<1> QED
  BY <1>6, <1>7, <1>8, <1>9, <1>10

LEMMA ListedStep ==
  ASSUME TokensTypeOK, Standing, [TokensNext]_tokenVars
  PROVE  Listed'
<1>0. Listed
  BY DEF Standing
<1>1. CASE UNCHANGED <<revoker, revocations, revoked, touched>>
  BY <1>0, <1>1 DEF Listed
<1>2. ASSUME NEW r \in Revokers, NEW t \in Tokens, RevokeBegins(r, t) PROVE Listed'
  <2>1. PICK at \in {"mark", "list"} : revoker' = [revoker EXCEPT ![r] = [Idle EXCEPT !.token = t, !.at = at]]
    BY <1>2 DEF RevokeBegins
  <2>2. PICK R : R = [Idle EXCEPT !.token = t, !.at = at]
    OBVIOUS
  <2>3. R.token = t
    BY <2>2, BeganWith
  <2>4. \A s \in Revokers : revoker'[s] = revoker[s] \/ revoker'[s].token = t
    BY <2>1, <2>2, <2>3 DEF TokensTypeOK
  <2>5. touched' = touched \cup {t} /\ revocations' = revocations /\ revoked' = revoked
    BY <1>2 DEF RevokeBegins
  <2> QED
    BY <1>0, <2>4, <2>5 DEF Listed
<1>3. ASSUME NEW r \in Revokers, RevokeMarks(r) PROVE Listed'
  <2>1. revoker' = [revoker EXCEPT ![r].at = "list"] /\ revoker[r].at = "mark"
    BY <1>3 DEF RevokeMarks
  <2>2. \A s \in Revokers : revoker'[s] = revoker[s] \/ (s = r /\ revoker'[s].token = revoker[r].token)
    BY <2>1 DEF TokensTypeOK, Ending
  <2>3. UNCHANGED <<revocations, revoked, touched>>
    BY <1>3 DEF RevokeMarks
  <2> QED
    BY <1>0, <2>1, <2>2, <2>3 DEF Listed
<1>4. ASSUME NEW r \in Revokers, RevokeLists(r) \/ RevokeDies(r) PROVE Listed'
  <2>1. revoker' = [revoker EXCEPT ![r] = Idle] /\ revoker[r].at # "idle" /\ touched' = touched
    BY <1>4 DEF RevokeLists, RevokeDies
  <2>2. \A s \in Revokers : revoker'[s] = revoker[s] \/ revoker'[s].at = "idle"
    BY <2>1, TokensIdle DEF TokensTypeOK
  <2>3. \/ revocations' = revocations /\ revoked' = revoked
        \/ revocations' = revocations \cup {revoker[r].token} /\ revoked' = revoked \cup {revoker[r].token}
    BY <1>4 DEF RevokeLists, RevokeDies
  <2> QED
    BY <1>0, <2>1, <2>2, <2>3 DEF Listed
<1>5. CASE DayPasses \/ UNCHANGED tokenVars \/ Verifying
  BY <1>1, <1>5 DEF DayPasses, tokenVars, tableVars, Verifying, Present, ChecksList, ChecksRow, ChecksMinter, CustomAnswers, Goes
<1>6. CASE Minting
  BY <1>1, <1>6 DEF Minting, Mint, DeleteMinter, ResetMinters
<1>7. CASE Revoking
  <2>1. CASE PruneTokens
    BY <1>1, <2>1 DEF PruneTokens
  <2> QED
    BY <1>2, <1>3, <1>4, <1>7, <2>1 DEF Revoking
<1>8. CASE Counting
  BY <1>1, <1>8 DEF Counting, Counts, FlushUsage, UsageCrash, FlushRow, tableVars
<1>9. UNCHANGED tokenVars \/ DayPasses \/ Minting \/ Revoking \/ Verifying \/ Counting
  BY DEF TokensNext
<1> QED
  BY <1>5, <1>6, <1>7, <1>8, <1>9

LEMMA StandingStep ==
  ASSUME TokensTypeOK, Standing, [TokensNext]_tokenVars
  PROVE  Standing'
<1>1. Listed' /\ OpenAll' /\ \A t \in Tokens : Rowed(t)'
  BY ListedStep, OpenAllStep, RowedStep
<1>2. \A a \in Minters : minter'[a].reset <= day'
  BY TokensGrow
<1> QED
  BY <1>1, <1>2 DEF Standing

(* What flushes under way have yet to write of a token. *)
LEMMA InFlushNone ==
  ASSUME NEW t \in Tokens
  PROVE  InFlush(<<>>, t) = 0
<1>1. [n \in DOMAIN <<>> |-> (<<>>)[n][t]] \in [{} -> Nat]
  OBVIOUS
<1> QED
  BY <1>1, SumOfNone DEF InFlush

LEMMA InFlushAppend ==
  ASSUME NEW L \in Seq([Tokens -> Nat]), NEW now \in [Tokens -> Nat], NEW t \in Tokens
  PROVE  InFlush(Append(L, now), t) = InFlush(L, t) + now[t]
<1>1. PICK M : M = Append(L, now)
  OBVIOUS
<1>2. PICK x \in Nat : x = Len(L) + 1
  OBVIOUS
<1>3. M \in Seq([Tokens -> Nat]) /\ DOMAIN M = 1..x /\ x \in DOMAIN M
  BY <1>1, <1>2
<1>4. M[x] = now /\ DOMAIN L = DOMAIN M \ {x} /\ \A n \in DOMAIN L : M[n] = L[n]
  <2>1. DOMAIN L = 1..Len(L) /\ Len(L) \in Nat
    OBVIOUS
  <2>2. DOMAIN L = DOMAIN M \ {x}
    BY <1>2, <1>3, <2>1
  <2>3. M[Len(L) + 1] = now /\ \A n \in 1..Len(L) : M[n] = L[n]
    BY <1>1
  <2> QED
    BY <1>2, <2>1, <2>2, <2>3
<1>5. PICK D : D = DOMAIN M
  OBVIOUS
<1>6. PICK g : g = [n \in DOMAIN M |-> M[n][t]]
  OBVIOUS
<1>7. PICK r : r = [n \in D \ {x} |-> g[n]]
  OBVIOUS
<1>8. IsFiniteSet(D) /\ g \in [D -> Nat] /\ x \in D
  BY <1>3, <1>5, <1>6, InFlushType
<1>9. SumFunction(g) = g[x] + SumFunction(r)
  <2>1. Without(g, r, D, x)
    BY <1>7, <1>8 DEF Without
  <2> QED
    BY <2>1, SumWithout
<1>10. r = [n \in DOMAIN L |-> L[n][t]]
  BY <1>4, <1>5, <1>6, <1>7
<1>11. SumFunction(r) = InFlush(L, t) /\ SumFunction(g) = InFlush(M, t)
  BY <1>6, <1>10 DEF InFlush
<1>12. g[x] = now[t]
  BY <1>3, <1>4, <1>6
<1>13. InFlush(L, t) \in Nat /\ now[t] \in Nat
  BY InFlushType
<1> QED
  BY <1>1, <1>9, <1>11, <1>12, <1>13

LEMMA InFlushPut ==
  ASSUME NEW L \in Seq([Tokens -> Nat]), NEW n \in DOMAIN L, NEW rest \in [Tokens -> Nat], NEW t \in Tokens
  PROVE  InFlush([L EXCEPT ![n] = rest], t) + L[n][t] = InFlush(L, t) + rest[t]
<1>1. PICK M : M = [L EXCEPT ![n] = rest]
  OBVIOUS
<1>2. M \in Seq([Tokens -> Nat]) /\ DOMAIN M = DOMAIN L /\ M[n] = rest /\ \A m \in DOMAIN L \ {n} : M[m] = L[m]
  BY <1>1, ShorterFlush
<1>3. PICK f : f = [m \in DOMAIN L |-> L[m][t]]
  OBVIOUS
<1>4. PICK g : g = [m \in DOMAIN M |-> M[m][t]]
  OBVIOUS
<1>5. PICK D : D = DOMAIN L
  OBVIOUS
<1>6. IsFiniteSet(D) /\ f \in [D -> Nat] /\ g \in [D -> Nat] /\ n \in D
  <2>1. f \in [D -> Nat] /\ IsFiniteSet(D)
    BY <1>3, <1>5, InFlushType
  <2>2. g \in [D -> Nat]
    BY <1>2, <1>4, <1>5, InFlushType
  <2> QED
    BY <1>5, <2>1, <2>2
<1>7. \A m \in D \ {n} : g[m] = f[m]
  BY <1>2, <1>3, <1>4, <1>5
<1>8. f[n] = L[n][t] /\ g[n] = rest[t]
  BY <1>2, <1>3, <1>4
<1>9. InFlush(L, t) = SumFunction(f) /\ InFlush(M, t) = SumFunction(g)
  BY <1>3, <1>4 DEF InFlush
<1>10. SumFunction(g) + f[n] = SumFunction(f) + g[n]
  <2>1. Differ(f, g, D, n)
    BY <1>6, <1>7 DEF Differ
  <2> QED
    BY <2>1, SumChanged
<1> QED
  BY <1>1, <1>8, <1>9, <1>10

LEMMA InFlushRemoved ==
  ASSUME NEW L \in Seq([Tokens -> Nat]), NEW n \in DOMAIN L, NEW t \in Tokens
  PROVE  InFlush(RemoveAt(L, n), t) + L[n][t] = InFlush(L, t)
<1>1. PICK M : M = RemoveAt(L, n)
  OBVIOUS
<1>2. /\ M \in Seq([Tokens -> Nat]) /\ Len(M) = Len(L) - 1
      /\ \A k \in 1..(Len(L) - 1) : M[k] = L[IF k < n THEN k ELSE k + 1]
  BY <1>1, RemoveAtIs
<1>3. DOMAIN L = 1..Len(L) /\ DOMAIN M = 1..(Len(L) - 1) /\ Len(L) \in Nat /\ n \in 1..Len(L)
  BY <1>2
<1>4. PICK f : f = [m \in DOMAIN L |-> L[m][t]]
  OBVIOUS
<1>5. PICK g : g = [m \in DOMAIN M |-> M[m][t]]
  OBVIOUS
<1>6. PICK r : r = [m \in DOMAIN L \ {n} |-> f[m]]
  OBVIOUS
<1>7. PICK h : h = [k \in DOMAIN M |-> IF k < n THEN k ELSE k + 1]
  OBVIOUS
<1>8. PICK C : C = DOMAIN M
  OBVIOUS
<1>9. PICK D : D = DOMAIN L \ {n}
  OBVIOUS
<1>10. IsFiniteSet(DOMAIN L) /\ f \in [DOMAIN L -> Nat]
  BY <1>4, InFlushType
<1>11. IsFiniteSet(C) /\ g \in [C -> Nat]
  BY <1>2, <1>5, <1>8, InFlushType
<1>12. r \in [D -> Nat]
  BY <1>6, <1>9, <1>10
<1>13. \A k \in C : h[k] \in D /\ h[k] \in Nat /\ k \in Nat /\ h[k] = IF k < n THEN k ELSE k + 1
  BY <1>3, <1>7, <1>8, <1>9
<1>14. h \in Bijection(C, D)
  <2>1. h \in [C -> D]
    BY <1>7, <1>8, <1>13
  <2>2. \A j, k \in C : h[j] = h[k] => j = k
    BY <1>3, <1>13
  <2>3. ASSUME NEW m \in D PROVE \E k \in C : h[k] = m
    <3>1. CASE m < n
      <4>1. m \in C
        BY <1>3, <1>8, <1>9, <3>1
      <4> QED
        BY <1>13, <3>1, <4>1
    <3>2. CASE ~(m < n)
      <4>1. PICK k \in Nat : k = m - 1
        BY <1>3, <1>9, <3>2
      <4>2. k \in C /\ ~(k < n) /\ k + 1 = m
        BY <1>3, <1>8, <1>9, <3>2, <4>1
      <4> QED
        BY <1>13, <4>2
    <3> QED
      BY <3>1, <3>2
  <2> QED
    BY <2>1, <2>2, <2>3 DEF Bijection, Injection, Surjection, IsInjective
<1>15. \A k \in C : r[h[k]] = g[k]
  <2> SUFFICES ASSUME NEW k \in C PROVE r[h[k]] = g[k]
    OBVIOUS
  <2>1. PICK m \in D : m = h[k]
    BY <1>13
  <2>2. M[k] = L[m]
    BY <1>2, <1>3, <1>8, <1>13, <2>1
  <2> QED
    BY <1>4, <1>5, <1>6, <1>8, <1>9, <2>1, <2>2
<1>16. SumFunction(r) = SumFunction(g)
  <2>1. Carried(g, r, C, D, h)
    BY <1>11, <1>12, <1>14, <1>15 DEF Carried
  <2> QED
    BY <2>1, SumRenamed
<1>17. SumFunction(f) = f[n] + SumFunction(r)
  <2>1. Without(f, r, DOMAIN L, n)
    BY <1>6, <1>10 DEF Without
  <2> QED
    BY <2>1, SumWithout
<1>18. f[n] = L[n][t] /\ f[n] \in Nat
  BY <1>4, <1>10
<1>19. SumFunction(g) \in Nat
  BY <1>11, SumType
<1>20. InFlush(L, t) = SumFunction(f) /\ InFlush(M, t) = SumFunction(g)
  BY <1>4, <1>5 DEF InFlush
<1> QED
  BY <1>1, <1>16, <1>17, <1>18, <1>19, <1>20

(* What all processes have not written: it changes by what changes with one of them. *)
UnwrittenOf(B, F, t) == SumFunction([p \in TokenProcs |-> B[p][t] + InFlush(F[p], t)])

LEMMA UnwrittenIs ==
  ASSUME NEW t \in Tokens
  PROVE  Unwritten(t) = UnwrittenOf(buffer, flushes, t)
BY DEF Unwritten, UnwrittenOf, InFlush

LEMMA UnwrittenType ==
  ASSUME NEW B \in [TokenProcs -> [Tokens -> Nat]], NEW F \in [TokenProcs -> Seq([Tokens -> Nat])], NEW t \in Tokens
  PROVE  /\ [p \in TokenProcs |-> B[p][t] + InFlush(F[p], t)] \in [TokenProcs -> Nat]
         /\ UnwrittenOf(B, F, t) \in Nat
<1>1. \A p \in TokenProcs : InFlush(F[p], t) \in Nat
  BY InFlushType
<1>2. [p \in TokenProcs |-> B[p][t] + InFlush(F[p], t)] \in [TokenProcs -> Nat]
  BY <1>1
<1> QED
  BY <1>2, TokensAssumption, SumType DEF UnwrittenOf

OnlyOf(p, B, F, C, G) ==
  /\ B \in [TokenProcs -> [Tokens -> Nat]] /\ F \in [TokenProcs -> Seq([Tokens -> Nat])]
  /\ C \in [TokenProcs -> [Tokens -> Nat]] /\ G \in [TokenProcs -> Seq([Tokens -> Nat])]
  /\ \A q \in TokenProcs \ {p} : C[q] = B[q] /\ G[q] = F[q]

LEMMA UnwrittenChanged ==
  ASSUME NEW p \in TokenProcs, NEW B, NEW F, NEW C, NEW G, OnlyOf(p, B, F, C, G), NEW t \in Tokens
  PROVE  UnwrittenOf(C, G, t) + (B[p][t] + InFlush(F[p], t))
           = UnwrittenOf(B, F, t) + (C[p][t] + InFlush(G[p], t))
<1> USE DEF OnlyOf
<1>1. PICK f : f = [q \in TokenProcs |-> B[q][t] + InFlush(F[q], t)]
  OBVIOUS
<1>2. PICK g : g = [q \in TokenProcs |-> C[q][t] + InFlush(G[q], t)]
  OBVIOUS
<1>3. f \in [TokenProcs -> Nat] /\ g \in [TokenProcs -> Nat]
  <2>1. \A q \in TokenProcs : InFlush(F[q], t) \in Nat /\ InFlush(G[q], t) \in Nat
    BY InFlushType
  <2>2. \A q \in TokenProcs : f[q] \in Nat /\ g[q] \in Nat
    <3> SUFFICES ASSUME NEW q \in TokenProcs PROVE f[q] \in Nat /\ g[q] \in Nat
      OBVIOUS
    <3>1. PICK a \in Nat, b \in Nat, c \in Nat, d \in Nat :
            a = B[q][t] /\ b = InFlush(F[q], t) /\ c = C[q][t] /\ d = InFlush(G[q], t)
      BY <2>1
    <3>2. f[q] = a + b /\ g[q] = c + d
      BY <1>1, <1>2, <3>1
    <3> QED
      BY <3>2
  <2> QED
    BY <1>1, <1>2, <2>2
<1>4. \A q \in TokenProcs \ {p} : g[q] = f[q]
  BY <1>1, <1>2
<1>5. UnwrittenOf(B, F, t) = SumFunction(f) /\ UnwrittenOf(C, G, t) = SumFunction(g)
  BY <1>1, <1>2 DEF UnwrittenOf
<1>6. f[p] = B[p][t] + InFlush(F[p], t) /\ g[p] = C[p][t] + InFlush(G[p], t)
  BY <1>1, <1>2
<1>7. SumFunction(g) + f[p] = SumFunction(f) + g[p]
  <2>1. Differ(f, g, TokenProcs, p)
    BY <1>3, <1>4, TokensAssumption DEF Differ
  <2> QED
    BY <2>1, SumChanged
<1> QED
  BY <1>5, <1>6, <1>7

(* A process passes its count on to a flush, or counts a use: what it has not written is *)
(* what it counted.                                                                      *)
LEMMA FlushedKeeps ==
  ASSUME NEW p \in TokenProcs, NEW now \in [Tokens -> Nat],
         buffer \in [TokenProcs -> [Tokens -> Nat]], flushes \in [TokenProcs -> Seq([Tokens -> Nat])],
         \/ Flushed(p, now)
         \/ buffer' = [buffer EXCEPT ![p] = now] /\ flushes' = flushes
  PROVE  \A t \in Tokens : Unwritten(t)' + buffer[p][t] = Unwritten(t) + now[t]
<1>1. /\ buffer' \in [TokenProcs -> [Tokens -> Nat]] /\ flushes' \in [TokenProcs -> Seq([Tokens -> Nat])]
      /\ \A q \in TokenProcs \ {p} : buffer'[q] = buffer[q] /\ flushes'[q] = flushes[q]
      /\ \/ buffer'[p] = now /\ flushes'[p] = flushes[p]
         \/ buffer'[p] = Nothing /\ flushes'[p] = Append(flushes[p], now)
  <2>1. CASE Flushed(p, now)
    BY <2>1, FlushedTypes
  <2>2. CASE buffer' = [buffer EXCEPT ![p] = now] /\ flushes' = flushes
    BY <2>2
  <2> QED
    BY <2>1, <2>2
<1> SUFFICES ASSUME NEW t \in Tokens PROVE Unwritten(t)' + buffer[p][t] = Unwritten(t) + now[t]
  OBVIOUS
<1>2. PICK B \in [TokenProcs -> [Tokens -> Nat]], F \in [TokenProcs -> Seq([Tokens -> Nat])] :
        B = buffer /\ F = flushes
  OBVIOUS
<1>3. PICK C \in [TokenProcs -> [Tokens -> Nat]], G \in [TokenProcs -> Seq([Tokens -> Nat])] :
        C = buffer' /\ G = flushes'
  BY <1>1
<1>4. Unwritten(t) = UnwrittenOf(B, F, t) /\ Unwritten(t)' = UnwrittenOf(C, G, t)
  BY <1>2, <1>3 DEF Unwritten, UnwrittenOf, InFlush
<1>5. UnwrittenOf(C, G, t) + (B[p][t] + InFlush(F[p], t)) = UnwrittenOf(B, F, t) + (C[p][t] + InFlush(G[p], t))
  <2>1. OnlyOf(p, B, F, C, G)
    BY <1>1, <1>2, <1>3 DEF OnlyOf
  <2> QED
    BY <2>1, UnwrittenChanged
<1>6. C[p][t] + InFlush(G[p], t) = now[t] + InFlush(F[p], t)
  <2>1. CASE buffer'[p] = now /\ flushes'[p] = flushes[p]
    BY <1>2, <1>3, <2>1
  <2>2. CASE buffer'[p] = Nothing /\ flushes'[p] = Append(flushes[p], now)
    <3>1. C[p][t] = 0
      BY <1>3, <2>2 DEF Nothing
    <3>2. InFlush(G[p], t) = InFlush(F[p], t) + now[t] /\ InFlush(F[p], t) \in Nat
      <4>1. PICK L \in Seq([Tokens -> Nat]) : L = F[p]
        OBVIOUS
      <4>2. G[p] = Append(L, now)
        BY <1>2, <1>3, <2>2, <4>1
      <4>3. InFlush(Append(L, now), t) = InFlush(L, t) + now[t] /\ InFlush(L, t) \in Nat
        BY InFlushAppend, InFlushType
      <4> QED
        BY <4>1, <4>2, <4>3
    <3>3. now[t] \in Nat
      OBVIOUS
    <3> QED
      BY <3>1, <3>2, <3>3
  <2> QED
    BY <1>1, <2>1, <2>2
<1>7. UnwrittenOf(C, G, t) \in Nat /\ UnwrittenOf(B, F, t) \in Nat /\ InFlush(F[p], t) \in Nat
      /\ B[p][t] \in Nat /\ now[t] \in Nat
  <2>1. UnwrittenOf(C, G, t) \in Nat /\ UnwrittenOf(B, F, t) \in Nat
    BY UnwrittenType
  <2>2. InFlush(F[p], t) \in Nat
    BY InFlushType
  <2> QED
    BY <2>1, <2>2
<1>8. UnwrittenOf(C, G, t) + B[p][t] = UnwrittenOf(B, F, t) + now[t]
  <2>1. PICK c \in Nat, b \in Nat, k \in Nat, x \in Nat, n \in Nat :
          /\ c = UnwrittenOf(C, G, t) /\ b = UnwrittenOf(B, F, t)
          /\ k = InFlush(F[p], t) /\ x = B[p][t] /\ n = now[t]
    BY <1>7
  <2>2. c + (x + k) = b + (n + k)
    BY <1>5, <1>6, <2>1
  <2>3. c + x = b + n
    BY <2>2
  <2> QED
    BY <2>1, <2>3
<1> QED
  BY <1>2, <1>4, <1>8

(* The same of a flush that writes a row, and of a crash. *)
LEMMA UnwrittenStep ==
  ASSUME NEW p \in TokenProcs, NEW t \in Tokens, TokensTypeOK, TokensTypeOK',
         \A q \in TokenProcs \ {p} : buffer'[q] = buffer[q] /\ flushes'[q] = flushes[q],
         NEW a \in Nat, NEW d \in Nat,
         a = buffer[p][t] + InFlush(flushes[p], t),
         a = d + (buffer'[p][t] + InFlush(flushes'[p], t))
  PROVE  Unwritten(t) = Unwritten(t)' + d /\ Unwritten(t) \in Nat /\ Unwritten(t)' \in Nat
<1>2. PICK B \in [TokenProcs -> [Tokens -> Nat]], F \in [TokenProcs -> Seq([Tokens -> Nat])] :
        B = buffer /\ F = flushes
  BY DEF TokensTypeOK
<1>3. PICK C \in [TokenProcs -> [Tokens -> Nat]], G \in [TokenProcs -> Seq([Tokens -> Nat])] :
        C = buffer' /\ G = flushes'
  BY DEF TokensTypeOK
<1>4. Unwritten(t) = UnwrittenOf(B, F, t) /\ Unwritten(t)' = UnwrittenOf(C, G, t)
  BY <1>2, <1>3 DEF Unwritten, UnwrittenOf, InFlush
<1>5. UnwrittenOf(C, G, t) + (B[p][t] + InFlush(F[p], t)) = UnwrittenOf(B, F, t) + (C[p][t] + InFlush(G[p], t))
  <2>1. OnlyOf(p, B, F, C, G)
    BY <1>2, <1>3 DEF OnlyOf
  <2> QED
    BY <2>1, UnwrittenChanged
<1>6. UnwrittenOf(C, G, t) \in Nat /\ UnwrittenOf(B, F, t) \in Nat /\ InFlush(G[p], t) \in Nat /\ C[p][t] \in Nat
  BY UnwrittenType, InFlushType
<1>7. PICK c \in Nat, b \in Nat, e \in Nat :
        c = UnwrittenOf(C, G, t) /\ b = UnwrittenOf(B, F, t) /\ e = C[p][t] + InFlush(G[p], t)
  BY <1>6
<1>8. c + a = b + e /\ a = d + e
  BY <1>2, <1>3, <1>5, <1>7
<1>9. b = c + d
  BY ONLY <1>8, a \in Nat, b \in Nat, c \in Nat, d \in Nat, e \in Nat
<1> QED
  BY <1>4, <1>7, <1>9

LEMMA UnwrittenSame ==
  ASSUME UNCHANGED <<buffer, flushes>>
  PROVE  \A t \in Tokens : Unwritten(t)' = Unwritten(t)
BY DEF Unwritten

LEMMA CountsInit == TokensInit => CountsUses
<1> SUFFICES ASSUME TokensInit, NEW t \in Tokens PROVE tokenRow[t].count + Unwritten(t) + missed[t] = uses[t]
  BY DEF CountsUses
<1>1. tokenRow[t].count = 0 /\ missed[t] = 0 /\ uses[t] = 0
  BY DEF TokensInit, NoRow, Nothing
<1>2. UnwrittenOf(buffer, flushes, t) = 0
  <2>1. PICK f : f = [p \in TokenProcs |-> buffer[p][t] + InFlush(flushes[p], t)]
    OBVIOUS
  <2>2. \A p \in TokenProcs : buffer[p][t] = 0 /\ InFlush(flushes[p], t) = 0
    BY InFlushNone DEF TokensInit, Nothing
  <2>3. \A p \in TokenProcs : f[p] = 0
    BY <2>1, <2>2
  <2>4. f \in [TokenProcs -> Nat]
    BY <2>1, <2>3
  <2>5. SumFunction(f) = 0
    <3>1. Units(f, TokenProcs) = {}
      BY <2>3, <2>4 DEF Units
    <3> QED
      BY <2>4, <3>1, TokensAssumption, SumIsCount, FS_EmptySet
  <2> QED
    BY <2>1, <2>5 DEF UnwrittenOf
<1> QED
  BY <1>1, <1>2, UnwrittenIs

LEMMA CountsUsesStep ==
  ASSUME TokensTypeOK, TokensTypeOK', Standing, CountsUses, [TokensNext]_tokenVars
  PROVE  CountsUses'
<1> SUFFICES ASSUME NEW s \in Tokens
             PROVE  (tokenRow[s].count + Unwritten(s) + missed[s] = uses[s])'
  BY DEF CountsUses
<1>0. /\ tokenRow[s].count \in Nat /\ missed[s] \in Nat /\ uses[s] \in Nat /\ Unwritten(s) \in Nat
      /\ tokenRow[s].count + Unwritten(s) + missed[s] = uses[s]
  <2>1. buffer \in [TokenProcs -> [Tokens -> Nat]] /\ flushes \in [TokenProcs -> Seq([Tokens -> Nat])]
    BY DEF TokensTypeOK
  <2>2. Unwritten(s) \in Nat
    BY <2>1, UnwrittenType, UnwrittenIs
  <2> QED
    BY <2>2 DEF TokensTypeOK, TokenRow, CountsUses
<1>1. CASE UNCHANGED <<buffer, flushes, uses, missed>> /\ tokenRow'[s].count = tokenRow[s].count
  BY <1>0, <1>1, UnwrittenSame
<1>2. ASSUME NEW t \in Tokens, NEW a \in Minters, NEW life \in Lives, Mint(t, a, life)
      PROVE  UNCHANGED <<buffer, flushes, uses, missed>> /\ tokenRow'[s].count = tokenRow[s].count
  <2>1. CASE s # t
    BY <1>2, <2>1 DEF Mint, TokensTypeOK, countVars
  <2>2. CASE s = t
    <3>1. tokenRow[s] = NoRow
      BY <1>2, <2>2 DEF Mint, Standing, Rowed
    <3>2. tokenRow'[s] = [NoRow EXCEPT !.there = TRUE]
      BY <1>2, <2>2 DEF Mint, TokensTypeOK
    <3>3. NoRow.count = 0 /\ [NoRow EXCEPT !.there = TRUE].count = 0
      BY DEF NoRow
    <3> QED
      BY <1>2, <3>1, <3>2, <3>3 DEF Mint, countVars
  <2> QED
    BY <2>1, <2>2
<1>3. ASSUME NEW r \in Revokers, RevokeMarks(r)
      PROVE  UNCHANGED <<buffer, flushes, uses, missed>> /\ tokenRow'[s].count = tokenRow[s].count
  <2>1. PICK t : t = revoker[r].token
    OBVIOUS
  <2>2. tokenRow' = [tokenRow EXCEPT ![t].revokedAt = IF tokenRow[t].there THEN day ELSE @]
    BY <1>3, <2>1 DEF RevokeMarks
  <2>3. PICK e : e = IF tokenRow[t].there THEN day ELSE tokenRow[t].revokedAt
    OBVIOUS
  <2>4. tokenRow'[s] = tokenRow[s] \/ tokenRow'[s] = [tokenRow[s] EXCEPT !.revokedAt = e]
    BY <2>2, <2>3 DEF TokensTypeOK
  <2>5. tokenRow'[s].count = tokenRow[s].count
    BY <2>4 DEF TokensTypeOK, TokenRow
  <2> QED
    BY <1>3, <2>5 DEF RevokeMarks, countVars
<1>4. CASE PruneTokens
  <2>1. Unwritten(s)' = Unwritten(s) /\ uses' = uses
    BY <1>4, UnwrittenSame DEF PruneTokens
  <2>2. CASE Stale(s)
    <3>1. tokenRow'[s] = NoRow /\ missed'[s] = missed[s] + tokenRow[s].count
      BY <1>4, <2>2 DEF PruneTokens
    <3>2. NoRow.count = 0
      BY DEF NoRow
    <3> QED
      BY <1>0, <2>1, <3>1, <3>2
  <2>3. CASE ~Stale(s)
    BY <1>0, <1>4, <2>1, <2>3 DEF PruneTokens
  <2> QED
    BY <2>2, <2>3
<1>5. ASSUME NEW b \in Bearers, NEW p \in TokenProcs, Counts(b, p)
      PROVE  (tokenRow[s].count + Unwritten(s) + missed[s] = uses[s])'
  <2>1. PICK t : t = bearer[b].token
    OBVIOUS
  <2>2. t \in Tokens /\ buffer[p] \in [Tokens -> Nat]
    BY <1>5, <2>1 DEF TokensTypeOK, Counts
  <2>3. PICK now : now = [buffer[p] EXCEPT ![t] = @ + 1]
    OBVIOUS
  <2>4. now \in [Tokens -> Nat]
    BY <2>2, <2>3
  <2>5. Flushed(p, now) \/ (buffer' = [buffer EXCEPT ![p] = now] /\ flushes' = flushes)
    <3>1. ASSUME NEW x, x = [buffer[p] EXCEPT ![bearer[b].token] = @ + 1]
          PROVE  Flushed(p, x) \/ (buffer' = [buffer EXCEPT ![p] = x] /\ flushes' = flushes)
      BY <1>5, <3>1 DEF Counts
    <3> QED
      BY <2>1, <2>3, <3>1
  <2>6. Unwritten(s)' + buffer[p][s] = Unwritten(s) + now[s]
    BY <2>4, <2>5, FlushedKeeps DEF TokensTypeOK
  <2>7. now[s] = buffer[p][s] + (IF s = t THEN 1 ELSE 0) /\ buffer[p][s] \in Nat
    BY <2>2, <2>3
  <2>8. uses'[s] = uses[s] + (IF s = t THEN 1 ELSE 0)
    <3>1. uses' = [uses EXCEPT ![t] = uses[t] + 1]
      BY <1>5, <2>1 DEF Counts
    <3> QED
      BY <1>0, <3>1 DEF TokensTypeOK
  <2>9. tokenRow' = tokenRow /\ missed' = missed
    BY <1>5 DEF Counts, tableVars
  <2>10. Unwritten(s)' \in Nat
    <3>1. buffer' \in [TokenProcs -> [Tokens -> Nat]] /\ flushes' \in [TokenProcs -> Seq([Tokens -> Nat])]
      BY DEF TokensTypeOK
    <3>2. UnwrittenOf(buffer', flushes', s) \in Nat
      BY <3>1, UnwrittenType
    <3> QED
      BY <3>2 DEF Unwritten, UnwrittenOf, InFlush
  <2>11. PICK one \in Nat : one = IF s = t THEN 1 ELSE 0
    OBVIOUS
  <2>12. Unwritten(s)' = Unwritten(s) + one
    BY <1>0, <2>6, <2>7, <2>10, <2>11
  <2> QED
    BY <1>0, <2>8, <2>9, <2>11, <2>12
<1>6. ASSUME NEW p \in TokenProcs, FlushUsage(p)
      PROVE  (tokenRow[s].count + Unwritten(s) + missed[s] = uses[s])'
  <2>1. buffer[p] \in [Tokens -> Nat]
    BY DEF TokensTypeOK
  <2>2. Unwritten(s)' + buffer[p][s] = Unwritten(s) + buffer[p][s]
    BY <1>6, <2>1, FlushedKeeps DEF FlushUsage, TokensTypeOK
  <2>3. Unwritten(s)' \in Nat
    <3>1. buffer' \in [TokenProcs -> [Tokens -> Nat]] /\ flushes' \in [TokenProcs -> Seq([Tokens -> Nat])]
      BY DEF TokensTypeOK
    <3>2. UnwrittenOf(buffer', flushes', s) \in Nat
      BY <3>1, UnwrittenType
    <3> QED
      BY <3>2 DEF Unwritten, UnwrittenOf, InFlush
  <2>4. buffer[p][s] \in Nat
    BY <2>1
  <2>5. Unwritten(s)' = Unwritten(s)
    BY <1>0, <2>2, <2>3, <2>4
  <2>6. tokenRow' = tokenRow /\ missed' = missed /\ uses' = uses
    BY <1>6 DEF FlushUsage, tableVars
  <2> QED
    BY <1>0, <2>5, <2>6
<1>7. ASSUME NEW p \in TokenProcs, UsageCrash(p)
      PROVE  (tokenRow[s].count + Unwritten(s) + missed[s] = uses[s])'
  <2>1. buffer' = [buffer EXCEPT ![p] = Nothing] /\ flushes' = [flushes EXCEPT ![p] = <<>>]
    BY <1>7 DEF UsageCrash
  <2>2. \A q \in TokenProcs \ {p} : buffer'[q] = buffer[q] /\ flushes'[q] = flushes[q]
    BY <2>1 DEF TokensTypeOK
  <2>3. buffer'[p][s] = 0 /\ flushes'[p] = <<>>
    BY <2>1 DEF TokensTypeOK, Nothing
  <2>4. InFlush(flushes'[p], s) = 0
    BY <2>3, InFlushNone
  <2>5. buffer[p][s] \in Nat /\ InFlush(flushes[p], s) \in Nat
    BY InFlushType DEF TokensTypeOK
  <2>6. PICK a \in Nat : a = buffer[p][s] + InFlush(flushes[p], s)
    BY <2>5
  <2>7. a = a + (buffer'[p][s] + InFlush(flushes'[p], s))
    BY <2>3, <2>4
  <2>8. Unwritten(s) = Unwritten(s)' + a /\ Unwritten(s)' \in Nat
    BY <2>2, <2>6, <2>7, UnwrittenStep
  <2>9. missed'[s] = missed[s] + buffer[p][s] + InFlush(flushes[p], s)
    BY <1>7 DEF UsageCrash, InFlush
  <2>10. missed'[s] = missed[s] + a
    BY <1>0, <2>5, <2>6, <2>9
  <2>11. tokenRow' = tokenRow /\ uses' = uses
    BY <1>7 DEF UsageCrash, tableVars
  <2> QED
    BY <1>0, <2>8, <2>10, <2>11
<1>8. ASSUME NEW p \in TokenProcs, NEW t \in Tokens, NEW fails \in BOOLEAN, NEW n \in DOMAIN flushes[p],
             FlushRow(p, n, t, fails)
      PROVE  (tokenRow[s].count + Unwritten(s) + missed[s] = uses[s])'
  <2>1. PICK L : L = flushes[p]
    OBVIOUS
  <2>2. L \in Seq([Tokens -> Nat]) /\ n \in DOMAIN L
    BY <2>1 DEF TokensTypeOK
  <2>3. PICK rest : rest = [L[n] EXCEPT ![t] = 0]
    OBVIOUS
  <2>4. L[n] \in [Tokens -> Nat] /\ rest \in [Tokens -> Nat]
    BY <2>2, <2>3
  <2>5. PICK c \in Nat : c = L[n][t]
    BY <2>4
  <2>6. PICK M : M = IF rest = Nothing THEN RemoveAt(L, n) ELSE [L EXCEPT ![n] = rest]
    OBVIOUS
  <2>7. flushes' = [flushes EXCEPT ![p] = M] /\ buffer' = buffer
    BY <1>8, <2>1, <2>3, <2>6 DEF FlushRow
  <2>8. flushes'[p] = M /\ \A q \in TokenProcs \ {p} : buffer'[q] = buffer[q] /\ flushes'[q] = flushes[q]
    BY <2>7 DEF TokensTypeOK
  <2>9. PICK d \in Nat : d = IF s = t THEN c ELSE 0
    OBVIOUS
  <2>10. L[n][s] = rest[s] + d /\ rest[s] \in Nat /\ L[n][s] \in Nat
    BY <2>3, <2>4, <2>5, <2>9
  <2>11. InFlush(L, s) \in Nat /\ InFlush(M, s) \in Nat
    <3>1. M \in Seq([Tokens -> Nat])
      BY <2>8 DEF TokensTypeOK
    <3> QED
      BY <2>2, <3>1, InFlushType
  <2>12. InFlush(M, s) + d = InFlush(L, s)
    <3>1. CASE rest = Nothing
      <4>1. InFlush(M, s) + L[n][s] = InFlush(L, s)
        BY <2>2, <2>6, <3>1, InFlushRemoved
      <4>2. rest[s] = 0
        BY <3>1 DEF Nothing
      <4> QED
        BY <2>10, <4>1, <4>2
    <3>2. CASE rest # Nothing
      <4>1. InFlush(M, s) + L[n][s] = InFlush(L, s) + rest[s]
        BY <2>2, <2>4, <2>6, <3>2, InFlushPut
      <4> QED
        BY <2>10, <2>11, <4>1
    <3> QED
      BY <3>1, <3>2
  <2>13. buffer[p][s] \in Nat /\ buffer'[p][s] = buffer[p][s]
    BY <2>7 DEF TokensTypeOK
  <2>14. PICK a \in Nat : a = buffer[p][s] + InFlush(L, s)
    BY <2>11, <2>13
  <2>15. a = d + (buffer'[p][s] + InFlush(flushes'[p], s))
    BY <2>8, <2>11, <2>12, <2>13, <2>14
  <2>16. Unwritten(s) = Unwritten(s)' + d /\ Unwritten(s)' \in Nat
    BY <2>1, <2>8, <2>14, <2>15, UnwrittenStep
  <2>17. uses' = uses
    BY <1>8 DEF FlushRow
  <2>18. \/ tokenRow' = [tokenRow EXCEPT ![t].count = tokenRow[t].count + c] /\ missed' = missed
         \/ tokenRow' = tokenRow /\ missed' = [missed EXCEPT ![t] = missed[t] + c]
    BY <1>8, <2>1, <2>5 DEF FlushRow
  <2>19. \/ tokenRow'[s].count = tokenRow[s].count + d /\ missed'[s] = missed[s]
         \/ tokenRow'[s].count = tokenRow[s].count /\ missed'[s] = missed[s] + d
    <3>1. CASE tokenRow' = [tokenRow EXCEPT ![t].count = tokenRow[t].count + c] /\ missed' = missed
      <4>1. PICK e : e = tokenRow[t].count + c
        OBVIOUS
      <4>2. tokenRow'[s] = IF s = t THEN [tokenRow[s] EXCEPT !.count = e] ELSE tokenRow[s]
        BY <3>1, <4>1 DEF TokensTypeOK
      <4>3. tokenRow'[s].count = IF s = t THEN e ELSE tokenRow[s].count
        BY <4>2 DEF TokensTypeOK, TokenRow
      <4> QED
        BY <1>0, <2>9, <3>1, <4>1, <4>3
    <3>2. CASE tokenRow' = tokenRow /\ missed' = [missed EXCEPT ![t] = missed[t] + c]
      <4>1. PICK e : e = missed[t] + c
        OBVIOUS
      <4>2. missed'[s] = IF s = t THEN e ELSE missed[s]
        BY <3>2, <4>1 DEF TokensTypeOK
      <4> QED
        BY <1>0, <2>9, <3>2, <4>1, <4>2
    <3> QED
      BY <2>18, <3>1, <3>2
  <2> QED
    BY <1>0, <2>9, <2>16, <2>17, <2>19
<1>9. CASE DayPasses \/ UNCHANGED tokenVars \/ Verifying
  BY <1>1, <1>9 DEF DayPasses, tokenVars, tableVars, countVars, Verifying, Present, ChecksList, ChecksRow, ChecksMinter, CustomAnswers, Goes
<1>10. CASE Minting
  <2>1. ASSUME NEW a \in Minters, NEW A \in SUBSET Minters, DeleteMinter(a) \/ ResetMinters(A)
        PROVE  UNCHANGED <<buffer, flushes, uses, missed>> /\ tokenRow'[s].count = tokenRow[s].count
    BY <2>1 DEF DeleteMinter, ResetMinters, countVars
  <2>2. CASE ResetMinters(Minters)
    BY <1>1, <2>2 DEF ResetMinters, countVars
  <2>3. CASE \E a \in Minters : DeleteMinter(a) \/ ResetMinters({a})
    BY <1>1, <2>3 DEF DeleteMinter, ResetMinters, countVars
  <2> QED
    BY <1>1, <1>2, <1>10, <2>2, <2>3 DEF Minting
<1>11. CASE Revoking
  <2>1. CASE \E r \in Revokers : RevokeLists(r) \/ RevokeDies(r)
    BY <1>1, <2>1 DEF RevokeLists, RevokeDies, countVars
  <2>2. CASE \E r \in Revokers, t \in Tokens : RevokeBegins(r, t)
    BY <1>1, <2>2 DEF RevokeBegins, countVars
  <2>3. CASE \E r \in Revokers : RevokeMarks(r)
    BY <1>1, <1>3, <2>3
  <2> QED
    BY <1>4, <1>11, <2>1, <2>2, <2>3 DEF Revoking
<1>12. CASE Counting
  BY <1>5, <1>6, <1>7, <1>8, <1>12 DEF Counting
<1>13. UNCHANGED tokenVars \/ DayPasses \/ Minting \/ Revoking \/ Verifying \/ Counting
  BY DEF TokensNext
<1> QED
  BY <1>4, <1>9, <1>10, <1>11, <1>12, <1>13

(* A request is let in only with a token that stood when it came, and turned away only with  *)
(* one that has expired, was begun to be revoked or whose minter stands no more; and each     *)
(* request with a token is counted once: in a buffer, a flush, its row, or as lost with a      *)
(* crash, a failed write or the row itself (verifyAuthToken, recordApiTokenUsage): for any     *)
(* tokens, administrators, requests, revokers and lifetimes and any finite set of processes.   *)
THEOREM TokensStayHonest == TokensSpec => []TokensHonest
<1> DEFINE TInv == TokensTypeOK /\ Standing /\ CountsUses
<1>1. TokensInit => TInv
  BY TokensTypeInit, StandingInit, CountsInit
<1>2. TInv /\ [TokensNext]_tokenVars => TInv'
  <2> SUFFICES ASSUME TInv, [TokensNext]_tokenVars PROVE TInv'
    OBVIOUS
  <2>1. TokensTypeOK'
    BY TokensTypeStep
  <2>2. Standing'
    BY StandingStep
  <2>3. CountsUses'
    BY <2>1, CountsUsesStep
  <2> QED
    BY <2>1, <2>2, <2>3
<1>3. TInv => TokensHonest
  BY StandingAdmits DEF TokensHonest
<1> QED
  BY <1>1, <1>2, <1>3, PTL DEF TokensSpec

-----------------------------------------------------------------------------
(* The rate of the last seconds. *)

RateTypeOK ==
  /\ second \in 0..MaxSecond /\ lastTick \in 0..second /\ astray \in BOOLEAN
  /\ hits \in [0..MaxSecond -> 0..MaxHits]
  /\ buckets \in [0..(Span - 1) -> 0..(Word - 1)]

(* The ring holds, of each of the last Span seconds before its last tick, the requests. *)
HitsAt(s) == IF s \in 0..MaxSecond THEN hits[s] ELSE 0
Ring ==
  ~astray => /\ \A s \in (lastTick - Span + 1)..lastTick : buckets[s % Span] = HitsAt(s)
             /\ \A s \in 0..MaxSecond : s > lastTick => hits[s] = 0

LEMMA RateInit == LogsInit => RateTypeOK /\ Ring
<1> SUFFICES ASSUME LogsInit PROVE RateTypeOK /\ Ring
  OBVIOUS
<1> USE LogsAssumption
<1>1. RateTypeOK
  <2>1. buckets \in [0..(Span - 1) -> 0..(Word - 1)]
    BY DEF LogsInit
  <2>2. hits \in [0..MaxSecond -> 0..MaxHits]
    BY DEF LogsInit
  <2>3. second \in 0..MaxSecond /\ lastTick \in 0..second /\ astray \in BOOLEAN
    <3>1. second = 0 /\ lastTick = 0 /\ astray = FALSE
      BY DEF LogsInit
    <3>2. 0 \in 0..MaxSecond /\ 0 \in 0..0
      OBVIOUS
    <3> QED
      BY <3>1, <3>2
  <2> QED
    BY <2>1, <2>2, <2>3 DEF RateTypeOK
<1>2. \A s \in (lastTick - Span + 1)..lastTick : buckets[s % Span] = HitsAt(s)
  <2> SUFFICES ASSUME NEW s \in (lastTick - Span + 1)..lastTick PROVE buckets[s % Span] = HitsAt(s)
    OBVIOUS
  <2>1. s \in Int
    BY DEF LogsInit
  <2>2. PICK i \in 0..(Span - 1) : i = s % Span
    BY <2>1, Divides
  <2>3. buckets[i] = 0 /\ HitsAt(s) = 0
    BY DEF LogsInit, HitsAt
  <2> QED
    BY <2>2, <2>3
<1>3. \A s \in 0..MaxSecond : hits[s] = 0
  BY DEF LogsInit
<1> QED
  BY <1>1, <1>2, <1>3 DEF Ring

LEMMA DriftIs ==
  ASSUME RateTypeOK
  PROVE  /\ Drift \in 0..Span /\ Drift <= second - lastTick
         /\ second - lastTick <= Span => Drift = second - lastTick
<1> USE LogsAssumption
<1>1. PICK d \in Nat : d = second - lastTick
  BY DEF RateTypeOK
<1>2. \E x \in {Span, d} : \A y \in {Span, d} : x <= y
  OBVIOUS
<1>3. Drift \in {Span, d} /\ Drift <= Span /\ Drift <= d
  BY <1>1, <1>2 DEF Drift, Min
<1> QED
  BY <1>1, <1>3

(* A bump clears what is behind the new window and nothing in it. *)
LEMMA ClearedIs ==
  ASSUME RateTypeOK, Ring
  PROVE  /\ Cleared \in [0..(Span - 1) -> 0..(Word - 1)]
         /\ lastTick + Drift \in 0..second
         /\ ~astray /\ ~(second - lastTick > Span) =>
              /\ lastTick + Drift = second
              /\ \A s \in (second - Span + 1)..second : Cleared[s % Span] = HitsAt(s)
<1> USE LogsAssumption
<1>1. Drift \in 0..Span /\ Drift <= second - lastTick /\ second \in Nat /\ lastTick \in Nat
  BY DriftIs DEF RateTypeOK
<1>2. DOMAIN buckets = 0..(Span - 1)
  BY DEF RateTypeOK
<1>3. Cleared \in [0..(Span - 1) -> 0..(Word - 1)]
  BY <1>2 DEF Cleared, RateTypeOK
<1>4. lastTick + Drift \in 0..second
  BY <1>1
<1>5. ASSUME ~astray, ~(second - lastTick > Span)
      PROVE  /\ lastTick + Drift = second
             /\ \A s \in (second - Span + 1)..second : Cleared[s % Span] = HitsAt(s)
  <2>1. lastTick + Drift = second
    BY <1>1, <1>5, DriftIs
  <2> SUFFICES ASSUME NEW s \in (second - Span + 1)..second PROVE Cleared[s % Span] = HitsAt(s)
    BY <2>1
  <2>0. s \in Int /\ s <= second /\ second - s < Span
    BY <1>1
  <2>2. PICK i \in 0..(Span - 1) : i = s % Span
    BY <2>0, Divides
  <2>3. Cleared[i] = IF \E x \in (lastTick + 1)..second : x % Span = i THEN 0 ELSE buckets[i]
    BY <1>2, <2>1 DEF Cleared
  <2>4. CASE s > lastTick
    <3>1. s \in (lastTick + 1)..second
      BY <1>1, <2>0, <2>4
    <3>2. Cleared[i] = 0
      BY <2>2, <2>3, <3>1
    <3>3. HitsAt(s) = 0
      BY <1>5, <2>4 DEF Ring, HitsAt
    <3> QED
      BY <2>2, <3>2, <3>3
  <2>5. CASE ~(s > lastTick)
    <3>1. ASSUME NEW x \in (lastTick + 1)..second PROVE x % Span # i
      <4>1. x \in Int /\ s < x /\ x - s < Span
        BY <1>1, <2>0, <2>5
      <4> QED
        BY <2>0, <2>2, <4>1, ModApart
    <3>2. Cleared[i] = buckets[i]
      BY <2>3, <3>1
    <3>3. s \in (lastTick - Span + 1)..lastTick
      BY <1>1, <2>0, <2>5
    <3>4. buckets[s % Span] = HitsAt(s)
      BY <1>5, <3>3 DEF Ring
    <3> QED
      BY <2>2, <3>2, <3>4
  <2> QED
    BY <2>4, <2>5
<1> QED
  BY <1>3, <1>4, <1>5

LEMMA FinishKeeps ==
  ASSUME RateTypeOK, Ring, Finish
  PROVE  (RateTypeOK /\ Ring)'
<1> USE LogsAssumption
<1>0. second \in 0..MaxSecond /\ second \in Nat /\ second' = second /\ lastTick' = lastTick + Drift
      /\ hits' = [hits EXCEPT ![second] = hits[second] + 1] /\ hits[second] < MaxHits /\ hits[second] \in Nat
  BY DEF RateTypeOK, Finish
<1>1. PICK i \in 0..(Span - 1) : i = second % Span
  <2>1. second \in Int
    BY <1>0
  <2> QED
    BY <2>1, Divides
<1>2. PICK C : C = Cleared
  OBVIOUS
<1>3. C \in [0..(Span - 1) -> 0..(Word - 1)] /\ lastTick' \in 0..second
  BY <1>0, <1>2, ClearedIs
<1>4. PICK v \in 0..(Word - 1) : v = (C[i] + 1) % Word
  <2>1. C[i] + 1 \in Int
    BY <1>3
  <2> QED
    BY <2>1, Divides
<1>5. buckets' = [C EXCEPT ![i] = v]
  BY <1>1, <1>2, <1>4 DEF Finish, Ticked
<1>6. RateTypeOK'
  <2>1. buckets' \in [0..(Span - 1) -> 0..(Word - 1)]
    BY <1>3, <1>5
  <2>2. hits' \in [0..MaxSecond -> 0..MaxHits]
    <3>1. hits[second] + 1 \in 0..MaxHits
      BY <1>0
    <3> QED
      BY <1>0, <3>1 DEF RateTypeOK
  <2>3. astray' \in BOOLEAN
    BY DEF Finish, RateTypeOK
  <2> QED
    BY <1>0, <1>3, <2>1, <2>2, <2>3 DEF RateTypeOK
<1>7. ASSUME ~astray'
      PROVE  /\ \A s \in (lastTick' - Span + 1)..lastTick' : buckets'[s % Span] = HitsAt(s)'
             /\ \A s \in 0..MaxSecond : s > lastTick' => hits'[s] = 0
  <2>1. ~astray /\ ~(second - lastTick > Span)
    BY <1>7 DEF Finish
  <2>2. lastTick' = second /\ \A s \in (second - Span + 1)..second : C[s % Span] = HitsAt(s)
    BY <1>0, <1>2, <2>1, ClearedIs
  <2>3. \A s \in 0..MaxSecond : s > lastTick' => hits'[s] = 0
    <3> SUFFICES ASSUME NEW s \in 0..MaxSecond, s > lastTick' PROVE hits'[s] = 0
      OBVIOUS
    <3>1. s # second /\ s > lastTick
      BY <1>0, <2>2 DEF RateTypeOK
    <3>2. hits'[s] = hits[s]
      BY <1>0, <3>1 DEF RateTypeOK
    <3> QED
      BY <2>1, <3>1, <3>2 DEF Ring
  <2>4. ASSUME NEW s \in (second - Span + 1)..second PROVE buckets'[s % Span] = HitsAt(s)'
    <3>1. s \in Int /\ s <= second /\ second - s < Span
      BY <1>0
    <3>2. PICK j \in 0..(Span - 1) : j = s % Span
      BY <3>1, Divides
    <3>3. C[j] = HitsAt(s)
      BY <2>2, <3>2
    <3>4. CASE s = second
      <4>1. C[i] = hits[second]
        BY <1>0, <1>1, <3>2, <3>3, <3>4 DEF HitsAt
      <4>2. v = hits[second] + 1
        <5>1. hits[second] + 1 \in 0..(Word - 1)
          BY <1>0
        <5> QED
          BY <1>4, <4>1, <5>1, ModOfSmall
      <4>3. HitsAt(s)' = hits[second] + 1
        BY <1>0, <3>4 DEF HitsAt, RateTypeOK
      <4>4. buckets'[i] = v
        BY <1>3, <1>5
      <4> QED
        BY <1>1, <3>2, <3>4, <4>2, <4>3, <4>4
    <3>5. CASE s # second
      <4>1. j # i
        <5>1. s < second /\ second - s < Span /\ s \in Int /\ second \in Int
          BY <1>0, <3>1, <3>5
        <5>2. s % Span # second % Span
          BY <5>1, ModApart
        <5> QED
          BY <1>1, <3>2, <5>2
      <4>2. buckets'[j] = C[j]
        BY <1>3, <1>5, <4>1
      <4>3. HitsAt(s)' = HitsAt(s)
        BY <1>0, <3>5 DEF HitsAt, RateTypeOK
      <4> QED
        BY <3>2, <3>3, <4>2, <4>3
    <3> QED
      BY <3>4, <3>5
  <2> QED
    BY <2>2, <2>3, <2>4
<1> QED
  BY <1>6, <1>7 DEF Ring

LEMMA ReadRateKeeps ==
  ASSUME RateTypeOK, Ring, ReadRate
  PROVE  (RateTypeOK /\ Ring)'
<1> USE LogsAssumption
<1>0. second \in 0..MaxSecond /\ second \in Nat /\ second' = second /\ lastTick' = lastTick + Drift
      /\ hits' = hits
  BY DEF RateTypeOK, ReadRate
<1>1. PICK i \in 0..(Span - 1) : i = second % Span
  <2>1. second \in Int
    BY <1>0
  <2> QED
    BY <2>1, Divides
<1>2. PICK C : C = Cleared
  OBVIOUS
<1>3. C \in [0..(Span - 1) -> 0..(Word - 1)] /\ lastTick' \in 0..second
  BY <1>0, <1>2, ClearedIs
<1>4. PICK v \in 0..(Word - 1) : v = (C[i] + 1) % Word
  <2>1. C[i] + 1 \in Int
    BY <1>3
  <2> QED
    BY <2>1, Divides
<1>5. PICK T : T = [C EXCEPT ![i] = v]
  OBVIOUS
<1>6. Ticked = T /\ T \in [0..(Span - 1) -> 0..(Word - 1)]
  BY <1>1, <1>2, <1>3, <1>4, <1>5 DEF Ticked
<1>7. PICK z \in {second, second + 1} :
        /\ buckets' = [T EXCEPT ![z % Span] = (@ - 1) % Word]
        /\ astray' = (astray \/ second - lastTick > Span \/ z # second)
  BY <1>6 DEF ReadRate
<1>8. PICK k \in 0..(Span - 1) : k = z % Span
  <2>1. z \in Int
    BY <1>0
  <2> QED
    BY <2>1, Divides
<1>9. PICK w \in 0..(Word - 1) : w = (T[k] - 1) % Word
  <2>1. T[k] - 1 \in Int
    BY <1>6
  <2> QED
    BY <2>1, Divides
<1>10. buckets' = [T EXCEPT ![k] = w]
  BY <1>7, <1>8, <1>9
<1>11. RateTypeOK'
  <2>1. buckets' \in [0..(Span - 1) -> 0..(Word - 1)]
    BY <1>6, <1>10
  <2>2. astray' \in BOOLEAN
    BY <1>7
  <2> QED
    BY <1>0, <1>3, <2>1, <2>2 DEF RateTypeOK
<1>12. ASSUME ~astray'
       PROVE  /\ \A s \in (lastTick' - Span + 1)..lastTick' : buckets'[s % Span] = HitsAt(s)'
              /\ \A s \in 0..MaxSecond : s > lastTick' => hits'[s] = 0
  <2>1. ~astray /\ ~(second - lastTick > Span) /\ z = second
    BY <1>7, <1>12
  <2>2. lastTick' = second /\ \A s \in (second - Span + 1)..second : C[s % Span] = HitsAt(s)
    BY <1>0, <1>2, <2>1, ClearedIs
  <2>3. \A s \in 0..MaxSecond : s > lastTick' => hits'[s] = 0
    BY <1>0, <2>1, <2>2 DEF Ring, RateTypeOK
  <2>4. k = i
    BY <1>1, <1>8, <2>1
  <2>7. w = C[i]
    <3>1. T[k] = v
      BY <1>3, <1>5, <2>4
    <3>2. PICK c \in 0..(Word - 1) : c = C[i]
      BY <1>3
    <3> QED
      BY <1>4, <1>9, <3>1, <3>2, ModBack
  <2>8. buckets' = C
    <3>1. \A j \in 0..(Span - 1) : buckets'[j] = C[j]
      BY <1>3, <1>5, <1>6, <1>10, <2>4, <2>7
    <3>2. buckets' \in [0..(Span - 1) -> 0..(Word - 1)]
      BY <1>6, <1>10
    <3> QED
      BY <1>3, <3>1, <3>2
  <2>9. \A s \in (second - Span + 1)..second : buckets'[s % Span] = HitsAt(s)'
    BY <1>0, <2>2, <2>8 DEF HitsAt
  <2> QED
    BY <2>2, <2>3, <2>9
<1> QED
  BY <1>11, <1>12 DEF Ring

LEMMA RateStep == RateTypeOK /\ Ring /\ [LogsNext]_<<second, logVars, rateVars>> => (RateTypeOK /\ Ring)'
<1> SUFFICES ASSUME RateTypeOK, Ring, [LogsNext]_<<second, logVars, rateVars>> PROVE (RateTypeOK /\ Ring)'
  OBVIOUS
<1>1. CASE UNCHANGED <<second, rateVars>>
  BY <1>1 DEF RateTypeOK, Ring, HitsAt, rateVars
<1>2. CASE Second
  <2>1. second' = second + 1 /\ second < MaxSecond /\ UNCHANGED rateVars
    BY <1>2 DEF Second
  <2>2. second' \in 0..MaxSecond /\ lastTick' \in 0..second'
    BY <2>1, LogsAssumption DEF RateTypeOK, rateVars
  <2> QED
    BY <2>1, <2>2 DEF RateTypeOK, Ring, HitsAt, rateVars
<1>3. CASE WriterNext
  BY <1>1, <1>3 DEF WriterNext, Exit, TimerFires, Read, Kill, Serve, Enqueue, Drain, WriteDay
<1> QED
  BY <1>1, <1>2, <1>3, FinishKeeps, ReadRateKeeps DEF LogsNext, RateNext, logVars

Supported(f, g, D, E) ==
  /\ IsFiniteSet(D) /\ IsFiniteSet(E) /\ f \in [D -> Nat] /\ g \in [E -> Nat]
  /\ \A x \in D : f[x] # 0 => x \in E /\ g[x] = f[x]
  /\ \A x \in E : g[x] # 0 => x \in D /\ f[x] = g[x]

(* What is zero adds nothing. *)
LEMMA SumSupported ==
  ASSUME NEW f, NEW g, NEW D, NEW E, Supported(f, g, D, E)
  PROVE  SumFunction(f) = SumFunction(g)
<1>0. IsFiniteSet(D) /\ IsFiniteSet(E) /\ f \in [D -> Nat] /\ g \in [E -> Nat]
  BY DEF Supported
<1>1. \A u : u \in Units(f, D) <=> u \in Units(g, E)
  <2>1. ASSUME NEW u, u \in Units(f, D) PROVE u \in Units(g, E)
    <3>1. u \in D \X Nat /\ 1 <= u[2] /\ u[2] <= f[u[1]]
      BY <2>1 DEF Units
    <3>2. PICK x \in D, n \in Nat : u = <<x, n>>
      BY <3>1
    <3>3. 1 <= n /\ n <= f[x]
      BY <3>1, <3>2
    <3>4. x \in E /\ g[x] = f[x]
      <4>1. f[x] # 0
        BY <1>0, <3>3
      <4> QED
        BY <4>1 DEF Supported
    <3> QED
      BY <3>2, <3>3, <3>4 DEF Units
  <2>2. ASSUME NEW u, u \in Units(g, E) PROVE u \in Units(f, D)
    <3>1. u \in E \X Nat /\ 1 <= u[2] /\ u[2] <= g[u[1]]
      BY <2>2 DEF Units
    <3>2. PICK x \in E, n \in Nat : u = <<x, n>>
      BY <3>1
    <3>3. 1 <= n /\ n <= g[x]
      BY <3>1, <3>2
    <3>4. x \in D /\ g[x] = f[x]
      <4>1. g[x] # 0
        BY <1>0, <3>3
      <4> QED
        BY <4>1 DEF Supported
    <3> QED
      BY <3>2, <3>3, <3>4 DEF Units
  <2> QED
    BY <2>1, <2>2
<1>2. Units(f, D) = Units(g, E)
  BY <1>1
<1> QED
  BY <1>0, <1>2, SumIsCount

(* The window of the last Span seconds fills the ring, each second in a bucket of its own. *)
LEMMA RingCounts ==
  ASSUME RateTypeOK, Ring
  PROVE  RateCounts
<1> USE LogsAssumption
<1> SUFFICES ASSUME ~astray, lastTick = second
    PROVE  SumFunction(buckets) = SumFunction([s \in {x \in 0..MaxSecond : x > second - Span} |-> hits[s]])
  BY DEF RateCounts
<1>0. /\ second \in 0..MaxSecond /\ second \in Nat
      /\ \A s \in (second - Span + 1)..second : buckets[s % Span] = HitsAt(s)
      /\ \A s \in 0..MaxSecond : s > second => hits[s] = 0
      /\ hits \in [0..MaxSecond -> Nat] /\ buckets \in [0..(Span - 1) -> Nat]
  BY DEF RateTypeOK, Ring
<1>1. PICK Z : Z = (second - Span + 1)..second
  OBVIOUS
<1>2. PICK D : D = {x \in 0..MaxSecond : x > second - Span}
  OBVIOUS
<1>3. PICK h : h = [s \in Z |-> s % Span]
  OBVIOUS
<1>4. PICK f : f = [s \in Z |-> HitsAt(s)]
  OBVIOUS
<1>5. PICK g : g = [s \in D |-> hits[s]]
  OBVIOUS
<1>6. IsFiniteSet(Z) /\ IsFiniteSet(D)
  <2>1. IsFiniteSet((second - Span + 1)..second) /\ IsFiniteSet(0..MaxSecond)
    <3>1. second - Span + 1 \in Int /\ second \in Int /\ 0 \in Int /\ MaxSecond \in Int
      BY <1>0
    <3> QED
      BY <3>1, FS_Interval
  <2>2. D \subseteq 0..MaxSecond
    BY <1>2
  <2> QED
    BY <1>1, <2>1, <2>2, FS_Subset
<1>7. f \in [Z -> Nat] /\ g \in [D -> Nat]
  <2>1. \A s \in Z : HitsAt(s) \in Nat
    BY <1>0 DEF HitsAt
  <2>2. \A s \in D : hits[s] \in Nat
    BY <1>0, <1>2
  <2> QED
    BY <1>4, <1>5, <2>1, <2>2
<1>8. \A s \in Z : s \in Int /\ s <= second /\ second - s < Span
  BY <1>0, <1>1
<1>9. h \in Bijection(Z, 0..(Span - 1))
  <2>1. h \in [Z -> 0..(Span - 1)]
    <3>1. \A s \in Z : s % Span \in 0..(Span - 1)
      <4> SUFFICES ASSUME NEW s \in Z PROVE s % Span \in 0..(Span - 1)
        OBVIOUS
      <4>1. s \in Int
        BY <1>8
      <4> QED
        BY <4>1, Divides
    <3> QED
      BY <1>3, <3>1
  <2>2. ASSUME NEW s \in Z, NEW t \in Z, h[s] = h[t] PROVE s = t
    <3>1. s \in Int /\ t \in Int /\ s - t < Span /\ t - s < Span
      BY <1>0, <1>8
    <3>2. s % Span = t % Span
      BY <1>3, <2>2
    <3>3. ~(s < t) /\ ~(t < s)
      BY <3>1, <3>2, ModApart
    <3> QED
      BY <3>1, <3>3
  <2>3. ASSUME NEW i \in 0..(Span - 1) PROVE \E s \in Z : h[s] = i
    <3>1. second \in Int
      BY <1>0
    <3>2. PICK s \in (second - Span + 1)..second : s % Span = i
      BY <3>1, ModEvery
    <3> QED
      BY <1>1, <1>3, <3>2
  <2> QED
    BY <2>1, <2>2, <2>3 DEF Bijection, Injection, IsInjective, Surjection
<1>10. Carried(f, buckets, Z, 0..(Span - 1), h)
  <2>1. \A x \in Z : buckets[h[x]] = f[x]
    BY <1>0, <1>1, <1>3, <1>4
  <2> QED
    BY <1>0, <1>6, <1>7, <1>9, <2>1 DEF Carried
<1>11. SumFunction(buckets) = SumFunction(f)
  BY <1>10, SumRenamed
<1>12. Supported(f, g, Z, D)
  <2>1. ASSUME NEW x \in Z, f[x] # 0 PROVE x \in D /\ g[x] = f[x]
    <3>1. x \in 0..MaxSecond /\ f[x] = hits[x]
      BY <1>4, <2>1 DEF HitsAt
    <3>2. x > second - Span
      BY <1>0, <1>8, <3>1
    <3> QED
      BY <1>2, <1>5, <3>1, <3>2
  <2>2. ASSUME NEW x \in D, g[x] # 0 PROVE x \in Z /\ f[x] = g[x]
    <3>1. x \in 0..MaxSecond /\ x > second - Span /\ g[x] = hits[x]
      BY <1>2, <1>5
    <3>2. x <= second
      BY <1>0, <2>2, <3>1
    <3>3. x \in Z
      BY <1>0, <1>1, <3>1, <3>2
    <3> QED
      BY <1>4, <3>1, <3>3 DEF HitsAt
  <2> QED
    BY <1>6, <1>7, <2>1, <2>2 DEF Supported
<1> QED
  BY <1>2, <1>5, <1>11, <1>12, SumSupported

(* The rate of the last Span seconds counts each request of them once, unless the tracker    *)
(* slept for longer than its ring is, or was read as a second turned.                         *)
LEMMA RateStays == LogsSpec => []RateCounts
<1>1. LogsInit => RateTypeOK /\ Ring
  BY RateInit
<1>2. RateTypeOK /\ Ring /\ [LogsNext]_<<second, logVars, rateVars>> => (RateTypeOK /\ Ring)'
  BY RateStep
<1>3. RateTypeOK /\ Ring => RateCounts
  BY RingCounts
<1> QED
  BY <1>1, <1>2, <1>3, PTL DEF LogsSpec

-----------------------------------------------------------------------------
(* Access log lines: of a day, what is in its file, in flight and in the buffer. *)

Joined(a, b, c) == a \o (b \o c)

LEMMA JoinedIs ==
  ASSUME NEW a \in Seq(Requests), NEW b \in Seq(Requests), NEW c \in Seq(Requests)
  PROVE  /\ Joined(a, b, c) \in Seq(Requests)
         /\ Len(Joined(a, b, c)) = Len(a) + Len(b) + Len(c)
         /\ \A i \in 1..Len(a) : Joined(a, b, c)[i] = a[i]
         /\ \A i \in 1..Len(b) : Joined(a, b, c)[Len(a) + i] = b[i]
         /\ \A i \in 1..Len(c) : Joined(a, b, c)[Len(a) + Len(b) + i] = c[i]
<1>1. PICK s \in Seq(Requests) : s = b \o c
  <2>1. b \o c \in Seq(Requests)
    BY ConcatProperties
  <2> QED
    BY <2>1
<1>2. PICK t : t = a \o s
  OBVIOUS
<1>3. Joined(a, b, c) = t
  BY <1>1, <1>2 DEF Joined
<1>5. /\ s \in Seq(Requests) /\ Len(s) = Len(b) + Len(c)
      /\ \A i \in 1..Len(b) + Len(c) : s[i] = IF i <= Len(b) THEN b[i] ELSE c[i - Len(b)]
  BY <1>1, ConcatProperties
<1>6. /\ t \in Seq(Requests) /\ Len(t) = Len(a) + Len(s)
      /\ \A i \in 1..Len(a) + Len(s) : t[i] = IF i <= Len(a) THEN a[i] ELSE s[i - Len(a)]
  <2>1. /\ a \o s \in Seq(Requests) /\ Len(a \o s) = Len(a) + Len(s)
        /\ \A i \in 1..Len(a) + Len(s) : (a \o s)[i] = IF i <= Len(a) THEN a[i] ELSE s[i - Len(a)]
    BY ConcatProperties
  <2> QED
    BY <1>2, <2>1
<1>4. Len(a) \in Nat /\ Len(b) \in Nat /\ Len(c) \in Nat /\ Len(s) \in Nat
  BY <1>5
<1>7. \A i \in 1..Len(a) : t[i] = a[i]
  BY <1>4, <1>6
<1>8. \A i \in 1..Len(s) : t[Len(a) + i] = s[i]
  <2> SUFFICES ASSUME NEW i \in 1..Len(s) PROVE t[Len(a) + i] = s[i]
    OBVIOUS
  <2>1. Len(a) + i \in 1..Len(a) + Len(s) /\ ~(Len(a) + i <= Len(a)) /\ (Len(a) + i) - Len(a) = i
    BY <1>4
  <2> QED
    BY <1>6, <2>1
<1>11. \A i \in 1..Len(c) : s[Len(b) + i] = c[i]
  <2> SUFFICES ASSUME NEW i \in 1..Len(c) PROVE s[Len(b) + i] = c[i]
    OBVIOUS
  <2>1. Len(b) + i \in 1..Len(b) + Len(c) /\ ~(Len(b) + i <= Len(b)) /\ (Len(b) + i) - Len(b) = i
    BY <1>4
  <2> QED
    BY <1>5, <2>1
<1>9. ASSUME NEW i \in 1..Len(b) PROVE t[Len(a) + i] = b[i]
  <2>1. i \in 1..Len(s) /\ i \in 1..Len(b) + Len(c) /\ i <= Len(b)
    BY <1>4, <1>5
  <2> QED
    BY <1>5, <1>8, <2>1
<1>10. ASSUME NEW i \in 1..Len(c) PROVE t[Len(a) + Len(b) + i] = c[i]
  <2>1. PICK j \in 1..Len(s) : j = Len(b) + i
    BY <1>4, <1>5
  <2>2. t[Len(a) + j] = s[j] /\ s[j] = c[i]
    BY <1>8, <1>11, <2>1
  <2>3. Len(a) + j = Len(a) + Len(b) + i
    BY <1>4, <2>1
  <2> QED
    BY <2>2, <2>3
<1> QED
  BY <1>3, <1>4, <1>5, <1>6, <1>7, <1>9, <1>10

Parts(a, b, c) == a \in Seq(Requests) /\ b \in Seq(Requests) /\ c \in Seq(Requests)
IsJoined(t, a, b, c, A, B, C) ==
  /\ t \in Seq(Requests) /\ DOMAIN t = 1..(A + B + C)
  /\ \A i \in 1..A : t[i] = a[i]
  /\ \A i \in 1..B : t[A + i] = b[i]
  /\ \A i \in 1..C : t[A + B + i] = c[i]

LEMMA PartsJoined ==
  ASSUME NEW a, NEW b, NEW c, Parts(a, b, c)
  PROVE  IsJoined(Joined(a, b, c), a, b, c, Len(a), Len(b), Len(c))
<1>1. PICK x \in Seq(Requests), y \in Seq(Requests), z \in Seq(Requests) : x = a /\ y = b /\ z = c
  BY DEF Parts
<1>2. /\ Joined(x, y, z) \in Seq(Requests)
      /\ Len(Joined(x, y, z)) = Len(x) + Len(y) + Len(z)
      /\ \A i \in 1..Len(x) : Joined(x, y, z)[i] = x[i]
      /\ \A i \in 1..Len(y) : Joined(x, y, z)[Len(x) + i] = y[i]
      /\ \A i \in 1..Len(z) : Joined(x, y, z)[Len(x) + Len(y) + i] = z[i]
  BY JoinedIs
<1> QED
  BY <1>1, <1>2 DEF IsJoined

LEMMA HoldsAt ==
  ASSUME NEW s \in Seq(Requests), NEW r
  PROVE  Contains(s, r) <=> \E i \in DOMAIN s : s[i] = r
BY DEF Contains

LEMMA JoinedHolds ==
  ASSUME NEW a \in Seq(Requests), NEW b \in Seq(Requests), NEW c \in Seq(Requests), NEW r
  PROVE  Contains(Joined(a, b, c), r) <=> Contains(a, r) \/ Contains(b, r) \/ Contains(c, r)
<1>1. PICK t : t = Joined(a, b, c)
  OBVIOUS
<1>2. /\ Len(t) = Len(a) + Len(b) + Len(c)
      /\ \A i \in 1..Len(a) : t[i] = a[i]
      /\ \A i \in 1..Len(b) : t[Len(a) + i] = b[i]
      /\ \A i \in 1..Len(c) : t[Len(a) + Len(b) + i] = c[i]
  <2>1. /\ Len(Joined(a, b, c)) = Len(a) + Len(b) + Len(c)
        /\ \A i \in 1..Len(a) : Joined(a, b, c)[i] = a[i]
        /\ \A i \in 1..Len(b) : Joined(a, b, c)[Len(a) + i] = b[i]
        /\ \A i \in 1..Len(c) : Joined(a, b, c)[Len(a) + Len(b) + i] = c[i]
    BY JoinedIs
  <2> QED
    BY <1>1, <2>1
<1>3. PICK x \in Nat, y \in Nat, z \in Nat : x = Len(a) /\ y = Len(b) /\ z = Len(c)
  OBVIOUS
<1>4. ASSUME Contains(t, r) PROVE Contains(a, r) \/ Contains(b, r) \/ Contains(c, r)
  <2>1. PICK i \in 1..Len(t) : t[i] = r
    BY <1>4 DEF Contains
  <2>2. CASE i <= x
    <3>1. i \in 1..Len(a) /\ a[i] = r
      BY <1>2, <1>3, <2>1, <2>2
    <3> QED
      BY <3>1 DEF Contains
  <2>3. CASE i > x /\ i <= x + y
    <3>1. PICK j \in 1..Len(b) : i = x + j
      <4>1. i - x \in 1..Len(b) /\ i = x + (i - x)
        BY <1>3, <2>3
      <4> QED
        BY <4>1
    <3>2. b[j] = r
      BY <1>2, <1>3, <2>1, <3>1
    <3> QED
      BY <3>2 DEF Contains
  <2>4. CASE i > x + y
    <3>1. PICK j \in 1..Len(c) : i = x + y + j
      <4>1. i - x - y \in 1..Len(c) /\ i = x + y + (i - x - y)
        BY <1>2, <1>3, <2>4
      <4> QED
        BY <4>1
    <3>2. c[j] = r
      BY <1>2, <1>3, <2>1, <3>1
    <3> QED
      BY <3>2 DEF Contains
  <2> QED
    BY <1>3, <2>2, <2>3, <2>4
<1>5. ASSUME Contains(a, r) PROVE Contains(t, r)
  <2>1. PICK i \in 1..Len(a) : a[i] = r
    BY <1>5 DEF Contains
  <2>2. i \in 1..Len(t) /\ t[i] = r
    BY <1>2, <1>3, <2>1
  <2> QED
    BY <2>2 DEF Contains
<1>6. ASSUME Contains(b, r) PROVE Contains(t, r)
  <2>1. PICK i \in 1..Len(b) : b[i] = r
    BY <1>6 DEF Contains
  <2>2. x + i \in 1..Len(t) /\ t[x + i] = r
    BY <1>2, <1>3, <2>1
  <2> QED
    BY <2>2 DEF Contains
<1>7. ASSUME Contains(c, r) PROVE Contains(t, r)
  <2>1. PICK i \in 1..Len(c) : c[i] = r
    BY <1>7 DEF Contains
  <2>2. x + y + i \in 1..Len(t) /\ t[x + y + i] = r
    BY <1>2, <1>3, <2>1
  <2> QED
    BY <2>2 DEF Contains
<1> QED
  BY <1>1, <1>4, <1>5, <1>6, <1>7

(* In a list without repetition each line is in one part. *)
Unrepeated(s) == \A i, j \in DOMAIN s : s[i] = s[j] => i = j

LEMMA JoinedApart ==
  ASSUME NEW a \in Seq(Requests), NEW b \in Seq(Requests), NEW c \in Seq(Requests),
         Unrepeated(Joined(a, b, c)), NEW r
  PROVE  /\ ~(Contains(a, r) /\ Contains(b, r))
         /\ ~(Contains(a, r) /\ Contains(c, r))
         /\ ~(Contains(b, r) /\ Contains(c, r))
<1>1. PICK t : t = Joined(a, b, c)
  OBVIOUS
<1>2. PICK x \in Nat, y \in Nat, z \in Nat : x = Len(a) /\ y = Len(b) /\ z = Len(c)
  OBVIOUS
<1>3. /\ t \in Seq(Requests) /\ DOMAIN t = 1..(x + y + z)
      /\ \A i \in 1..x : t[i] = a[i]
      /\ \A i \in 1..y : t[x + i] = b[i]
      /\ \A i \in 1..z : t[x + y + i] = c[i]
  <2>1. /\ Joined(a, b, c) \in Seq(Requests)
        /\ Len(Joined(a, b, c)) = Len(a) + Len(b) + Len(c)
        /\ \A i \in 1..Len(a) : Joined(a, b, c)[i] = a[i]
        /\ \A i \in 1..Len(b) : Joined(a, b, c)[Len(a) + i] = b[i]
        /\ \A i \in 1..Len(c) : Joined(a, b, c)[Len(a) + Len(b) + i] = c[i]
    BY JoinedIs
  <2> QED
    BY <1>1, <1>2, <2>1
<1>4. \A i, j \in 1..(x + y + z) : t[i] = t[j] => i = j
  BY <1>1, <1>3 DEF Unrepeated
<1>5. ~(Contains(a, r) /\ Contains(b, r))
  <2> SUFFICES ASSUME NEW i \in 1..x, NEW j \in 1..y, a[i] = r, b[j] = r PROVE FALSE
    BY <1>2 DEF Contains
  <2>1. i \in 1..(x + y + z) /\ x + j \in 1..(x + y + z) /\ t[i] = t[x + j] /\ i # x + j
    BY <1>3
  <2> QED
    BY <1>4, <2>1
<1>6. ~(Contains(a, r) /\ Contains(c, r))
  <2> SUFFICES ASSUME NEW i \in 1..x, NEW j \in 1..z, a[i] = r, c[j] = r PROVE FALSE
    BY <1>2 DEF Contains
  <2>1. i \in 1..(x + y + z) /\ x + y + j \in 1..(x + y + z) /\ t[i] = t[x + y + j] /\ i # x + y + j
    BY <1>3
  <2> QED
    BY <1>4, <2>1
<1>7. ~(Contains(b, r) /\ Contains(c, r))
  <2> SUFFICES ASSUME NEW i \in 1..y, NEW j \in 1..z, b[i] = r, c[j] = r PROVE FALSE
    BY <1>2 DEF Contains
  <2>1. x + i \in 1..(x + y + z) /\ x + y + j \in 1..(x + y + z) /\ t[x + i] = t[x + y + j] /\ x + i # x + y + j
    BY <1>3
  <2> QED
    BY <1>4, <2>1
<1> QED
  BY <1>5, <1>6, <1>7

(* A part left out leaves the others in their order. *)
Follows(s, q, r) == \E i, j \in DOMAIN s : i < j /\ s[i] = q /\ s[j] = r

LEMMA JoinedFollows ==
  ASSUME NEW a \in Seq(Requests), NEW b \in Seq(Requests), NEW c \in Seq(Requests),
         NEW x \in Seq(Requests), NEW y \in Seq(Requests), x = b \/ Len(x) = 0, y = c \/ Len(y) = 0,
         NEW q, NEW r, Follows(Joined(a, x, y), q, r)
  PROVE  Follows(Joined(a, b, c), q, r)
<1>1. PICK s, t : s = Joined(a, x, y) /\ t = Joined(a, b, c)
  OBVIOUS
<1>2. PICK A \in Nat, B \in Nat, C \in Nat, X \in Nat, Y \in Nat :
        A = Len(a) /\ B = Len(b) /\ C = Len(c) /\ X = Len(x) /\ Y = Len(y)
  OBVIOUS
<1>3. /\ t \in Seq(Requests) /\ DOMAIN t = 1..(A + B + C)
      /\ \A i \in 1..A : t[i] = a[i]
      /\ \A i \in 1..B : t[A + i] = b[i]
      /\ \A i \in 1..C : t[A + B + i] = c[i]
  <2>1. Parts(a, b, c)
    BY DEF Parts
  <2>2. IsJoined(t, a, b, c, A, B, C)
    BY <1>1, <1>2, <2>1, PartsJoined
  <2> QED
    BY <2>2 DEF IsJoined
<1>4. /\ s \in Seq(Requests) /\ DOMAIN s = 1..(A + X + Y)
      /\ \A i \in 1..A : s[i] = a[i]
      /\ \A i \in 1..X : s[A + i] = x[i]
      /\ \A i \in 1..Y : s[A + X + i] = y[i]
  <2>1. Parts(a, x, y)
    BY DEF Parts
  <2>2. IsJoined(s, a, x, y, A, X, Y)
    BY <1>1, <1>2, <2>1, PartsJoined
  <2> QED
    BY <2>2 DEF IsJoined
<1>5. (x = b /\ X = B) \/ X = 0
  BY <1>2
<1>6. (y = c /\ Y = C) \/ Y = 0
  BY <1>2
<1>7. PICK h : h = [n \in 1..(A + X + Y) |-> IF n <= A THEN n ELSE n + (B - X)]
  OBVIOUS
<1>8. ASSUME NEW n \in 1..(A + X + Y)
      PROVE  h[n] \in 1..(A + B + C) /\ t[h[n]] = s[n]
  <2>1. CASE n <= A
    BY <1>3, <1>4, <1>7, <2>1
  <2>2. CASE n > A /\ n <= A + X
    <3>1. x = b /\ X = B
      BY <1>5, <2>2
    <3>2. PICK k \in 1..X : n = A + k
      <4>1. n - A \in 1..X /\ n = A + (n - A)
        BY <2>2
      <4> QED
        BY <4>1
    <3>3. h[n] = A + k /\ k \in 1..B
      BY <1>7, <2>2, <3>1, <3>2
    <3>4. t[A + k] = b[k] /\ s[A + k] = x[k]
      BY <1>3, <1>4, <3>2, <3>3
    <3>5. A + k \in 1..(A + B + C)
      BY <3>3
    <3> QED
      BY <3>1, <3>2, <3>3, <3>4, <3>5
  <2>3. CASE n > A + X
    <3>1. y = c /\ Y = C
      BY <1>6, <2>3
    <3>2. PICK k \in 1..Y : n = A + X + k
      <4>1. n - A - X \in 1..Y /\ n = A + X + (n - A - X)
        BY <2>3
      <4> QED
        BY <4>1
    <3>3. h[n] = A + B + k /\ k \in 1..C
      <4>1. ~(n <= A) /\ n + (B - X) = A + B + k
        BY <2>3, <3>2
      <4> QED
        BY <1>7, <3>1, <4>1
    <3>4. t[A + B + k] = c[k] /\ s[A + X + k] = y[k]
      BY <1>3, <1>4, <3>2, <3>3
    <3>5. A + B + k \in 1..(A + B + C)
      BY <3>3
    <3> QED
      BY <3>1, <3>2, <3>3, <3>4, <3>5
  <2> QED
    BY <2>1, <2>2, <2>3
<1>9. \A m, n \in 1..(A + X + Y) : m < n => h[m] < h[n]
  BY <1>5, <1>7
<1>10. PICK m \in 1..(A + X + Y), n \in 1..(A + X + Y) : m < n /\ s[m] = q /\ s[n] = r
  BY <1>1, <1>4 DEF Follows
<1> QED
  BY <1>1, <1>3, <1>8, <1>9, <1>10 DEF Follows

LEMMA JoinedSame ==
  ASSUME NEW f \in Seq(Requests), NEW l \in Seq(Requests), NEW p \in Seq(Requests)
  PROVE  /\ Joined(f \o l, <<>>, p) = Joined(f, l, p)
         /\ Joined(f \o p, <<>>, <<>>) = Joined(f, <<>>, p)
         /\ Joined(f, p, <<>>) = Joined(f, <<>>, p)
         /\ Joined(f, <<>>, <<>>) = f
<1>1. <<>> \o p = p /\ p \o <<>> = p
  BY ConcatEmptySeq
<1>2. (f \o l) \o p = f \o (l \o p)
  BY ConcatAssociative
<1>3. (f \o p) \o <<>> = f \o p
  <2>1. PICK s \in Seq(Requests) : s = f \o p
    <3>1. f \o p \in Seq(Requests)
      BY ConcatProperties
    <3> QED
      BY <3>1
  <2>2. s \o <<>> = s
    BY ConcatEmptySeq
  <2> QED
    BY <2>1, <2>2
<1>4. <<>> \o <<>> = <<>>
  <2>1. PICK s \in Seq(Requests) : s = <<>>
    <3>1. <<>> \in Seq(Requests)
      OBVIOUS
    <3> QED
      BY <3>1
  <2>2. s \o <<>> = s
    BY ConcatEmptySeq
  <2> QED
    BY <2>1, <2>2
<1>5. f \o <<>> = f
  BY ConcatEmptySeq
<1> QED
  BY <1>1, <1>2, <1>3, <1>4, <1>5 DEF Joined

LEMMA JoinedAppend ==
  ASSUME NEW f \in Seq(Requests), NEW l \in Seq(Requests), NEW p \in Seq(Requests), NEW r \in Requests
  PROVE  Joined(f, l, Append(p, r)) = Append(Joined(f, l, p), r)
<1>1. PICK u \in Seq(Requests) : u = <<r>>
  <2>1. <<r>> \in Seq(Requests)
    OBVIOUS
  <2> QED
    BY <2>1
<1>2. \A s \in Seq(Requests) : Append(s, r) = s \o u
  BY <1>1, AppendIsConcat
<1>3. (l \o p) \o u = l \o (p \o u)
  BY ConcatAssociative
<1>4. PICK s \in Seq(Requests) : s = l \o p
  <2>1. l \o p \in Seq(Requests)
    BY ConcatProperties
  <2> QED
    BY <2>1
<1>5. (f \o s) \o u = f \o (s \o u)
  BY ConcatAssociative
<1>6. f \o s \in Seq(Requests)
  BY ConcatProperties
<1> QED
  BY <1>2, <1>3, <1>4, <1>5, <1>6 DEF Joined

LEMMA AppendHolds ==
  ASSUME NEW s \in Seq(Requests), NEW r \in Requests
  PROVE  /\ \A q : Contains(Append(s, r), q) <=> Contains(s, q) \/ q = r
         /\ \A q, p : Follows(Append(s, r), q, p) <=> Follows(s, q, p) \/ (Contains(s, q) /\ p = r)
         /\ Unrepeated(s) /\ ~Contains(s, r) => Unrepeated(Append(s, r))
<1>0. PICK n \in Nat : n = Len(s)
  OBVIOUS
<1>1. PICK t : t = Append(s, r) /\ n = Len(s)
  BY <1>0
<1>2. DOMAIN t = 1..(n + 1) /\ DOMAIN s = 1..n /\ Len(t) = n + 1 /\ t[n + 1] = r /\ \A i \in 1..n : t[i] = s[i]
  BY <1>1, AppendProperties
<1>3. \A q : Contains(t, q) <=> Contains(s, q) \/ q = r
  BY <1>1, <1>2 DEF Contains
<1>4. ASSUME NEW q, NEW p, Follows(t, q, p) PROVE Follows(s, q, p) \/ (Contains(s, q) /\ p = r)
  <2>1. PICK i \in 1..(n + 1), j \in 1..(n + 1) : i < j /\ t[i] = q /\ t[j] = p
    BY <1>2, <1>4 DEF Follows
  <2>2. i \in 1..n /\ s[i] = q
    BY <1>2, <2>1
  <2>3. CASE j = n + 1
    BY <1>1, <1>2, <2>1, <2>2, <2>3 DEF Contains
  <2>4. CASE j # n + 1
    <3>1. j \in 1..n /\ s[j] = p
      BY <1>2, <2>1, <2>4
    <3> QED
      BY <1>2, <2>1, <2>2, <3>1 DEF Follows
  <2> QED
    BY <2>3, <2>4
<1>5. ASSUME NEW q, NEW p, Follows(s, q, p) PROVE Follows(t, q, p)
  <2>1. PICK i \in 1..n, j \in 1..n : i < j /\ s[i] = q /\ s[j] = p
    BY <1>2, <1>5 DEF Follows
  <2>2. i \in DOMAIN t /\ j \in DOMAIN t /\ t[i] = q /\ t[j] = p
    BY <1>2, <2>1
  <2> QED
    BY <2>1, <2>2 DEF Follows
<1>6. ASSUME NEW q, Contains(s, q) PROVE Follows(t, q, r)
  <2>1. PICK i \in 1..n : s[i] = q
    BY <1>1, <1>6 DEF Contains
  <2>2. i \in DOMAIN t /\ n + 1 \in DOMAIN t /\ t[i] = q /\ t[n + 1] = r /\ i < n + 1
    BY <1>2, <2>1
  <2> QED
    BY <2>2 DEF Follows
<1>7. ASSUME Unrepeated(s), ~Contains(s, r) PROVE Unrepeated(t)
  <2> SUFFICES ASSUME NEW i \in 1..(n + 1), NEW j \in 1..(n + 1), t[i] = t[j] PROVE i = j
    BY <1>2 DEF Unrepeated
  <2>1. CASE i \in 1..n /\ j \in 1..n
    BY <1>2, <1>7, <2>1 DEF Unrepeated
  <2>2. \A k \in 1..n : t[k] # r
    BY <1>1, <1>2, <1>7 DEF Contains
  <2> QED
    BY <1>2, <2>1, <2>2
<1> QED
  BY <1>1, <1>3, <1>4, <1>5, <1>6, <1>7

(* The lines made are each in one day's list or gone, and in a list in the order made. *)
Filed(L, G, M) ==
  /\ M \in Seq(Requests) /\ L \in [Days -> Seq(Requests)] /\ G \in SUBSET Requests
  /\ Unrepeated(M)
  /\ \A d \in Days, r \in Requests : Contains(L[d], r) => Contains(M, r)
  /\ \A d \in Days, q, r \in Requests : Follows(L[d], q, r) => Follows(M, q, r)
  /\ \A d, e \in Days, r \in Requests : Contains(L[d], r) /\ Contains(L[e], r) => d = e
  /\ \A r \in G : Contains(M, r) /\ \A d \in Days : ~Contains(L[d], r)
  /\ \A r \in Requests : Contains(M, r) => r \in G \/ \E d \in Days : Contains(L[d], r)

LEMMA FiledAppend ==
  ASSUME NEW L, NEW G, NEW M, Filed(L, G, M), NEW t \in Days, NEW r \in Requests, ~Contains(M, r)
  PROVE  Filed([L EXCEPT ![t] = Append(L[t], r)], G, Append(M, r))
<1>0. M \in Seq(Requests) /\ L \in [Days -> Seq(Requests)] /\ G \in SUBSET Requests /\ Unrepeated(M)
  BY DEF Filed
<1>1. PICK s \in Seq(Requests) : s = L[t]
  BY <1>0
<1>2. PICK K, N : K = [L EXCEPT ![t] = Append(L[t], r)] /\ N = Append(M, r)
  OBVIOUS
<1>3. /\ \A q : Contains(N, q) <=> Contains(M, q) \/ q = r
      /\ \A q, p : Follows(N, q, p) <=> Follows(M, q, p) \/ (Contains(M, q) /\ p = r)
      /\ Unrepeated(N)
  <2>1. PICK m \in Seq(Requests) : m = M
    BY <1>0
  <2>2. /\ \A q : Contains(Append(m, r), q) <=> Contains(m, q) \/ q = r
        /\ \A q, p : Follows(Append(m, r), q, p) <=> Follows(m, q, p) \/ (Contains(m, q) /\ p = r)
        /\ Unrepeated(m) /\ ~Contains(m, r) => Unrepeated(Append(m, r))
    BY AppendHolds
  <2> QED
    BY <1>0, <1>2, <2>1, <2>2
<1>4. /\ \A q : Contains(K[t], q) <=> Contains(L[t], q) \/ q = r
      /\ \A q, p : Follows(K[t], q, p) <=> Follows(L[t], q, p) \/ (Contains(L[t], q) /\ p = r)
  <2>1. K[t] = Append(s, r)
    BY <1>0, <1>1, <1>2
  <2>2. /\ \A q : Contains(Append(s, r), q) <=> Contains(s, q) \/ q = r
        /\ \A q, p : Follows(Append(s, r), q, p) <=> Follows(s, q, p) \/ (Contains(s, q) /\ p = r)
    BY AppendHolds
  <2> QED
    BY <1>1, <2>1, <2>2
<1>5. \A d \in Days \ {t} : K[d] = L[d]
  BY <1>0, <1>2
<1>6. N \in Seq(Requests) /\ K \in [Days -> Seq(Requests)]
  <2>1. Append(M, r) \in Seq(Requests) /\ Append(s, r) \in Seq(Requests)
    BY <1>0, AppendProperties
  <2> QED
    BY <1>0, <1>1, <1>2, <2>1
<1>7. \A d \in Days, q \in Requests : Contains(K[d], q) <=> Contains(L[d], q) \/ (d = t /\ q = r)
  BY <1>4, <1>5
<1>8. \A d \in Days : ~Contains(L[d], r)
  BY DEF Filed
<1>9. \A d \in Days, q, p \in Requests : Follows(K[d], q, p) => Follows(N, q, p)
  <2> SUFFICES ASSUME NEW d \in Days, NEW q \in Requests, NEW p \in Requests, Follows(K[d], q, p)
      PROVE  Follows(N, q, p)
    OBVIOUS
  <2>1. Follows(L[d], q, p) \/ (d = t /\ Contains(L[t], q) /\ p = r)
    BY <1>4, <1>5
  <2>2. Follows(M, q, p) \/ (Contains(M, q) /\ p = r)
    BY <2>1 DEF Filed
  <2> QED
    BY <1>3, <2>2
<1>10. \A d \in Days, q \in Requests : Contains(K[d], q) => Contains(N, q)
  BY <1>3, <1>7 DEF Filed
<1>11. \A d, e \in Days, q \in Requests : Contains(K[d], q) /\ Contains(K[e], q) => d = e
  BY <1>7, <1>8 DEF Filed
<1>12. \A q \in G : Contains(N, q) /\ \A d \in Days : ~Contains(K[d], q)
  BY <1>0, <1>3, <1>7 DEF Filed
<1>13. \A q \in Requests : Contains(N, q) => q \in G \/ \E d \in Days : Contains(K[d], q)
  BY <1>3, <1>7 DEF Filed
<1> QED
  BY <1>0, <1>2, <1>3, <1>6, <1>9, <1>10, <1>11, <1>12, <1>13 DEF Filed

(* Lines are lost: those of a day that are left keep their order. *)
Thins(L, K, G, H) ==
  /\ K \in [Days -> Seq(Requests)] /\ H \in SUBSET Requests
  /\ \A d \in Days, r \in Requests : Contains(K[d], r) => Contains(L[d], r)
  /\ \A d \in Days, q, r \in Requests : Follows(K[d], q, r) => Follows(L[d], q, r)
  /\ \A r \in Requests : r \in H <=> r \in G \/ \E d \in Days : Contains(L[d], r) /\ ~Contains(K[d], r)

LEMMA FiledThins ==
  ASSUME NEW L, NEW K, NEW G, NEW H, NEW M, Filed(L, G, M), Thins(L, K, G, H)
  PROVE  Filed(K, H, M)
<1>1. ASSUME NEW r \in H PROVE Contains(M, r) /\ \A d \in Days : ~Contains(K[d], r)
  <2>1. r \in Requests
    BY DEF Thins
  <2>2. CASE r \in G
    BY <2>1, <2>2 DEF Filed, Thins
  <2>3. CASE r \notin G
    <3>1. PICK d \in Days : Contains(L[d], r) /\ ~Contains(K[d], r)
      BY <2>1, <2>3 DEF Thins
    <3>2. \A e \in Days : Contains(K[e], r) => e = d
      BY <2>1, <3>1 DEF Filed, Thins
    <3> QED
      BY <2>1, <3>1, <3>2 DEF Filed
  <2> QED
    BY <2>2, <2>3
<1>2. \A r \in Requests : Contains(M, r) => r \in H \/ \E d \in Days : Contains(K[d], r)
  BY DEF Filed, Thins
<1>3. \A d \in Days, r \in Requests : Contains(K[d], r) => Contains(M, r)
  BY DEF Filed, Thins
<1>4. \A d \in Days, q, r \in Requests : Follows(K[d], q, r) => Follows(M, q, r)
  BY DEF Filed, Thins
<1>5. \A d, e \in Days, r \in Requests : Contains(K[d], r) /\ Contains(K[e], r) => d = e
  BY DEF Filed, Thins
<1>6. K \in [Days -> Seq(Requests)] /\ H \in SUBSET Requests /\ M \in Seq(Requests) /\ Unrepeated(M)
  BY DEF Filed, Thins
<1> QED
  BY <1>1, <1>2, <1>3, <1>4, <1>5, <1>6 DEF Filed

LEMMA FiledDistinct ==
  ASSUME NEW L, NEW G, NEW M, Filed(L, G, M), NEW d \in Days
  PROVE  Unrepeated(L[d])
<1>1. PICK s \in Seq(Requests) : s = L[d]
  BY DEF Filed
<1>2. ASSUME NEW i \in DOMAIN s, NEW j \in DOMAIN s, s[i] = s[j], i < j PROVE FALSE
  <2>1. PICK q \in Requests : q = s[i]
    OBVIOUS
  <2>2. Follows(s, q, q)
    BY <1>2, <2>1 DEF Follows
  <2>3. Follows(M, q, q)
    BY <1>1, <2>2 DEF Filed
  <2>4. PICK k, m \in DOMAIN M : k < m /\ M[k] = q /\ M[m] = q
    BY <2>3 DEF Follows
  <2>5. M \in Seq(Requests) /\ Unrepeated(M)
    BY DEF Filed
  <2>6. k = m /\ k \in Nat
    BY <2>4, <2>5 DEF Unrepeated
  <2> QED
    BY <2>4, <2>6
<1>3. \A i \in DOMAIN s : i \in Nat
  OBVIOUS
<1>4. \A i, j \in DOMAIN s : s[i] = s[j] => i = j
  <2> SUFFICES ASSUME NEW i \in DOMAIN s, NEW j \in DOMAIN s, s[i] = s[j] PROVE i = j
    OBVIOUS
  <2>1. ~(i < j) /\ ~(j < i)
    BY <1>2
  <2> QED
    BY <1>3, <2>1
<1> QED
  BY <1>1, <1>4 DEF Unrepeated

-----------------------------------------------------------------------------
Flying(d) == IF d \in flight.rest THEN flight.lines[d] ELSE <<>>
DayLines == [d \in Days |-> Joined(file[d], Flying(d), pending[d])]

LogsTypeOK ==
  /\ second \in 0..MaxSecond
  /\ served \in [Requests -> {"no", "yes", "logged"}]
  /\ pending \in [Days -> Seq(Requests)] /\ file \in [Days -> Seq(Requests)]
  /\ flight \in [on : BOOLEAN, lines : [Days -> Seq(Requests)], rest : SUBSET Days]
  /\ reader \in [Callers -> {"idle", "awaits", "reads"}] /\ up \in BOOLEAN

(* A flush that is over leaves nothing behind it, and a shutdown that has drained the buffer  *)
(* finds no flush under way, or it would end while the lines of one are being written.         *)
Landed ==
  /\ ~flight.on => flight = NoFlight
  /\ ~up => flight = NoFlight /\ pending = NoLines
  /\ up /\ reader["exit"] = "reads" => flight = NoFlight

LinesInv ==
  /\ LogsTypeOK /\ Landed
  /\ Filed(DayLines, gone, made)
  /\ \A r \in Requests : served[r] = "logged" <=> Contains(made, r)

LEMMA NoFlightIs ==
  /\ NoFlight \in [on : BOOLEAN, lines : [Days -> Seq(Requests)], rest : SUBSET Days]
  /\ NoLines \in [Days -> Seq(Requests)] /\ \A d \in Days : NoLines[d] = <<>>
  /\ NoFlight.on = FALSE /\ NoFlight.rest = {}
<1>1. <<>> \in Seq(Requests)
  OBVIOUS
<1>2. NoLines \in [Days -> Seq(Requests)]
  BY <1>1 DEF NoLines
<1>3. \A d \in Days : NoLines[d] = <<>>
  BY DEF NoLines
<1>4. NoFlight \in [on : BOOLEAN, lines : [Days -> Seq(Requests)], rest : SUBSET Days]
  BY <1>2 DEF NoFlight
<1> QED
  BY <1>2, <1>3, <1>4 DEF NoFlight

LEMMA DayLinesType ==
  ASSUME LogsTypeOK
  PROVE  /\ \A d \in Days : Flying(d) \in Seq(Requests)
         /\ DayLines \in [Days -> Seq(Requests)]
<1>1. ASSUME NEW d \in Days PROVE Flying(d) \in Seq(Requests) /\ Joined(file[d], Flying(d), pending[d]) \in Seq(Requests)
  <2>1. PICK f \in Seq(Requests), p \in Seq(Requests), l \in Seq(Requests) :
          f = file[d] /\ p = pending[d] /\ l = flight.lines[d]
    BY DEF LogsTypeOK
  <2>2. PICK x \in Seq(Requests) : x = Flying(d)
    <3>1. <<>> \in Seq(Requests)
      OBVIOUS
    <3> QED
      BY <2>1, <3>1 DEF Flying
  <2>3. Parts(f, x, p)
    BY DEF Parts
  <2>4. Joined(f, x, p) \in Seq(Requests)
    BY <2>3, PartsJoined DEF IsJoined
  <2> QED
    BY <2>1, <2>2, <2>4
<1> QED
  BY <1>1 DEF DayLines

LEMMA LogsStart == LogsInit => LinesInv
<1> SUFFICES ASSUME LogsInit PROVE LinesInv
  OBVIOUS
<1>1. LogsTypeOK
  <2>1. second \in 0..MaxSecond
    <3>1. second = 0
      BY DEF LogsInit
    <3> QED
      BY <3>1, LogsAssumption
  <2>2. served \in [Requests -> {"no", "yes", "logged"}]
    BY DEF LogsInit
  <2>3. pending \in [Days -> Seq(Requests)] /\ file \in [Days -> Seq(Requests)]
    BY NoFlightIs DEF LogsInit
  <2>4. flight \in [on : BOOLEAN, lines : [Days -> Seq(Requests)], rest : SUBSET Days]
    BY NoFlightIs DEF LogsInit
  <2>5. reader \in [Callers -> {"idle", "awaits", "reads"}] /\ up \in BOOLEAN
    BY DEF LogsInit
  <2> QED
    BY <2>1, <2>2, <2>3, <2>4, <2>5 DEF LogsTypeOK
<1>2. Landed
  BY DEF LogsInit, Landed, Callers
<1>3. made \in Seq(Requests) /\ Unrepeated(made) /\ \A r : ~Contains(made, r)
  BY DEF LogsInit, Unrepeated, Contains
<1>4. ASSUME NEW d \in Days PROVE DayLines[d] = <<>>
  <2>1. file[d] = <<>> /\ pending[d] = <<>> /\ Flying(d) = <<>>
    BY NoFlightIs DEF LogsInit, Flying
  <2>2. PICK e \in Seq(Requests) : e = <<>>
    <3>1. <<>> \in Seq(Requests)
      OBVIOUS
    <3> QED
      BY <3>1
  <2>3. e \o e = e
    BY <2>2, ConcatEmptySeq
  <2> QED
    BY <2>1, <2>2, <2>3 DEF DayLines, Joined
<1>5. \A d \in Days : (\A r : ~Contains(DayLines[d], r)) /\ (\A q, r : ~Follows(DayLines[d], q, r))
  BY <1>4 DEF Contains, Follows
<1>6. gone = {}
  BY DEF LogsInit
<1>7. Filed(DayLines, gone, made)
  BY <1>1, <1>3, <1>5, <1>6, DayLinesType DEF Filed
<1>8. \A r \in Requests : served[r] = "logged" <=> Contains(made, r)
  BY <1>3 DEF LogsInit
<1> QED
  BY <1>1, <1>2, <1>7, <1>8 DEF LinesInv

(* A flush moves what is buffered and loses nothing. *)
LEMMA FlushMoves ==
  ASSUME LinesInv, NEW lines \in [Days -> Seq(Requests)], Flush(lines), file' = file
  PROVE  /\ pending' \in [Days -> Seq(Requests)]
         /\ flight' \in [on : BOOLEAN, lines : [Days -> Seq(Requests)], rest : SUBSET Days]
         /\ ~flight'.on => flight' = NoFlight
         /\ DayLines' = [d \in Days |-> Joined(file[d], Flying(d), lines[d])]
<1>0. LogsTypeOK /\ Landed
  BY DEF LinesInv
<1>1. CASE flight.on \/ Held(lines) = {}
  <2>1. pending' = lines /\ flight' = flight
    BY <1>1 DEF Flush
  <2>2. flight \in [on : BOOLEAN, lines : [Days -> Seq(Requests)], rest : SUBSET Days]
    BY <1>0 DEF LogsTypeOK
  <2>3. ~flight.on => flight = NoFlight
    BY <1>0 DEF Landed
  <2>4. DayLines' = [d \in Days |-> Joined(file[d], Flying(d), lines[d])]
    BY <2>1 DEF DayLines, Flying
  <2> QED
    BY <2>1, <2>2, <2>3, <2>4
<1>2. CASE ~(flight.on \/ Held(lines) = {})
  <2>1. flight = NoFlight /\ flight' = [on |-> TRUE, lines |-> lines, rest |-> Held(lines)] /\ pending' = NoLines
    BY <1>0, <1>2 DEF Flush, Landed, Emptied
  <2>2. Held(lines) \in SUBSET Days /\ \A d \in Days : d \in Held(lines) <=> lines[d] # <<>>
    BY DEF Held
  <2>3. flight' \in [on : BOOLEAN, lines : [Days -> Seq(Requests)], rest : SUBSET Days]
    BY <2>1, <2>2
  <2>4. flight'.rest = Held(lines) /\ flight'.lines = lines /\ flight'.on = TRUE
    BY <2>1
  <2>5. ASSUME NEW d \in Days
        PROVE  Joined(file'[d], IF d \in flight'.rest THEN flight'.lines[d] ELSE <<>>, pending'[d])
                 = Joined(file[d], Flying(d), lines[d])
    <3>1. PICK f \in Seq(Requests), p \in Seq(Requests) : f = file[d] /\ p = lines[d]
      BY <1>0 DEF LogsTypeOK
    <3>2. (IF d \in flight'.rest THEN flight'.lines[d] ELSE <<>>) = lines[d] /\ pending'[d] = <<>>
      BY <2>1, <2>2, <2>4, NoFlightIs
    <3>3. Flying(d) = <<>>
      BY <2>1, NoFlightIs DEF Flying
    <3>4. Joined(f, p, <<>>) = Joined(f, <<>>, p)
      BY JoinedSame
    <3> QED
      BY <3>1, <3>2, <3>3, <3>4
  <2>6. DayLines' = [d \in Days |-> Joined(file[d], Flying(d), lines[d])]
    BY <2>5 DEF DayLines, Flying
  <2> QED
    BY <2>1, <2>3, <2>4, <2>6, NoFlightIs
<1> QED
  BY <1>1, <1>2

LEMMA FlushKeeps ==
  ASSUME LinesInv, Flush(pending), reader["exit"] # "reads", up, up' = TRUE,
         UNCHANGED <<second, served, file, gone, made>>,
         reader' \in [Callers -> {"idle", "awaits", "reads"}],
         reader'["exit"] = "reads" => ~flight'.on
  PROVE  LinesInv'
<1>0. LogsTypeOK /\ Landed
  BY DEF LinesInv
<1>1. pending \in [Days -> Seq(Requests)]
  BY <1>0 DEF LogsTypeOK
<1>2. /\ pending' \in [Days -> Seq(Requests)]
      /\ flight' \in [on : BOOLEAN, lines : [Days -> Seq(Requests)], rest : SUBSET Days]
      /\ ~flight'.on => flight' = NoFlight
      /\ DayLines' = [d \in Days |-> Joined(file[d], Flying(d), pending[d])]
  BY <1>1, FlushMoves
<1>3. DayLines' = DayLines
  BY <1>2 DEF DayLines
<1>4. LogsTypeOK'
  BY <1>0, <1>2 DEF LogsTypeOK
<1>5. Landed'
  BY <1>2 DEF Landed
<1> QED
  BY <1>3, <1>4, <1>5 DEF LinesInv

LEMMA EnqueueKeeps ==
  ASSUME LinesInv, NEW r \in Requests, Enqueue(r), reader["exit"] # "reads"
  PROVE  LinesInv'
<1>0. LogsTypeOK /\ Landed /\ Filed(DayLines, gone, made)
  BY DEF LinesInv
<1>1. PICK t \in Days : t = Today
  BY <1>0, LogsAssumption DEF LogsTypeOK, Today, Days
<1>2. PICK lines : lines = [pending EXCEPT ![t] = Append(@, r)]
  OBVIOUS
<1>3. /\ up /\ up' = up /\ served[r] = "yes" /\ served' = [served EXCEPT ![r] = "logged"]
      /\ made' = Append(made, r) /\ UNCHANGED <<second, file, reader, gone>>
      /\ Flush(lines) \/ (pending' = lines /\ flight' = flight)
  BY <1>1, <1>2 DEF Enqueue
<1>4. lines \in [Days -> Seq(Requests)]
  BY <1>0, <1>2 DEF LogsTypeOK
<1>5. /\ pending' \in [Days -> Seq(Requests)]
      /\ flight' \in [on : BOOLEAN, lines : [Days -> Seq(Requests)], rest : SUBSET Days]
      /\ ~flight'.on => flight' = NoFlight
      /\ DayLines' = [d \in Days |-> Joined(file[d], Flying(d), lines[d])]
  <2>1. CASE Flush(lines)
    BY <1>3, <1>4, <2>1, FlushMoves
  <2>2. CASE pending' = lines /\ flight' = flight
    BY <1>0, <1>3, <1>4, <2>2 DEF LogsTypeOK, Landed, DayLines, Flying
  <2> QED
    BY <1>3, <2>1, <2>2
<1>6. DayLines' = [DayLines EXCEPT ![t] = Append(DayLines[t], r)]
  <2>1. PICK f \in Seq(Requests), l \in Seq(Requests), p \in Seq(Requests) :
          f = file[t] /\ l = Flying(t) /\ p = pending[t]
    BY <1>0, DayLinesType DEF LogsTypeOK
  <2>2. Joined(f, l, Append(p, r)) = Append(Joined(f, l, p), r)
    BY JoinedAppend
  <2>3. lines[t] = Append(p, r) /\ \A d \in Days \ {t} : lines[d] = pending[d]
    BY <1>0, <1>2, <2>1 DEF LogsTypeOK
  <2>4. DayLines'[t] = Append(DayLines[t], r)
    BY <1>5, <2>1, <2>2, <2>3 DEF DayLines
  <2>5. \A d \in Days \ {t} : DayLines'[d] = DayLines[d]
    BY <1>5, <2>3 DEF DayLines
  <2>6. DayLines' = [d \in Days |-> DayLines'[d]] /\ DayLines = [d \in Days |-> DayLines[d]]
    BY DEF DayLines
  <2> QED
    BY <2>4, <2>5, <2>6
<1>7. ~Contains(made, r)
  BY <1>3 DEF LinesInv
<1>8. Filed(DayLines', gone', made')
  BY <1>0, <1>3, <1>6, <1>7, FiledAppend
<1>9. \A q \in Requests : (served[q] = "logged")' <=> Contains(made', q)
  <2>1. PICK m \in Seq(Requests) : m = made
    BY <1>0 DEF Filed
  <2>2. \A q : Contains(Append(m, r), q) <=> Contains(m, q) \/ q = r
    BY AppendHolds
  <2>3. \A q \in Requests : served'[q] = IF q = r THEN "logged" ELSE served[q]
    BY <1>0, <1>3 DEF LogsTypeOK
  <2> QED
    BY <1>3, <2>1, <2>2, <2>3 DEF LinesInv
<1>10. LogsTypeOK'
  BY <1>0, <1>3, <1>5 DEF LogsTypeOK
<1>11. Landed'
  BY <1>3, <1>5 DEF Landed
<1> QED
  BY <1>8, <1>9, <1>10, <1>11 DEF LinesInv

(* Lines that are written are where they were in the order of their day. *)
LEMMA WriteDayKeeps ==
  ASSUME LinesInv, NEW t \in Days, WriteDay(t, FALSE), reader["exit"] # "reads"
  PROVE  LinesInv'
<1>0. LogsTypeOK /\ Landed /\ Filed(DayLines, gone, made)
  BY DEF LinesInv
<1>1. PICK rest : rest = flight.rest \ {t}
  OBVIOUS
<1>2. /\ up /\ t \in flight.rest /\ file' = [file EXCEPT ![t] = @ \o flight.lines[t]]
      /\ flight' = IF rest = {} THEN NoFlight ELSE [flight EXCEPT !.rest = rest]
      /\ reader' = IF rest # {} THEN reader
                   ELSE [c \in Callers |-> IF reader[c] = "awaits" THEN "reads" ELSE reader[c]]
      /\ UNCHANGED <<second, served, pending, up, gone, made>>
  BY <1>1 DEF WriteDay
<1>3. PICK fl : fl = flight
  OBVIOUS
<1>4. /\ flight' \in [on : BOOLEAN, lines : [Days -> Seq(Requests)], rest : SUBSET Days]
      /\ flight'.rest = rest /\ (rest # {} => flight'.lines = flight.lines /\ flight'.on = flight.on)
      /\ rest = {} => flight' = NoFlight
  <2>1. CASE rest = {}
    BY <1>2, <2>1, NoFlightIs
  <2>2. CASE rest # {}
    <3>1. fl \in [on : BOOLEAN, lines : [Days -> Seq(Requests)], rest : SUBSET Days] /\ rest \in SUBSET Days
      BY <1>0, <1>1, <1>3 DEF LogsTypeOK
    <3>2. flight' = [fl EXCEPT !.rest = rest]
      BY <1>2, <1>3, <2>2
    <3>3. [fl EXCEPT !.rest = rest] \in [on : BOOLEAN, lines : [Days -> Seq(Requests)], rest : SUBSET Days]
      BY <3>1
    <3>4. flight'.rest = rest /\ flight'.lines = fl.lines /\ flight'.on = fl.on
      BY <3>1, <3>2
    <3> QED
      BY <1>3, <2>2, <3>2, <3>3, <3>4
  <2> QED
    BY <2>1, <2>2
<1>5. flight.on /\ flight # NoFlight
  BY <1>0, <1>2, NoFlightIs DEF Landed
<1>6. \A d \in Days : Flying(d)' = IF d = t THEN <<>> ELSE Flying(d)
  BY <1>1, <1>4 DEF Flying
<1>7. file' \in [Days -> Seq(Requests)] /\ file'[t] = file[t] \o flight.lines[t]
      /\ \A d \in Days \ {t} : file'[d] = file[d]
  <2>1. PICK f \in Seq(Requests), l \in Seq(Requests) : f = file[t] /\ l = flight.lines[t]
    BY <1>0 DEF LogsTypeOK
  <2>2. f \o l \in Seq(Requests)
    BY ConcatProperties
  <2> QED
    BY <1>0, <1>2, <2>1, <2>2 DEF LogsTypeOK
<1>8. DayLines' = DayLines
  <2>1. PICK f \in Seq(Requests), l \in Seq(Requests), p \in Seq(Requests) :
          f = file[t] /\ l = flight.lines[t] /\ p = pending[t]
    BY <1>0 DEF LogsTypeOK
  <2>2. Joined(f \o l, <<>>, p) = Joined(f, l, p)
    BY JoinedSame
  <2>3. DayLines'[t] = DayLines[t]
    BY <1>2, <1>6, <1>7, <2>1, <2>2 DEF DayLines, Flying
  <2>4. \A d \in Days \ {t} : DayLines'[d] = DayLines[d]
    BY <1>2, <1>6, <1>7 DEF DayLines
  <2>5. DayLines' = [d \in Days |-> DayLines'[d]] /\ DayLines = [d \in Days |-> DayLines[d]]
    BY DEF DayLines
  <2> QED
    BY <2>3, <2>4, <2>5
<1>9. reader' \in [Callers -> {"idle", "awaits", "reads"}] /\ (reader'["exit"] = "reads" => rest = {})
  BY <1>0, <1>2 DEF LogsTypeOK, Callers
<1>10. LogsTypeOK'
  BY <1>0, <1>2, <1>4, <1>7, <1>9 DEF LogsTypeOK
<1>11. Landed'
  BY <1>2, <1>4, <1>5, <1>9 DEF Landed
<1>12. UNCHANGED <<gone, made, served>>
  BY <1>2
<1> QED
  BY <1>0, <1>8, <1>10, <1>11, <1>12 DEF LinesInv

LEMMA JoinedThins ==
  ASSUME NEW a, NEW b, NEW c, Parts(a, b, c), Unrepeated(Joined(a, b, c)),
         NEW x, NEW y, Parts(a, x, y), x = b \/ x = <<>>, y = c \/ y = <<>>
  PROVE  /\ \A r : Contains(Joined(a, x, y), r) => Contains(Joined(a, b, c), r)
         /\ \A q, r : Follows(Joined(a, x, y), q, r) => Follows(Joined(a, b, c), q, r)
         /\ \A r : Contains(Joined(a, b, c), r) /\ ~Contains(Joined(a, x, y), r)
                     <=> (x = <<>> /\ Contains(b, r)) \/ (y = <<>> /\ Contains(c, r))
<1>0. a \in Seq(Requests) /\ b \in Seq(Requests) /\ c \in Seq(Requests) /\ x \in Seq(Requests) /\ y \in Seq(Requests)
  BY DEF Parts
<1>1. ASSUME NEW r
      PROVE  /\ Contains(Joined(a, b, c), r) <=> Contains(a, r) \/ Contains(b, r) \/ Contains(c, r)
             /\ ~(Contains(a, r) /\ Contains(b, r))
             /\ ~(Contains(a, r) /\ Contains(c, r))
             /\ ~(Contains(b, r) /\ Contains(c, r))
  BY <1>0, JoinedHolds, JoinedApart
<1>2. ASSUME NEW r
      PROVE  Contains(Joined(a, x, y), r) <=> Contains(a, r) \/ Contains(x, r) \/ Contains(y, r)
  BY <1>0, JoinedHolds
<1>3. \A r : ~Contains(<<>>, r)
  BY DEF Contains
<1>4. ASSUME NEW q, NEW r, Follows(Joined(a, x, y), q, r) PROVE Follows(Joined(a, b, c), q, r)
  <2>1. (x = b \/ Len(x) = 0) /\ (y = c \/ Len(y) = 0)
    OBVIOUS
  <2> QED
    BY <1>0, <1>4, <2>1, JoinedFollows
<1>5. ASSUME NEW r
      PROVE  /\ x = <<>> => ~Contains(x, r)
             /\ y = <<>> => ~Contains(y, r)
             /\ x # <<>> => x = b
             /\ y # <<>> => y = c
  BY <1>3
<1>6. ASSUME NEW r
      PROVE  Contains(Joined(a, b, c), r) /\ ~Contains(Joined(a, x, y), r)
               <=> (x = <<>> /\ Contains(b, r)) \/ (y = <<>> /\ Contains(c, r))
  <2>1. CASE x = <<>> /\ y = <<>>
    BY <1>1, <1>2, <1>5, <2>1
  <2>2. CASE x = <<>> /\ y # <<>>
    BY <1>1, <1>2, <1>5, <2>2
  <2>3. CASE x # <<>> /\ y = <<>>
    BY <1>1, <1>2, <1>5, <2>3
  <2>4. CASE x # <<>> /\ y # <<>>
    BY <1>1, <1>2, <1>5, <2>4
  <2> QED
    BY <2>1, <2>2, <2>3, <2>4
<1> QED
  BY <1>1, <1>2, <1>3, <1>4, <1>5, <1>6

LEMMA DayLinesAre == LogsTypeOK => DayLines \in [Days -> Seq(Requests)]
BY DayLinesType

LEMMA InSet == ASSUME NEW s \in Seq(Requests) PROVE ToSet(s) \in SUBSET Requests /\ \A r : r \in ToSet(s) <=> Contains(s, r)
BY DEF ToSet, Contains

LEMMA WriteFails ==
  ASSUME LinesInv, NEW t \in Days, WriteDay(t, TRUE), reader["exit"] # "reads"
  PROVE  LinesInv'
<1>0. LogsTypeOK /\ Landed /\ Filed(DayLines, gone, made)
  BY DEF LinesInv
<1>1. PICK rest : rest = flight.rest \ {t}
  OBVIOUS
<1>2. /\ up /\ t \in flight.rest /\ gone' = gone \cup ToSet(flight.lines[t])
      /\ flight' = IF rest = {} THEN NoFlight ELSE [flight EXCEPT !.rest = rest]
      /\ reader' = IF rest # {} THEN reader
                   ELSE [c \in Callers |-> IF reader[c] = "awaits" THEN "reads" ELSE reader[c]]
      /\ UNCHANGED <<second, served, pending, up, file, made>>
  BY <1>1 DEF WriteDay
<1>3. PICK fl : fl = flight
  OBVIOUS
<1>4. /\ flight' \in [on : BOOLEAN, lines : [Days -> Seq(Requests)], rest : SUBSET Days]
      /\ flight'.rest = rest /\ (rest # {} => flight'.lines = flight.lines /\ flight'.on = flight.on)
      /\ rest = {} => flight' = NoFlight
  <2>1. CASE rest = {}
    BY <1>2, <2>1, NoFlightIs
  <2>2. CASE rest # {}
    <3>1. fl \in [on : BOOLEAN, lines : [Days -> Seq(Requests)], rest : SUBSET Days] /\ rest \in SUBSET Days
      BY <1>0, <1>1, <1>3 DEF LogsTypeOK
    <3>2. flight' = [fl EXCEPT !.rest = rest]
      BY <1>2, <1>3, <2>2
    <3>3. [fl EXCEPT !.rest = rest] \in [on : BOOLEAN, lines : [Days -> Seq(Requests)], rest : SUBSET Days]
      BY <3>1
    <3>4. flight'.rest = rest /\ flight'.lines = fl.lines /\ flight'.on = fl.on
      BY <3>1, <3>2
    <3> QED
      BY <1>3, <2>2, <3>2, <3>3, <3>4
  <2> QED
    BY <2>1, <2>2
<1>5. flight.on /\ flight # NoFlight
  BY <1>0, <1>2, NoFlightIs DEF Landed
<1>6. \A d \in Days : Flying(d)' = IF d = t THEN <<>> ELSE Flying(d)
  BY <1>1, <1>4 DEF Flying
<1>7. reader' \in [Callers -> {"idle", "awaits", "reads"}] /\ (reader'["exit"] = "reads" => rest = {})
  BY <1>0, <1>2 DEF LogsTypeOK, Callers
<1>8. LogsTypeOK'
  BY <1>0, <1>2, <1>4, <1>7 DEF LogsTypeOK
<1>9. Landed'
  BY <1>2, <1>4, <1>5, <1>7 DEF Landed
<1>10. PICK f \in Seq(Requests), l \in Seq(Requests), p \in Seq(Requests) :
         f = file[t] /\ l = flight.lines[t] /\ p = pending[t]
  BY <1>0 DEF LogsTypeOK
<1>11. DayLines[t] = Joined(f, l, p) /\ DayLines'[t] = Joined(f, <<>>, p)
  <2>1. Flying(t) = l
    BY <1>2, <1>10 DEF Flying
  <2> QED
    BY <1>2, <1>6, <1>10, <2>1 DEF DayLines
<1>12. \A d \in Days \ {t} : DayLines'[d] = DayLines[d]
  BY <1>2, <1>6 DEF DayLines
<1>13. /\ \A r : Contains(DayLines'[t], r) => Contains(DayLines[t], r)
       /\ \A q, r : Follows(DayLines'[t], q, r) => Follows(DayLines[t], q, r)
       /\ \A r : Contains(DayLines[t], r) /\ ~Contains(DayLines'[t], r) <=> Contains(l, r)
  <2>1. PICK x \in Seq(Requests) : x = <<>>
    <3>1. <<>> \in Seq(Requests)
      OBVIOUS
    <3> QED
      BY <3>1
  <2>2. Unrepeated(Joined(f, l, p))
    BY <1>0, <1>11, FiledDistinct
  <2>3. \A r : ~Contains(<<>>, r)
    BY DEF Contains
  <2>4. /\ \A r : Contains(Joined(f, x, p), r) => Contains(Joined(f, l, p), r)
        /\ \A q, r : Follows(Joined(f, x, p), q, r) => Follows(Joined(f, l, p), q, r)
        /\ \A r : Contains(Joined(f, l, p), r) /\ ~Contains(Joined(f, x, p), r)
                    <=> (x = <<>> /\ Contains(l, r)) \/ (p = <<>> /\ Contains(p, r))
    <3>1. Parts(f, l, p) /\ Parts(f, x, p)
      BY DEF Parts
    <3> QED
      BY <2>1, <2>2, <3>1, JoinedThins
  <2> QED
    BY <1>11, <2>1, <2>3, <2>4
<1>14. Thins(DayLines, DayLines', gone, gone')
  <2>1. \A d \in Days, r \in Requests : Contains(DayLines'[d], r) => Contains(DayLines[d], r)
    BY <1>12, <1>13
  <2>2. \A d \in Days, q, r \in Requests : Follows(DayLines'[d], q, r) => Follows(DayLines[d], q, r)
    BY <1>12, <1>13
  <2>3. ToSet(l) \in SUBSET Requests /\ \A r : r \in ToSet(l) <=> Contains(l, r)
    BY InSet
  <2>4. \A r \in Requests : r \in gone' <=> r \in gone \/ \E d \in Days : Contains(DayLines[d], r) /\ ~Contains(DayLines'[d], r)
    BY <1>2, <1>10, <1>12, <1>13, <2>3
  <2>5. gone' \in SUBSET Requests
    BY <1>0, <1>2, <1>10, <2>3 DEF Filed
  <2>6. DayLines' \in [Days -> Seq(Requests)]
    <3>1. (DayLines \in [Days -> Seq(Requests)])'
      BY <1>8, DayLinesAre, PTL
    <3> QED
      BY <3>1
  <2> QED
    BY <2>1, <2>2, <2>4, <2>5, <2>6 DEF Thins
<1>15. Filed(DayLines', gone', made)
  BY <1>0, <1>14, FiledThins
<1> QED
  BY <1>2, <1>8, <1>9, <1>15 DEF LinesInv

Buffered == UNION {ToSet(pending[d]) : d \in Days}

LEMMA KillKeeps ==
  ASSUME LinesInv, Kill
  PROVE  LinesInv'
<1>0. LogsTypeOK /\ Landed /\ Filed(DayLines, gone, made)
  BY DEF LinesInv
<1>1. /\ up' = FALSE /\ pending' = NoLines /\ flight' = NoFlight
      /\ gone' = gone \cup Buffered \cup InFlight
      /\ UNCHANGED <<second, served, file, reader, made>>
  <2>1. gone' = gone \cup Buffered \cup InFlight
    BY Zenon DEF Kill, Buffered, InFlight
  <2> QED
    BY <2>1 DEF Kill
<1>2. LogsTypeOK'
  BY <1>0, <1>1, NoFlightIs DEF LogsTypeOK
<1>3. Landed'
  BY <1>1 DEF Landed
<1>4. ASSUME NEW d \in Days
      PROVE  /\ \A r : Contains(DayLines'[d], r) => Contains(DayLines[d], r)
             /\ \A q, r : Follows(DayLines'[d], q, r) => Follows(DayLines[d], q, r)
             /\ \A r : Contains(DayLines[d], r) /\ ~Contains(DayLines'[d], r)
                         <=> Contains(Flying(d), r) \/ Contains(pending[d], r)
  <2>1. PICK f \in Seq(Requests), l \in Seq(Requests), p \in Seq(Requests) :
          f = file[d] /\ l = Flying(d) /\ p = pending[d]
    BY <1>0, DayLinesType DEF LogsTypeOK
  <2>2. PICK x \in Seq(Requests) : x = <<>>
    <3>1. <<>> \in Seq(Requests)
      OBVIOUS
    <3> QED
      BY <3>1
  <2>3. Flying(d)' = x /\ pending'[d] = x
    BY <1>1, <2>2, NoFlightIs DEF Flying
  <2>4. DayLines[d] = Joined(f, l, p) /\ DayLines'[d] = Joined(f, x, x)
    BY <1>1, <2>1, <2>3 DEF DayLines
  <2>5. Unrepeated(Joined(f, l, p))
    BY <1>0, <2>4, FiledDistinct
  <2>6. /\ \A r : Contains(Joined(f, x, x), r) => Contains(Joined(f, l, p), r)
        /\ \A q, r : Follows(Joined(f, x, x), q, r) => Follows(Joined(f, l, p), q, r)
        /\ \A r : Contains(Joined(f, l, p), r) /\ ~Contains(Joined(f, x, x), r)
                    <=> (x = <<>> /\ Contains(l, r)) \/ (x = <<>> /\ Contains(p, r))
    <3>1. Parts(f, l, p) /\ Parts(f, x, x)
      BY DEF Parts
    <3> QED
      BY <2>2, <2>5, <3>1, JoinedThins
  <2> QED
    BY <2>1, <2>2, <2>4, <2>6
<1>5. Thins(DayLines, DayLines', gone, gone')
  <2>1. \A d \in Days, r \in Requests : Contains(DayLines'[d], r) => Contains(DayLines[d], r)
    BY <1>4
  <2>2. \A d \in Days, q, r \in Requests : Follows(DayLines'[d], q, r) => Follows(DayLines[d], q, r)
    BY <1>4
  <2>3. ASSUME NEW d \in Days
        PROVE  /\ ToSet(pending[d]) \in SUBSET Requests /\ ToSet(flight.lines[d]) \in SUBSET Requests
               /\ \A r : r \in ToSet(pending[d]) <=> Contains(pending[d], r)
               /\ \A r : (d \in flight.rest /\ r \in ToSet(flight.lines[d])) <=> Contains(Flying(d), r)
    <3>1. PICK l \in Seq(Requests), p \in Seq(Requests) : l = flight.lines[d] /\ p = pending[d]
      BY <1>0 DEF LogsTypeOK
    <3>2. /\ ToSet(l) \in SUBSET Requests /\ \A r : r \in ToSet(l) <=> Contains(l, r)
          /\ ToSet(p) \in SUBSET Requests /\ \A r : r \in ToSet(p) <=> Contains(p, r)
      BY InSet
    <3>3. \A r : ~Contains(<<>>, r)
      BY DEF Contains
    <3> QED
      BY <3>1, <3>2, <3>3 DEF Flying
  <2>4. flight.rest \in SUBSET Days
    BY <1>0 DEF LogsTypeOK
  <2>5. \A r \in Requests : r \in gone' <=> r \in gone \/ \E d \in Days : Contains(Flying(d), r) \/ Contains(pending[d], r)
    <3>1. \A r : r \in Buffered <=> \E d \in Days : r \in ToSet(pending[d])
      BY DEF Buffered
    <3>2. \A r : r \in InFlight <=> \E d \in flight.rest : r \in ToSet(flight.lines[d])
      BY DEF InFlight
    <3> QED
      BY <1>1, <2>3, <2>4, <3>1, <3>2
  <2>6. \A r \in Requests : r \in gone' <=> r \in gone \/ \E d \in Days : Contains(DayLines[d], r) /\ ~Contains(DayLines'[d], r)
    BY <1>4, <2>5
  <2>7. gone' \in SUBSET Requests
    <3>1. Buffered \in SUBSET Requests
      BY <2>3 DEF Buffered
    <3>2. InFlight \in SUBSET Requests
      BY <2>3, <2>4 DEF InFlight
    <3> QED
      BY <1>0, <1>1, <3>1, <3>2 DEF Filed
  <2>8. DayLines' \in [Days -> Seq(Requests)]
    <3>1. (DayLines \in [Days -> Seq(Requests)])'
      BY <1>2, DayLinesAre, PTL
    <3> QED
      BY <3>1
  <2> QED
    BY <2>1, <2>2, <2>6, <2>7, <2>8 DEF Thins
<1>6. Filed(DayLines', gone', made)
  BY <1>0, <1>5, FiledThins
<1> QED
  BY <1>1, <1>2, <1>3, <1>6 DEF LinesInv

LEMMA ExitKeeps ==
  ASSUME LinesInv, Exit
  PROVE  LinesInv'
<1>0. LogsTypeOK /\ Landed /\ Filed(DayLines, gone, made)
  BY DEF LinesInv
<1>1. /\ up /\ reader["exit"] = "reads" /\ up' = FALSE /\ pending' = NoLines
      /\ file' = [d \in Days |-> file[d] \o pending[d]]
      /\ UNCHANGED <<second, served, flight, reader, gone, made>>
  BY DEF Exit
<1>2. flight = NoFlight
  BY <1>0, <1>1 DEF Landed
<1>3. ASSUME NEW d \in Days PROVE file[d] \o pending[d] \in Seq(Requests) /\ DayLines'[d] = DayLines[d]
  <2>1. PICK f \in Seq(Requests), p \in Seq(Requests) : f = file[d] /\ p = pending[d]
    BY <1>0 DEF LogsTypeOK
  <2>2. f \o p \in Seq(Requests)
    BY ConcatProperties
  <2>3. Joined(f \o p, <<>>, <<>>) = Joined(f, <<>>, p)
    BY JoinedSame
  <2>4. Flying(d) = <<>> /\ Flying(d)' = <<>> /\ pending'[d] = <<>>
    BY <1>1, <1>2, NoFlightIs DEF Flying
  <2> QED
    BY <1>1, <2>1, <2>2, <2>3, <2>4 DEF DayLines
<1>4. DayLines' = DayLines
  <2>1. DayLines' = [d \in Days |-> DayLines'[d]] /\ DayLines = [d \in Days |-> DayLines[d]]
    BY DEF DayLines
  <2> QED
    BY <1>3, <2>1
<1>5. file' \in [Days -> Seq(Requests)]
  BY <1>1, <1>3
<1>6. LogsTypeOK'
  BY <1>0, <1>1, <1>5, NoFlightIs DEF LogsTypeOK
<1>7. Landed'
  BY <1>1, <1>2 DEF Landed
<1> QED
  BY <1>0, <1>1, <1>4, <1>6, <1>7 DEF LinesInv

LEMMA LogsStep == LinesInv /\ [LogsNext]_<<second, logVars, rateVars>> => LinesInv'
<1> SUFFICES ASSUME LinesInv, [LogsNext]_<<second, logVars, rateVars>> PROVE LinesInv'
  OBVIOUS
<1>0. LogsTypeOK /\ Landed
  BY DEF LinesInv
<1>1. ASSUME UNCHANGED logVars, second' \in 0..MaxSecond PROVE LinesInv'
  <2>1. UNCHANGED <<served, pending, flight, file, reader, up, gone, made>>
    BY <1>1 DEF logVars
  <2>2. DayLines' = DayLines
    BY <2>1 DEF DayLines, Flying
  <2>3. LogsTypeOK' /\ Landed'
    BY <1>0, <1>1, <2>1 DEF LogsTypeOK, Landed
  <2> QED
    BY <2>1, <2>2, <2>3 DEF LinesInv
<1>2. CASE Second \/ RateNext \/ UNCHANGED <<second, logVars, rateVars>>
  <2>1. second' \in {second, second + 1} /\ (second' # second => second < MaxSecond) /\ UNCHANGED logVars
    BY <1>2 DEF Second, RateNext, Finish, ReadRate
  <2>2. second' \in 0..MaxSecond
    BY <1>0, <2>1, LogsAssumption DEF LogsTypeOK
  <2> QED
    BY <1>1, <2>1, <2>2
<1>3. CASE WriterNext
  <2>1. CASE reader["exit"] = "reads" /\ up
    <3>1. Exit
      BY <1>3, <2>1 DEF WriterNext
    <3> QED
      BY <3>1, ExitKeeps
  <2>2. CASE ~(reader["exit"] = "reads" /\ up)
    <3>0. \/ TimerFires \/ Read \/ Kill
          \/ \E r \in Requests : Serve(r) \/ Enqueue(r)
          \/ \E c \in Callers : Drain(c)
          \/ \E d \in Days, fails \in BOOLEAN : WriteDay(d, fails)
      BY <1>3, <2>2 DEF WriterNext
    <3>1. CASE TimerFires
      <4>1. /\ Flush(pending) /\ up /\ up' = TRUE /\ UNCHANGED <<second, served, file, gone, made>>
            /\ reader' = reader
        BY <1>0, <3>1 DEF TimerFires, LogsTypeOK
      <4>2. reader["exit"] # "reads" /\ reader' \in [Callers -> {"idle", "awaits", "reads"}]
        BY <1>0, <2>2, <4>1 DEF LogsTypeOK
      <4> QED
        BY <4>1, <4>2, FlushKeeps
    <3>2. CASE Read
      <4>1. /\ up /\ reader' = [reader EXCEPT !["reader"] = "idle"]
            /\ UNCHANGED <<second, served, pending, flight, file, up, gone, made>>
        BY <3>2 DEF Read
      <4>2. reader' \in [Callers -> {"idle", "awaits", "reads"}] /\ reader'["exit"] = reader["exit"]
        BY <1>0, <4>1 DEF LogsTypeOK, Callers
      <4>3. DayLines' = DayLines
        BY <4>1 DEF DayLines, Flying
      <4>4. LogsTypeOK' /\ Landed'
        BY <1>0, <4>1, <4>2 DEF LogsTypeOK, Landed
      <4> QED
        BY <4>1, <4>3, <4>4 DEF LinesInv
    <3>3. CASE Kill
      BY <3>3, KillKeeps
    <3>4. ASSUME NEW r \in Requests, Serve(r) PROVE LinesInv'
      <4>1. /\ served[r] = "no" /\ served' = [served EXCEPT ![r] = "yes"]
            /\ UNCHANGED <<second, pending, flight, file, reader, up, gone, made>>
        BY <3>4 DEF Serve
      <4>2. served' \in [Requests -> {"no", "yes", "logged"}]
            /\ \A q \in Requests : (served'[q] = "logged") <=> (served[q] = "logged")
        BY <1>0, <4>1 DEF LogsTypeOK
      <4>3. DayLines' = DayLines
        BY <4>1 DEF DayLines, Flying
      <4>4. LogsTypeOK' /\ Landed'
        BY <1>0, <4>1, <4>2 DEF LogsTypeOK, Landed
      <4> QED
        BY <4>1, <4>2, <4>3, <4>4 DEF LinesInv
    <3>5. ASSUME NEW r \in Requests, Enqueue(r) PROVE LinesInv'
      <4>1. reader["exit"] # "reads"
        BY <2>2, <3>5 DEF Enqueue
      <4> QED
        BY <3>5, <4>1, EnqueueKeeps
    <3>6. ASSUME NEW c \in Callers, Drain(c) PROVE LinesInv'
      <4>1. /\ Flush(pending) /\ up /\ up' = TRUE /\ UNCHANGED <<second, served, file, gone, made>>
            /\ reader' = [reader EXCEPT ![c] = IF flight'.on THEN "awaits" ELSE "reads"]
        BY <1>0, <3>6 DEF Drain, LogsTypeOK
      <4>2. reader["exit"] # "reads" /\ reader' \in [Callers -> {"idle", "awaits", "reads"}]
        BY <1>0, <2>2, <4>1 DEF LogsTypeOK
      <4>3. reader'["exit"] = "reads" => ~flight'.on
        BY <1>0, <4>1, <4>2 DEF LogsTypeOK, Callers
      <4> QED
        BY <4>1, <4>2, <4>3, FlushKeeps
    <3>7. ASSUME NEW d \in Days, NEW fails \in BOOLEAN, WriteDay(d, fails) PROVE LinesInv'
      <4>1. reader["exit"] # "reads"
        BY <2>2, <3>7 DEF WriteDay
      <4>2. CASE fails = TRUE
        <5>1. WriteDay(d, TRUE)
          BY <3>7, <4>2
        <5> QED
          BY <4>1, <5>1, WriteFails
      <4>3. CASE fails = FALSE
        <5>1. WriteDay(d, FALSE)
          BY <3>7, <4>3
        <5> QED
          BY <4>1, <5>1, WriteDayKeeps
      <4> QED
        BY <4>2, <4>3
    <3> QED
      BY <3>0, <3>1, <3>2, <3>3, <3>4, <3>5, <3>6, <3>7
  <2> QED
    BY <2>1, <2>2
<1>4. Second \/ RateNext \/ WriterNext \/ UNCHANGED <<second, logVars, rateVars>>
  BY DEF LogsNext
<1> QED
  BY <1>2, <1>3, <1>4

(* A line that was made is in one place: the sets that Places counts have one member in all. *)
LEMMA OnePlace ==
  ASSUME LinesInv, NEW r \in Requests, served[r] = "logged"
  PROVE  Places(r) = 1
<1>0. LogsTypeOK /\ Filed(DayLines, gone, made) /\ Contains(made, r)
  BY DEF LinesInv
<1>1. PICK F, P : F = {d \in Days : Contains(file[d], r)} /\ P = {d \in Days : Contains(pending[d], r)}
  OBVIOUS
<1>2. PICK fly, lost : fly = (IF r \in InFlight THEN 1 ELSE 0) /\ lost = (IF r \in gone THEN 1 ELSE 0)
  OBVIOUS
<1>3. Places(r) = Cardinality(F) + Cardinality(P) + fly + lost
  BY <1>1, <1>2 DEF Places
<1>4. ASSUME NEW d \in Days
      PROVE  /\ Contains(DayLines[d], r) <=> Contains(file[d], r) \/ Contains(Flying(d), r) \/ Contains(pending[d], r)
             /\ ~(Contains(file[d], r) /\ Contains(Flying(d), r))
             /\ ~(Contains(file[d], r) /\ Contains(pending[d], r))
             /\ ~(Contains(Flying(d), r) /\ Contains(pending[d], r))
  <2>1. PICK f \in Seq(Requests), l \in Seq(Requests), p \in Seq(Requests) :
          f = file[d] /\ l = Flying(d) /\ p = pending[d]
    BY <1>0, DayLinesType DEF LogsTypeOK
  <2>2. DayLines[d] = Joined(f, l, p)
    BY <2>1 DEF DayLines
  <2>3. Unrepeated(Joined(f, l, p))
    BY <1>0, <2>2, FiledDistinct
  <2>4. /\ ~(Contains(f, r) /\ Contains(l, r)) /\ ~(Contains(f, r) /\ Contains(p, r))
        /\ ~(Contains(l, r) /\ Contains(p, r))
    BY <2>3, JoinedApart
  <2>5. Contains(Joined(f, l, p), r) <=> Contains(f, r) \/ Contains(l, r) \/ Contains(p, r)
    BY JoinedHolds
  <2> QED
    BY <2>1, <2>2, <2>4, <2>5
<1>5. r \in InFlight <=> \E d \in Days : Contains(Flying(d), r)
  <2>1. ASSUME NEW d \in Days PROVE (d \in flight.rest /\ r \in ToSet(flight.lines[d])) <=> Contains(Flying(d), r)
    <3>1. PICK l \in Seq(Requests) : l = flight.lines[d]
      BY <1>0 DEF LogsTypeOK
    <3>2. r \in ToSet(l) <=> Contains(l, r)
      BY InSet
    <3>3. ~Contains(<<>>, r)
      BY DEF Contains
    <3> QED
      BY <3>1, <3>2, <3>3 DEF Flying
  <2>2. flight.rest \in SUBSET Days
    BY <1>0 DEF LogsTypeOK
  <2>3. r \in InFlight <=> \E d \in flight.rest : r \in ToSet(flight.lines[d])
    BY DEF InFlight
  <2> QED
    BY <2>1, <2>2, <2>3
<1>6. Cardinality({}) = 0
  BY FS_EmptySet
<1>7. CASE r \in gone
  <2>1. \A d \in Days : ~Contains(DayLines[d], r)
    BY <1>0, <1>7 DEF Filed
  <2>2. F = {} /\ P = {} /\ r \notin InFlight
    BY <1>1, <1>4, <1>5, <2>1
  <2> QED
    BY <1>2, <1>3, <1>6, <1>7, <2>2
<1>8. CASE r \notin gone
  <2>1. PICK t \in Days : Contains(DayLines[t], r)
    BY <1>0, <1>8 DEF Filed
  <2>2. \A d \in Days : Contains(DayLines[d], r) => d = t
    BY <1>0, <2>1 DEF Filed
  <2>3. Cardinality({t}) = 1
    BY FS_Singleton
  <2>4. CASE Contains(file[t], r)
    <3>1. F = {t} /\ P = {} /\ r \notin InFlight
      BY <1>1, <1>4, <1>5, <2>2, <2>4
    <3> QED
      BY <1>2, <1>3, <1>6, <1>8, <2>3, <3>1
  <2>5. CASE Contains(Flying(t), r)
    <3>1. F = {} /\ P = {} /\ r \in InFlight
      BY <1>1, <1>4, <1>5, <2>2, <2>5
    <3> QED
      BY <1>2, <1>3, <1>6, <1>8, <3>1
  <2>6. CASE Contains(pending[t], r)
    <3>1. F = {} /\ P = {t} /\ r \notin InFlight
      BY <1>1, <1>4, <1>5, <2>2, <2>6
    <3> QED
      BY <1>2, <1>3, <1>6, <1>8, <2>3, <3>1
  <2> QED
    BY <1>4, <2>1, <2>4, <2>5, <2>6
<1> QED
  BY <1>7, <1>8

LEMMA FileInOrder ==
  ASSUME LinesInv, NEW d \in Days
  PROVE  InOrder(file[d])
<1>0. LogsTypeOK /\ Filed(DayLines, gone, made)
  BY DEF LinesInv
<1>1. PICK f \in Seq(Requests), l \in Seq(Requests), p \in Seq(Requests) :
        f = file[d] /\ l = Flying(d) /\ p = pending[d]
  BY <1>0, DayLinesType DEF LogsTypeOK
<1>2. DayLines[d] = Joined(f, l, p)
  BY <1>1 DEF DayLines
<1>3. PICK x \in Seq(Requests) : x = <<>>
  <2>1. <<>> \in Seq(Requests)
    OBVIOUS
  <2> QED
    BY <2>1
<1>4. Joined(f, x, x) = f
  BY <1>3, JoinedSame
<1>5. /\ \A r : Contains(Joined(f, x, x), r) => Contains(Joined(f, l, p), r)
      /\ \A q, r : Follows(Joined(f, x, x), q, r) => Follows(Joined(f, l, p), q, r)
  <2>1. Parts(f, l, p) /\ Parts(f, x, x)
    BY DEF Parts
  <2>2. Unrepeated(Joined(f, l, p))
    BY <1>0, <1>2, FiledDistinct
  <2> QED
    BY <1>3, <2>1, <2>2, JoinedThins
<1>6. ASSUME NEW n \in DOMAIN f PROVE Contains(made, f[n])
  <2>1. f[n] \in Requests /\ Contains(f, f[n])
    BY DEF Contains
  <2> QED
    BY <1>0, <1>2, <1>4, <1>5, <2>1 DEF Filed
<1>7. ASSUME NEW m \in DOMAIN f, NEW n \in DOMAIN f, m < n PROVE Before(f[m], f[n])
  <2>1. f[m] \in Requests /\ f[n] \in Requests /\ Follows(f, f[m], f[n])
    BY <1>7 DEF Follows
  <2>2. Follows(made, f[m], f[n])
    BY <1>0, <1>2, <1>4, <1>5, <2>1 DEF Filed
  <2> QED
    BY <2>2 DEF Follows, Before
<1> QED
  BY <1>1, <1>6, <1>7 DEF InOrder

LEMMA LogsConclude == LinesInv => LoggedOnce
<1> SUFFICES ASSUME LinesInv PROVE LoggedOnce
  OBVIOUS
<1>1. \A r \in Requests : served[r] = "logged" => Places(r) = 1
  BY OnePlace
<1>2. ~up => flight = NoFlight /\ Held(pending) = {}
  BY NoFlightIs DEF LinesInv, Landed, Held
<1>3. \A d \in Days : InOrder(file[d])
  BY FileInOrder
<1> QED
  BY <1>1, <1>2, <1>3 DEF LoggedOnce

(* Every request that is answered leaves one line, in its file, in the buffer, in the flush  *)
(* under way or lost with a failed write or a kill, never two and never none; a file holds   *)
(* its lines in the order they were made; and the rate of the last Span seconds counts each  *)
(* request of them once.  For any number of requests, any buffer, any Span and any word that *)
(* a second's count fits in (src/src/core/file-logger.ts, src/src/core/perf-metrics.ts).      *)
THEOREM RequestsAccounted == LogsSpec => []Accounted
<1>1. LogsInit => LinesInv
  BY LogsStart
<1>2. LinesInv /\ [LogsNext]_<<second, logVars, rateVars>> => LinesInv'
  BY LogsStep
<1>3. LogsSpec => []RateCounts
  BY RateStays
<1>4. LinesInv => LoggedOnce
  BY LogsConclude
<1> QED
  BY <1>1, <1>2, <1>3, <1>4, PTL DEF LogsSpec, Accounted
=============================================================================
