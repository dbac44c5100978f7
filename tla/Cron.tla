--------------------------------- MODULE Cron ---------------------------------
(***************************************************************************)
(* Scheduled jobs, src/src/core/jobs.ts and src/src/api/jobs.ts: the       *)
(* leader's 30-second tick starts every enabled job that is due, and a run *)
(* writes next_run_at when it ends, with what it computed when it began.   *)
(* Rows are read and a run is begun without awaiting anything but SQLite,  *)
(* so one step does both; the job's own code takes time.                   *)
(* next_run_at is null, later or due: seconds pass from later to due.      *)
(***************************************************************************)
EXTENDS Naturals, Sequences, FiniteSets, SequencesExt

CONSTANTS CronJobs,
          Prompt,        \* TRUE: execution.timeout_ms ends a run before the next tick
          MaxFlight,     \* bound: runs of one job at a time
          MaxExtra,      \* bound: manual runs, and crashes
          MaxFires       \* bound: fires counted

VARIABLES jobs,      \* cogworks_jobs
          flight,    \* flight[j]: the runs of j under way, each with the next_run_at it will write
          leader,    \* is the process that schedules up
          fires,     \* per job, runs of the scheduler since its schedule was last set
          extra      \* manual runs and crashes so far

cronVars == <<jobs, flight, leader, fires, extra>>

Nobody == [in |-> FALSE, cron |-> FALSE, enabled |-> FALSE, worker |-> FALSE,
           compiles |-> FALSE, next |-> "null"]

CronInit ==
  /\ jobs = [j \in CronJobs |-> Nobody]
  /\ flight = [j \in CronJobs |-> <<>>]
  /\ leader = TRUE
  /\ fires = [j \in CronJobs |-> 0]
  /\ extra = 0

Due(j) == jobs[j].in /\ jobs[j].enabled /\ jobs[j].next = "due"
\* A recurring job that has no next run: created by a version without one, or its cron
\* was set while a one-off run of it was under way.
Adrift(j) == jobs[j].in /\ jobs[j].enabled /\ jobs[j].next = "null" /\ jobs[j].cron

\* runJob's nextRun: an empty cron, which the parser reads as "every minute", is one-off.
EveryMinute(j) == "later"     \* mutant
NextRun(j) == IF jobs[j].cron THEN "later" ELSE "null"

\* runJob: in worker mode the queue takes the job, and the row is written at once; code
\* that does not compile leaves the row as it is.
Enqueues(j) == jobs[j].in /\ jobs[j].worker
Begins(j) == jobs[j].in /\ ~jobs[j].worker /\ jobs[j].compiles

Run(j, byHand) == [next |-> NextRun(j), byHand |-> byHand]
Fired(j) == IF fires[j] < MaxFires THEN fires[j] + 1 ELSE fires[j]

----------------------------------------------------------------------------
NextNotSet(S) ==     \* mutant: the tick leaves a job without a next run alone
  [j \in CronJobs |-> IF j \in S /\ Enqueues(j) THEN [jobs[j] EXCEPT !.next = NextRun(j)]
                      ELSE jobs[j]]
TickRows(S) ==
  [j \in CronJobs |-> IF j \in S /\ Enqueues(j) THEN [jobs[j] EXCEPT !.next = NextRun(j)]
                      ELSE IF Adrift(j) THEN [jobs[j] EXCEPT !.next = "later"]
                      ELSE jobs[j]]

\* scheduleTick: every due job of its SELECT is begun, whether or not a run of it is
\* under way.
CronTick ==
  LET S == {j \in CronJobs : Due(j)} IN
  /\ leader
  /\ S # {} \/ \E j \in CronJobs : Adrift(j)
  /\ Prompt => \A j \in CronJobs : \A n \in DOMAIN flight[j] : flight[j][n].byHand
  /\ \A j \in S : Len(flight[j]) < MaxFlight
  /\ jobs' = TickRows(S)
  /\ flight' = [j \in CronJobs |-> IF j \in S /\ Begins(j) THEN Append(flight[j], Run(j, FALSE))
                                   ELSE flight[j]]
  /\ fires' = [j \in CronJobs |-> IF j \in S /\ (Begins(j) \/ Enqueues(j)) THEN Fired(j)
                                  ELSE fires[j]]
  /\ UNCHANGED <<leader, extra>>

\* POST /admin/jobs/:id/run: enabled or not, due or not.
RunNow(j) ==
  /\ leader /\ extra < MaxExtra /\ Len(flight[j]) < MaxFlight
  /\ Begins(j) \/ Enqueues(j)
  /\ IF Enqueues(j) THEN jobs' = [jobs EXCEPT ![j].next = NextRun(j)] /\ UNCHANGED flight
     ELSE flight' = [flight EXCEPT ![j] = Append(@, Run(j, TRUE))] /\ UNCHANGED jobs
  /\ extra' = extra + 1
  /\ UNCHANGED <<leader, fires>>

\* A run ends, well or badly or at its timeout: the row, if it is still there, gets the
\* next_run_at of the run's beginning.
RunEnds(j) ==
  \E n \in DOMAIN flight[j] :
    /\ flight' = [flight EXCEPT ![j] = RemoveAt(@, n)]
    /\ jobs' = IF jobs[j].in THEN [jobs EXCEPT ![j].next = flight[j][n].next] ELSE jobs
    /\ UNCHANGED <<leader, fires, extra>>

Elapses(j) ==
  /\ jobs[j].in /\ jobs[j].next = "later"
  /\ jobs' = [jobs EXCEPT ![j].next = "due"]
  /\ UNCHANGED <<flight, leader, fires, extra>>

\* The admin's endpoints.
CreateJob(j, cron, enabled, worker, compiles) ==
  /\ jobs[j] = Nobody /\ flight[j] = <<>>
  /\ jobs' = [jobs EXCEPT ![j] = [in |-> TRUE, cron |-> cron, enabled |-> enabled,
                                  worker |-> worker, compiles |-> compiles, next |-> "later"]]
  /\ fires' = [fires EXCEPT ![j] = 0]
  /\ UNCHANGED <<flight, leader, extra>>

PatchSchedule(j, cron) ==
  /\ jobs[j].in
  /\ jobs' = [jobs EXCEPT ![j].cron = cron, ![j].next = "later"]
  /\ fires' = [fires EXCEPT ![j] = 0]
  /\ UNCHANGED <<flight, leader, extra>>

PatchJob(j, enabled, worker, compiles) ==
  /\ jobs[j].in
  /\ jobs' = [jobs EXCEPT ![j].enabled = enabled, ![j].worker = worker,
                          ![j].compiles = compiles]
  /\ UNCHANGED <<flight, leader, fires, extra>>

DeleteJob(j) ==
  /\ jobs[j].in
  /\ jobs' = [jobs EXCEPT ![j] = Nobody]
  /\ UNCHANGED <<flight, leader, fires, extra>>

\* The scheduling process dies with its runs; it or another comes up and ticks at once.
LeaderDies ==
  /\ leader /\ extra < MaxExtra
  /\ leader' = FALSE /\ extra' = extra + 1
  /\ flight' = [j \in CronJobs |-> <<>>]
  /\ UNCHANGED <<jobs, fires>>
LeaderStarts ==
  /\ ~leader /\ leader' = TRUE
  /\ UNCHANGED <<jobs, flight, fires, extra>>

CronAdmin(j) ==
  \/ \E cron, enabled, worker, compiles \in BOOLEAN :
       CreateJob(j, cron, enabled, worker, compiles)
  \/ \E cron \in BOOLEAN : PatchSchedule(j, cron)
  \/ \E enabled, worker, compiles \in BOOLEAN : PatchJob(j, enabled, worker, compiles)
  \/ DeleteJob(j)

CronNext ==
  \/ CronTick \/ LeaderDies \/ LeaderStarts
  \/ \E j \in CronJobs : RunNow(j) \/ RunEnds(j) \/ Elapses(j) \/ CronAdmin(j)

\* setInterval ticks, time passes, a run ends or times out, a dead worker is respawned.
CronFairness ==
  /\ WF_cronVars(CronTick) /\ WF_cronVars(LeaderStarts)
  /\ \A j \in CronJobs : WF_cronVars(RunEnds(j)) /\ WF_cronVars(Elapses(j))

CronSpec == CronInit /\ [][CronNext]_cronVars /\ CronFairness

----------------------------------------------------------------------------
\* The row's columns, and no run of the scheduler without its process.
CronTypeOK ==
  /\ \A j \in CronJobs : /\ jobs[j].next \in {"null", "later", "due"}
                         /\ \A n \in DOMAIN flight[j] : flight[j][n].next \in {"null", "later"}
                         /\ fires[j] \in 0..MaxFires
  /\ ~leader => \A j \in CronJobs : flight[j] = <<>>

\* A one-off job fires once after its time was set, and once more for each crash during a
\* run and each run by hand that overlaps; a run begun before its time was set anew, and
\* still under way, may hide a fire or add one.
OneOffOnce ==
  \A j \in CronJobs : jobs[j].in /\ ~jobs[j].cron => fires[j] <= 1 + extra

\* A recurring job that stays enabled, compiles and is not edited keeps firing, whatever
\* happened to its row before: crashes, runs by hand, a one-off turned recurring
\* while its run was under way.
Steady(j) == /\ jobs[j].in /\ jobs[j].cron /\ jobs[j].enabled
             /\ jobs[j].worker \/ jobs[j].compiles
KeepsFiring ==
  \A j \in CronJobs : <>[]Steady(j) => []<>(Due(j)) /\ []<>(~Due(j))
=============================================================================
