------------------------------- MODULE Workflows -------------------------------
(***************************************************************************)
(* Durable workflows, src/core/workflows.ts: cogworks_workflow_runs rows   *)
(* advanced by calls of startWorkflow, tickWorkflows and                   *)
(* deliverWorkflowEvent in the processes of one deployment. A call awaits  *)
(* its advancements one after the other; calls overlap freely, ticks of    *)
(* one process included (setInterval does not wait for the last tick).     *)
(*                                                                         *)
(* Statements are atomic and every await lets the other calls step. A      *)
(* workflow function is a fixed sequence of steps with distinct names, so  *)
(* the memo map `steps` is the number of steps it holds.                   *)
(*                                                                         *)
(* Time is relative: wake_at counts down, updated_at is kept as an age,    *)
(* and so is the `now` a tick captured when it began.                      *)
(***************************************************************************)
EXTENDS Integers, Sequences

CONSTANTS
  Run, NoRun,   \* run ids randomUUID() can still hand out
  Proc,         \* worker processes
  Ticker,       \* tickWorkflows calls that may be in flight at once
  Caller,       \* startWorkflow and deliverWorkflowEvent calls in flight at once
  Home,         \* Home[c]: the process call c is made in
  Program,      \* the kinds of the workflow's steps: "run", "sleep" or "wait"
  Key, NoKey,   \* correlation keys of events
  WaitKey,      \* WaitKey[r]: the key run r waits with
  StaleSec,     \* STALE_SEC, in clock units
  Sleeps,       \* the lengths a step.sleep may be called with, in clock units
  TickLength,   \* bound: how long after it began a tick may still be at work
  Timely,       \* TRUE: an advancement touches its row before the row is stale
  MaxCrash      \* bound on process crashes

Call == Ticker \cup Caller

ASSUME WorkflowsAssumption ==
  /\ NoRun \notin Run /\ NoKey \notin Key
  /\ Ticker \cap Caller = {}
  /\ Home \in [Call -> Proc]
  /\ Program \in Seq({"run", "sleep", "wait"})
  /\ WaitKey \in [Run -> Key \cup {NoKey}]
  /\ StaleSec \in Nat /\ TickLength \in Nat
  /\ Sleeps \subseteq Int
  /\ Timely \in BOOLEAN
  /\ MaxCrash \in Nat

VARIABLES
  runs,         \* the cogworks_workflow_runs table, row by row
  calls,        \* calls[c]: where call c is, and what it has read
  crashes       \* history: how many crashes so far

vars == <<runs, calls, crashes>>

Index == 1 .. Len(Program)
Event == {i \in Index : Program[i] = "wait"}

(* An age beyond MaxAge compares like MaxAge with every cutoff. *)
MaxAge == TickLength + StaleSec + 1

(* `wake` is kept for sleeping rows, `age` for running ones and `wait` for *)
(* waiting ones; elsewhere none of them is read.                           *)
Row == [status : {"unborn", "running", "sleeping", "waiting", "completed", "failed"},
        done : 0 .. Len(Program), wake : Nat, age : 0 .. MaxAge,
        wait : {0} \cup Event]

(* todo: rows of the SELECT not yet claimed; run, done, pending: the       *)
(* advancement under way, its copy of the memo and of the incoming event.  *)
CallState == [pc : {"idle", "claim", "read", "work"}, todo : SUBSET Run,
              age : 0 .. TickLength, event : {0} \cup Event,
              run : Run \cup {NoRun}, done : 0 .. Len(Program), pending : BOOLEAN]

(* Columns and locals stay within what the code can write; in particular   *)
(* no sleep, however short or negative, is parked with a wake time past.   *)
TypeOK ==
  /\ runs \in [Run -> Row]
  /\ calls \in [Call -> CallState]
  /\ crashes \in 0 .. MaxCrash

IdleCall == [pc |-> "idle", todo |-> {}, age |-> 0, event |-> 0,
             run |-> NoRun, done |-> 0, pending |-> FALSE]

Init ==
  /\ runs = [r \in Run |-> [status |-> "unborn", done |-> 0, wake |-> 0, age |-> 0, wait |-> 0]]
  /\ calls = [c \in Call |-> IdleCall]
  /\ crashes = 0

-----------------------------------------------------------------------------
(* Row images of the UPDATE statements, and the call around them *)

Touched(row, n) == [row EXCEPT !.done = n, !.age = 0]

Parked(row, s, n) ==
  [row EXCEPT !.status = s, !.done = n, !.age = 0, !.wake = 0, !.wait = 0]

ClaimedRow(row, a) == [row EXCEPT !.status = "running", !.age = a, !.wake = 0, !.wait = 0]

(* The call without its current advancement: it goes on with the next row  *)
(* of its SELECT, or is over.                                              *)
Proceed(call, todo) ==
  IF todo = {} THEN IdleCall
  ELSE [call EXCEPT !.pc = "claim", !.todo = todo, !.run = NoRun, !.done = 0, !.pending = FALSE]

Advancing(call, r) ==
  [call EXCEPT !.pc = "read", !.run = r, !.pending = call.event # 0, !.todo = @ \ {r}]

-----------------------------------------------------------------------------
(* startWorkflow() *)

Start(c, r) ==
  /\ calls[c].pc = "idle" /\ runs[r].status = "unborn"
  /\ runs' = [runs EXCEPT ![r].status = "running"]
  /\ calls' = [calls EXCEPT ![c] = Advancing(@, r)]
  /\ UNCHANGED crashes

-----------------------------------------------------------------------------
(* tickWorkflows() *)

(* Mutant: stranded runs are not swept. *)
DueSleepingOnly(r) == runs[r].status = "sleeping" /\ runs[r].wake = 0

Due(r) ==
  \/ runs[r].status = "sleeping" /\ runs[r].wake = 0
  \/ runs[r].status = "running" /\ runs[r].age > StaleSec

TickSelect(c) ==
  LET due == {r \in Run : Due(r)}
  IN  /\ calls[c].pc = "idle" /\ due # {}
      /\ calls' = [calls EXCEPT ![c] = [@ EXCEPT !.pc = "claim", !.todo = due]]
      /\ UNCHANGED <<runs, crashes>>

(* Mutant: the claim's staleness condition is missing. *)
ClaimableWhileRunning(c, r) == c \in Ticker /\ runs[r].status \in {"sleeping", "running"}

(* The rows a tick's claim UPDATE matches. Its cutoff lies StaleSec before *)
(* the tick began, and the wake time is not looked at again.               *)
TickClaimable(c, r) ==
  \/ runs[r].status = "sleeping"
  \/ runs[r].status = "running" /\ runs[r].age > calls[c].age + StaleSec

(* A claim writes the tick's own `now`, as old as the tick. *)
TickClaim(c) ==
  /\ calls[c].pc = "claim"
  /\ \E r \in calls[c].todo :
       IF TickClaimable(c, r)
       THEN /\ runs' = [runs EXCEPT ![r] = ClaimedRow(@, calls[c].age)]
            /\ calls' = [calls EXCEPT ![c] = Advancing(@, r)]
       ELSE /\ calls' = [calls EXCEPT ![c] = Proceed(@, @.todo \ {r})]
            /\ UNCHANGED runs
  /\ UNCHANGED crashes

-----------------------------------------------------------------------------
(* deliverWorkflowEvent() *)

KeyMatches(k, r) == WaitKey[r] = NoKey \/ (k # NoKey /\ WaitKey[r] = k)

Deliver(c, e, k) ==
  LET waiting == {r \in Run : runs[r].status = "waiting" /\ runs[r].wait = e /\ KeyMatches(k, r)}
  IN  /\ calls[c].pc = "idle" /\ waiting # {}
      /\ calls' = [calls EXCEPT ![c] = [@ EXCEPT !.pc = "claim", !.todo = waiting, !.event = e]]
      /\ UNCHANGED <<runs, crashes>>

(* Guarded by the status alone: the row may by now wait for another event. *)
DeliverClaim(c) ==
  /\ calls[c].pc = "claim"
  /\ \E r \in calls[c].todo :
       IF runs[r].status = "waiting"
       THEN /\ runs' = [runs EXCEPT ![r] = ClaimedRow(@, 0)]
            /\ calls' = [calls EXCEPT ![c] = Advancing(@, r)]
       ELSE /\ calls' = [calls EXCEPT ![c] = Proceed(@, @.todo \ {r})]
            /\ UNCHANGED runs
  /\ UNCHANGED crashes

-----------------------------------------------------------------------------
(* advanceWorkflow(): read the row, replay, and one statement after each   *)
(* step that is not memoized. Its writes are guarded by the id alone.      *)

(* Mutant: the memo is not loaded, every resume begins at the first step. *)
LoadedNothing(row) == IF row.status = "unborn" THEN row.done ELSE 0

(* The memo an advancement starts from. *)
Loaded(row) == row.done

ReadRun(c) ==
  LET row == runs[calls[c].run]
  IN  /\ calls[c].pc = "read"
      /\ calls' = [calls EXCEPT ![c] =
                     IF row.status \in {"completed", "failed"} THEN Proceed(@, @.todo)
                     ELSE [@ EXCEPT !.pc = "work", !.done = Loaded(row)]]
      /\ UNCHANGED <<runs, crashes>>

(* The first step without a memo is of this kind. *)
AtStep(c, kind) ==
  /\ calls[c].pc = "work" /\ calls[c].done < Len(Program)
  /\ Program[calls[c].done + 1] = kind

(* Write the row and carry on with the function, or leave it. *)
Continue(c, n) ==
  /\ runs' = [runs EXCEPT ![calls[c].run] = Touched(@, n)]
  /\ calls' = [calls EXCEPT ![c].done = n,
                            ![c].pending = @ /\ Program[n] # "wait"]
  /\ UNCHANGED crashes

Leave(c, image) ==
  /\ runs' = [runs EXCEPT ![calls[c].run] = image]
  /\ calls' = [calls EXCEPT ![c] = Proceed(@, @.todo)]
  /\ UNCHANGED crashes

(* step.run: the function it was given settles and its result is kept. *)
StepRuns(c) == AtStep(c, "run") /\ Continue(c, calls[c].done + 1)

StepThrows(c) ==
  AtStep(c, "run") /\ Leave(c, Parked(runs[calls[c].run], "failed", calls[c].done))

(* Mutant: the sleep is not memoized before parking. *)
SleepMemoForgotten(n) == n

(* step.sleep marks itself slept before it parks. *)
SleepMemo(n) == n + 1

(* Mutant: a negative length is not raised to zero. *)
WakeUnclamped(s) == s

WakeIn(s) == IF s > 0 THEN s ELSE 0

StepSleeps(c) ==
  /\ AtStep(c, "sleep")
  /\ \E s \in Sleeps :
       Leave(c, [Parked(runs[calls[c].run], "sleeping", SleepMemo(calls[c].done))
                   EXCEPT !.wake = WakeIn(s)])

(* The delivered event is the one waited for; its predicate may accept it. *)
Offered(c) == calls[c].pending /\ calls[c].event = calls[c].done + 1

TakeEvent(c) == AtStep(c, "wait") /\ Offered(c) /\ Continue(c, calls[c].done + 1)

WaitForEvent(c) ==
  /\ AtStep(c, "wait")
  /\ Leave(c, [Parked(runs[calls[c].run], "waiting", calls[c].done)
                 EXCEPT !.wait = calls[c].done + 1])

Complete(c) ==
  /\ calls[c].pc = "work" /\ calls[c].done = Len(Program)
  /\ Leave(c, Parked(runs[calls[c].run], "completed", calls[c].done))

-----------------------------------------------------------------------------
(* The environment *)

OneOlder(n, limit) == IF n < limit THEN n + 1 ELSE limit

(* A unit of time passes, for every row and every tick at work. *)
Clock ==
  /\ \A c \in Ticker : calls[c].pc # "idle" => calls[c].age < TickLength
  /\ Timely => \A c \in Call : calls[c].run # NoRun => runs[calls[c].run].age < StaleSec
  /\ runs' = [r \in Run |->
       [runs[r] EXCEPT !.wake = IF @ > 0 THEN @ - 1 ELSE 0,
                       !.age = IF runs[r].status = "running" THEN OneOlder(@, MaxAge) ELSE @]]
  /\ calls' = [c \in Call |->
       IF c \in Ticker /\ calls[c].pc # "idle" THEN [calls[c] EXCEPT !.age = @ + 1]
       ELSE calls[c]]
  /\ UNCHANGED crashes

(* A process dies with its calls; the rows stay as they are. *)
Crash(p) ==
  /\ crashes < MaxCrash
  /\ crashes' = crashes + 1
  /\ calls' = [c \in Call |-> IF Home[c] = p THEN IdleCall ELSE calls[c]]
  /\ UNCHANGED runs

-----------------------------------------------------------------------------
Advance(c) ==
  \/ ReadRun(c) \/ StepRuns(c) \/ StepThrows(c) \/ StepSleeps(c)
  \/ TakeEvent(c) \/ WaitForEvent(c) \/ Complete(c)

TickerStep(c) == TickClaim(c) \/ Advance(c)

CallerStep(c) == DeliverClaim(c) \/ Advance(c)

Next ==
  \/ \E c \in Ticker : TickSelect(c) \/ TickerStep(c)
  \/ \E c \in Caller :
       \/ CallerStep(c)
       \/ \E r \in Run : Start(c, r)
       \/ \E e \in Event, k \in Key \cup {NoKey} : Deliver(c, e, k)
  \/ \E p \in Proc : Crash(p)
  \/ Clock

(* setInterval keeps starting ticks, a call's awaits settle (the step      *)
(* functions included) and time passes. Nothing obliges callers.           *)
Fairness ==
  /\ \A c \in Ticker : WF_vars(TickSelect(c)) /\ WF_vars(TickerStep(c))
  /\ \A c \in Caller : WF_vars(CallerStep(c))
  /\ WF_vars(Clock)

Spec == Init /\ [][Next]_vars

FairSpec == Spec /\ Fairness

-----------------------------------------------------------------------------
(* Properties *)

(* The claims and the staleness cutoff leave each run to one advancement   *)
(* at a time, which works from the memo the row holds. It needs steps and  *)
(* ticks shorter than STALE_SEC.                                           *)
AdvancesAlone ==
  \A c \in Call : calls[c].run # NoRun =>
    /\ runs[calls[c].run].status = "running"
    /\ calls[c].pc = "work" => calls[c].done = runs[calls[c].run].done
    /\ \A d \in Call : calls[d].run = calls[c].run => d = c

(* "Each step.run side effect executes at-least-once and is memoized after *)
(* success, so a resume never repeats a completed step" (workflows.ts): no *)
(* advancement goes on below what the row already remembers.               *)
NeverRepeatsCompleted ==
  [][\A c \in Call :
       /\ calls'[c].pc = "work"
       /\ calls[c].pc # "work" \/ calls[c].done # calls'[c].done
       => calls'[c].done >= runs[calls'[c].run].done]_vars

(* "Claim: bump to running + fresh updated_at only if still due"           *)
(* (tickWorkflows): a sleeping run is not woken before its time.           *)
WakesWhenDue ==
  [][\A r \in Run :
       runs[r].status = "sleeping" /\ runs'[r].status # "sleeping" => runs[r].wake = 0]_vars

(* Every run that is running, sleeping or stranded by a crash comes to an  *)
(* end or to a wait for an event.                                          *)
EventuallyRests ==
  \A r \in Run : runs[r].status \in {"running", "sleeping"}
                   ~> runs[r].status \in {"waiting", "completed", "failed"}

(* The rows live the life DurableWorkflow promises: no step is skipped,    *)
(* none is completed twice, none is forgotten.                             *)
Durable == INSTANCE DurableWorkflow WITH
  status <- [r \in Run |-> runs[r].status],
  done <- [r \in Run |-> runs[r].done]

ImplementsDurable == Durable!Spec

(* Both: that life is lived by one call at a time, from the memo it left.  *)
AdvancesDurably == ImplementsDurable /\ []AdvancesAlone

=============================================================================
