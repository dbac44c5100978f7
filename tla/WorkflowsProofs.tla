---------------------------- MODULE WorkflowsProofs ----------------------------
(***************************************************************************)
(* Theorems about Workflows, for every program of steps, every number of   *)
(* runs, processes, calls and crashes, and all lengths of sleeps.          *)
(***************************************************************************)
EXTENDS Workflows, TLAPS

-----------------------------------------------------------------------------
(* Type correctness *)

LEMMA ProgramLength == Len(Program) \in Nat /\ DOMAIN Program = 1 .. Len(Program)
BY WorkflowsAssumption

(* What the UPDATE statements write are rows. *)
LEMMA RowImages ==
  ASSUME NEW row \in Row, NEW n \in 0 .. Len(Program)
  PROVE  /\ Touched(row, n) \in Row
         /\ \A s \in {"sleeping", "waiting", "completed", "failed"} : Parked(row, s, n) \in Row
         /\ \A a \in 0 .. TickLength : ClaimedRow(row, a) \in Row
<1>1. /\ 0 \in 0 .. MaxAge /\ 0 \in Nat
      /\ \A a \in 0 .. TickLength : a \in 0 .. MaxAge
  BY WorkflowsAssumption DEF MaxAge
<1>2. Touched(row, n) \in Row
  BY <1>1, Zenon DEF Touched, Row
<1>3. \A s \in {"sleeping", "waiting", "completed", "failed"} : Parked(row, s, n) \in Row
  BY <1>1, Zenon DEF Parked, Row
<1>4. \A a \in 0 .. TickLength : ClaimedRow(row, a) \in Row
  BY <1>1, Zenon DEF ClaimedRow, Row
<1> QED
  BY <1>2, <1>3, <1>4

(* Between two advancements and within one, a call keeps its type. *)
LEMMA CallImages ==
  ASSUME NEW call \in CallState, NEW todo \in SUBSET Run, NEW r \in Run
  PROVE  Proceed(call, todo) \in CallState /\ Advancing(call, r) \in CallState
<1>1. IdleCall \in CallState
  BY ProgramLength, WorkflowsAssumption DEF IdleCall, CallState
<1>2. 0 \in 0 .. Len(Program)
  BY ProgramLength
<1>3. todo # {} => Proceed(call, todo) \in CallState
  BY <1>2, Zenon DEF Proceed, CallState
<1>4. Advancing(call, r) \in CallState
  BY DEF Advancing, CallState
<1> QED
  BY <1>1, <1>3, <1>4 DEF Proceed

LEMMA TypeInit == Init => TypeOK
<1>1. MaxAge \in Nat
  BY WorkflowsAssumption DEF MaxAge
<1> QED
  BY <1>1, ProgramLength, WorkflowsAssumption
  DEF Init, TypeOK, Row, CallState, IdleCall

(* A step of an advancement writes a row image and goes on, or leaves. *)
LEMMA ContinueType ==
  ASSUME TypeOK, NEW c \in Call, NEW n \in 1 .. Len(Program), calls[c].run \in Run, Continue(c, n)
  PROVE  TypeOK'
<1>1. Touched(runs[calls[c].run], n) \in Row
  BY RowImages, ProgramLength DEF TypeOK
<1>2. runs' \in [Run -> Row]
  BY <1>1 DEF TypeOK, Continue
<1>3. calls[c] \in CallState
  BY DEF TypeOK
<1>4. n \in 0 .. Len(Program) /\ (calls[c].pending /\ Program[n] # "wait") \in BOOLEAN
  BY ProgramLength
<1>5. [[calls[c] EXCEPT !.done = n] EXCEPT !.pending = calls[c].pending /\ Program[n] # "wait"]
        \in CallState
  BY <1>3, <1>4, Zenon DEF CallState
<1>6. calls' \in [Call -> CallState]
  BY <1>3, <1>5 DEF TypeOK, Continue
<1> QED
  BY <1>2, <1>6 DEF TypeOK, Continue

LEMMA LeaveType ==
  ASSUME TypeOK, NEW c \in Call, calls[c].run \in Run, NEW image \in Row, Leave(c, image)
  PROVE  TypeOK'
<1>1. calls[c] \in CallState /\ calls[c].todo \in SUBSET Run
  BY DEF TypeOK, CallState
<1>2. Proceed(calls[c], calls[c].todo) \in CallState
  BY <1>1, CallImages
<1> QED
  BY <1>2 DEF TypeOK, Leave

(* A tick's rows, and the start of an advancement, keep the types too.     *)
LEMMA ClaimType ==
  ASSUME TypeOK, NEW c \in Call, NEW r \in calls[c].todo,
         \/ /\ calls' = [calls EXCEPT ![c] = Advancing(@, r)]
            /\ \E a \in 0 .. TickLength : runs' = [runs EXCEPT ![r] = ClaimedRow(@, a)]
         \/ calls' = [calls EXCEPT ![c] = Proceed(@, @.todo \ {r})] /\ UNCHANGED runs,
         UNCHANGED crashes
  PROVE  TypeOK'
<1>1. calls[c] \in CallState /\ calls[c].todo \ {r} \in SUBSET Run /\ r \in Run
  BY DEF TypeOK, CallState
<1>2. Proceed(calls[c], calls[c].todo \ {r}) \in CallState /\ Advancing(calls[c], r) \in CallState
  BY <1>1, CallImages
<1>3. runs[r] \in Row
  BY <1>1 DEF TypeOK
<1>4. \A a \in 0 .. TickLength : ClaimedRow(runs[r], a) \in Row
  BY <1>3, RowImages, ProgramLength
<1>5. runs' \in [Run -> Row]
  BY <1>1, <1>4 DEF TypeOK
<1>6. calls' \in [Call -> CallState]
  BY <1>2 DEF TypeOK
<1> QED
  BY <1>5, <1>6 DEF TypeOK

(* A call has a run exactly while it advances one. *)
Busy == \A c \in Call : calls[c].run # NoRun <=> calls[c].pc \in {"read", "work"}

LEMMA AdvanceType ==
  ASSUME TypeOK, NEW c \in Call, calls[c].run \in Run, Advance(c)
  PROVE  TypeOK'
<1>1. runs[calls[c].run] \in Row /\ calls[c] \in CallState
  BY DEF TypeOK
<1>2. calls[c].done \in 0 .. Len(Program) /\ calls[c].todo \in SUBSET Run
  BY <1>1 DEF CallState
<1>3. \A kind : AtStep(c, kind) => /\ calls[c].done + 1 \in 1 .. Len(Program)
                                   /\ calls[c].done + 1 \in 0 .. Len(Program)
  BY <1>2, ProgramLength DEF AtStep
<1>4. ASSUME ReadRun(c)
      PROVE  TypeOK'
  <2>1. Proceed(calls[c], calls[c].todo) \in CallState
    BY <1>1, <1>2, CallImages
  <2>2. runs[calls[c].run].done \in 0 .. Len(Program)
    BY <1>1 DEF Row
  <2>3. [[calls[c] EXCEPT !.pc = "work"] EXCEPT !.done = runs[calls[c].run].done] \in CallState
    BY <1>1, <2>2, Zenon DEF CallState
  <2>4. calls' = [calls EXCEPT ![c] =
                    IF runs[calls[c].run].status \in {"completed", "failed"}
                    THEN Proceed(calls[c], calls[c].todo)
                    ELSE [[calls[c] EXCEPT !.pc = "work"] EXCEPT !.done = runs[calls[c].run].done]]
    BY <1>4 DEF ReadRun, Loaded
  <2>5. calls' \in [Call -> CallState]
    BY <2>1, <2>3, <2>4 DEF TypeOK
  <2> QED
    BY <1>4, <2>5 DEF TypeOK, ReadRun
<1>5. ASSUME StepRuns(c) \/ TakeEvent(c)
      PROVE  TypeOK'
  BY <1>3, <1>5, ContinueType DEF StepRuns, TakeEvent
<1>6. ASSUME StepThrows(c)
      PROVE  TypeOK'
  <2>1. Parked(runs[calls[c].run], "failed", calls[c].done) \in Row
    BY <1>1, <1>2, RowImages
  <2> QED
    BY <1>6, <2>1, LeaveType DEF StepThrows
<1>7. ASSUME StepSleeps(c)
      PROVE  TypeOK'
  <2>1. Parked(runs[calls[c].run], "sleeping", calls[c].done + 1) \in Row
    BY <1>1, <1>3, <1>7, RowImages DEF StepSleeps
  <2>2. \A s \in Sleeps : WakeIn(s) \in Nat
    BY WorkflowsAssumption DEF WakeIn
  <2>3. \A n \in Nat : [Parked(runs[calls[c].run], "sleeping", calls[c].done + 1) EXCEPT !.wake = n] \in Row
    BY <2>1, Zenon DEF Row
  <2> QED
    BY <1>7, <2>2, <2>3, LeaveType DEF StepSleeps, SleepMemo
<1>8. ASSUME WaitForEvent(c)
      PROVE  TypeOK'
  <2>1. Parked(runs[calls[c].run], "waiting", calls[c].done) \in Row
    BY <1>1, <1>2, RowImages
  <2>2. calls[c].done + 1 \in {0} \cup Event
    BY <1>3, <1>8 DEF WaitForEvent, AtStep, Event, Index
  <2>3. [Parked(runs[calls[c].run], "waiting", calls[c].done) EXCEPT !.wait = calls[c].done + 1] \in Row
    BY <2>1, <2>2, Zenon DEF Row
  <2> QED
    BY <1>8, <2>3, LeaveType DEF WaitForEvent
<1>9. ASSUME Complete(c)
      PROVE  TypeOK'
  <2>1. Parked(runs[calls[c].run], "completed", calls[c].done) \in Row
    BY <1>1, <1>2, RowImages
  <2> QED
    BY <1>9, <2>1, LeaveType DEF Complete
<1> QED
  BY <1>4, <1>5, <1>6, <1>7, <1>8, <1>9 DEF Advance

LEMMA TypeStep == TypeOK /\ Busy /\ [Next]_vars => TypeOK'
<1> SUFFICES ASSUME TypeOK, Busy, [Next]_vars
             PROVE  TypeOK'
  OBVIOUS
<1>1. \A c \in Call : /\ calls[c] \in CallState
                      /\ calls[c].todo \subseteq Run /\ calls[c].age \in 0 .. TickLength
                      /\ calls[c].pc \in {"read", "work"} => calls[c].run \in Run
  BY DEF TypeOK, Busy, CallState
<1>2. \A c \in Call : Advance(c) => TypeOK'
  <2>1. \A c \in Call : Advance(c) => calls[c].pc \in {"read", "work"}
    BY DEF Advance, ReadRun, StepRuns, StepThrows, StepSleeps, TakeEvent, WaitForEvent,
           Complete, AtStep
  <2> QED
    BY <1>1, <2>1, AdvanceType
<1>3. ASSUME NEW c \in Call, NEW r \in Run, Start(c, r)
      PROVE  TypeOK'
  <2>1. [runs[r] EXCEPT !.status = "running"] \in Row
    BY Zenon DEF TypeOK, Row
  <2>2. Advancing(calls[c], r) \in CallState
    BY <1>1, CallImages
  <2> QED
    BY <1>3, <2>1, <2>2 DEF TypeOK, Start
<1>4. ASSUME NEW c \in Call, TickSelect(c)
      PROVE  TypeOK'
  <2>1. PICK due \in SUBSET Run :
          calls' = [calls EXCEPT ![c] = [@ EXCEPT !.pc = "claim", !.todo = due]]
    BY <1>4 DEF TickSelect
  <2>2. [calls[c] EXCEPT !.pc = "claim", !.todo = due] \in CallState
    BY <1>1, Zenon DEF CallState
  <2> QED
    BY <1>4, <2>1, <2>2 DEF TypeOK, TickSelect
<1>5. ASSUME NEW c \in Call, NEW e \in Event, NEW k, Deliver(c, e, k)
      PROVE  TypeOK'
  <2>1. PICK waiting \in SUBSET Run :
          calls' = [calls EXCEPT ![c] = [@ EXCEPT !.pc = "claim", !.todo = waiting, !.event = e]]
    BY <1>5 DEF Deliver
  <2>2. [calls[c] EXCEPT !.pc = "claim", !.todo = waiting, !.event = e] \in CallState
    BY <1>1, Zenon DEF CallState
  <2> QED
    BY <1>5, <2>1, <2>2 DEF TypeOK, Deliver
<1>6. ASSUME NEW c \in Call, TickClaim(c)
      PROVE  TypeOK'
  BY <1>1, <1>6, ClaimType DEF TickClaim
<1>7. ASSUME NEW c \in Call, DeliverClaim(c)
      PROVE  TypeOK'
  <2>1. 0 \in 0 .. TickLength
    BY WorkflowsAssumption
  <2> QED
    BY <1>1, <1>7, <2>1, ClaimType DEF DeliverClaim
<1>8. ASSUME Clock
      PROVE  TypeOK'
  <2>1. MaxAge \in Nat /\ TickLength \in Nat
    BY WorkflowsAssumption DEF MaxAge
  <2>2. \A n \in 0 .. MaxAge : OneOlder(n, MaxAge) \in 0 .. MaxAge
    BY <2>1 DEF OneOlder
  <2>3. \A n \in Nat : (IF n > 0 THEN n - 1 ELSE 0) \in Nat
    OBVIOUS
  <2>4. ASSUME NEW r \in Run
        PROVE  runs'[r] \in Row
    <3>1. runs[r] \in Row /\ runs[r].age \in 0 .. MaxAge /\ runs[r].wake \in Nat
      BY DEF TypeOK, Row
    <3>2. PICK wake \in Nat, age \in 0 .. MaxAge :
            runs'[r] = [[runs[r] EXCEPT !.wake = wake] EXCEPT !.age = age]
      BY <1>8, <2>2, <2>3, <3>1 DEF Clock
    <3> QED
      BY <3>1, <3>2, Zenon DEF Row
  <2>5. ASSUME NEW c \in Call
        PROVE  calls'[c] \in CallState
    <3>1. calls[c].pc # "idle" /\ c \in Ticker => calls[c].age + 1 \in 0 .. TickLength
      <4>1. calls[c].pc # "idle" /\ c \in Ticker => calls[c].age < TickLength
        BY <1>8 DEF Clock
      <4> QED
        BY <1>1, <2>1, <4>1
    <3>2. \A a \in 0 .. TickLength : [calls[c] EXCEPT !.age = a] \in CallState
      BY <1>1, Zenon DEF CallState
    <3> QED
      BY <1>1, <1>8, <3>1, <3>2 DEF Clock
  <2> QED
    BY <1>8, <2>4, <2>5 DEF TypeOK, Clock
<1>9. ASSUME NEW p \in Proc, Crash(p)
      PROVE  TypeOK'
  <2>1. IdleCall \in CallState
    BY ProgramLength, WorkflowsAssumption DEF IdleCall, CallState
  <2>2. crashes' \in 0 .. MaxCrash
    BY <1>9, WorkflowsAssumption DEF TypeOK, Crash
  <2> QED
    BY <1>1, <1>9, <2>1, <2>2 DEF TypeOK, Crash
<1>10. CASE UNCHANGED vars
  BY <1>10 DEF TypeOK, vars
<1> QED
  BY <1>2, <1>3, <1>4, <1>5, <1>6, <1>7, <1>8, <1>9, <1>10
  DEF Next, Call, TickerStep, CallerStep

(* Whatever a step makes of a call, it has a run exactly while it advances *)
(* one.                                                                    *)
LEMMA BusyStep == TypeOK /\ Busy /\ [Next]_vars => Busy'
<1> SUFFICES ASSUME TypeOK, Busy, [Next]_vars
             PROVE  Busy'
  OBVIOUS
<1> DEFINE Kept(call) == call.run # NoRun <=> call.pc \in {"read", "work"}
<1>1. ASSUME NEW c \in Call, NEW call, Kept(call), calls' = [calls EXCEPT ![c] = call]
      PROVE  Busy'
  BY <1>1 DEF TypeOK, Busy
<1>2. ASSUME NEW c \in Call
      PROVE  /\ \A todo : Kept(Proceed(calls[c], todo))
             /\ \A r \in Run : Kept(Advancing(calls[c], r))
             /\ Kept(calls[c]) /\ calls[c] \in CallState
  BY WorkflowsAssumption DEF TypeOK, Busy, CallState, Proceed, Advancing, IdleCall
<1>3. ASSUME NEW c \in Call, ReadRun(c)
      PROVE  Busy'
  <2>1. Kept([calls[c] EXCEPT !.pc = "work", !.done = Loaded(runs[calls[c].run])])
    BY <1>2, <1>3 DEF ReadRun, CallState
  <2> QED
    BY <1>1, <1>2, <1>3, <2>1 DEF ReadRun
<1>4. ASSUME NEW c \in Call, NEW n, calls[c].pc = "work", Continue(c, n)
      PROVE  Busy'
  <2>1. Kept([[calls[c] EXCEPT !.done = n] EXCEPT !.pending = @ /\ Program[n] # "wait"])
    BY <1>2, <1>4 DEF CallState
  <2>2. calls' = [calls EXCEPT ![c] = [[calls[c] EXCEPT !.done = n]
                                        EXCEPT !.pending = @ /\ Program[n] # "wait"]]
    BY <1>2, <1>4 DEF Continue, TypeOK
  <2> QED
    BY <1>1, <2>1, <2>2
<1>5. ASSUME NEW c \in Call, NEW image, Leave(c, image)
      PROVE  Busy'
  BY <1>1, <1>2, <1>5 DEF Leave
<1>6. \A c \in Call : Advance(c) => Busy'
  BY <1>3, <1>4, <1>5 DEF Advance, StepRuns, StepThrows, StepSleeps, TakeEvent, WaitForEvent,
                          Complete, AtStep
<1>7. ASSUME NEW c \in Call, TickClaim(c) \/ DeliverClaim(c) \/ \E r \in Run : Start(c, r)
      PROVE  Busy'
  <2>1. calls[c].todo \subseteq Run
    BY DEF TypeOK, CallState
  <2> QED
    BY <1>1, <1>2, <1>7, <2>1 DEF TickClaim, DeliverClaim, Start
<1>8. ASSUME NEW c \in Call, TickSelect(c) \/ \E e \in Event, k \in Key \cup {NoKey} : Deliver(c, e, k)
      PROVE  Busy'
  <2>1. /\ calls[c].pc = "idle" /\ calls'[c].pc = "claim" /\ calls'[c].run = calls[c].run
        /\ \A d \in Call \ {c} : calls'[d] = calls[d]
    <3>1. CASE TickSelect(c)
      BY <1>2, <3>1 DEF TickSelect, TypeOK, CallState
    <3>2. CASE \E e \in Event, k \in Key \cup {NoKey} : Deliver(c, e, k)
      BY <1>2, <3>2 DEF Deliver, TypeOK, CallState
    <3> QED
      BY <1>8, <3>1, <3>2
  <2> QED
    BY <2>1 DEF Busy
<1>9. ASSUME Clock
      PROVE  Busy'
  <2>1. ASSUME NEW c \in Call
        PROVE  calls'[c].run = calls[c].run /\ calls'[c].pc = calls[c].pc
    BY <1>2, <1>9 DEF Clock, CallState
  <2> QED
    BY <2>1 DEF Busy
<1>10. ASSUME NEW p \in Proc, Crash(p)
       PROVE  Busy'
  <2>1. \A d \in Call : calls'[d] = calls[d] \/ (calls'[d].run = NoRun /\ calls'[d].pc = "idle")
    BY <1>10 DEF Crash, IdleCall
  <2> QED
    BY <2>1 DEF Busy
<1> QED
  BY <1>6, <1>7, <1>8, <1>9, <1>10 DEF Next, Call, TickerStep, CallerStep, vars, Busy

(* Rows and calls keep the types of their columns and locals, however long *)
(* steps and ticks take: no sleep is parked with a wake time past, and no  *)
(* memo outgrows the program.                                              *)
THEOREM RunsTyped == Spec => []TypeOK
<1>1. Init => TypeOK /\ Busy
  BY TypeInit DEF Init, IdleCall, Busy
<1> QED
  BY <1>1, TypeStep, BusyStep, PTL DEF Spec

-----------------------------------------------------------------------------
(* One advancement of a run at a time *)

(* What the Timely bound of the model stands for, and ticks that are over  *)
(* before the rows they selected count as stranded.                        *)
Punctual == Timely /\ TickLength <= StaleSec

(* No advancement's row is stale, and a row nobody has started is as it    *)
(* was inserted.                                                           *)
Fresh == \A c \in Call : calls[c].run # NoRun => runs[calls[c].run].age <= StaleSec
Unstarted == \A r \in Run : runs[r].status = "unborn" => runs[r].done = 0 /\ runs[r].age = 0

(* The inductive invariant: nothing in AdvancesAlone itself says why the   *)
(* claim of a row that looks stranded cannot hit one that is advanced.     *)
Alone == Busy /\ AdvancesAlone /\ Fresh /\ Unstarted

LEMMA AloneInit == Init => Alone
BY WorkflowsAssumption DEF Init, IdleCall, Alone, Busy, AdvancesAlone, Fresh, Unstarted

(* A call that takes up a run nobody advances. *)
LEMMA TakesUp ==
  ASSUME TypeOK, Alone, NEW c \in Call, NEW r \in Run, \A d \in Call : calls[d].run # r,
         NEW image, image.status = "running", image.age \in Int, image.age <= StaleSec,
         runs' = [runs EXCEPT ![r] = image],
         calls' = [calls EXCEPT ![c] = Advancing(@, r)]
  PROVE  Alone'
<1>1. /\ runs' \in [Run -> {runs'[i] : i \in Run}] /\ runs'[r] = image
      /\ \A i \in Run \ {r} : runs'[i] = runs[i]
  BY DEF TypeOK
<1>2. /\ calls'[c].run = r /\ calls'[c].pc = "read"
      /\ \A d \in Call \ {c} : calls'[d] = calls[d]
  BY DEF TypeOK, CallState, Advancing
<1>3. r # NoRun /\ \A d \in Call : calls[d].run # NoRun => calls[d].run \in Run \ {r}
  BY WorkflowsAssumption DEF TypeOK, CallState
<1>4. Busy'
  BY <1>2, <1>3 DEF Alone, Busy
<1>5. AdvancesAlone'
  <2>1. ASSUME NEW d \in Call, calls'[d].run # NoRun
        PROVE  /\ runs'[calls'[d].run].status = "running"
               /\ calls'[d].pc = "work" => calls'[d].done = runs'[calls'[d].run].done
               /\ \A e \in Call : calls'[e].run = calls'[d].run => e = d
    <3>1. CASE d = c
      BY <1>1, <1>2, <1>3, <3>1
    <3>2. CASE d # c
      BY <1>1, <1>2, <1>3, <2>1, <3>2 DEF Alone, AdvancesAlone
    <3> QED
      BY <3>1, <3>2
  <2> QED
    BY <2>1 DEF AdvancesAlone
<1>6. Fresh'
  BY <1>1, <1>2, <1>3 DEF Alone, Fresh
<1>7. Unstarted'
  BY <1>1 DEF Alone, Unstarted
<1> QED
  BY <1>4, <1>5, <1>6, <1>7 DEF Alone

(* A call that ends its advancement, or was without one, in writing        *)
(* nothing but its own row.                                                *)
LEMMA LetsGo ==
  ASSUME TypeOK, Alone, NEW c \in Call, NEW todo,
         calls' = [calls EXCEPT ![c] = Proceed(@, todo)],
         \/ UNCHANGED runs
         \/ /\ calls[c].run \in Run
            /\ \E image : /\ runs' = [runs EXCEPT ![calls[c].run] = image]
                          /\ image.status # "unborn"
  PROVE  Alone'
<1>1. /\ calls'[c].run = NoRun /\ calls'[c].pc \in {"idle", "claim"}
      /\ \A d \in Call \ {c} : calls'[d] = calls[d]
  BY DEF TypeOK, CallState, Proceed, IdleCall
<1>2. \A d \in Call \ {c} : calls[d].run # NoRun =>
        runs'[calls[d].run] = runs[calls[d].run]
  BY WorkflowsAssumption DEF TypeOK, CallState, Alone, AdvancesAlone
<1>3. Busy'
  BY <1>1 DEF Alone, Busy
<1>4. AdvancesAlone'
  BY <1>1, <1>2 DEF Alone, AdvancesAlone
<1>5. Fresh'
  BY <1>1, <1>2 DEF Alone, Fresh
<1>6. Unstarted'
  BY DEF TypeOK, Alone, Unstarted
<1> QED
  BY <1>3, <1>4, <1>5, <1>6 DEF Alone

(* A call that goes on with its run, in the memo the row has now. *)
LEMMA GoesOn ==
  ASSUME TypeOK, Alone, NEW c \in Call, calls[c].run \in Run, NEW image, NEW call,
         image.status = "running", image.age \in Int, image.age <= StaleSec,
         call.run = calls[c].run, call.pc = "work", call.done = image.done,
         runs' = [runs EXCEPT ![calls[c].run] = image],
         calls' = [calls EXCEPT ![c] = call]
  PROVE  Alone'
<1> DEFINE r == calls[c].run
<1>1. /\ runs'[r] = image
      /\ \A i \in Run \ {r} : runs'[i] = runs[i]
  BY DEF TypeOK
<1>2. calls'[c] = call /\ \A d \in Call \ {c} : calls'[d] = calls[d]
  BY DEF TypeOK
<1>3. r # NoRun /\ \A d \in Call \ {c} : calls[d].run # NoRun => calls[d].run \in Run \ {r}
  BY WorkflowsAssumption DEF TypeOK, CallState, Alone, AdvancesAlone
<1>4. Busy'
  BY <1>2, <1>3 DEF Alone, Busy
<1>5. AdvancesAlone'
  <2>1. ASSUME NEW d \in Call, calls'[d].run # NoRun
        PROVE  /\ runs'[calls'[d].run].status = "running"
               /\ calls'[d].pc = "work" => calls'[d].done = runs'[calls'[d].run].done
               /\ \A e \in Call : calls'[e].run = calls'[d].run => e = d
    <3>1. CASE d = c
      BY <1>1, <1>2, <1>3, <3>1
    <3>2. CASE d # c
      BY <1>1, <1>2, <1>3, <2>1, <3>2 DEF Alone, AdvancesAlone
    <3> QED
      BY <3>1, <3>2
  <2> QED
    BY <2>1 DEF AdvancesAlone
<1>6. Fresh'
  BY <1>1, <1>2, <1>3 DEF Alone, Fresh
<1>7. Unstarted'
  BY <1>1 DEF Alone, Unstarted
<1> QED
  BY <1>4, <1>5, <1>6, <1>7 DEF Alone

(* What an advancement finds, and what it writes: it is the only one to    *)
(* touch its row, so it writes the memo it has, plus the step it ran.      *)
LEMMA AdvanceAlone ==
  ASSUME TypeOK, Alone, Punctual, NEW c \in Call, Advance(c)
  PROVE  Alone'
<1> DEFINE r == calls[c].run
           row == runs[r]
<1>1. calls[c].pc \in {"read", "work"}
  BY DEF Advance, ReadRun, StepRuns, StepThrows, StepSleeps, TakeEvent, WaitForEvent,
         Complete, AtStep
<1>2. r \in Run /\ r # NoRun
  BY <1>1 DEF Alone, Busy, TypeOK, CallState
<1>3. /\ row \in Row /\ row.status = "running" /\ row.age \in Int /\ row.age <= StaleSec
      /\ calls[c].pc = "work" => calls[c].done = row.done
  BY <1>2, WorkflowsAssumption DEF Alone, Fresh, AdvancesAlone, TypeOK, Row, MaxAge
<1>4. 0 <= StaleSec
  BY WorkflowsAssumption
<1>5. ASSUME ReadRun(c)
      PROVE  Alone'
  <2>1. calls' = [calls EXCEPT ![c] = [@ EXCEPT !.pc = "work", !.done = row.done]]
    BY <1>3, <1>5 DEF ReadRun, Loaded
  <2>2. runs' = [runs EXCEPT ![r] = row]
    BY <1>2, <1>5 DEF ReadRun, TypeOK
  <2>3. calls[c] \in CallState
    BY DEF TypeOK
  <2>4. /\ [calls[c] EXCEPT !.pc = "work", !.done = row.done].run = r
        /\ [calls[c] EXCEPT !.pc = "work", !.done = row.done].pc = "work"
        /\ [calls[c] EXCEPT !.pc = "work", !.done = row.done].done = row.done
    BY <2>3 DEF CallState
  <2> QED
    BY <1>2, <1>3, <2>1, <2>2, <2>4, GoesOn
<1>6. ASSUME NEW n, calls[c].pc = "work", Continue(c, n)
      PROVE  Alone'
  <2> DEFINE image == Touched(row, n)
             call == [[calls[c] EXCEPT !.done = n] EXCEPT !.pending = @ /\ Program[n] # "wait"]
  <2>1. image.status = "running" /\ image.age \in Int /\ image.age <= StaleSec /\ image.done = n
    BY <1>3, <1>4 DEF Touched, Row
  <2>2. calls[c] \in CallState
    BY DEF TypeOK
  <2>3. call.run = r /\ call.pc = "work" /\ call.done = n
    BY <1>6, <2>2 DEF CallState
  <2>4. runs' = [runs EXCEPT ![r] = image] /\ calls' = [calls EXCEPT ![c] = call]
    BY <1>6, <2>2 DEF Continue, TypeOK
  <2> HIDE DEF image, call
  <2> QED
    BY <1>2, <2>1, <2>3, <2>4, GoesOn
<1>7. ASSUME StepRuns(c) \/ TakeEvent(c)
      PROVE  Alone'
  BY <1>6, <1>7 DEF StepRuns, TakeEvent, AtStep
<1>8. ASSUME NEW image, image.status # "unborn", Leave(c, image)
      PROVE  Alone'
  BY <1>2, <1>8, LetsGo DEF Leave
<1>9. \A s \in {"sleeping", "waiting", "completed", "failed"}, n \in Int :
        /\ Parked(row, s, n).status # "unborn"
        /\ \A w : [Parked(row, s, n) EXCEPT !.wake = w].status # "unborn"
        /\ \A w : [Parked(row, s, n) EXCEPT !.wait = w].status # "unborn"
  BY <1>3 DEF Parked, Row
<1>10. calls[c].done \in Int /\ SleepMemo(calls[c].done) \in Int
  BY DEF TypeOK, CallState, SleepMemo
<1>11. ASSUME StepThrows(c) \/ StepSleeps(c) \/ WaitForEvent(c) \/ Complete(c)
       PROVE  Alone'
  BY <1>8, <1>9, <1>10, <1>11 DEF StepThrows, StepSleeps, WaitForEvent, Complete
<1> QED
  BY <1>5, <1>7, <1>11 DEF Advance

LEMMA ClaimAlone ==
  ASSUME TypeOK, Alone, Punctual, NEW c \in Call, TickClaim(c) \/ DeliverClaim(c)
  PROVE  Alone'
<1>1. /\ calls[c].age \in 0 .. TickLength /\ calls[c].todo \subseteq Run
      /\ StaleSec \in Nat /\ TickLength \in Nat
  BY WorkflowsAssumption DEF TypeOK, CallState
<1>2. PICK r \in calls[c].todo :
        \/ /\ calls' = [calls EXCEPT ![c] = Advancing(@, r)]
           /\ TickClaimable(c, r) \/ runs[r].status = "waiting"
           /\ \E a \in 0 .. TickLength : runs' = [runs EXCEPT ![r] = ClaimedRow(@, a)]
        \/ calls' = [calls EXCEPT ![c] = Proceed(@, @.todo \ {r})] /\ UNCHANGED runs
  <2>1. CASE TickClaim(c)
    BY <1>1, <2>1 DEF TickClaim
  <2>2. CASE DeliverClaim(c)
    <3>1. 0 \in 0 .. TickLength
      BY <1>1
    <3> QED
      BY <2>2, <3>1 DEF DeliverClaim
  <2> QED
    BY <2>1, <2>2
<1>3. r \in Run /\ runs[r] \in Row
  BY <1>1 DEF TypeOK
<1>4. ASSUME NEW a \in 0 .. TickLength, TickClaimable(c, r) \/ runs[r].status = "waiting",
             runs' = [runs EXCEPT ![r] = ClaimedRow(@, a)],
             calls' = [calls EXCEPT ![c] = Advancing(@, r)]
      PROVE  Alone'
  <2>1. ASSUME NEW d \in Call, calls[d].run = r
        PROVE  FALSE
    <3>1. r # NoRun
      BY <1>3, WorkflowsAssumption
    <3>2. runs[r].status = "running" /\ runs[r].age <= StaleSec
      BY <2>1, <3>1 DEF Alone, AdvancesAlone, Fresh
    <3>3. runs[r].age \in Nat
      BY <1>3, WorkflowsAssumption DEF Row, MaxAge
    <3> QED
      BY <1>1, <1>4, <3>2, <3>3 DEF TickClaimable
  <2>2. ClaimedRow(runs[r], a).status = "running" /\ ClaimedRow(runs[r], a).age = a
    BY <1>3 DEF ClaimedRow, Row
  <2>3. a \in Int /\ a <= StaleSec
    BY <1>1 DEF Punctual
  <2> QED
    BY <1>3, <1>4, <2>1, <2>2, <2>3, TakesUp
<1> QED
  BY <1>2, <1>4, LetsGo

LEMMA ClockAlone ==
  ASSUME TypeOK, Alone, Punctual, Clock
  PROVE  Alone'
<1>1. StaleSec \in Nat /\ MaxAge \in Nat /\ StaleSec < MaxAge
  BY WorkflowsAssumption DEF MaxAge
<1>2. \A r \in Run : /\ runs'[r].status = runs[r].status /\ runs'[r].done = runs[r].done
                     /\ runs'[r].age = IF runs[r].status = "running"
                                       THEN OneOlder(runs[r].age, MaxAge) ELSE runs[r].age
                     /\ runs[r].age \in Nat
  <2>1. ASSUME NEW r \in Run
        PROVE  /\ runs'[r].status = runs[r].status /\ runs'[r].done = runs[r].done
               /\ runs'[r].age = IF runs[r].status = "running"
                                 THEN OneOlder(runs[r].age, MaxAge) ELSE runs[r].age
               /\ runs[r].age \in Nat
    <3>1. runs[r] \in Row
      BY DEF TypeOK
    <3>2. PICK wake :
            runs'[r] = [[runs[r] EXCEPT !.wake = wake]
                          EXCEPT !.age = IF runs[r].status = "running"
                                         THEN OneOlder(runs[r].age, MaxAge) ELSE runs[r].age]
      BY <3>1 DEF Clock, Row
    <3> QED
      BY <1>1, <3>1, <3>2 DEF Row
  <2> QED
    BY <2>1
<1>3. \A c \in Call : /\ calls'[c].run = calls[c].run /\ calls'[c].pc = calls[c].pc
                      /\ calls'[c].done = calls[c].done
                      /\ calls[c].run # NoRun => calls[c].run \in Run
  <2>1. ASSUME NEW c \in Call
        PROVE  /\ calls'[c].run = calls[c].run /\ calls'[c].pc = calls[c].pc
               /\ calls'[c].done = calls[c].done
               /\ calls[c].run # NoRun => calls[c].run \in Run
    <3>1. calls[c] \in CallState
      BY DEF TypeOK
    <3> QED
      BY <3>1 DEF Clock, CallState
  <2> QED
    BY <2>1
<1>4. \A c \in Call : calls[c].run # NoRun => runs[calls[c].run].age < StaleSec
  BY DEF Clock, Punctual
<1>5. Busy'
  BY <1>3 DEF Alone, Busy
<1>6. AdvancesAlone'
  BY <1>2, <1>3 DEF Alone, AdvancesAlone
<1>7. Fresh'
  BY <1>1, <1>2, <1>3, <1>4 DEF Fresh, OneOlder
<1>8. Unstarted'
  BY <1>2 DEF Alone, Unstarted
<1> QED
  BY <1>5, <1>6, <1>7, <1>8 DEF Alone

LEMMA AloneStep == TypeOK /\ Alone /\ Punctual /\ [Next]_vars => Alone'
<1> SUFFICES ASSUME TypeOK, Alone, Punctual, [Next]_vars
             PROVE  Alone'
  OBVIOUS
<1>1. ASSUME NEW c \in Call, NEW r \in Run, Start(c, r)
      PROVE  Alone'
  <2> DEFINE image == [runs[r] EXCEPT !.status = "running"]
  <2>1. \A d \in Call : calls[d].run # r
    BY <1>1, WorkflowsAssumption DEF Start, Alone, AdvancesAlone
  <2>2. runs[r] \in Row
    BY DEF TypeOK
  <2>3. image.status = "running" /\ image.age \in Int /\ image.age <= StaleSec
    BY <1>1, <2>2, WorkflowsAssumption DEF Start, Alone, Unstarted, Row
  <2>4. runs' = [runs EXCEPT ![r] = image] /\ calls' = [calls EXCEPT ![c] = Advancing(@, r)]
    BY <1>1 DEF Start
  <2> HIDE DEF image
  <2> QED
    BY <2>1, <2>3, <2>4, TakesUp
<1>2. ASSUME NEW c \in Call, TickSelect(c) \/ \E e \in Event, k \in Key \cup {NoKey} : Deliver(c, e, k)
      PROVE  Alone'
  <2>1. /\ calls[c].pc = "idle" /\ calls'[c].pc = "claim" /\ calls'[c].run = calls[c].run
        /\ \A d \in Call \ {c} : calls'[d] = calls[d]
        /\ runs' = runs
    <3>1. CASE TickSelect(c)
      BY <3>1 DEF TickSelect, TypeOK, CallState
    <3>2. CASE \E e \in Event, k \in Key \cup {NoKey} : Deliver(c, e, k)
      BY <3>2 DEF Deliver, TypeOK, CallState
    <3> QED
      BY <1>2, <3>1, <3>2
  <2> QED
    BY <2>1 DEF Alone, Busy, AdvancesAlone, Fresh, Unstarted
<1>3. ASSUME NEW p \in Proc, Crash(p)
      PROVE  Alone'
  <2>1. \A d \in Call : calls'[d] = calls[d] \/ (calls'[d].run = NoRun /\ calls'[d].pc = "idle")
    BY <1>3 DEF Crash, IdleCall
  <2>2. runs' = runs
    BY <1>3 DEF Crash
  <2> QED
    BY <2>1, <2>2 DEF Alone, Busy, AdvancesAlone, Fresh, Unstarted
<1>4. CASE UNCHANGED vars
  BY <1>4 DEF vars, Alone, Busy, AdvancesAlone, Fresh, Unstarted
<1> QED
  BY <1>1, <1>2, <1>3, <1>4, AdvanceAlone, ClaimAlone, ClockAlone
  DEF Next, Call, TickerStep, CallerStep

-----------------------------------------------------------------------------
(* The rows live the life of DurableWorkflow *)

(* The transitions of one row that DurableWorkflow knows. *)
LEMMA RowLives ==
  ASSUME TypeOK, NEW r \in Run, NEW image, runs' = [runs EXCEPT ![r] = image],
         NEW n, n = runs[r].done,
         \/ /\ runs[r].status = "unborn"
            /\ image.status = "running" /\ image.done = 0
         \/ /\ runs[r].status = "running" /\ n < Len(Program) /\ Program[n + 1] \in {"run", "wait"}
            /\ image.status = "running" /\ image.done = n + 1
         \/ /\ runs[r].status = "running" /\ n < Len(Program) /\ Program[n + 1] = "sleep"
            /\ image.status = "sleeping" /\ image.done = n + 1
         \/ /\ runs[r].status = "running" /\ n < Len(Program) /\ Program[n + 1] = "wait"
            /\ image.status = "waiting" /\ image.done = n
         \/ /\ runs[r].status = "running" /\ n < Len(Program) /\ Program[n + 1] = "run"
            /\ image.status = "failed" /\ image.done = n
         \/ /\ runs[r].status = "running" /\ n = Len(Program)
            /\ image.status = "completed" /\ image.done = n
         \/ /\ runs[r].status \in {"sleeping", "waiting"}
            /\ image.status = "running" /\ image.done = n
  PROVE  Durable!Next
<1> DEFINE status == [i \in Run |-> runs[i].status]
           done == [i \in Run |-> runs[i].done]
<1>1. [i \in Run |-> runs'[i].status] = [status EXCEPT ![r] = image.status]
  BY DEF TypeOK
<1>2. [i \in Run |-> runs'[i].done] = [done EXCEPT ![r] = image.done]
  BY DEF TypeOK
<1>3. status[r] = runs[r].status /\ done[r] = n
  OBVIOUS
<1>4. CASE runs[r].status = "unborn" /\ image.status = "running" /\ image.done = 0
  <2>1. Durable!Start(r)
    BY <1>1, <1>2, <1>3, <1>4 DEF Durable!Start, Durable!Move, Durable!NextIs
  <2> QED
    BY <2>1 DEF Durable!Next
<1>5. CASE /\ runs[r].status = "running" /\ n < Len(Program) /\ Program[n + 1] \in {"run", "wait"}
           /\ image.status = "running" /\ image.done = n + 1
  <2>1. Durable!Step(r)
    BY <1>1, <1>2, <1>3, <1>5 DEF Durable!Step, Durable!Move, Durable!NextIs
  <2> QED
    BY <2>1 DEF Durable!Next
<1>6. CASE /\ runs[r].status = "running" /\ n < Len(Program) /\ Program[n + 1] = "sleep"
           /\ image.status = "sleeping" /\ image.done = n + 1
  <2>1. Durable!Sleep(r)
    BY <1>1, <1>2, <1>3, <1>6 DEF Durable!Sleep, Durable!Move, Durable!NextIs
  <2> QED
    BY <2>1 DEF Durable!Next
<1>7. CASE /\ runs[r].status = "running" /\ n < Len(Program) /\ Program[n + 1] = "wait"
           /\ image.status = "waiting" /\ image.done = n
  <2>1. Durable!Wait(r)
    BY <1>1, <1>2, <1>3, <1>7 DEF Durable!Wait, Durable!Move, Durable!NextIs
  <2> QED
    BY <2>1 DEF Durable!Next
<1>8. CASE /\ runs[r].status = "running" /\ n < Len(Program) /\ Program[n + 1] = "run"
            /\ image.status = "failed" /\ image.done = n
  <2>1. Durable!Fail(r)
    BY <1>1, <1>2, <1>3, <1>8 DEF Durable!Fail, Durable!Move, Durable!NextIs
  <2> QED
    BY <2>1 DEF Durable!Next
<1>9. CASE /\ runs[r].status = "running" /\ n = Len(Program)
            /\ image.status = "completed" /\ image.done = n
  <2>1. Durable!Complete(r)
    BY <1>1, <1>2, <1>3, <1>9 DEF Durable!Complete, Durable!Move, Durable!NextIs
  <2> QED
    BY <2>1 DEF Durable!Next
<1>10. CASE runs[r].status \in {"sleeping", "waiting"} /\ image.status = "running" /\ image.done = n
  <2>1. Durable!Resume(r)
    BY <1>1, <1>2, <1>3, <1>10 DEF Durable!Resume, Durable!Move, Durable!NextIs
  <2> QED
    BY <2>1 DEF Durable!Next
<1> QED
  BY <1>4, <1>5, <1>6, <1>7, <1>8, <1>9, <1>10

LEMMA DurableInit == Init => Durable!Init
BY DEF Init, Durable!Init

LEMMA DurableAdvance ==
  ASSUME TypeOK, Alone, NEW c \in Call, Advance(c)
  PROVE  Durable!Next \/ UNCHANGED runs
<1>1. calls[c].pc \in {"read", "work"}
  BY DEF Advance, ReadRun, StepRuns, StepThrows, StepSleeps, TakeEvent, WaitForEvent,
         Complete, AtStep
<1>2. PICK r \in Run : r = calls[c].run /\ r # NoRun
  BY <1>1 DEF Alone, Busy, TypeOK, CallState
<1>3. PICK row \in Row : row = runs[r]
  BY DEF TypeOK
<1>4. PICK n : n = runs[r].done
  OBVIOUS
<1>5. row.status = "running" /\ row.done = n /\ (calls[c].pc = "work" => calls[c].done = n)
  BY <1>2, <1>3, <1>4 DEF Alone, AdvancesAlone
<1>6. CASE ReadRun(c)
  BY <1>6 DEF ReadRun
<1>7. CASE StepRuns(c) \/ TakeEvent(c)
  <2>1. /\ runs' = [runs EXCEPT ![r] = Touched(row, n + 1)]
        /\ n < Len(Program) /\ Program[n + 1] \in {"run", "wait"}
    BY <1>2, <1>3, <1>4, <1>5, <1>7 DEF StepRuns, TakeEvent, Continue, AtStep
  <2>2. Touched(row, n + 1).status = "running" /\ Touched(row, n + 1).done = n + 1
    BY <1>4, <1>5 DEF Touched, Row
  <2> QED
    BY <1>3, <1>4, <1>5, <2>1, <2>2, RowLives
<1>8. CASE StepThrows(c)
  <2>1. /\ runs' = [runs EXCEPT ![r] = Parked(row, "failed", n)]
        /\ n < Len(Program) /\ Program[n + 1] = "run"
    BY <1>2, <1>3, <1>4, <1>5, <1>8 DEF StepThrows, Leave, AtStep
  <2>2. Parked(row, "failed", n).status = "failed" /\ Parked(row, "failed", n).done = n
    BY DEF Parked, Row
  <2> QED
    BY <1>3, <1>4, <1>5, <2>1, <2>2, RowLives
<1>9. CASE StepSleeps(c)
  <2>1. PICK w :
          /\ runs' = [runs EXCEPT ![r] = [Parked(row, "sleeping", n + 1) EXCEPT !.wake = w]]
          /\ n < Len(Program) /\ Program[n + 1] = "sleep"
    <3>1. calls[c].done = n /\ n < Len(Program) /\ Program[n + 1] = "sleep"
      BY <1>4, <1>5, <1>9 DEF StepSleeps, AtStep
    <3>2. PICK s : Leave(c, [Parked(row, "sleeping", n + 1) EXCEPT !.wake = WakeIn(s)])
      BY <1>2, <1>3, <1>9, <3>1 DEF StepSleeps, SleepMemo
    <3> QED
      BY <1>2, <3>1, <3>2 DEF Leave
  <2>2. /\ [Parked(row, "sleeping", n + 1) EXCEPT !.wake = w].status = "sleeping"
        /\ [Parked(row, "sleeping", n + 1) EXCEPT !.wake = w].done = n + 1
    BY DEF Parked, Row
  <2> QED
    BY <1>3, <1>4, <1>5, <2>1, <2>2, RowLives
<1>10. CASE WaitForEvent(c)
  <2>1. PICK w :
          /\ runs' = [runs EXCEPT ![r] = [Parked(row, "waiting", n) EXCEPT !.wait = w]]
          /\ n < Len(Program) /\ Program[n + 1] = "wait"
    BY <1>2, <1>3, <1>4, <1>5, <1>10 DEF WaitForEvent, Leave, AtStep
  <2>2. /\ [Parked(row, "waiting", n) EXCEPT !.wait = w].status = "waiting"
        /\ [Parked(row, "waiting", n) EXCEPT !.wait = w].done = n
    BY DEF Parked, Row
  <2> QED
    BY <1>3, <1>4, <1>5, <2>1, <2>2, RowLives
<1>11. CASE Complete(c)
  <2>1. runs' = [runs EXCEPT ![r] = Parked(row, "completed", n)] /\ n = Len(Program)
    BY <1>2, <1>3, <1>4, <1>5, <1>11 DEF Complete, Leave
  <2>2. Parked(row, "completed", n).status = "completed" /\ Parked(row, "completed", n).done = n
    BY DEF Parked, Row
  <2> QED
    BY <1>3, <1>4, <1>5, <2>1, <2>2, RowLives
<1> QED
  BY <1>6, <1>7, <1>8, <1>9, <1>10, <1>11 DEF Advance

SameLives == \A r \in Run : runs'[r].status = runs[r].status /\ runs'[r].done = runs[r].done

(* A claim resumes a row that slept or waited; of a stranded one it only   *)
(* says again that it is running.                                          *)
LEMMA DurableClaim ==
  ASSUME TypeOK, NEW c \in Call, TickClaim(c) \/ DeliverClaim(c)
  PROVE  Durable!Next \/ SameLives
<1>1. calls[c].todo \subseteq Run
  BY DEF TypeOK, CallState
<1>2. CASE UNCHANGED runs
  BY <1>2 DEF SameLives
<1>3. CASE ~ UNCHANGED runs
  <2>1. PICK r \in Run : \E a :
          /\ runs[r].status \in {"sleeping", "waiting", "running"}
          /\ runs' = [runs EXCEPT ![r] = ClaimedRow(runs[r], a)]
    <3>1. CASE TickClaim(c)
      BY <1>1, <1>3, <3>1 DEF TickClaim, TickClaimable
    <3>2. CASE DeliverClaim(c)
      BY <1>1, <1>3, <3>2 DEF DeliverClaim
    <3> QED
      BY <3>1, <3>2
  <2> PICK a : runs' = [runs EXCEPT ![r] = ClaimedRow(runs[r], a)]
    BY <2>1
  <2> PICK n : n = runs[r].done
    OBVIOUS
  <2>2. PICK row \in Row : row = runs[r]
    BY DEF TypeOK
  <2>3. ClaimedRow(row, a).status = "running" /\ ClaimedRow(row, a).done = n
    BY <2>2 DEF ClaimedRow, Row
  <2>4. CASE runs[r].status \in {"sleeping", "waiting"}
    BY <2>1, <2>2, <2>3, <2>4, RowLives
  <2>5. CASE runs[r].status = "running"
    BY <2>1, <2>2, <2>3, <2>5 DEF TypeOK, SameLives
  <2> QED
    BY <2>1, <2>4, <2>5
<1> QED
  BY <1>2, <1>3

LEMMA DurableStep ==
  TypeOK /\ Alone /\ [Next]_vars
    => [Durable!Next]_<<[r \in Run |-> runs[r].status], [r \in Run |-> runs[r].done]>>
<1> SUFFICES ASSUME TypeOK, Alone, [Next]_vars
             PROVE  Durable!Next \/ SameLives
  BY DEF SameLives
<1>1. ASSUME NEW c \in Call, NEW r \in Run, Start(c, r)
      PROVE  Durable!Next
  <2>1. PICK row \in Row : row = runs[r]
    BY DEF TypeOK
  <2>2. row.status = "unborn" /\ row.done = 0
    BY <1>1, <2>1 DEF Start, Alone, Unstarted
  <2>3. [row EXCEPT !.status = "running"].status = "running"
        /\ [row EXCEPT !.status = "running"].done = 0
    BY <2>2 DEF Row
  <2>4. runs' = [runs EXCEPT ![r] = [row EXCEPT !.status = "running"]]
    BY <1>1, <2>1 DEF Start
  <2> QED
    BY <2>1, <2>2, <2>3, <2>4, RowLives
<1>2. ASSUME Clock
      PROVE  SameLives
  <2>1. ASSUME NEW r \in Run
        PROVE  runs'[r].status = runs[r].status /\ runs'[r].done = runs[r].done
    <3>1. runs[r] \in Row
      BY DEF TypeOK
    <3> QED
      BY <1>2, <3>1 DEF Clock, Row
  <2> QED
    BY <2>1 DEF SameLives
<1>3. CASE UNCHANGED runs
  BY <1>3 DEF SameLives
<1> QED
  BY <1>1, <1>2, <1>3, DurableAdvance, DurableClaim
  DEF Next, Call, TickerStep, CallerStep, TickSelect, Deliver, Crash, vars

-----------------------------------------------------------------------------
(* Punctual steps and ticks: the optimistic claims of tickWorkflows and    *)
(* deliverWorkflowEvent leave each run to one advancement, which works     *)
(* from the memo in its row, and so the rows live the life DurableWorkflow *)
(* promises: no step skipped, none completed twice, none forgotten,        *)
(* whatever crashes, stale selections and events it meets.                 *)
THEOREM RunsAdvanceDurably == ASSUME Punctual PROVE Spec => AdvancesDurably
<1>1. Init => TypeOK /\ Alone
  BY TypeInit, AloneInit
<1>2. TypeOK /\ Alone /\ [Next]_vars => TypeOK' /\ Alone'
  BY TypeStep, AloneStep DEF Alone
<1>3. TypeOK /\ Alone /\ [Next]_vars => [Durable!Next]_<<[r \in Run |-> runs[r].status], [r \in Run |-> runs[r].done]>>
  BY DurableStep
<1>4. Alone => AdvancesAlone
  BY DEF Alone
<1> QED
  BY <1>1, <1>2, <1>3, <1>4, DurableInit, PTL DEF Spec, AdvancesDurably, ImplementsDurable, Durable!Spec

=============================================================================
