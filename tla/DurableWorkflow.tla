---------------------------- MODULE DurableWorkflow ----------------------------
(***************************************************************************)
(* What a durable workflow promises: a run works through its program one   *)
(* step after the other, each completed step stays completed and none is   *)
(* completed out of turn, whatever it meets in between.                    *)
(***************************************************************************)
EXTENDS Naturals, Sequences

CONSTANTS Run, Program

VARIABLES status, done

Init ==
  /\ status = [r \in Run |-> "unborn"]
  /\ done = [r \in Run |-> 0]

Move(r, from, to, n) ==
  /\ status[r] \in from
  /\ status' = [status EXCEPT ![r] = to]
  /\ done' = [done EXCEPT ![r] = n]

(* The next step of run r is one of the given kinds. *)
NextIs(r, kinds) == done[r] < Len(Program) /\ Program[done[r] + 1] \in kinds

Start(r) == Move(r, {"unborn"}, "running", 0)

Step(r) == NextIs(r, {"run", "wait"}) /\ Move(r, {"running"}, "running", done[r] + 1)

Sleep(r) == NextIs(r, {"sleep"}) /\ Move(r, {"running"}, "sleeping", done[r] + 1)

Wait(r) == NextIs(r, {"wait"}) /\ Move(r, {"running"}, "waiting", done[r])

Resume(r) == Move(r, {"sleeping", "waiting"}, "running", done[r])

Fail(r) == NextIs(r, {"run"}) /\ Move(r, {"running"}, "failed", done[r])

Complete(r) == done[r] = Len(Program) /\ Move(r, {"running"}, "completed", done[r])

Next == \E r \in Run :
  Start(r) \/ Step(r) \/ Sleep(r) \/ Wait(r) \/ Resume(r) \/ Fail(r) \/ Complete(r)

Spec == Init /\ [][Next]_<<status, done>>

=============================================================================
