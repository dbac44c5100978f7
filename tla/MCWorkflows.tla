------------------------------ MODULE MCWorkflows ------------------------------
EXTENDS Workflows, TLC, FiniteSets

CONSTANTS p1, p2, t1, t2, d1, r1, r2, k1

(* A tick in each process; the caller shares the first one. *)
TwoHomes == (t1 :> p1) @@ (t2 :> p2) @@ [c \in Caller |-> p1]

(* Everything in one process. *)
OneHome == [c \in Call |-> p1]

(* The first run waits for its own key, the others for any. *)
FirstKeyed == [r \in Run |-> IF r = r1 THEN k1 ELSE NoKey]

Lengths == {-1, 1}

Mixed == <<"run", "sleep", "wait", "run">>

TwoSleeps == <<"sleep", "sleep">>

TwoSteps == <<"run", "run">>

=============================================================================
