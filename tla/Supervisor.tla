------------------------------ MODULE Supervisor ------------------------------
(***************************************************************************)
(* The parent of a cluster, src/src/cluster.ts: it respawns a worker that  *)
(* died, and at a signal tells all workers to drain, waits for one after   *)
(* the other until a common deadline, kills the rest and exits.            *)
(***************************************************************************)
EXTENDS Naturals

CONSTANTS N,            \* COGWORKS_WORKERS
          MaxExits     \* bound on deaths of workers

ASSUME SupervisorAssumption == N \in Nat \ {0}

VARIABLES proc,       \* proc[i]: the process of worker i
          respawn,    \* workers whose respawn timer runs
          phase,      \* the parent runs, drains its workers or has exited
          next,       \* while draining, the worker the loop has come to
          waiting,    \* is it waiting for this one
          late,       \* has the deadline passed
          exits      \* deaths so far

supVars == <<proc, respawn, phase, next, waiting, late, exits>>

Ids == 1..N
ProcState == {"up", "told", "dead"}

SupInit ==
  /\ proc = [i \in Ids |-> "up"]
  /\ respawn = {} /\ phase = "run"
  /\ next = 1 /\ waiting = FALSE /\ late = FALSE
  /\ exits = 0

\* onExit: a death is answered with a timer, unless the parent is shutting down.
ProcDies(i) ==
  /\ phase = "run" /\ proc[i] = "up" /\ exits < MaxExits
  /\ proc' = [proc EXCEPT ![i] = "dead"]
  /\ respawn' = respawn \cup {i} /\ exits' = exits + 1
  /\ UNCHANGED <<phase, next, waiting, late>>

\* The timer fires: by now the parent may be shutting down.
MayAlways == phase # "gone"     \* mutant
MaySpawn == phase = "run"
Respawn(i) ==
  /\ i \in respawn /\ phase # "gone"
  /\ respawn' = respawn \ {i}
  /\ proc' = IF MaySpawn THEN [proc EXCEPT ![i] = "up"] ELSE proc
  /\ UNCHANGED <<phase, next, waiting, late, exits>>

\* shutdown(): once, however many signals come.
Shutdown ==
  /\ phase = "run" /\ phase' = "drain"
  /\ proc' = [i \in Ids |-> IF proc[i] = "up" THEN "told" ELSE proc[i]]
  /\ UNCHANGED <<respawn, next, waiting, late, exits>>

\* A worker ends its drain, or never does.
Drained(i) ==
  /\ phase # "run" /\ proc[i] = "told"
  /\ proc' = [proc EXCEPT ![i] = "dead"]
  /\ UNCHANGED <<respawn, phase, next, waiting, late, exits>>

Deadline ==
  /\ phase = "drain" /\ ~late /\ late' = TRUE
  /\ UNCHANGED <<proc, respawn, phase, next, waiting, exits>>

\* The loop comes to a worker: after the deadline it kills it, before it waits for it.
LeftAlone == proc     \* mutant: what is left after the deadline is not killed
KilledNow == [proc EXCEPT ![next] = "dead"]
Come ==
  /\ phase = "drain" /\ next \in Ids /\ ~waiting
  /\ IF late THEN proc' = KilledNow /\ next' = next + 1 /\ waiting' = FALSE
     ELSE waiting' = TRUE /\ UNCHANGED <<proc, next>>
  /\ UNCHANGED <<respawn, phase, late, exits>>

\* The race of the wait: the worker has exited, or the deadline has come.
NoRace == proc[next] = "dead"     \* mutant
WaitOver == proc[next] = "dead" \/ late
Waited ==
  /\ phase = "drain" /\ waiting /\ WaitOver
  /\ waiting' = FALSE /\ next' = next + 1
  /\ UNCHANGED <<proc, respawn, phase, late, exits>>

ParentExits ==
  /\ phase = "drain" /\ next > N
  /\ phase' = "gone"
  /\ UNCHANGED <<proc, respawn, next, waiting, late, exits>>

SupNext ==
  \/ Shutdown \/ Deadline \/ Come \/ Waited \/ ParentExits
  \/ \E i \in Ids : ProcDies(i) \/ Respawn(i) \/ Drained(i)

\* Timers fire and the loop goes on; a worker need not end its drain.
SupFairness ==
  /\ WF_supVars(Deadline) /\ WF_supVars(Come \/ Waited \/ ParentExits)
  /\ \A i \in Ids : WF_supVars(Respawn(i))

SupSpec == SupInit /\ [][SupNext]_supVars /\ SupFairness

----------------------------------------------------------------------------
SupTypeOK ==
  /\ proc \in [Ids -> ProcState] /\ respawn \subseteq Ids
  /\ phase \in {"run", "drain", "gone"} /\ next \in 1..(N + 1)
  /\ waiting \in BOOLEAN /\ late \in BOOLEAN /\ exits \in 0..MaxExits

\* When the parent has exited, no worker of its runs that was not told to end, and of
\* those it told at most one still drains: the one whose wait used up the deadline, which
\* is neither killed nor waited for.  All behind it are killed.
OneOrphan ==
  phase = "gone" =>
    /\ \A i \in Ids : proc[i] # "up"
    /\ \A i, j \in Ids : proc[i] = "told" /\ proc[j] = "told" => i = j

\* A worker that died comes back, or the parent drains; and a drain ends, even when no
\* worker ends its own.
Supervised == /\ \A i \in 1..N : [](proc[i] = "dead" => <>(proc[i] = "up" \/ phase # "run"))
              /\ [](phase = "drain" => <>(phase = "gone"))
=============================================================================
