------------------------------ MODULE EventLoop ------------------------------
(***************************************************************************)
(* How one server process runs its request handlers.  bun:sqlite is        *)
(* synchronous, so the statements a handler issues between two real awaits *)
(* (password hashing, JWT signing, a hook, a provider's answer) run        *)
(* without another handler of the same process in between.  At an Await    *)
(* the other handlers of the process run.  The handlers of another process *)
(* share the database file only: they run between any two statements.  A   *)
(* crash of a process ends its handlers wherever they are; what they wrote *)
(* stays.                                                                  *)
(***************************************************************************)
EXTENDS Naturals, Sequences, FiniteSets

CONSTANTS Requests,   \* requests that may be in flight at the same time
          Procs,      \* server processes
          Home,       \* Home[r]: the process that handles request r
          MaxTime, MaxCrashes     \* bounds of the model

ASSUME LoopAssumption ==
  /\ IsFiniteSet(Requests) /\ Home \in [Requests -> Procs]
  /\ MaxTime \in Nat /\ MaxCrashes \in Nat

VARIABLES todo,       \* todo[r]: the statements the handler of r has still to run
          turn,       \* turn[p]: the requests whose statements p is running, one at most
          now,        \* seconds
          crashes     \* crashes so far

loopVars == <<todo, turn>>
clockVars == <<now, crashes>>

Await == [op |-> "await"]

LoopInit ==
  /\ todo = [r \in Requests |-> <<>>]
  /\ turn = [p \in Procs |-> {}]
  /\ now = 0 /\ crashes = 0

Runnable(r) == turn[Home[r]] \subseteq {r}

\* r has `rest` left to do, and keeps its process unless it waits or has ended.
Leaves(r, rest) ==
  /\ todo' = [todo EXCEPT ![r] = rest]
  /\ turn' = [turn EXCEPT ![Home[r]] =
                IF rest = <<>> \/ Head(rest) = Await THEN {} ELSE {r}]

\* A request arrives; its handler has read and decided, and `stmts` is what it will do.
Begin(r, stmts) ==
  /\ todo[r] = <<>>
  /\ Runnable(r)
  /\ Leaves(r, stmts)

\* The next statement of r, when there is one, is `s`.
Next1(r, op) ==
  /\ todo[r] # <<>>
  /\ Head(todo[r]).op = op
  /\ Runnable(r)

Resume(r) ==
  /\ Next1(r, "await")
  /\ Leaves(r, Tail(todo[r]))

Tick ==
  /\ now < MaxTime
  /\ now' = now + 1
  /\ UNCHANGED <<loopVars, crashes>>

CrashLoop(p) ==
  /\ crashes < MaxCrashes
  /\ crashes' = crashes + 1
  /\ UNCHANGED now
  /\ \E r \in Requests : Home[r] = p /\ todo[r] # <<>>
  /\ todo' = [r \in Requests |-> IF Home[r] = p THEN <<>> ELSE todo[r]]
  /\ turn' = [turn EXCEPT ![p] = {}]
=============================================================================
