--------------------------------- MODULE Batch ---------------------------------
(***************************************************************************)
(* POST /batch, src/src/api/batch.ts, and the requests served while it     *)
(* runs.  A process has one SQLite connection, so the transaction a batch  *)
(* opens with BEGIN is everybody's: what another request writes until      *)
(* COMMIT or ROLLBACK is part of it, and a second BEGIN is refused.  The   *)
(* batch awaits hooks, rules, hashing and encryption inside and between    *)
(* its operations.  A write is known by the request that made it and its   *)
(* place in it; what it wrote does not matter here.                        *)
(***************************************************************************)
EXTENDS Naturals

CONSTANTS Batches, Singles,   \* requests: batches, and writes of one record
          NoBatch,
          MaxOps              \* bound of the model: operations of a batch, MAX_BATCH in the code

VARIABLES stage,      \* stage[b]: where batch b is, or how it was answered
          done,       \* done[b]: operations of b that are done
          single,     \* single[s]: idle, written or answered
          opened,     \* the batch whose BEGIN opened the transaction, or NoBatch
          pending,    \* writes in the open transaction
          durable     \* writes that are committed

batchVars == <<stage, done, single, opened, pending, durable>>

BatchInit ==
  /\ stage = [b \in Batches |-> "idle"] /\ done = [b \in Batches |-> 0]
  /\ single = [s \in Singles |-> "idle"]
  /\ opened = NoBatch /\ pending = {} /\ durable = {}

InTransaction == opened # NoBatch

\* A statement on the connection: within a transaction if one is open, by itself if not.
Write(w) ==
  IF InTransaction THEN pending' = pending \cup {w} /\ UNCHANGED durable
                   ELSE durable' = durable \cup {w} /\ UNCHANGED pending

----------------------------------------------------------------------------
\* BEGIN stands before the try: when it is refused nothing is rolled back.
RefusedInTry == opened' = NoBatch /\ pending' = {}     \* mutant: BEGIN inside the try
Refused == UNCHANGED <<opened, pending>>
BeginBatch(b) ==
  /\ stage[b] = "idle"
  /\ IF InTransaction THEN stage' = [stage EXCEPT ![b] = "refused"] /\ Refused
     ELSE stage' = [stage EXCEPT ![b] = "running"] /\ opened' = b /\ UNCHANGED pending
  /\ UNCHANGED <<done, single, durable>>

NextOp(b) ==
  /\ stage[b] = "running" /\ done[b] < MaxOps
  /\ done' = [done EXCEPT ![b] = @ + 1]

\* create, update, delete of a record that is there, cascades included.
OpWrites(b) ==
  /\ NextOp(b)
  /\ Write(<<b, done[b] + 1>>)
  /\ UNCHANGED <<stage, single, opened>>

\* list, get, and an update or delete of a record that is not there: 404, and on it goes.
OpNoWrite(b) ==
  /\ NextOp(b)
  /\ UNCHANGED <<stage, single, opened, pending, durable>>

\* ROLLBACK, which fails without a transaction, as COMMIT does.
RollBack(b) ==
  /\ stage' = [stage EXCEPT ![b] = IF InTransaction THEN "rolledback" ELSE "failed"]
  /\ opened' = NoBatch /\ pending' = {}

\* A rule, the validation, a restricting reference or a hook throws.
OpThrows(b) ==
  /\ stage[b] = "running"
  /\ RollBack(b)
  /\ UNCHANGED <<done, single, durable>>

CommitBatch(b) ==
  /\ stage[b] = "running" /\ done[b] > 0
  /\ IF InTransaction
       THEN /\ stage' = [stage EXCEPT ![b] = "committed"]
            /\ durable' = durable \cup pending /\ pending' = {} /\ opened' = NoBatch
       ELSE RollBack(b) /\ UNCHANGED durable
  /\ UNCHANGED <<done, single>>

----------------------------------------------------------------------------
\* Another request of the process writes its record, and later answers.
SingleWrites(s) ==
  /\ single[s] = "idle"
  /\ single' = [single EXCEPT ![s] = "written"]
  /\ Write(<<s, 1>>)
  /\ UNCHANGED <<stage, done, opened>>
SingleAnswers(s) ==
  /\ single[s] = "written"
  /\ single' = [single EXCEPT ![s] = "answered"]
  /\ UNCHANGED <<stage, done, opened, pending, durable>>

\* The process dies: SQLite rolls the open transaction back.
BatchCrash ==
  /\ InTransaction
  /\ opened' = NoBatch /\ pending' = {}
  /\ stage' = [b \in Batches |-> IF stage[b] = "running" THEN "failed" ELSE stage[b]]
  /\ single' = [s \in Singles |-> IF single[s] = "written" THEN "failed" ELSE single[s]]
  /\ UNCHANGED <<done, durable>>

BatchNext ==
  \/ \E b \in Batches : BeginBatch(b) \/ OpWrites(b) \/ OpNoWrite(b) \/ OpThrows(b) \/ CommitBatch(b)
  \/ \E s \in Singles : SingleWrites(s) \/ SingleAnswers(s)
  \/ BatchCrash

BatchSpec == BatchInit /\ [][BatchNext]_batchVars

----------------------------------------------------------------------------
BatchTypeOK ==
  /\ stage \in [Batches -> {"idle", "running", "committed", "rolledback", "refused", "failed"}]
  /\ done \in [Batches -> 0..MaxOps]
  /\ single \in [Singles -> {"idle", "written", "answered", "failed"}]
  /\ opened \in Batches \cup {NoBatch}
  /\ pending \subseteq ((Batches \cup Singles) \X (1..MaxOps))
  /\ durable \subseteq ((Batches \cup Singles) \X (1..MaxOps))

OfBatch(b) == {b} \X (1..MaxOps)

\* A batch is all or nothing, whatever other batches and requests the process serves
\* meanwhile: nothing of it is durable before its COMMIT, nothing waits in a transaction
\* after it has ended, and the transaction is open exactly while its batch runs.
BatchWhole ==
  /\ \A b \in Batches :
       /\ stage[b] # "committed" => OfBatch(b) \cap durable = {}
       /\ stage[b] # "running" => OfBatch(b) \cap pending = {}
       /\ stage[b] = "running" <=> opened = b
  /\ ~InTransaction => pending = {}

\* "if any operation fails, the whole batch is rolled back" (rest-api.md): the batch, and
\* not the write of another request that was answered while it ran.
OthersKept ==
  \A s \in Singles : single[s] = "answered" => <<s, 1>> \in durable \cup pending
=============================================================================
