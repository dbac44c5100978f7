------------------------------ MODULE MCServices ------------------------------
(***************************************************************************)
(* For TLC: what runs beside the requests (cron, webhooks, presence, the   *)
(* cluster's parent) and what is kept beside the records (batches, the     *)
(* record history, encryption keys, caches).  They share no state here,    *)
(* so one behaviour exercises one of them, and their states add up.        *)
(***************************************************************************)
EXTENDS Cron, Webhooks, Presence, Supervisor, Batch, History, KeyRotation, Caches

VARIABLE family

loops == <<cronVars, hookVars, presVars, supVars>>
stores == <<batchVars, histVars, keyVars, cacheVars>>

MCInit ==
  /\ CronInit /\ HooksInit /\ PresInit /\ SupInit
  /\ BatchInit /\ HistInit /\ KeyInit /\ CacheInit
  /\ family \in {"cron", "webhooks", "presence", "parent",
                 "batch", "history", "keys", "caches"}
  /\ family # "webhooks" => \A h \in Hooks : hooks[h].enabled /\ hooks[h].all
  /\ family # "keys" => flagged = {}
  /\ family # "caches" => kind = "timed"

MCLoops ==
  /\ UNCHANGED stores
  /\ \/ family = "cron" /\ CronNext /\ UNCHANGED <<hookVars, presVars, supVars>>
     \/ family = "webhooks" /\ HooksNext /\ UNCHANGED <<cronVars, presVars, supVars>>
     \/ family = "presence" /\ PresNext /\ UNCHANGED <<cronVars, hookVars, supVars>>
     \/ family = "parent" /\ SupNext /\ UNCHANGED <<cronVars, hookVars, presVars>>

MCStores ==
  /\ UNCHANGED loops
  /\ \/ family = "batch" /\ BatchNext /\ UNCHANGED <<histVars, keyVars, cacheVars>>
     \/ family = "history" /\ HistNext /\ UNCHANGED <<batchVars, keyVars, cacheVars>>
     \/ family = "keys" /\ KeyNext /\ UNCHANGED <<batchVars, histVars, cacheVars>>
     \/ family = "caches" /\ CacheNext /\ UNCHANGED <<batchVars, histVars, keyVars>>

MCNext == UNCHANGED family /\ (MCLoops \/ MCStores)

(***************************************************************************)
(* The fairness of each module, of its actions while its family runs: TLC  *)
(* takes a conjunction of WFs, not an implication to one.                  *)
(***************************************************************************)
Crons == family = "cron"
Posts == family = "webhooks"
Watches == family = "presence"
Parents == family = "parent"

MCFairness ==
  /\ WF_cronVars(Crons /\ CronTick) /\ WF_cronVars(Crons /\ LeaderStarts)
  /\ \A j \in CronJobs : WF_cronVars(Crons /\ RunEnds(j)) /\ WF_cronVars(Crons /\ Elapses(j))
  /\ WF_hookVars(Posts /\ HookTick) /\ WF_hookVars(Posts /\ DispatcherStarts)
  /\ \A d \in 1..MaxDeliveries :
       WF_hookVars(Posts /\ PostEnds(d)) /\ WF_hookVars(Posts /\ BackoffEnds(d))
  /\ \A c \in Members : WF_presVars(Watches /\ GrowStale(c))
  /\ \A w \in PresWorkers :
       /\ WF_presVars(Watches /\ TailPresence(w)) /\ WF_presVars(Watches /\ ReapSelect(w))
       /\ WF_presVars(Watches /\ \E c \in Members : ReapDelete(w, c) \/ ReapTell(w, c))
  /\ WF_supVars(Parents /\ Deadline)
  /\ WF_supVars(Parents /\ (Come \/ Waited \/ ParentExits))
  /\ \A i \in Ids : WF_supVars(Parents /\ Respawn(i))

MCSafety == MCInit /\ [][MCNext]_<<loops, stores, family>>
MCSpec == MCSafety /\ MCFairness
=============================================================================
