-------------------------------- MODULE Caches --------------------------------
(***************************************************************************)
(* What a process keeps of the database in memory, one cache at a time, of *)
(* one of four kinds:                                                      *)
(*   "timed"  settings of mail, storage, CORS, egress and rate limits, and *)
(*            the feature flags: a copy until its time to live is over     *)
(*   "list"   custom routes and queue workers: the enabled rows, compiled, *)
(*            until they are invalidated                                   *)
(*   "code"   hooks and jobs: the rows are read each time, what was        *)
(*            compiled of a row is kept until it is invalidated            *)
(*   "kept"   collections: the row, until an edit of this process replaces  *)
(*            it                                                           *)
(* Sources: src/src/core/{collections,flags,hooks,routes,queues,jobs,email,storage,    *)
(* cors,hook-egress}.ts, src/src/api/{ratelimit,settings,hooks,routes,     *)
(* queues}.ts.  An edit writes the row and invalidates, in the process     *)
(* that serves it; the other workers of a cluster hear nothing.            *)
(***************************************************************************)
EXTENDS Naturals, Sequences

CONSTANTS CacheProcs,
          Ttl,                     \* CACHE_TTL_MS, TTL_MS, CONFIG_TTL_MS
          MaxEdits, MaxBeats       \* bounds of the model: edits, and time

VARIABLES kind,       \* the kind of the cache
          truth,      \* the version of its rows
          enabled,    \* is the row enabled
          copy,       \* per process: what it keeps
          beat,       \* time
          ended,      \* when each version but the present one ended
          mine        \* per process: the version its last edit made

cacheVars == <<kind, truth, enabled, copy, beat, ended, mine>>
Kinds == {"timed", "list", "code", "kept"}
Empty == [in |-> FALSE, ver |-> 0, on |-> FALSE, loaded |-> 0]

CacheInit ==
  /\ kind \in Kinds /\ truth = 0 /\ enabled = TRUE /\ beat = 0 /\ ended = <<>>
  /\ copy = [p \in CacheProcs |-> Empty]
  /\ mine = [p \in CacheProcs |-> 0]

\* The TTL counts from the reading, not from the last use.
Expired(c) == kind = "timed" /\ beat >= c.loaded + Ttl
Holds(p) == copy[p].in /\ ~Expired(copy[p])
Loaded == [in |-> TRUE, ver |-> truth, on |-> enabled, loaded |-> beat]

SlidingHit(c) == [c EXCEPT !.loaded = beat]     \* mutant: a use renews the copy
Hit(c) == c

\* load(), loadRoutes(), loadWorkers(), lookupEnabledHooks(): a hook that is disabled is not
\* compiled.
Use(p) ==
  /\ kind = "code" => enabled
  /\ copy' = [copy EXCEPT ![p] = IF Holds(p) THEN Hit(@) ELSE Loaded]
  /\ UNCHANGED <<kind, truth, enabled, beat, ended, mine>>

\* What p acts on when it uses its copy.
Acts(p) == [ver |-> copy[p].ver, on |-> IF kind = "code" THEN enabled ELSE copy[p].on]

\* POST, PATCH, DELETE of the admin API and the MCP tools: the row, then the cache.
KeptCopy(p) == copy[p]     \* mutant: the edit does not invalidate
AfterEdit(p) == Empty

\* updateCollection reads the row again and keeps it.
ReadAgain(on) == [in |-> TRUE, ver |-> truth + 1, on |-> on, loaded |-> beat]
Edit(p, on) ==
  /\ truth < MaxEdits
  /\ truth' = truth + 1 /\ enabled' = on
  /\ ended' = Append(ended, beat)
  /\ copy' = [copy EXCEPT ![p] = IF kind = "kept" THEN ReadAgain(on) ELSE AfterEdit(p)]
  /\ mine' = [mine EXCEPT ![p] = truth + 1]
  /\ UNCHANGED <<kind, beat>>

CacheRestart(p) ==
  /\ copy[p].in
  /\ copy' = [copy EXCEPT ![p] = Empty]
  /\ UNCHANGED <<kind, truth, enabled, beat, ended, mine>>

Beat ==
  /\ beat < MaxBeats /\ beat' = beat + 1
  /\ UNCHANGED <<kind, truth, enabled, copy, ended, mine>>

CacheNext ==
  \/ Beat
  \/ \E p \in CacheProcs : CacheRestart(p) \/ Use(p) \/ \E on \in BOOLEAN : Edit(p, on)

CacheSpec == CacheInit /\ [][CacheNext]_cacheVars

----------------------------------------------------------------------------
CacheTypeOK ==
  /\ kind \in Kinds /\ Len(ended) = truth
  /\ \A p \in CacheProcs : copy[p].ver \in 0..truth /\ copy[p].loaded \in 0..beat /\ mine[p] \in 0..truth

\* A process never acts on less than its own last edit, and on settings and flags that
\* have been replaced for less than the time to live, whichever worker changed them.
FreshEnough ==
  \A p \in CacheProcs : Holds(p) =>
    /\ Acts(p).ver >= mine[p]
    /\ kind = "timed" /\ Acts(p).ver < truth => beat < ended[Acts(p).ver + 1] + Ttl

\* "invalidate the runtime cache so the route is live immediately" (admin-write-tools.ts):
\* in every worker of the cluster.
LiveEverywhere ==
  kind # "timed" => \A p \in CacheProcs :
    Holds(p) => Acts(p) = [ver |-> truth, on |-> enabled]
=============================================================================
