------------------------------- MODULE Presence -------------------------------
(***************************************************************************)
(* Who is on a channel, src/src/realtime/presence.ts with its handlers in  *)
(* src/src/server.ts, in a cluster of workers that share the table and     *)
(* pass each other the join and leave messages through the realtime log.   *)
(* A handler reads and writes the table without awaiting, so it is one     *)
(* step of its worker; another process may write between the reaper's      *)
(* SELECT and its DELETEs, and between a DELETE and its message.  Time is  *)
(* a row's being stale: no heartbeat within TTL_SEC.                       *)
(***************************************************************************)
EXTENDS Naturals, Sequences

CONSTANTS Members, Observers,   \* connections of the two kinds, each used once
          PresWorkers,
          NoWorker,
          MaxCrash, MaxFeed     \* bounds: crashes, messages a tail has yet to deliver

VARIABLES at,        \* the worker a connection is on, or has been on when it ended
          open,      \* connections that are open
          rows,      \* members with a row in cogworks_presence
          stale,     \* rows without a heartbeat for TTL_SEC
          feed,      \* per worker, messages in the log its tail has not delivered
          view,      \* per observer, who it believes is there
          running,   \* workers that are up
          reaping,   \* per worker, the rows its reaper selected and has yet to delete
          owing,     \* per worker, rows it deleted and has yet to tell of
          silent,    \* members whose row went without a message
          lost       \* crashes so far

presVars == <<at, open, rows, stale, feed, view, running, reaping, owing, silent, lost>>
tables == <<at, rows, stale>>

Join(c) == [kind |-> "join", who |-> c]
Leave(c) == [kind |-> "leave", who |-> c]

PresInit ==
  /\ at = [c \in Members \cup Observers |-> NoWorker] /\ open = {}
  /\ rows = {} /\ stale = {} /\ silent = {} /\ lost = 0
  /\ feed = [w \in PresWorkers |-> <<>>]
  /\ view = [o \in Observers |-> {}]
  /\ running = PresWorkers
  /\ reaping = [w \in PresWorkers |-> {}] /\ owing = [w \in PresWorkers |-> {}]

Sees(seen, m) == IF m.kind = "join" THEN seen \cup {m.who} ELSE seen \ {m.who}
\* After all of ms, what counts of each member is the last message about it.
LastOf(ms, n) == \A k \in DOMAIN ms : k > n => ms[k].who # ms[n].who
SeesAll(seen, ms) ==
  {c \in Members : \/ c \in seen /\ \A n \in DOMAIN ms : ms[n].who # c
                  \/ \E n \in DOMAIN ms : ms[n] = Join(c) /\ LastOf(ms, n)}

\* emit: broadcastSystem delivers on this worker and leaves the message for the others.
Emit(w, m) ==
  /\ \A v \in PresWorkers \ {w} : Len(feed[v]) < MaxFeed
  /\ view' = [o \in Observers |-> IF o \in open /\ at[o] = w THEN Sees(view[o], m) ELSE view[o]]
  /\ feed' = [v \in PresWorkers |-> IF v # w /\ v \in running THEN Append(feed[v], m)
                                    ELSE feed[v]]

----------------------------------------------------------------------------
\* presence-track: the row first, then the message.
Track(c, w) ==
  /\ c \in Members /\ w \in running
  /\ at[c] = NoWorker \/ (c \in open /\ at[c] = w)
  /\ at' = [at EXCEPT ![c] = w] /\ open' = open \cup {c}
  /\ rows' = rows \cup {c} /\ stale' = stale \ {c}
  /\ Emit(w, Join(c))
  /\ UNCHANGED <<running, reaping, owing, silent, lost>>

LeaveUnsaid(c, w) == UNCHANGED <<view, feed>>     \* mutant: a disconnect tells nobody
\* untrackPresence, and dropConnPresence when the connection closes.
LeaveSaid(c, w) == IF c \in rows THEN Emit(w, Leave(c)) ELSE UNCHANGED <<view, feed>>
Untrack(c) ==
  /\ c \in Members \cap open /\ c \in rows
  /\ rows' = rows \ {c} /\ stale' = stale \ {c}
  /\ LeaveSaid(c, at[c])
  /\ UNCHANGED <<at, open, running, reaping, owing, silent, lost>>
Close(c) ==
  /\ c \in Members \cap open
  /\ open' = open \ {c} /\ rows' = rows \ {c} /\ stale' = stale \ {c}
  /\ LeaveSaid(c, at[c])
  /\ UNCHANGED <<at, running, reaping, owing, silent, lost>>

\* presence-state: the observer subscribes and gets the table as it is.
Observe(o, w) ==
  /\ o \in Observers /\ at[o] = NoWorker /\ w \in running
  /\ at' = [at EXCEPT ![o] = w] /\ open' = open \cup {o}
  /\ view' = [view EXCEPT ![o] = rows]
  /\ UNCHANGED <<rows, stale, feed, running, reaping, owing, silent, lost>>

\* The tail of w delivers the next message.
TailPresence(w) ==
  /\ w \in running /\ feed[w] # <<>>
  /\ view' = [o \in Observers |-> IF o \in open /\ at[o] = w
                                    THEN Sees(view[o], Head(feed[w])) ELSE view[o]]
  /\ feed' = [feed EXCEPT ![w] = Tail(@)]
  /\ UNCHANGED <<at, open, rows, stale, running, reaping, owing, silent, lost>>

----------------------------------------------------------------------------
\* A worker that runs refreshes its rows three times in TTL_SEC: only those of a worker
\* that is down grow stale, long after the tails, five polls a second, have passed them on.
Untold(c) == \E w \in PresWorkers : \E n \in DOMAIN feed[w] : feed[w][n].who = c
GrowStale(c) ==
  /\ c \in rows \ stale /\ at[c] \notin running /\ ~Untold(c)
  /\ stale' = stale \cup {c}
  /\ UNCHANGED <<at, open, rows, feed, view, running, reaping, owing, silent, lost>>

\* reapStalePresence: SELECT, then a DELETE and a message for each row, whosever it is.
OwnStale(w) == {c \in stale : at[c] = w}     \* mutant
StaleRows(w) == stale
ReapSelect(w) ==
  /\ w \in running /\ reaping[w] = {} /\ owing[w] = {} /\ StaleRows(w) # {}
  /\ reaping' = [reaping EXCEPT ![w] = StaleRows(w)]
  /\ UNCHANGED <<at, open, rows, stale, feed, view, running, owing, silent, lost>>
ReapDelete(w, c) ==
  /\ c \in reaping[w] /\ owing[w] = {}
  /\ rows' = rows \ {c} /\ stale' = stale \ {c}
  /\ reaping' = [reaping EXCEPT ![w] = @ \ {c}]
  /\ owing' = [owing EXCEPT ![w] = {c}]
  /\ UNCHANGED <<at, open, feed, view, running, silent, lost>>
ReapTell(w, c) ==
  /\ c \in owing[w]
  /\ owing' = [owing EXCEPT ![w] = {}]
  /\ Emit(w, Leave(c))
  /\ silent' = silent \ {c}
  /\ UNCHANGED <<at, open, rows, stale, running, reaping, lost>>

----------------------------------------------------------------------------
\* A worker dies with its connections, its tail's place and what its reaper had to tell.
WorkerDies(w) ==
  /\ w \in running /\ lost < MaxCrash
  /\ running' = running \ {w} /\ lost' = lost + 1
  /\ open' = {c \in open : at[c] # w}
  /\ feed' = [feed EXCEPT ![w] = <<>>]
  /\ view' = [o \in Observers |-> IF at[o] = w THEN {} ELSE view[o]]
  /\ reaping' = [reaping EXCEPT ![w] = {}] /\ owing' = [owing EXCEPT ![w] = {}]
  /\ silent' = silent \cup owing[w]
  /\ UNCHANGED tables

KeepsRows(w) == {}     \* mutant: the boot leaves the old rows, which heartbeats then renew
\* clearWorkerPresence: the rows of the worker's earlier life go without a message.
Leftover(w) == {c \in rows : at[c] = w}
WorkerBoots(w) ==
  /\ w \notin running
  /\ running' = running \cup {w}
  /\ rows' = rows \ Leftover(w) /\ stale' = stale \ {c \in rows : at[c] = w}
  /\ silent' = silent \cup Leftover(w)
  /\ UNCHANGED <<at, open, feed, view, reaping, owing, lost>>

PresNext ==
  \/ \E c \in Members : Untrack(c) \/ Close(c) \/ GrowStale(c)
  \/ \E w \in PresWorkers :
       \/ \E c \in Members : Track(c, w) \/ ReapDelete(w, c) \/ ReapTell(w, c)
       \/ \E o \in Observers : Observe(o, w)
       \/ TailPresence(w) \/ ReapSelect(w) \/ WorkerDies(w) \/ WorkerBoots(w)

\* Intervals fire and handlers run to their end while a worker is up, and time passes; no
\* worker need come back.
PresFairness ==
  /\ \A c \in Members : WF_presVars(GrowStale(c))
  /\ \A w \in PresWorkers :
       /\ WF_presVars(TailPresence(w)) /\ WF_presVars(ReapSelect(w))
       /\ WF_presVars(\E c \in Members : ReapDelete(w, c) \/ ReapTell(w, c))

PresSpec == PresInit /\ [][PresNext]_presVars /\ PresFairness

----------------------------------------------------------------------------
\* Rows and messages are about members, and a worker that is down reaps nothing.
PresTypeOK ==
  /\ rows \subseteq Members /\ stale \subseteq rows /\ silent \subseteq Members
  /\ \A w \in PresWorkers \ running : reaping[w] = {} /\ owing[w] = {} /\ feed[w] = <<>>

\* No row of a worker that runs outlives its connection: a heartbeat renews the worker's
\* rows without looking at them, so nothing else would ever remove it.
RowsOpen == \A c \in rows : at[c] \in running => c \in open

\* What an observer believes, once the messages on their way to it are in, is who has a
\* row, and beside these only members whose row another worker is about to tell of or whose
\* row went without a message.
BelievesRows ==
  \A o \in Observers \cap open :
    LET seen == SeesAll(view[o], feed[at[o]]) IN
    /\ rows \subseteq seen
    /\ seen \subseteq rows \cup silent \cup UNION {owing[w] : w \in PresWorkers}

\* "stale rows (a crashed worker's leftovers) are culled past a TTL and a `leave` is
\* emitted" (presence.ts): every observer hears of each member that is gone.
LeaveEmitted ==
  \A o \in Observers \cap open :
    SeesAll(view[o], feed[at[o]]) \subseteq rows \cup UNION {owing[w] : w \in PresWorkers}

\* A member that is gone does not stay in the table while some worker runs: its own
\* connection, a reboot of its worker or another worker's reaper removes the row.
Culled ==
  \A c \in Members :
    [](c \in rows /\ c \notin open => <>(c \notin rows \/ running = {}))
=============================================================================
