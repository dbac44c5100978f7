-------------------------------- MODULE Realtime --------------------------------
(***************************************************************************)
(* Realtime fan-out, src/realtime/: the shared log cogworks_realtime_events *)
(* (cluster-bus.ts), each worker's subscriptions and local delivery        *)
(* (manager.ts), and the resumption of an SSE stream from Last-Event-ID.   *)
(*                                                                         *)
(* Every function here runs without awaiting, so it is one step of its     *)
(* worker: a broadcast appends to the log and delivers locally, a tail     *)
(* poll reads one page and delivers it, setting an SSE client's topics     *)
(* subscribes and replays.                                                 *)
(*                                                                         *)
(* An event is its kind: what topics it goes out on (recordEventTargets,   *)
(* or the one topic of a system message), who passes its view_rule and     *)
(* what a subscription filter says of it depend on nothing else here.      *)
(* Sequence numbers are the positions in `log`: AUTOINCREMENT never gives  *)
(* one out twice, pruned or not.                                           *)
(***************************************************************************)
EXTENDS Integers, Sequences, FiniteSets, FiniteSetsExt

CONSTANTS
  Worker,       \* one element is `cogworks serve`, which never tails
  Nowhere,      \* not connected
  Client,       \* connections; a WebSocket one is new each time, a stream resumes
  Sse,          \* those that are SSE streams
  Topic,
  Kind,         \* kinds of event
  Targets,      \* Targets[k]: the topics an event of kind k goes out on
  Visible,      \* <<client, kind>> pairs that pass the event's view_rule
  Narrow,       \* kinds a filtered subscription lets through
  TailPage,     \* LIMIT of a tail poll
  ReplayPage,   \* LIMIT of a replay
  Prompt,       \* TRUE: tails poll and streams resume within the retention time
  MaxSeq,       \* bound on events
  MaxCrash      \* bound on worker crashes

ASSUME RealtimeAssumption ==
  /\ Nowhere \notin Worker
  /\ Sse \subseteq Client
  /\ Targets \in [Kind -> SUBSET Topic]
  /\ Visible \subseteq Client \X Kind /\ Narrow \subseteq Kind
  /\ TailPage \in Nat \ {0} /\ ReplayPage \in Nat
  /\ Prompt \in BOOLEAN
  /\ MaxSeq \in Nat /\ MaxCrash \in Nat

VARIABLES
  log,          \* events by sequence number; `kept` until pruned
  workers,      \* workers[w]: is it up, and its tail's lastSeq
  clients,      \* clients[c]: its connection, subscriptions and what it received
  crashes       \* history: how many crashes so far

vars == <<log, workers, clients, crashes>>

Seqs == 1 .. MaxSeq
Mode == {"off", "all", "filtered"}

(* at, subs, since: the server's side of the connection (subs are the      *)
(* entries of `subs` and `subFilters`, since is replaySince, 0 for none).  *)
(* lastId, got, want, owed: the client's: its Last-Event-ID, how often it  *)
(* received each event, the subscriptions it believes it has, and the      *)
(* events broadcast for these that it has not received.                    *)
ClientState == [at : Worker \cup {Nowhere}, subs : [Topic -> Mode], since : 0 .. MaxSeq,
                lastId : 0 .. MaxSeq, got : [Seqs -> 0 .. 2], want : [Topic -> Mode],
                owed : SUBSET Seqs]

(* Cursors are sequence numbers, also when the table is empty, and counts  *)
(* and sets range over events.                                             *)
TypeOK ==
  /\ log \in Seq([kind : Kind, origin : Worker, kept : BOOLEAN]) /\ Len(log) <= MaxSeq
  /\ workers \in [Worker -> [up : BOOLEAN, lastSeq : 0 .. MaxSeq]]
  /\ clients \in [Client -> ClientState]
  /\ crashes \in 0 .. MaxCrash

NoSubs == [t \in Topic |-> "off"]

Away == [at |-> Nowhere, subs |-> NoSubs, since |-> 0, lastId |-> 0,
         got |-> [s \in Seqs |-> 0], want |-> NoSubs, owed |-> {}]

Init ==
  /\ log = <<>>
  /\ workers = [w \in Worker |-> [up |-> TRUE, lastSeq |-> 0]]
  /\ clients = [c \in Client |-> Away]
  /\ crashes = 0

-----------------------------------------------------------------------------
(* Matching and delivery *)

(* Some topic of the event is subscribed and its own filter, if any, lets  *)
(* the event through; the view_rule holds for all topics alike. However    *)
(* many topics match, the event is sent once.                              *)
Matches(c, subs, k) ==
  /\ \E t \in Targets[k] :
       subs[t] = "all" \/ (subs[t] = "filtered" /\ k \in Narrow)
  /\ <<c, k>> \in Visible

(* The client after the events S, in their order. *)
Received(c, cl, S) ==
  IF S = {} THEN cl
  ELSE [cl EXCEPT !.got = [s \in Seqs |-> IF s \in S /\ @[s] < 2 THEN @[s] + 1 ELSE @[s]],
                  !.lastId = IF c \in Sse THEN Max(S) ELSE @,
                  !.owed = @ \ S]

Matching(c, subs, S) == {s \in S : Matches(c, subs, log[s].kind)}

Kept == {s \in DOMAIN log : log[s].kept}

(* SELECT MAX(seq), of what is there. *)
MaxWithoutCoalesce == IF Kept = {} THEN -1 ELSE Max(Kept)

(* maxEventSeq() *)
maxEventSeq == IF Kept = {} THEN 0 ELSE Max(Kept)

(* ORDER BY seq LIMIT n *)
Page(S, n) == {s \in S : Cardinality({x \in S : x <= s}) <= n}

-----------------------------------------------------------------------------
(* broadcast() and broadcastSystem() *)

(* Events are owed to a client that wants them, though it may be connected *)
(* to another worker or between two connections.                           *)
Broadcast(w, k) ==
  LET s == Len(log) + 1
  IN  /\ workers[w].up /\ s \in Seqs
      /\ log' = Append(log, [kind |-> k, origin |-> w, kept |-> TRUE])
      /\ clients' = [c \in Client |->
           IF clients[c].at = w /\ Matches(c, clients[c].subs, k)
           THEN Received(c, clients[c], {s})
           ELSE IF Matches(c, clients[c].want, k)
           THEN [clients[c] EXCEPT !.owed = @ \cup {s}]
           ELSE clients[c]]
      /\ UNCHANGED <<workers, crashes>>

-----------------------------------------------------------------------------
(* startRealtimeTail() *)

(* Mutant: the tail does not leave out the worker's own events. *)
TailsOwnToo(w) == {s \in Kept : s > workers[w].lastSeq}

(* Mutant: the origin is compared the wrong way round. *)
TailsOwnOnly(w) == {s \in Kept : s > workers[w].lastSeq /\ log[s].origin = w}

(* What the tail of w has yet to read. *)
Unread(w) == {s \in Kept : s > workers[w].lastSeq /\ log[s].origin # w}

(* Mutant: the cursor jumps to the end of the log, past a full page. *)
CursorToEnd(page) == IF page = {} THEN 0 ELSE maxEventSeq

(* The cursor after a page: the last row read. *)
CursorAfter(page) == Max(page)

PollTail(w) ==
  LET page == Page(Unread(w), TailPage)
  IN  /\ workers[w].up /\ page # {}
      /\ workers' = [workers EXCEPT ![w].lastSeq = CursorAfter(page)]
      /\ clients' = [c \in Client |->
           IF clients[c].at = w
           THEN Received(c, clients[c], Matching(c, clients[c].subs, page))
           ELSE clients[c]]
      /\ UNCHANGED <<log, crashes>>

-----------------------------------------------------------------------------
(* Connections. A client subscribes with one mode for a set of topics.     *)

Put(subs, T, m) == [t \in Topic |-> IF t \in T THEN m ELSE subs[t]]

(* The client with new subscriptions, which it takes note of. *)
Subscribed(c, cl, subs) ==
  [cl EXCEPT !.subs = subs, !.want = subs, !.owed = Matching(c, subs, @)]

(* onOpen, or openSSEStream with the Last-Event-ID the browser kept. *)
Connect(c, w) ==
  /\ clients[c].at = Nowhere /\ workers[w].up
  /\ clients' = [clients EXCEPT ![c].at = w, ![c].since = clients[c].lastId]
  /\ UNCHANGED <<log, workers, crashes>>

(* subscribe() and unsubscribe() *)
WsSubscribe(c, T, m) ==
  /\ c \notin Sse /\ clients[c].at # Nowhere
  /\ clients' = [clients EXCEPT ![c] = Subscribed(c, @, Put(@.subs, T, m))]
  /\ UNCHANGED <<log, workers, crashes>>

(* Mutant: the first event of the window is the last one received. *)
WindowFromLast(since, upTo) == {s \in Kept : s >= since /\ s <= upTo}

(* Mutant: the last event of the window is left to live delivery. *)
WindowBeforeMax(since, upTo) == {s \in Kept : s > since /\ s < upTo}

(* readEventsSince() *)
Window(since, upTo) == {s \in Kept : s > since /\ s <= upTo}

(* setSSESubscriptions() and replayToClient(): the topics are replaced; a  *)
(* stream that resumes, with the topics it had, is sent what it missed.    *)
SetTopics(c, T, m) ==
  LET subs == Put(NoSubs, T, m)
      cl == clients[c]
      replay == IF cl.since = 0 THEN {}
                ELSE Page(Window(cl.since, maxEventSeq), ReplayPage)
  IN  /\ c \in Sse /\ cl.at # Nowhere
      /\ cl.since # 0 => subs = cl.want
      /\ clients' = [clients EXCEPT ![c] =
           Received(c, [Subscribed(c, cl, subs) EXCEPT !.since = 0],
                    Matching(c, subs, replay))]
      /\ UNCHANGED <<log, workers, crashes>>

(* What is left of a client whose connection is gone. A stream that has    *)
(* received something will resume; others begin anew.                      *)
Dropped(c) ==
  IF c \in Sse /\ clients[c].lastId # 0
  THEN [clients[c] EXCEPT !.at = Nowhere, !.subs = NoSubs, !.since = 0]
  ELSE Away

(* onClose with disconnectAll(), or unregisterSSEClient() *)
Disconnect(c) ==
  /\ clients[c].at # Nowhere
  /\ clients' = [clients EXCEPT ![c] = Dropped(c)]
  /\ UNCHANGED <<log, workers, crashes>>

-----------------------------------------------------------------------------
(* Workers and the log *)

Crash(w) ==
  /\ workers[w].up /\ crashes < MaxCrash
  /\ crashes' = crashes + 1
  /\ workers' = [workers EXCEPT ![w].up = FALSE]
  /\ clients' = [c \in Client |-> IF clients[c].at = w THEN Dropped(c) ELSE clients[c]]
  /\ UNCHANGED log

(* A respawned worker's tail starts after the current maximum. *)
Boot(w) ==
  /\ ~ workers[w].up
  /\ workers' = [workers EXCEPT ![w] = [up |-> TRUE, lastSeq |-> maxEventSeq]]
  /\ UNCHANGED <<log, clients, crashes>>

(* pruneRealtimeEvents(), deleting the events up to n as too old. *)
Prune(n) ==
  /\ log[n].kept
  /\ Prompt => /\ \A w \in Worker : workers[w].up => \A s \in Unread(w) : s > n
               /\ \A c \in Client : \A s \in clients[c].owed : s > n
  /\ log' = [s \in DOMAIN log |-> [log[s] EXCEPT !.kept = @ /\ s > n]]
  /\ UNCHANGED <<workers, clients, crashes>>

-----------------------------------------------------------------------------
Connection(c) ==
  \/ \E w \in Worker : Connect(c, w)
  \/ Disconnect(c)
  \/ \E T \in SUBSET Topic, m \in Mode : WsSubscribe(c, T, m)
  \/ \E T \in SUBSET Topic, m \in {"all", "filtered"} : SetTopics(c, T, m)

Next ==
  \/ \E w \in Worker : PollTail(w) \/ Crash(w) \/ Boot(w) \/ \E k \in Kind : Broadcast(w, k)
  \/ \E c \in Client : Connection(c)
  \/ \E n \in DOMAIN log : Prune(n)

(* The tail's interval keeps firing; nothing obliges anything else. *)
Fairness == \A w \in Worker : WF_vars(PollTail(w))

Spec == Init /\ [][Next]_vars

FairSpec == Spec /\ Fairness

-----------------------------------------------------------------------------
(* Properties *)

(* No client receives an event twice: a WebSocket one over one connection, *)
(* a stream over all of them. "Capture the replay upper bound BEFORE       *)
(* subscribing so live events (seq > upTo) are strictly newer than         *)
(* anything replayed -> no dup, no gap" (setSSESubscriptions).             *)
ReceivedOnce == \A c \in Client, s \in Seqs : clients[c].got[s] <= 1

(* What a connected client has set its topics for and not received is      *)
(* still ahead of its worker's tail: no page limit, cursor, reconnection,  *)
(* crash or pruning makes it skip an event.                                *)
NothingSkipped ==
  \A c \in Client :
    clients[c].at # Nowhere /\ clients[c].since = 0
      => clients[c].owed \subseteq Unread(clients[c].at)

(* Between them: no event twice, and none left out.                        *)
DeliveredOnce == ReceivedOnce /\ NothingSkipped

(* An event broadcast on any worker reaches every connected WebSocket      *)
(* client that wants it, unless it leaves or changes its mind.             *)
OwedArrives ==
  \A c \in Client \ Sse, s \in Seqs : s \in clients[c].owed ~> s \notin clients[c].owed

=============================================================================
