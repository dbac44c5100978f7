----------------------------- MODULE RealtimeProofs -----------------------------
(***************************************************************************)
(* Theorems about Realtime, for any workers, clients, topics, kinds of     *)
(* events, view rules, page limits and bounds: WebSocket clients in any    *)
(* cluster, streams in one process.                                        *)
(***************************************************************************)
EXTENDS Realtime, FiniteSetTheorems, WellFoundedInduction, TLAPS

OneWorker == \A v, w \in Worker : v = w

(* A stream that resumes missed no more events than a replay reads.        *)
ResumesWithinPage ==
  \A c \in Sse :
    clients[c].since # 0
      => Cardinality(Window(clients[c].since, maxEventSeq)) <= ReplayPage

-----------------------------------------------------------------------------
(* The inductive invariant *)

(* Cursors and clients are of what there is: no tail is past the log, and  *)
(* a client is connected to a worker that is up.                           *)
Placed ==
  /\ \A w \in Worker : workers[w].lastSeq <= Len(log)
  /\ \A c \in Client : clients[c].at # Nowhere => workers[clients[c].at].up

(* What the server keeps of a connection agrees with what its client       *)
(* believes: it subscribes what is wanted, unless it has yet to resume.    *)
Agreed(c, cl) ==
  /\ c \notin Sse => cl.lastId = 0
  /\ cl.at = Nowhere => cl.subs = NoSubs /\ cl.since = 0
  /\ cl.at = Nowhere /\ cl.lastId = 0 => cl = Away
  /\ cl.at # Nowhere /\ cl.since = 0 => cl.subs = cl.want
  /\ cl.since # 0 => cl.subs = NoSubs /\ cl.since = cl.lastId

(* What a client has received is behind its cursor: a stream's own, or its *)
(* worker's tail, which never reads what the worker broadcast itself.      *)
Behind(c, cl) ==
  /\ cl.lastId <= Len(log)
  /\ \A s \in Seqs :
       /\ cl.got[s] <= 1
       /\ cl.got[s] = 1 =>
            /\ s <= Len(log)
            /\ c \in Sse => s <= cl.lastId
            /\ c \notin Sse /\ cl.at # Nowhere
                 => s <= workers[cl.at].lastSeq \/ log[s].origin = cl.at

(* What it is owed matches what it wants and lies ahead of that cursor.    *)
Ahead(c, cl) ==
  \A s \in cl.owed :
    /\ s \in Kept
    /\ Matches(c, cl.want, log[s].kind)
    /\ c \in Sse => s > cl.lastId
    /\ cl.at # Nowhere /\ cl.since = 0 => s \in Unread(cl.at)

(* Of all clients, or of WebSocket clients only. *)
Sound(streamsToo) ==
  /\ Placed
  /\ \A c \in Client :
       c \notin Sse \/ streamsToo =>
         Agreed(c, clients[c]) /\ Behind(c, clients[c]) /\ Ahead(c, clients[c])
-----------------------------------------------------------------------------
(* Numbers *)

(* A set of numbers that is not empty has a smallest one.                  *)
LEMMA SmallestNat ==
  ASSUME NEW T \in SUBSET Nat, T # {}
  PROVE  \E x \in T : \A y \in T : x <= y
<1>1. IsWellFoundedOn(OpToRel(<, Nat), Nat)
  BY NatLessThanWellFounded
<1>2. PICK x \in T : \A y \in T : ~ (<<y, x>> \in OpToRel(<, Nat))
  BY <1>1, WFMin
<1>3. \A y \in T : ~ (y < x)
  BY <1>2 DEF OpToRel
<1> QED
  BY <1>3

(* Max is what its name says. *)
LEMMA MaxExists ==
  ASSUME NEW n \in Nat, NEW S \in SUBSET (0 .. n), S # {}
  PROVE  Max(S) \in S /\ \A y \in S : y <= Max(S)
<1> DEFINE T == {n - x : x \in S}
<1>0. T \in SUBSET Nat /\ T # {}
  <2>1. \A x \in S : n - x \in Nat
    OBVIOUS
  <2>2. T \subseteq Nat
    BY <2>1
  <2>3. PICK x \in S : TRUE
    OBVIOUS
  <2>4. n - x \in T
    OBVIOUS
  <2> QED
    BY <2>2, <2>4
<1>1. PICK t \in T : \A y \in T : t <= y
  <2> HIDE DEF T
  <2> QED
    BY <1>0, SmallestNat
<1>2. PICK x \in S : t = n - x
  OBVIOUS
<1>3. \A y \in S : n - y \in T
  OBVIOUS
<1>4. \A y \in S : x >= y
  BY <1>1, <1>2, <1>3
<1> QED
  BY <1>4 DEF Max

(* A sequence whose elements are all replaced. *)
LEMMA SeqOver ==
  ASSUME NEW R, NEW q \in Seq(R)
  PROVE  /\ \A s \in DOMAIN q : q[s] \in R
         /\ \A p \in [DOMAIN q -> R] : p \in Seq(R) /\ Len(p) = Len(q)
<1>1. Len(q) \in Nat /\ DOMAIN q = 1 .. Len(q)
  OBVIOUS
<1> QED
  BY <1>1

(* A page holds rows of the set, with each row all rows before it, and all *)
(* rows when there are no more than n.                                     *)
LEMMA PageIs ==
  ASSUME NEW S \in SUBSET Seqs, NEW n \in Nat
  PROVE  /\ Page(S, n) \subseteq S
         /\ \A s \in Page(S, n), x \in S : x <= s => x \in Page(S, n)
         /\ Cardinality(S) <= n => Page(S, n) = S
<1> DEFINE Upto(s) == {x \in S : x <= s}
<1>1. IsFiniteSet(Seqs)
  BY FS_Interval, RealtimeAssumption DEF Seqs
<1>2. IsFiniteSet(S)
  BY <1>1, FS_Subset
<1>3. \A s \in S : IsFiniteSet(Upto(s)) /\ Cardinality(Upto(s)) <= Cardinality(S)
  BY <1>2, FS_Subset
<1>4. \A s \in S, x \in S : x <= s => Cardinality(Upto(x)) <= Cardinality(Upto(s))
  <2>1. ASSUME NEW s \in S, NEW x \in S, x <= s
        PROVE  Upto(x) \subseteq Upto(s)
    <3>1. \A y \in S : y \in Int
      BY RealtimeAssumption DEF Seqs
    <3> QED
      BY <2>1, <3>1
  <2> QED
    BY <1>3, <2>1, FS_Subset
<1>5. \A s \in S : Cardinality(Upto(s)) \in Nat
  BY <1>3, FS_CardinalityType
<1>6. Cardinality(S) \in Nat
  BY <1>2, FS_CardinalityType
<1>7. \A s : s \in Page(S, n) <=> s \in S /\ Cardinality(Upto(s)) <= n
  BY DEF Page
<1> HIDE DEF Upto
<1> QED
  BY <1>3, <1>4, <1>5, <1>6, <1>7

(* Pages and windows are of events that were broadcast. *)
LEMMA EventsAre ==
  ASSUME TypeOK
  PROVE  /\ DOMAIN log = 1 .. Len(log) /\ Len(log) \in 0 .. MaxSeq
         /\ Kept \subseteq DOMAIN log /\ DOMAIN log \subseteq Seqs
         /\ maxEventSeq \in 0 .. Len(log) /\ \A s \in Kept : s <= maxEventSeq
<1>1. Len(log) \in 0 .. MaxSeq /\ DOMAIN log = 1 .. Len(log)
  BY RealtimeAssumption DEF TypeOK
<1>2. Kept \in SUBSET (0 .. Len(log))
  BY <1>1 DEF Kept
<1>3. Kept # {} => Max(Kept) \in Kept /\ \A s \in Kept : s <= Max(Kept)
  <2>1. Len(log) \in Nat
    BY <1>1, RealtimeAssumption
  <2> QED
    BY <1>2, <2>1, MaxExists
<1> QED
  BY <1>1, <1>2, <1>3, RealtimeAssumption DEF maxEventSeq, Seqs, Kept

-----------------------------------------------------------------------------
(* Type correctness *)

(* The fields of a client that was sent some events. *)
LEMMA ReceivedIs ==
  ASSUME NEW c \in Client, NEW cl \in ClientState, NEW S \in SUBSET Seqs, NEW r,
         r = Received(c, cl, S)
  PROVE  /\ r \in ClientState
         /\ r.at = cl.at /\ r.subs = cl.subs /\ r.since = cl.since /\ r.want = cl.want
         /\ r.owed = cl.owed \ S
         /\ \A s \in Seqs : r.got[s] = IF s \in S /\ cl.got[s] < 2 THEN cl.got[s] + 1
                                     ELSE cl.got[s]
         /\ c \in Sse /\ S # {} => r.lastId \in S /\ \A s \in S : s <= r.lastId
         /\ c \notin Sse \/ S = {} => r.lastId = cl.lastId
<1>1. CASE S = {}
  BY <1>1 DEF Received, ClientState
<1>2. CASE S # {}
  <2> DEFINE g == [s \in Seqs |-> IF s \in S /\ cl.got[s] < 2 THEN cl.got[s] + 1 ELSE cl.got[s]]
             l == IF c \in Sse THEN Max(S) ELSE cl.lastId
  <2>1. g \in [Seqs -> 0 .. 2]
    BY DEF ClientState
  <2>2. Max(S) \in S /\ (\A s \in S : s <= Max(S)) /\ l \in 0 .. MaxSeq
    <3>1. S \in SUBSET (0 .. MaxSeq)
      BY RealtimeAssumption DEF Seqs
    <3> QED
      BY <1>2, <3>1, MaxExists, RealtimeAssumption DEF ClientState
  <2>3. r = [cl EXCEPT !.got = g, !.lastId = l, !.owed = cl.owed \ S]
    BY <1>2 DEF Received
  <2>4. cl.owed \ S \in SUBSET Seqs
    BY DEF ClientState
  <2>5. /\ r.at = cl.at /\ r.subs = cl.subs /\ r.since = cl.since /\ r.want = cl.want
        /\ r.owed = cl.owed \ S /\ r.got = g /\ r.lastId = l
    BY <2>3 DEF ClientState
  <2>6. r \in ClientState
    <3> HIDE DEF g, l
    <3> QED
      BY <2>1, <2>2, <2>3, <2>4, Zenon DEF ClientState
  <2> QED
    BY <1>2, <2>2, <2>5, <2>6
<1> QED
  BY <1>1, <1>2

LEMMA SubscribedIs ==
  ASSUME NEW c \in Client, NEW cl \in ClientState, NEW subs \in [Topic -> Mode], NEW r,
         r = Subscribed(c, cl, subs)
  PROVE  /\ r \in ClientState
         /\ r.at = cl.at /\ r.since = cl.since /\ r.lastId = cl.lastId /\ r.got = cl.got
         /\ r.subs = subs /\ r.want = subs /\ r.owed = Matching(c, subs, cl.owed)
<1> DEFINE owed == Matching(c, subs, cl.owed)
<1>1. owed \in SUBSET Seqs
  BY DEF Matching, ClientState
<1>2. r = [cl EXCEPT !.subs = subs, !.want = subs, !.owed = owed]
  BY DEF Subscribed
<1> HIDE DEF owed
<1>3. r \in ClientState
  BY <1>1, <1>2, Zenon DEF ClientState
<1> QED
  BY <1>2, <1>3 DEF ClientState, owed

LEMMA AwayTyped == Away \in ClientState /\ NoSubs \in [Topic -> Mode]
<1>1. NoSubs \in [Topic -> Mode]
  BY DEF NoSubs, Mode
<1>2. [s \in Seqs |-> 0] \in [Seqs -> 0 .. 2] /\ 0 \in 0 .. MaxSeq
  BY RealtimeAssumption
<1>3. {} \in SUBSET Seqs /\ Nowhere \in Worker \cup {Nowhere}
  OBVIOUS
<1> QED
  BY <1>1, <1>2, <1>3, Zenon DEF Away, ClientState

LEMMA DroppedIs ==
  ASSUME TypeOK, NEW c \in Client, NEW r, r = Dropped(c)
  PROVE  /\ r \in ClientState
         /\ r.at = Nowhere /\ r.subs = NoSubs /\ r.since = 0
         /\ \/ r = Away
            \/ /\ c \in Sse /\ clients[c].lastId # 0 /\ r.lastId = clients[c].lastId
               /\ r.got = clients[c].got /\ r.want = clients[c].want
               /\ r.owed = clients[c].owed
<1> DEFINE cl == clients[c]
<1>1. CASE r = Away
  BY <1>1, AwayTyped DEF Away
<1>2. CASE /\ r = [cl EXCEPT !.at = Nowhere, !.subs = NoSubs, !.since = 0]
           /\ c \in Sse /\ cl.lastId # 0
  <2>1. cl \in ClientState
    BY DEF TypeOK
  <2>2. Nowhere \in Worker \cup {Nowhere} /\ 0 \in 0 .. MaxSeq
    BY RealtimeAssumption
  <2> HIDE DEF cl
  <2>3. r \in ClientState
    BY <1>2, <2>1, <2>2, AwayTyped, Zenon DEF ClientState
  <2>4. /\ r.at = Nowhere /\ r.subs = NoSubs /\ r.since = 0 /\ r.lastId = cl.lastId
        /\ r.got = cl.got /\ r.want = cl.want /\ r.owed = cl.owed
    BY <1>2, <2>1 DEF ClientState
  <2> QED
    BY <1>2, <2>3, <2>4 DEF cl
<1> QED
  BY <1>1, <1>2 DEF Dropped

(* A stream's topics, set anew, before anything is replayed. *)
Resumed(c, cl, subs) == [Subscribed(c, cl, subs) EXCEPT !.since = 0]

LEMMA ResumedIs ==
  ASSUME NEW c \in Client, NEW cl \in ClientState, NEW subs \in [Topic -> Mode], NEW r,
         r = Resumed(c, cl, subs)
  PROVE  /\ r \in ClientState
         /\ r.at = cl.at /\ r.since = 0 /\ r.lastId = cl.lastId /\ r.got = cl.got
         /\ r.subs = subs /\ r.want = subs /\ r.owed = Matching(c, subs, cl.owed)
<1>1. PICK q : q = Subscribed(c, cl, subs)
  OBVIOUS
<1>2. /\ q \in ClientState
      /\ q.at = cl.at /\ q.lastId = cl.lastId /\ q.got = cl.got
      /\ q.subs = subs /\ q.want = subs /\ q.owed = Matching(c, subs, cl.owed)
  BY <1>1, SubscribedIs
<1>3. r = [q EXCEPT !.since = 0] /\ 0 \in 0 .. MaxSeq
  BY <1>1, RealtimeAssumption DEF Resumed
<1>4. r \in ClientState
  BY <1>2, <1>3, Zenon DEF ClientState
<1> QED
  BY <1>2, <1>3, <1>4 DEF ClientState

LEMMA PutTyped ==
  ASSUME NEW subs \in [Topic -> Mode], NEW T, NEW m \in Mode
  PROVE  Put(subs, T, m) \in [Topic -> Mode]
BY DEF Put

LEMMA MatchingIn == \A c, subs, S : Matching(c, subs, S) \subseteq S
BY DEF Matching

LEMMA TypeStep == TypeOK /\ [Next]_vars => TypeOK'
<1> SUFFICES ASSUME TypeOK, [Next]_vars
             PROVE  TypeOK'
  OBVIOUS
<1> USE DEF TypeOK
<1>1. ASSUME NEW w \in Worker, NEW k \in Kind, Broadcast(w, k)
      PROVE  TypeOK'
  <2> DEFINE s == Len(log) + 1
  <2>1. s \in Seqs /\ log' = Append(log, [kind |-> k, origin |-> w, kept |-> TRUE])
    BY <1>1 DEF Broadcast
  <2>2. log' \in Seq([kind : Kind, origin : Worker, kept : BOOLEAN]) /\ Len(log') <= MaxSeq
    BY <2>1, RealtimeAssumption DEF Seqs
  <2>3. ASSUME NEW c \in Client
        PROVE  clients'[c] \in ClientState
    <3>1. clients[c] \in ClientState
      OBVIOUS
    <3>2. PICK r : r = clients'[c]
      OBVIOUS
    <3>3. CASE r = Received(c, clients[c], {s})
      BY <2>1, <3>1, <3>2, <3>3, ReceivedIs
    <3>4. CASE r = [clients[c] EXCEPT !.owed = @ \cup {s}]
      <4>1. clients[c].owed \cup {s} \in SUBSET Seqs
        BY <2>1, <3>1 DEF ClientState
      <4> QED
        BY <3>1, <3>2, <3>4, <4>1 DEF ClientState
    <3> QED
      BY <1>1, <3>1, <3>2, <3>3, <3>4 DEF Broadcast
  <2>4. clients' \in [Client -> ClientState]
    BY <1>1, <2>3 DEF Broadcast
  <2> QED
    BY <1>1, <2>2, <2>4 DEF Broadcast
<1>2. ASSUME NEW w \in Worker, PollTail(w)
      PROVE  TypeOK'
  <2>1. PICK page : page = Page(Unread(w), TailPage)
    OBVIOUS
  <2>2. Unread(w) \in SUBSET Seqs
    BY EventsAre DEF Unread
  <2>3. page \in SUBSET Seqs /\ page # {}
    BY <1>2, <2>1, <2>2, PageIs, RealtimeAssumption DEF PollTail
  <2>4. Max(page) \in 0 .. MaxSeq
    <3>1. page \in SUBSET (0 .. MaxSeq)
      BY <2>3 DEF Seqs
    <3> QED
      BY <2>3, <3>1, MaxExists, RealtimeAssumption
  <2>5. workers' \in [Worker -> [up : BOOLEAN, lastSeq : 0 .. MaxSeq]]
    BY <1>2, <2>1, <2>4 DEF PollTail, CursorAfter
  <2>6. ASSUME NEW c \in Client
        PROVE  clients'[c] \in ClientState
    <3>1. PICK S : S = Matching(c, clients[c].subs, page)
      OBVIOUS
    <3>2. S \in SUBSET Seqs
      BY <2>3, <3>1, MatchingIn
    <3>3. PICK r : r = clients'[c]
      OBVIOUS
    <3>4. clients[c] \in ClientState
      OBVIOUS
    <3>5. r = Received(c, clients[c], S) \/ r = clients[c]
      BY <1>2, <2>1, <3>1, <3>3 DEF PollTail
    <3> QED
      BY <3>2, <3>3, <3>4, <3>5, ReceivedIs
  <2>7. clients' \in [Client -> ClientState]
    BY <1>2, <2>6 DEF PollTail
  <2> QED
    BY <1>2, <2>5, <2>7 DEF PollTail
<1>3. ASSUME NEW c \in Client, Connection(c)
      PROVE  TypeOK'
  <2>1. PICK cl : cl = clients[c]
    OBVIOUS
  <2>2. cl \in ClientState
    BY <2>1
  <2>3. ASSUME NEW r \in ClientState, clients' = [clients EXCEPT ![c] = r],
               UNCHANGED <<log, workers, crashes>>
        PROVE  TypeOK'
    BY <2>3
  <2>4. ASSUME NEW w \in Worker, Connect(c, w)
        PROVE  TypeOK'
    <3>1. PICK r : r = [cl EXCEPT !.at = w, !.since = cl.lastId]
      OBVIOUS
    <3>2. r \in ClientState
      BY <2>2, <3>1 DEF ClientState
    <3> QED
      BY <2>1, <2>3, <2>4, <3>1, <3>2 DEF Connect
  <2>5. ASSUME Disconnect(c)
        PROVE  TypeOK'
    <3>1. PICK r : r = Dropped(c)
      OBVIOUS
    <3> QED
      BY <2>3, <2>5, <3>1, DroppedIs DEF Disconnect
  <2>6. ASSUME NEW T \in SUBSET Topic, NEW m \in Mode, WsSubscribe(c, T, m)
        PROVE  TypeOK'
    <3>1. PICK subs : subs = Put(cl.subs, T, m)
      OBVIOUS
    <3>2. subs \in [Topic -> Mode]
      BY <2>2, <3>1, PutTyped DEF ClientState
    <3>3. PICK r : r = Subscribed(c, cl, subs)
      OBVIOUS
    <3>4. r \in ClientState
      BY <2>2, <3>2, <3>3, SubscribedIs
    <3> QED
      BY <2>1, <2>3, <2>6, <3>1, <3>3, <3>4 DEF WsSubscribe
  <2>7. ASSUME NEW T \in SUBSET Topic, NEW m \in {"all", "filtered"}, SetTopics(c, T, m)
        PROVE  TypeOK'
    <3>1. PICK subs : subs = Put(NoSubs, T, m)
      OBVIOUS
    <3>2. subs \in [Topic -> Mode]
      BY <3>1, PutTyped, AwayTyped DEF Mode
    <3>3. PICK q : q = Resumed(c, cl, subs)
      OBVIOUS
    <3>4. q \in ClientState
      BY <2>2, <3>2, <3>3, ResumedIs
    <3>5. PICK replay : replay = IF cl.since = 0 THEN {}
                                 ELSE Page(Window(cl.since, maxEventSeq), ReplayPage)
      OBVIOUS
    <3>6. Window(cl.since, maxEventSeq) \in SUBSET Seqs
      BY EventsAre DEF Window
    <3>7. replay \in SUBSET Seqs
      BY <3>5, <3>6, PageIs, RealtimeAssumption
    <3>8. PICK S : S = Matching(c, subs, replay)
      OBVIOUS
    <3>9. S \in SUBSET Seqs
      BY <3>7, <3>8, MatchingIn
    <3>10. PICK r : r = Received(c, q, S)
      OBVIOUS
    <3>11. r \in ClientState
      BY <3>4, <3>9, <3>10, ReceivedIs
    <3>12. clients' = [clients EXCEPT ![c] = r]
      BY <2>1, <2>7, <3>1, <3>3, <3>5, <3>8, <3>10 DEF SetTopics, Resumed
    <3> QED
      BY <2>3, <2>7, <3>11, <3>12 DEF SetTopics
  <2> QED
    BY <1>3, <2>4, <2>5, <2>6, <2>7 DEF Connection
<1>4. ASSUME NEW w \in Worker, Crash(w)
      PROVE  TypeOK'
  <2>1. ASSUME NEW c \in Client
        PROVE  clients'[c] \in ClientState
    <3>1. PICK r : r = Dropped(c)
      OBVIOUS
    <3> QED
      BY <1>4, <3>1, DroppedIs DEF Crash
  <2>2. clients' \in [Client -> ClientState]
    BY <1>4, <2>1 DEF Crash
  <2>3. workers' \in [Worker -> [up : BOOLEAN, lastSeq : 0 .. MaxSeq]]
    BY <1>4 DEF Crash
  <2> QED
    BY <1>4, <2>2, <2>3, RealtimeAssumption DEF Crash
<1>5. ASSUME NEW w \in Worker, Boot(w)
      PROVE  TypeOK'
  <2>1. maxEventSeq \in 0 .. MaxSeq
    BY EventsAre, RealtimeAssumption
  <2> QED
    BY <1>5, <2>1 DEF Boot
<1>6. ASSUME NEW n \in DOMAIN log, Prune(n)
      PROVE  TypeOK'
  <2>1. log' \in [DOMAIN log -> [kind : Kind, origin : Worker, kept : BOOLEAN]]
    <3>1. ASSUME NEW s \in DOMAIN log
          PROVE  [log[s] EXCEPT !.kept = @ /\ s > n]
                   \in [kind : Kind, origin : Worker, kept : BOOLEAN]
      <4>1. log[s] \in [kind : Kind, origin : Worker, kept : BOOLEAN]
        BY SeqOver
      <4>2. \A b : (b /\ s > n) \in BOOLEAN
        OBVIOUS
      <4> QED
        BY <4>1, <4>2, Zenon
    <3> QED
      BY <1>6, <3>1 DEF Prune
  <2>2. log' \in Seq([kind : Kind, origin : Worker, kept : BOOLEAN]) /\ Len(log') = Len(log)
    BY <2>1, SeqOver
  <2> QED
    BY <1>6, <2>2 DEF Prune
<1>7. CASE UNCHANGED vars
  BY <1>7 DEF vars
<1> QED
  BY <1>1, <1>2, <1>3, <1>4, <1>5, <1>6, <1>7 DEF Next

(* Every reachable state is well typed; no cursor is that of an empty set. *)
THEOREM RealtimeTyped == Spec => []TypeOK
<1>1. Init => TypeOK
  BY AwayTyped, RealtimeAssumption DEF Init, TypeOK
<1> QED
  BY <1>1, TypeStep, PTL DEF Spec
-----------------------------------------------------------------------------
(* The invariant holds *)

LEMMA NothingMatchesNone == \A c, k : ~ Matches(c, NoSubs, k)
  BY RealtimeAssumption DEF Matches, NoSubs

LEMMA AwaySound ==
  ASSUME NEW c
  PROVE  Agreed(c, Away) /\ Behind(c, Away)' /\ Ahead(c, Away)'
BY DEF Agreed, Behind, Ahead, Away

(* A client that a step does not touch stays sound when the log keeps what *)
(* it is owed and its worker's tail stands still.                          *)
LEMMA Untouched ==
  ASSUME TypeOK, TypeOK', NEW c \in Client, NEW cl \in ClientState, Behind(c, cl), Ahead(c, cl),
         Len(log) <= Len(log'),
         \A s \in DOMAIN log : log'[s].kind = log[s].kind /\ log'[s].origin = log[s].origin,
         \A s \in cl.owed : s \in Kept',
         cl.at # Nowhere => workers'[cl.at].lastSeq = workers[cl.at].lastSeq
  PROVE  Behind(c, cl)' /\ Ahead(c, cl)'
<1>1. /\ DOMAIN log = 1 .. Len(log) /\ Len(log) \in Nat /\ Len(log') \in Nat
      /\ Kept \subseteq DOMAIN log
  BY EventsAre DEF TypeOK
<1>2. \A s \in Seqs : s \in Int /\ s >= 1
  BY RealtimeAssumption DEF Seqs
<1>3. Behind(c, cl)'
  <2>1. cl.lastId \in Int
    BY RealtimeAssumption DEF ClientState
  <2>2. cl.lastId <= Len(log')
    BY <1>1, <2>1 DEF Behind
  <2>3. ASSUME NEW s \in Seqs, cl.got[s] = 1
        PROVE  s <= Len(log') /\ s \in DOMAIN log
    BY <1>1, <1>2, <2>3 DEF Behind
  <2> QED
    BY <2>2, <2>3 DEF Behind
<1>4. Ahead(c, cl)'
  BY <1>1 DEF Ahead, Unread
<1> QED
  BY <1>3, <1>4

(* A broadcast reaches the worker's own clients, the others' are owed it. *)
LEMMA BroadcastSound ==
  ASSUME NEW all \in BOOLEAN, all => OneWorker,
         TypeOK, TypeOK', Sound(all), NEW w \in Worker, NEW k \in Kind, Broadcast(w, k)
  PROVE  Sound(all)'
<1> DEFINE s == Len(log) + 1
<1>1. /\ DOMAIN log = 1 .. Len(log) /\ Len(log) \in Nat /\ Kept \subseteq DOMAIN log
      /\ s \in Seqs /\ \A x \in Seqs : x \in Int /\ x >= 1
  BY EventsAre, RealtimeAssumption DEF Broadcast, Seqs
<1>2. /\ DOMAIN log' = 1 .. s /\ Len(log') = s
      /\ log'[s] = [kind |-> k, origin |-> w, kept |-> TRUE]
      /\ \A x \in DOMAIN log : log'[x] = log[x]
  BY <1>1 DEF Broadcast, TypeOK
<1>3. Kept \subseteq Kept' /\ s \in Kept'
  BY <1>1, <1>2 DEF Kept
<1>4. Placed'
  <2>1. ASSUME NEW c \in Client
        PROVE  clients'[c].at = clients[c].at
    <3>1. clients[c] \in ClientState
      BY DEF TypeOK
    <3>2. PICK r : r = Received(c, clients[c], {s})
      OBVIOUS
    <3>3. r.at = clients[c].at
      BY <1>1, <3>1, <3>2, ReceivedIs
    <3>4. [clients[c] EXCEPT !.owed = @ \cup {s}].at = clients[c].at
      BY <3>1 DEF ClientState
    <3> QED
      BY <3>2, <3>3, <3>4 DEF Broadcast
  <2>2. \A v \in Worker : workers[v].lastSeq \in Int
    BY RealtimeAssumption DEF TypeOK
  <2>3. \A v \in Worker : workers'[v].lastSeq <= Len(log')
    BY <1>1, <1>2, <2>2 DEF Broadcast, Sound, Placed
  <2>4. \A c \in Client : clients'[c].at # Nowhere => workers'[clients'[c].at].up
    BY <2>1 DEF Broadcast, Sound, Placed
  <2> QED
    BY <2>3, <2>4 DEF Placed
<1>5. ASSUME NEW c \in Client, c \notin Sse \/ all
      PROVE  (Agreed(c, clients[c]) /\ Behind(c, clients[c]) /\ Ahead(c, clients[c]))'
  <2>1. PICK cl : cl = clients[c]
    OBVIOUS
  <2>2. PICK r : r = clients'[c]
    OBVIOUS
  <2> SUFFICES Agreed(c, r) /\ Behind(c, r)' /\ Ahead(c, r)'
    BY <2>2 DEF Agreed, Behind, Ahead
  <2>3. cl \in ClientState /\ Agreed(c, cl) /\ Behind(c, cl) /\ Ahead(c, cl)
    BY <1>5, <2>1 DEF TypeOK, Sound
  <2>4. cl.owed \in SUBSET Seqs /\ cl.lastId \in Int /\ cl.at \in Worker \cup {Nowhere}
    BY <2>3, RealtimeAssumption DEF ClientState
  <2>5. Behind(c, cl)' /\ Ahead(c, cl)'
    <3>1. \A x \in cl.owed : x \in Kept'
      BY <1>3, <2>3 DEF Ahead
    <3> QED
      BY <1>1, <1>2, <2>3, <3>1, Untouched DEF Broadcast
  <2>6. s \notin cl.owed /\ cl.got[s] = 0
    <3>1. s \notin cl.owed
      BY <1>1, <2>3 DEF Ahead
    <3>2. cl.got[s] \in 0 .. 2 /\ cl.got[s] <= 1
      BY <1>1, <2>3 DEF Behind, ClientState
    <3> QED
      BY <1>1, <2>3, <3>1, <3>2 DEF Behind
  <2>7. CASE r = Received(c, cl, {s}) /\ cl.at = w /\ Matches(c, cl.subs, k)
    <3>1. /\ r.at = cl.at /\ r.subs = cl.subs /\ r.since = cl.since /\ r.want = cl.want
          /\ r.owed = cl.owed \ {s} /\ r.got[s] = 1
          /\ \A x \in Seqs \ {s} : r.got[x] = cl.got[x]
          /\ r.lastId = IF c \in Sse THEN s ELSE cl.lastId
      BY <1>1, <2>3, <2>6, <2>7, ReceivedIs
    <3>2. cl.since = 0 /\ cl.at # Nowhere /\ cl.subs = cl.want
      BY <2>3, <2>7, NothingMatchesNone, RealtimeAssumption DEF Agreed
    <3>3. Agreed(c, r)
      BY <2>3, <3>1, <3>2 DEF Agreed
    <3>4. Behind(c, r)'
      <4>1. r.lastId <= Len(log')
        BY <1>1, <1>2, <2>3, <2>4, <3>1 DEF Behind
      <4>2. s <= Len(log') /\ log'[s].origin = w
        BY <1>1, <1>2
      <4>3. ASSUME NEW x \in Seqs, x # s, cl.got[x] = 1
            PROVE  x <= s
        BY <1>1, <2>3, <4>3 DEF Behind
      <4>4. ASSUME NEW x \in Seqs
            PROVE  /\ r.got[x] <= 1
                   /\ r.got[x] = 1 =>
                        /\ x <= Len(log')
                        /\ c \in Sse => x <= r.lastId
                        /\ c \notin Sse /\ r.at # Nowhere
                             => x <= workers'[r.at].lastSeq \/ log'[x].origin = r.at
        <5>1. CASE x = s
          BY <1>1, <2>7, <3>1, <4>2, <5>1
        <5>2. CASE x # s
          BY <1>2, <2>5, <3>1, <4>3, <5>2 DEF Behind
        <5> QED
          BY <5>1, <5>2
      <4> QED
        BY <4>1, <4>4 DEF Behind
    <3>5. Ahead(c, r)'
      <4>1. c \in Sse => cl.owed = {}
        <5>1. ASSUME c \in Sse, NEW x \in cl.owed
              PROVE  FALSE
          <6>1. x \in Unread(w) /\ x \in DOMAIN log
            BY <1>1, <2>3, <2>7, <3>2, <5>1 DEF Ahead
          <6>2. log[x].origin \in Worker
            <7>1. log[x] \in [kind : Kind, origin : Worker, kept : BOOLEAN]
              <8>1. log \in Seq([kind : Kind, origin : Worker, kept : BOOLEAN])
                BY DEF TypeOK
              <8> QED
                BY <6>1, <8>1, SeqOver
            <7> QED
              BY <7>1
          <6> QED
            BY <1>5, <5>1, <6>1, <6>2 DEF Unread, OneWorker
        <5> QED
          BY <5>1
      <4> QED
        BY <2>5, <3>1, <3>2, <4>1 DEF Ahead
    <3> QED
      BY <3>3, <3>4, <3>5
  <2>8. CASE r = [cl EXCEPT !.owed = @ \cup {s}] /\ Matches(c, cl.want, k)
             /\ ~ (cl.at = w /\ Matches(c, cl.subs, k))
    <3>1. /\ r.at = cl.at /\ r.subs = cl.subs /\ r.since = cl.since /\ r.want = cl.want
          /\ r.owed = cl.owed \cup {s} /\ r.got = cl.got /\ r.lastId = cl.lastId
      BY <2>3, <2>8 DEF ClientState
    <3>2. ~ (cl.at = Nowhere /\ cl.lastId = 0)
      BY <2>3, <2>8, NothingMatchesNone DEF Agreed, Away
    <3>3. Agreed(c, r)
      BY <2>3, <3>1, <3>2 DEF Agreed
    <3>4. Behind(c, r)'
      BY <2>5, <3>1 DEF Behind
    <3>5. c \in Sse => s > cl.lastId
      BY <1>1, <2>3, <2>4 DEF Behind
    <3>6. ASSUME cl.at # Nowhere, cl.since = 0
          PROVE  s \in Unread(cl.at)'
      <4>1. cl.at # w
        BY <2>3, <2>8, <3>6 DEF Agreed
      <4>2. workers'[cl.at].lastSeq <= Len(log) /\ workers'[cl.at].lastSeq \in Int
        BY <2>4, <3>6, RealtimeAssumption DEF Sound, Placed, Broadcast, TypeOK
      <4> QED
        BY <1>1, <1>2, <1>3, <4>1, <4>2 DEF Unread
    <3>7. Ahead(c, r)'
      BY <1>2, <1>3, <2>5, <2>8, <3>1, <3>5, <3>6 DEF Ahead
    <3> QED
      BY <3>3, <3>4, <3>7
  <2>9. CASE r = cl
    BY <2>3, <2>5, <2>9
  <2> QED
    BY <2>1, <2>2, <2>7, <2>8, <2>9 DEF Broadcast
<1> QED
  BY <1>4, <1>5 DEF Sound
(* A page is the next of what the tail has not read, and passes nothing.   *)
LEMMA PollTailSound ==
  ASSUME NEW all \in BOOLEAN, all => OneWorker,
         TypeOK, TypeOK', Sound(all), NEW w \in Worker, PollTail(w)
  PROVE  Sound(all)'
<1>1. PICK page : page = Page(Unread(w), TailPage)
  OBVIOUS
<1>2. /\ Kept \subseteq DOMAIN log /\ Kept' = Kept
      /\ Unread(w) \subseteq Kept /\ Unread(w) \in SUBSET Seqs
      /\ DOMAIN log = 1 .. Len(log) /\ Len(log) \in Nat /\ \A x \in Seqs : x \in Int
  BY EventsAre, RealtimeAssumption DEF Unread, PollTail, Kept, Seqs
<1>3. /\ page \in SUBSET Seqs /\ page # {} /\ page \subseteq Unread(w)
      /\ \A s \in page, x \in Unread(w) : x <= s => x \in page
  BY <1>1, <1>2, PageIs, RealtimeAssumption DEF PollTail
<1>4. Max(page) \in page /\ \A s \in page : s <= Max(page)
  <2>1. page \in SUBSET (0 .. MaxSeq)
    BY <1>3 DEF Seqs
  <2> QED
    BY <1>3, <2>1, MaxExists, RealtimeAssumption
<1>5. workers' = [workers EXCEPT ![w].lastSeq = Max(page)]
  BY <1>1 DEF PollTail, CursorAfter
<1>6. ASSUME NEW c \in Client
      PROVE  clients'[c].at = clients[c].at
  <2>1. PICK S : S = Matching(c, clients[c].subs, page)
    OBVIOUS
  <2>2. S \in SUBSET Seqs
    BY <1>3, <2>1, MatchingIn
  <2>3. PICK r : r = Received(c, clients[c], S)
    OBVIOUS
  <2>4. clients[c] \in ClientState
    BY DEF TypeOK
  <2>5. r.at = clients[c].at
    BY <2>2, <2>3, <2>4, ReceivedIs
  <2> QED
    BY <1>1, <2>1, <2>3, <2>5 DEF PollTail
<1>7. Placed'
  <2>1. Max(page) \in 1 .. Len(log)
    BY <1>2, <1>3, <1>4
  <2>2. \A v \in Worker : workers'[v].lastSeq <= Len(log') /\ workers'[v].up = workers[v].up
    BY <1>5, <2>1 DEF Sound, Placed, TypeOK, PollTail
  <2>3. \A c \in Client : clients[c].at \in Worker \cup {Nowhere}
    BY DEF TypeOK, ClientState
  <2> QED
    BY <1>6, <2>2, <2>3 DEF Sound, Placed
<1>8. ASSUME NEW c \in Client, c \notin Sse \/ all
      PROVE  (Agreed(c, clients[c]) /\ Behind(c, clients[c]) /\ Ahead(c, clients[c]))'
  <2>1. PICK cl : cl = clients[c]
    OBVIOUS
  <2>2. PICK r : r = clients'[c]
    OBVIOUS
  <2> SUFFICES Agreed(c, r) /\ Behind(c, r)' /\ Ahead(c, r)'
    BY <2>2 DEF Agreed, Behind, Ahead
  <2>3. cl \in ClientState /\ Agreed(c, cl) /\ Behind(c, cl) /\ Ahead(c, cl)
    BY <1>8, <2>1 DEF TypeOK, Sound
  <2>4. CASE cl.at # w
    <3>1. r = cl
      BY <2>1, <2>2, <2>4 DEF PollTail
    <3>2. cl.at # Nowhere => workers'[cl.at].lastSeq = workers[cl.at].lastSeq
      BY <1>5, <2>3, <2>4 DEF TypeOK, ClientState
    <3>3. \A s \in cl.owed : s \in Kept'
      BY <1>2, <2>3 DEF Ahead
    <3> QED
      BY <1>2, <2>3, <3>1, <3>2, <3>3, Untouched DEF PollTail
  <2>5. CASE cl.at = w
    <3>1. PICK s \in page : s = Max(page)
      BY <1>4
    <3>2. s \in Unread(w) /\ log[s].origin \in Worker
      <4>1. s \in Unread(w) /\ s \in DOMAIN log
        BY <1>2, <1>3, <3>1
      <4>2. log[s] \in [kind : Kind, origin : Worker, kept : BOOLEAN]
        BY <4>1, SeqOver DEF TypeOK
      <4> QED
        BY <4>1, <4>2
    <3>3. c \notin Sse
      BY <1>8, <3>2 DEF Unread, OneWorker
    <3>4. PICK S : S = Matching(c, cl.subs, page)
      OBVIOUS
    <3>5. S \in SUBSET Seqs /\ S \subseteq page
      BY <1>3, <3>4, MatchingIn
    <3>6. r = Received(c, cl, S)
      BY <1>1, <2>1, <2>2, <2>5, <3>4 DEF PollTail
    <3>7. /\ r.at = w /\ r.subs = cl.subs /\ r.since = cl.since /\ r.want = cl.want
          /\ r.owed = cl.owed \ S /\ r.lastId = cl.lastId
          /\ \A x \in Seqs : r.got[x] = IF x \in S /\ cl.got[x] < 2 THEN cl.got[x] + 1
                                      ELSE cl.got[x]
      BY <2>3, <2>5, <3>3, <3>5, <3>6, ReceivedIs
    <3>8. Agreed(c, r)
      BY <2>3, <2>5, <3>3, <3>7, RealtimeAssumption DEF Agreed
    <3>9. /\ w # Nowhere /\ cl.since = 0 /\ cl.subs = cl.want
      BY <2>3, <2>5, <3>3, RealtimeAssumption DEF Agreed
    <3>10. /\ workers'[w].lastSeq = s /\ workers[w].lastSeq \in Int /\ workers[w].lastSeq < s
           /\ \A x \in page : x <= s
      BY <1>4, <1>5, <3>1, <3>2, RealtimeAssumption DEF TypeOK, Unread
    <3>11. Behind(c, r)'
      <4>1. ASSUME NEW x \in S
            PROVE  cl.got[x] # 1 /\ x <= Len(log) /\ x <= s
        <5>1. x \in Unread(w) /\ x \in Seqs /\ x \in DOMAIN log
          BY <1>2, <1>3, <3>5
        <5> QED
          BY <1>2, <2>3, <2>5, <3>3, <3>5, <3>9, <3>10, <5>1 DEF Behind, Unread
      <4>2. ASSUME NEW x \in Seqs
            PROVE  /\ r.got[x] <= 1
                   /\ r.got[x] = 1 => x <= Len(log) /\ (x <= s \/ log[x].origin = w)
        <5>1. cl.got[x] \in 0 .. 2 /\ cl.got[x] <= 1
          BY <2>3 DEF Behind, ClientState
        <5>2. CASE x \in S
          BY <3>7, <4>1, <5>1, <5>2
        <5>3. CASE x \notin S
          <6>1. r.got[x] = cl.got[x]
            BY <3>7, <5>3
          <6>2. cl.got[x] = 1 => x <= Len(log) /\ (x <= workers[w].lastSeq \/ log[x].origin = w)
            BY <2>3, <2>5, <3>3, <3>9 DEF Behind
          <6>3. x \in Int /\ s \in Int
            BY <1>2, <1>3, <3>1
          <6> QED
            BY <3>10, <5>1, <6>1, <6>2, <6>3
        <5> QED
          BY <5>2, <5>3
      <4> QED
        BY <2>3, <3>3, <3>7, <3>9, <3>10, <4>2 DEF Behind, PollTail
    <3>12. Ahead(c, r)'
      <4>1. ASSUME NEW x \in r.owed
            PROVE  x \in Kept /\ Matches(c, cl.want, log[x].kind) /\ x \in Unread(w)'
        <5>1. x \in Unread(w) /\ Matches(c, cl.want, log[x].kind) /\ x \in Kept /\ x \notin S
          BY <2>3, <2>5, <3>7, <3>9 DEF Ahead
        <5>2. x \notin page
          BY <3>4, <3>9, <5>1 DEF Matching
        <5>3. x > s
          BY <1>2, <1>3, <3>1, <5>1, <5>2
        <5> QED
          BY <1>2, <3>10, <5>1, <5>3 DEF Unread, PollTail
      <4> QED
        BY <1>2, <3>3, <3>7, <4>1 DEF Ahead, PollTail
    <3> QED
      BY <3>8, <3>11, <3>12
  <2> QED
    BY <2>4, <2>5
<1> QED
  BY <1>7, <1>8 DEF Sound

(* Nothing else of the cluster moves when one client does. *)
LEMMA OneMoves ==
  ASSUME NEW all \in BOOLEAN, all => OneWorker,
         TypeOK, TypeOK', Sound(all), NEW d \in Client, NEW r \in ClientState,
         clients' = [clients EXCEPT ![d] = r], UNCHANGED <<log, workers>>,
         r.at # Nowhere => workers[r.at].up,
         d \notin Sse \/ all => Agreed(d, r) /\ Behind(d, r) /\ Ahead(d, r)
  PROVE  Sound(all)'
<1>1. Placed'
  BY DEF Sound, Placed, TypeOK
<1>2. ASSUME NEW c \in Client, c \notin Sse \/ all
      PROVE  (Agreed(c, clients[c]) /\ Behind(c, clients[c]) /\ Ahead(c, clients[c]))'
  <2>1. CASE c = d
    BY <1>2, <2>1 DEF TypeOK, Agreed, Behind, Ahead, Kept, Unread
  <2>2. CASE c # d
    BY <1>2, <2>2 DEF TypeOK, Sound, Agreed, Behind, Ahead, Kept, Unread
  <2> QED
    BY <2>1, <2>2
<1> QED
  BY <1>1, <1>2 DEF Sound
(* A client after its connection is gone: nothing is left of it, or a      *)
(* stream that will resume after what it has received.                     *)
LEMMA DroppedSound ==
  ASSUME TypeOK, NEW c \in Client, NEW r, r = Dropped(c),
         Agreed(c, clients[c]), Behind(c, clients[c]), Ahead(c, clients[c])
  PROVE  r \in ClientState /\ r.at = Nowhere /\ Agreed(c, r) /\ Behind(c, r) /\ Ahead(c, r)
<1>1. /\ r \in ClientState
      /\ r.at = Nowhere /\ r.subs = NoSubs /\ r.since = 0
      /\ \/ r = Away
         \/ /\ c \in Sse /\ clients[c].lastId # 0 /\ r.lastId = clients[c].lastId
            /\ r.got = clients[c].got /\ r.want = clients[c].want
            /\ r.owed = clients[c].owed
  BY DroppedIs
<1>2. CASE r = Away
  BY <1>1, <1>2, EventsAre DEF Agreed, Behind, Ahead, Away
<1>3. CASE r # Away
  BY <1>1, <1>3 DEF Agreed, Behind, Ahead
<1> QED
  BY <1>1, <1>2, <1>3

(* A stream's topics, with the events it missed. *)
LEMMA SetTopicsSound ==
  ASSUME NEW all \in BOOLEAN, all => OneWorker,
         TypeOK, TypeOK', Sound(all), all => ResumesWithinPage,
         NEW c \in Client, NEW T \in SUBSET Topic,
         NEW m \in {"all", "filtered"}, SetTopics(c, T, m)
  PROVE  Sound(all)'
<1>1. PICK cl : cl = clients[c]
  OBVIOUS
<1>2. cl \in ClientState /\ c \in Sse /\ cl.at # Nowhere
  BY <1>1 DEF TypeOK, SetTopics
<1>3. PICK subs : subs = Put(NoSubs, T, m)
  OBVIOUS
<1>4. subs \in [Topic -> Mode] /\ (cl.since # 0 => subs = cl.want)
  BY <1>1, <1>3, PutTyped, AwayTyped DEF Mode, SetTopics
<1>5. PICK q : q = Resumed(c, cl, subs)
  OBVIOUS
<1>6. /\ q \in ClientState
      /\ q.at = cl.at /\ q.since = 0 /\ q.lastId = cl.lastId /\ q.got = cl.got
      /\ q.subs = subs /\ q.want = subs /\ q.owed = Matching(c, subs, cl.owed)
  <2>1. cl \in ClientState /\ subs \in [Topic -> Mode]
    BY <1>2, <1>4
  <2> QED
    BY <1>5, <2>1, ResumedIs
<1>7. PICK replay : replay = IF cl.since = 0 THEN {}
                             ELSE Page(Window(cl.since, maxEventSeq), ReplayPage)
  OBVIOUS
<1>8. PICK S : S = Matching(c, subs, replay)
  OBVIOUS
<1>9. PICK r : r = Received(c, q, S)
  OBVIOUS
<1>10. clients' = [clients EXCEPT ![c] = r] /\ UNCHANGED <<log, workers>>
  BY <1>1, <1>3, <1>5, <1>7, <1>8, <1>9 DEF SetTopics, Resumed
<1>11. /\ Kept \subseteq DOMAIN log /\ DOMAIN log = 1 .. Len(log) /\ Kept \subseteq Seqs
       /\ \A s \in Kept : s <= maxEventSeq /\ s \in Int /\ s <= Len(log)
       /\ \A s \in Seqs : s \in Int
  BY EventsAre, RealtimeAssumption DEF Seqs
<1>12. /\ replay \subseteq IF cl.since = 0 THEN {} ELSE Window(cl.since, maxEventSeq)
       /\ all /\ cl.since # 0 => replay = Window(cl.since, maxEventSeq)
  <2>1. Window(cl.since, maxEventSeq) \in SUBSET Seqs
    BY <1>11 DEF Window
  <2> QED
    BY <1>1, <1>2, <1>7, <2>1, PageIs, RealtimeAssumption DEF ResumesWithinPage
<1>13. S \subseteq replay /\ S \subseteq Kept /\ S \in SUBSET Seqs
  BY <1>8, <1>11, <1>12, MatchingIn DEF Window
<1>14. /\ r \in ClientState
       /\ r.at = cl.at /\ r.subs = subs /\ r.since = 0 /\ r.want = subs
       /\ r.owed = Matching(c, subs, cl.owed) \ S
       /\ \A s \in Seqs : r.got[s] = IF s \in S /\ cl.got[s] < 2 THEN cl.got[s] + 1 ELSE cl.got[s]
       /\ S # {} => r.lastId \in S /\ \A s \in S : s <= r.lastId
       /\ S = {} => r.lastId = cl.lastId
  BY <1>2, <1>6, <1>9, <1>13, ReceivedIs
<1>15. ASSUME all
       PROVE  Agreed(c, r) /\ Behind(c, r) /\ Ahead(c, r)
  <2>1. Agreed(c, cl) /\ Behind(c, cl) /\ Ahead(c, cl)
    BY <1>1, <1>15 DEF Sound
  <2>2. Agreed(c, r)
    BY <1>2, <1>14 DEF Agreed
  <2>3. cl.lastId \in Int /\ cl.since \in Int /\ cl.lastId <= Len(log)
    BY <1>2, <2>1, RealtimeAssumption DEF ClientState, Behind
  <2>4. \A s \in S : s > cl.lastId
    BY <1>12, <1>13, <2>1 DEF Agreed, Window
  <2>5. \A s \in S : r.lastId >= s /\ s \in Int /\ s <= Len(log)
    BY <1>11, <1>13, <1>14
  <2>6. r.lastId \in Int /\ r.lastId >= cl.lastId /\ r.lastId <= Len(log)
    <3>1. CASE S = {}
      BY <1>14, <2>3, <3>1
    <3>2. CASE S # {}
      BY <1>14, <2>3, <2>4, <2>5, <3>2
    <3> QED
      BY <3>1, <3>2
  <2>7. Behind(c, r)
    <3>1. ASSUME NEW s \in Seqs
          PROVE  r.got[s] <= 1 /\ (r.got[s] = 1 => s <= Len(log) /\ s <= r.lastId)
      <4>1. cl.got[s] \in 0 .. 2 /\ cl.got[s] <= 1
        BY <1>2, <2>1 DEF Behind, ClientState
      <4>2. cl.got[s] = 1 => s <= cl.lastId /\ s <= Len(log)
        BY <1>2, <2>1 DEF Behind
      <4>3. s \in Int
        BY <1>11
      <4>4. CASE s \in S
        BY <1>14, <2>3, <2>4, <2>5, <4>1, <4>2, <4>3, <4>4
      <4>5. CASE s \notin S
        BY <1>14, <2>3, <2>6, <4>1, <4>2, <4>3, <4>5
      <4> QED
        BY <4>4, <4>5
    <3> QED
      BY <1>2, <2>6, <3>1 DEF Behind
  <2>8. Ahead(c, r)
    <3>1. ASSUME cl.since = 0, NEW s \in r.owed
          PROVE  FALSE
      <4>1. s \in cl.owed
        BY <1>14 DEF Matching
      <4>2. s \in Unread(cl.at) /\ s \in DOMAIN log
        BY <1>2, <1>11, <2>1, <3>1, <4>1 DEF Ahead
      <4>3. log[s] \in [kind : Kind, origin : Worker, kept : BOOLEAN]
        BY <4>2, SeqOver DEF TypeOK
      <4>4. cl.at \in Worker
        BY <1>2 DEF ClientState
      <4> QED
        BY <1>15, <4>2, <4>3, <4>4 DEF Unread, OneWorker
    <3>2. ASSUME cl.since # 0, NEW s \in r.owed
          PROVE  FALSE
      <4>1. s \in cl.owed /\ Matches(c, subs, log[s].kind) /\ s \notin S
        BY <1>14 DEF Matching
      <4>2. s \in Kept /\ s > cl.since /\ s <= maxEventSeq
        BY <1>2, <1>11, <2>1, <3>2, <4>1 DEF Ahead, Agreed
      <4> QED
        BY <1>8, <1>12, <1>15, <3>2, <4>1, <4>2 DEF Window, Matching
    <3> QED
      BY <3>1, <3>2 DEF Ahead
  <2> QED
    BY <2>2, <2>7, <2>8
<1>16. r.at # Nowhere => workers[r.at].up
  BY <1>1, <1>14 DEF Sound, Placed
<1> QED
  BY <1>2, <1>10, <1>14, <1>15, <1>16, OneMoves

LEMMA ConnectionSound ==
  ASSUME NEW all \in BOOLEAN, all => OneWorker,
         TypeOK, TypeOK', Sound(all), all => ResumesWithinPage, NEW c \in Client, Connection(c)
  PROVE  Sound(all)'
<1>1. PICK cl : cl = clients[c]
  OBVIOUS
<1>2. cl \in ClientState
  BY <1>1 DEF TypeOK
<1>3. c \notin Sse \/ all => Agreed(c, cl) /\ Behind(c, cl) /\ Ahead(c, cl)
  BY <1>1 DEF Sound
<1>4. ASSUME NEW w \in Worker, Connect(c, w)
      PROVE  Sound(all)'
  <2>1. PICK r : r = [cl EXCEPT !.at = w, !.since = cl.lastId]
    OBVIOUS
  <2>2. /\ r \in ClientState
        /\ r.at = w /\ r.since = cl.lastId /\ r.lastId = cl.lastId /\ r.subs = cl.subs
        /\ r.want = cl.want /\ r.got = cl.got /\ r.owed = cl.owed
    BY <1>2, <2>1 DEF ClientState
  <2>3. cl.at = Nowhere /\ workers[w].up /\ w # Nowhere
    BY <1>1, <1>4, RealtimeAssumption DEF Connect
  <2>4. ASSUME c \notin Sse \/ all
        PROVE  Agreed(c, r) /\ Behind(c, r) /\ Ahead(c, r)
    <3>1. Agreed(c, cl) /\ Behind(c, cl) /\ Ahead(c, cl)
      BY <1>3, <2>4
    <3>2. cl.lastId = 0 => cl = Away
      BY <2>3, <3>1 DEF Agreed
    <3>3. Agreed(c, r)
      BY <2>2, <2>3, <3>1, <3>2 DEF Agreed, Away
    <3>4. Behind(c, r)
      <4>1. c \notin Sse => \A s \in Seqs : r.got[s] = 0
        BY <2>2, <3>1, <3>2 DEF Agreed, Away
      <4> QED
        BY <2>2, <3>1, <4>1 DEF Behind
    <3>5. Ahead(c, r)
      BY <2>2, <3>1, <3>2 DEF Ahead, Away
    <3> QED
      BY <3>3, <3>4, <3>5
  <2>5. clients' = [clients EXCEPT ![c] = r] /\ UNCHANGED <<log, workers>>
    BY <1>1, <1>4, <2>1 DEF Connect
  <2> QED
    BY <2>2, <2>3, <2>4, <2>5, OneMoves
<1>5. ASSUME Disconnect(c)
      PROVE  Sound(all)'
  <2>1. PICK r : r = Dropped(c)
    OBVIOUS
  <2>2. r \in ClientState /\ r.at = Nowhere
    BY <2>1, DroppedIs
  <2>3. c \notin Sse \/ all => Agreed(c, r) /\ Behind(c, r) /\ Ahead(c, r)
    BY <1>1, <1>3, <2>1, DroppedSound
  <2>4. clients' = [clients EXCEPT ![c] = r] /\ UNCHANGED <<log, workers>>
    BY <1>5, <2>1 DEF Disconnect
  <2> QED
    BY <2>2, <2>3, <2>4, OneMoves
<1>6. ASSUME NEW T \in SUBSET Topic, NEW m \in Mode, WsSubscribe(c, T, m)
      PROVE  Sound(all)'
  <2>1. PICK subs : subs = Put(cl.subs, T, m)
    OBVIOUS
  <2>2. subs \in [Topic -> Mode]
    BY <1>2, <2>1, PutTyped DEF ClientState
  <2>3. PICK r : r = Subscribed(c, cl, subs)
    OBVIOUS
  <2>4. /\ r \in ClientState
        /\ r.at = cl.at /\ r.since = cl.since /\ r.lastId = cl.lastId /\ r.got = cl.got
        /\ r.subs = subs /\ r.want = subs /\ r.owed = Matching(c, subs, cl.owed)
    BY <1>2, <2>2, <2>3, SubscribedIs
  <2>5. clients' = [clients EXCEPT ![c] = r] /\ UNCHANGED <<log, workers>>
    BY <1>1, <1>6, <2>1, <2>3 DEF WsSubscribe
  <2>6. c \notin Sse /\ cl.at # Nowhere /\ workers[cl.at].up
    BY <1>1, <1>6 DEF WsSubscribe, Sound, Placed
  <2>7. Agreed(c, r) /\ Behind(c, r) /\ Ahead(c, r)
    <3>1. cl.lastId = 0 /\ cl.since = 0
      BY <1>3, <2>6 DEF Agreed
    <3>2. Agreed(c, r)
      BY <2>4, <2>6, <3>1 DEF Agreed
    <3>3. Behind(c, r)
      BY <1>3, <2>4, <2>6 DEF Behind
    <3>4. Ahead(c, r)
      BY <1>3, <2>4, <2>6, <3>1 DEF Ahead, Matching
    <3> QED
      BY <3>2, <3>3, <3>4
  <2> QED
    BY <2>4, <2>5, <2>6, <2>7, OneMoves
<1>7. ASSUME NEW T \in SUBSET Topic, NEW m \in {"all", "filtered"}, SetTopics(c, T, m)
      PROVE  Sound(all)'
  BY <1>7, SetTopicsSound
<1> QED
  BY <1>4, <1>5, <1>6, <1>7 DEF Connection
(* Crashes take connections along; a tail that starts again starts where   *)
(* the log ends, and nobody is connected to it yet.                        *)
LEMMA WorkerSound ==
  ASSUME NEW all \in BOOLEAN, all => OneWorker,
         TypeOK, TypeOK', Sound(all), NEW w \in Worker, Crash(w) \/ Boot(w)
  PROVE  Sound(all)'
<1>1. /\ UNCHANGED log /\ Kept' = Kept /\ maxEventSeq \in 0 .. Len(log)
      /\ \A v \in Worker \ {w} : workers'[v] = workers[v]
      /\ \A c \in Client : clients[c].at # w => clients'[c] = clients[c]
  BY EventsAre DEF Crash, Boot, TypeOK, Kept
<1>2. \A c \in Client : clients'[c].at # w
  <2>1. CASE Crash(w)
    <3>1. ASSUME NEW c \in Client
          PROVE  Dropped(c).at = Nowhere
      BY DroppedIs
    <3> QED
      BY <2>1, <3>1, RealtimeAssumption DEF Crash
  <2>2. CASE Boot(w)
    BY <2>2, RealtimeAssumption DEF Boot, Sound, Placed
  <2> QED
    BY <2>1, <2>2
<1>3. Placed'
  <2>1. \A v \in Worker : workers'[v].lastSeq <= Len(log')
    <3>1. CASE Crash(w)
      BY <3>1 DEF Crash, Sound, Placed, TypeOK
    <3>2. CASE Boot(w)
      BY <1>1, <3>2 DEF Boot, Sound, Placed, TypeOK
    <3> QED
      BY <3>1, <3>2
  <2>2. \A c \in Client : clients'[c] = clients[c] \/ clients'[c].at = Nowhere
    BY <1>1, DroppedIs DEF Crash, Boot
  <2>3. \A c \in Client : clients[c].at \in Worker \cup {Nowhere}
    BY DEF TypeOK, ClientState
  <2>4. \A c \in Client : clients'[c].at # Nowhere => workers'[clients'[c].at].up
    BY <1>1, <1>2, <2>2, <2>3 DEF Sound, Placed
  <2> QED
    BY <2>1, <2>4 DEF Placed
<1>4. ASSUME NEW c \in Client, c \notin Sse \/ all
      PROVE  (Agreed(c, clients[c]) /\ Behind(c, clients[c]) /\ Ahead(c, clients[c]))'
  <2>1. PICK r : r = clients'[c]
    OBVIOUS
  <2> SUFFICES Agreed(c, r) /\ Behind(c, r)' /\ Ahead(c, r)'
    BY <2>1 DEF Agreed, Behind, Ahead
  <2>2. Agreed(c, clients[c]) /\ Behind(c, clients[c]) /\ Ahead(c, clients[c])
    BY <1>4 DEF Sound
  <2>3. /\ r \in ClientState /\ r.at # w /\ Agreed(c, r) /\ Behind(c, r) /\ Ahead(c, r)
    <3>1. CASE r = clients[c]
      BY <1>2, <2>1, <2>2, <3>1 DEF TypeOK
    <3>2. CASE r = Dropped(c)
      BY <2>2, <3>2, DroppedSound, RealtimeAssumption
    <3> QED
      BY <1>1, <2>1, <3>1, <3>2 DEF Crash, Boot
  <2>4. r.at # Nowhere => workers'[r.at] = workers[r.at]
    BY <1>1, <2>3 DEF ClientState
  <2>5. \A s \in r.owed : s \in Kept'
    BY <1>1, <2>3 DEF Ahead
  <2>6. Len(log) <= Len(log')
    BY <1>1, EventsAre
  <2>7. Behind(c, r)' /\ Ahead(c, r)'
    BY <1>1, <2>3, <2>4, <2>5, <2>6, Untouched
  <2> QED
    BY <2>3, <2>7
<1> QED
  BY <1>3, <1>4 DEF Sound

(* Pruning deletes what no tail has to read and no client is owed.         *)
LEMMA PruneSound ==
  ASSUME NEW all \in BOOLEAN, all => OneWorker,
         Prompt, TypeOK, TypeOK', Sound(all), NEW n \in DOMAIN log, Prune(n)
  PROVE  Sound(all)'
<1>1. /\ UNCHANGED <<workers, clients>> /\ DOMAIN log' = DOMAIN log /\ Len(log') = Len(log)
      /\ Kept \subseteq DOMAIN log
      /\ \A s \in DOMAIN log : log'[s] = [log[s] EXCEPT !.kept = @ /\ s > n]
  BY EventsAre DEF Prune, TypeOK
<1>2. \A s \in DOMAIN log : /\ log'[s].kind = log[s].kind /\ log'[s].origin = log[s].origin
                          /\ log'[s].kept = (log[s].kept /\ s > n)
  <2>1. \A s \in DOMAIN log : log[s] \in [kind : Kind, origin : Worker, kept : BOOLEAN]
    BY SeqOver DEF TypeOK
  <2> QED
    BY <1>1, <2>1
<1>3. ASSUME NEW c \in Client, NEW s \in clients[c].owed, s \in Kept
      PROVE  s \in Kept'
  BY <1>1, <1>2, <1>3 DEF Kept, Prune
<1>4. Placed'
  BY <1>1 DEF Sound, Placed
<1>5. ASSUME NEW c \in Client, c \notin Sse \/ all
      PROVE  (Agreed(c, clients[c]) /\ Behind(c, clients[c]) /\ Ahead(c, clients[c]))'
  <2>1. PICK cl : cl = clients[c]
    OBVIOUS
  <2>2. cl \in ClientState /\ Agreed(c, cl) /\ Behind(c, cl) /\ Ahead(c, cl)
    BY <1>5, <2>1 DEF Sound, TypeOK
  <2>3. \A s \in cl.owed : s \in Kept'
    BY <1>3, <2>1, <2>2 DEF Ahead
  <2>4. Len(log) <= Len(log')
    BY <1>1, EventsAre
  <2>5. Behind(c, cl)' /\ Ahead(c, cl)'
    BY <1>1, <1>2, <2>2, <2>3, <2>4, Untouched
  <2>6. cl = clients'[c]
    BY <1>1, <2>1
  <2> QED
    BY <2>2, <2>5, <2>6 DEF Agreed, Behind, Ahead
<1> QED
  BY <1>4, <1>5 DEF Sound

LEMMA SoundStep ==
  ASSUME NEW all \in BOOLEAN, all => OneWorker, Prompt, TypeOK, TypeOK', Sound(all),
         all => ResumesWithinPage, [Next]_vars
  PROVE  Sound(all)'
<1>1. CASE UNCHANGED vars
  BY <1>1 DEF vars, Sound, Placed, Agreed, Behind, Ahead, Unread, Kept
<1> QED
  BY <1>1, BroadcastSound, PollTailSound, ConnectionSound, WorkerSound, PruneSound DEF Next

LEMMA SoundInit ==
  ASSUME NEW all \in BOOLEAN, Init
  PROVE  Sound(all)
BY DEF Init, Sound, Placed, Agreed, Behind, Ahead, Away

-----------------------------------------------------------------------------
(* In one process, with streams that resume within a page and an event log *)
(* pruned after the retention time only, no client receives an event twice *)
(* and none is skipped, through disconnections, resumptions and crashes.   *)
THEOREM DeliversOnce ==
  ASSUME Prompt, OneWorker
  PROVE  Spec /\ []ResumesWithinPage => []DeliveredOnce
<1>1. Sound(TRUE) => DeliveredOnce
  BY DEF Sound, Behind, Ahead, DeliveredOnce, ReceivedOnce, NothingSkipped
<1>2. Init => Sound(TRUE)
  BY SoundInit
<1>3. TypeOK /\ TypeOK' /\ Sound(TRUE) /\ ResumesWithinPage /\ [Next]_vars => Sound(TRUE)'
  BY SoundStep
<1> QED
  BY <1>1, <1>2, <1>3, RealtimeTyped, PTL DEF Spec

(* The same of WebSocket clients.                                          *)
WebSocketsOnce ==
  \A c \in Client \ Sse :
    /\ \A s \in Seqs : clients[c].got[s] <= 1
    /\ clients[c].at # Nowhere => clients[c].owed \subseteq Unread(clients[c].at)

(* A cluster of any size delivers to every WebSocket client what it wants  *)
(* once and skips nothing, whatever streams there are beside it: the tails *)
(* of the workers and what a worker delivers at once never meet.           *)
THEOREM ClusterDeliversOnce ==
  ASSUME Prompt
  PROVE  Spec => []WebSocketsOnce
<1>1. Sound(FALSE) => WebSocketsOnce
  BY RealtimeAssumption DEF Sound, Agreed, Behind, Ahead, WebSocketsOnce
<1>2. Init => Sound(FALSE)
  BY SoundInit
<1>3. TypeOK /\ TypeOK' /\ Sound(FALSE) /\ [Next]_vars => Sound(FALSE)'
  BY SoundStep
<1> QED
  BY <1>1, <1>2, <1>3, RealtimeTyped, PTL DEF Spec
=============================================================================
