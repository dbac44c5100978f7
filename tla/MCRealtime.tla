------------------------------- MODULE MCRealtime -------------------------------
(***************************************************************************)
(* Realtime for TLC: one process with a stream, one with a stream that may *)
(* not see everything, and a cluster with a WebSocket client.              *)
(***************************************************************************)
EXTENDS Realtime, TLC

CONSTANTS c1, c2, c3, w1, posts, star, created, deleted

VARIABLE family

(* A create goes out on the collection's topic and the wildcard, the other *)
(* kind on the wildcard only.                                              *)
TwoKinds == (created :> {posts, star}) @@ (deleted :> {star})

(* The second stream may not see deletions. *)
SecondLimited == (Client \X Kind) \ {<<c2, deleted>>}

MCInit ==
  /\ family \in {"stream", "limited", "cluster"}
  /\ log = <<>> /\ crashes = 0
  /\ workers = [w \in Worker |-> [up |-> w = w1 \/ family = "cluster", lastSeq |-> 0]]
  /\ clients = [c \in Client |-> Away]

(* Bounds: who is there, and in the cluster one topic with both kinds. *)
MCNext ==
  /\ UNCHANGED family /\ Next
  /\ LET c == IF family = "stream" THEN c1 ELSE IF family = "limited" THEN c2 ELSE c3
     IN  \A d \in Client \ {c} : clients'[d].at = Nowhere
  /\ IF family = "cluster" THEN \A c \in Client : clients'[c].want[posts] = "off"
     ELSE \A w \in Worker \ {w1} : ~ workers'[w].up

MCVars == <<vars, family>>
MCSpec == MCInit /\ [][MCNext]_MCVars /\ \A w \in Worker : WF_vars(PollTail(w))
=============================================================================
