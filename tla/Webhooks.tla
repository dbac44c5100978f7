------------------------------- MODULE Webhooks -------------------------------
(***************************************************************************)
(* Outbound webhooks, src/src/core/webhooks.ts and src/src/api/webhooks.ts. *)
(* A delivery is one event for one webhook, a row that stays pending while *)
(* it is POSTed: the leader's 2-second tick starts every pending delivery  *)
(* that is due, also one whose POST is still out.  A POST writes the row   *)
(* when it ends, with the attempt it began with.                           *)
(***************************************************************************)
EXTENDS Naturals, Sequences, SequencesExt

CONSTANTS Hooks,
          RetryMax,        \* retry_max
          MaxDeliveries, MaxPosts, MaxDeaths     \* bounds: rows, POSTs of one out, crashes

VARIABLES hooks,       \* cogworks_webhooks: enabled or not, and subscribed to "*" or not
          deliveries,  \* cogworks_webhook_deliveries, in order of creation
          posts,       \* per delivery, the attempts whose POSTs are out
          failures,    \* per delivery, POSTs that failed
          acked,       \* deliveries a POST of which was answered with success
          dispatcher,  \* is the dispatching process up
          deaths       \* how often it died

hookVars == <<hooks, deliveries, posts, failures, acked, dispatcher, deaths>>

HooksInit ==
  /\ hooks \in [Hooks -> [in : {TRUE}, enabled : BOOLEAN, all : BOOLEAN]]
  /\ deliveries = <<>> /\ posts = <<>> /\ failures = <<>> /\ acked = {}
  /\ dispatcher = TRUE /\ deaths = 0

Pending(d) == d \in DOMAIN deliveries /\ deliveries[d].status = "pending"
Settled(d) == d \in DOMAIN deliveries /\ deliveries[d].status \in {"succeeded", "dead"}

----------------------------------------------------------------------------
\* dispatchEvent: a row for every enabled webhook that is subscribed.  The record was
\* committed before.
Row(h) == [hook |-> h, status |-> "pending", attempt |-> 1, due |-> TRUE, tired |-> FALSE]
Subscribed(S) == {h \in Hooks : hooks[h].in /\ hooks[h].enabled /\ (h \in S \/ hooks[h].all)}

Dispatch(S) ==
  LET rows == SetToSeq({Row(h) : h \in Subscribed(S)}) IN
  /\ rows # <<>> /\ Len(deliveries) + Len(rows) <= MaxDeliveries
  /\ deliveries' = deliveries \o rows
  /\ posts' = posts \o [n \in DOMAIN rows |-> <<>>]
  /\ failures' = failures \o [n \in DOMAIN rows |-> 0]
  /\ UNCHANGED <<hooks, acked, dispatcher, deaths>>

\* POST /admin/webhooks/:id/test: one more pattern for this webhook while it dispatches.
TestHook(h) == hooks[h].in /\ Dispatch({h})

ToggleHook(h) ==
  /\ hooks[h].in
  /\ hooks' = [hooks EXCEPT ![h].enabled = ~@]
  /\ UNCHANGED <<deliveries, posts, failures, acked, dispatcher, deaths>>
RemoveHook(h) ==
  /\ hooks[h].in
  /\ hooks' = [hooks EXCEPT ![h].in = FALSE]
  /\ UNCHANGED <<deliveries, posts, failures, acked, dispatcher, deaths>>

----------------------------------------------------------------------------
Deliverable(d) == hooks[deliveries[d].hook].in /\ hooks[deliveries[d].hook].enabled
DueNow == {d \in DOMAIN deliveries : Pending(d) /\ deliveries[d].due}

\* tick, and the beginning of deliverOne: a webhook that is gone or disabled buries the
\* delivery, otherwise a POST goes out.
HookTick ==
  /\ dispatcher /\ DueNow # {}
  /\ \A d \in DueNow : Len(posts[d]) < MaxPosts
  /\ deliveries' = [d \in DOMAIN deliveries |->
                      IF d \in DueNow /\ ~Deliverable(d)
                        THEN [deliveries[d] EXCEPT !.status = "dead"] ELSE deliveries[d]]
  /\ posts' = [d \in DOMAIN posts |-> IF d \in DueNow /\ Deliverable(d)
                                        THEN Append(posts[d], deliveries[d].attempt)
                                        ELSE posts[d]]
  /\ UNCHANGED <<hooks, failures, acked, dispatcher, deaths>>

Ends(d, n) ==
  /\ posts' = [posts EXCEPT ![d] = RemoveAt(@, n)]
  /\ UNCHANGED <<hooks, dispatcher, deaths>>

\* The address is one that may not be reached: no POST was made.
Blocked(d) ==
  \E n \in DOMAIN posts[d] :
    /\ Ends(d, n)
    /\ deliveries' = [deliveries EXCEPT ![d].status = "dead"]
    /\ UNCHANGED <<failures, acked>>

Succeeds(d) ==
  \E n \in DOMAIN posts[d] :
    /\ Ends(d, n)
    /\ deliveries' = [deliveries EXCEPT ![d].status = "succeeded"]
    /\ acked' = acked \cup {d}
    /\ UNCHANGED failures

\* A refusal, a redirect, no answer in time: the row is dead, or waits for its next attempt.
OneEarly(a) == a + 1 >= RetryMax     \* mutant
LastAttempt(a) == a >= RetryMax
Untouched(row, a) ==       \* mutant: the attempt stays, as the row has been written before
  [row EXCEPT !.status = "pending", !.due = FALSE]
Rescheduled(row, a) == [row EXCEPT !.attempt = a + 1, !.status = "pending", !.due = FALSE]

Fails(d) ==
  \E n \in DOMAIN posts[d] :
    LET a == posts[d][n] IN
    /\ Ends(d, n)
    /\ deliveries' = [deliveries EXCEPT ![d] =
         IF LastAttempt(a) THEN [@ EXCEPT !.status = "dead", !.tired = TRUE]
                           ELSE Rescheduled(@, a)]
    /\ failures' = [failures EXCEPT ![d] = IF @ < RetryMax THEN @ + 1 ELSE @]
    /\ UNCHANGED acked

\* scheduled_at comes, retry_delay_ms later or its exponential.
BackoffEnds(d) ==
  /\ Pending(d) /\ ~deliveries[d].due
  /\ deliveries' = [deliveries EXCEPT ![d].due = TRUE]
  /\ UNCHANGED <<hooks, posts, failures, acked, dispatcher, deaths>>

DispatcherDies ==
  /\ dispatcher /\ deaths < MaxDeaths
  /\ dispatcher' = FALSE /\ deaths' = deaths + 1
  /\ posts' = [d \in DOMAIN posts |-> <<>>]
  /\ UNCHANGED <<hooks, deliveries, failures, acked>>
DispatcherStarts ==
  /\ ~dispatcher /\ dispatcher' = TRUE
  /\ UNCHANGED <<hooks, deliveries, posts, failures, acked, deaths>>

PostEnds(d) == d \in DOMAIN posts /\ (Blocked(d) \/ Succeeds(d) \/ Fails(d))

HooksNext ==
  \/ \E S \in SUBSET Hooks : Dispatch(S)
  \/ \E h \in Hooks : TestHook(h) \/ ToggleHook(h) \/ RemoveHook(h)
  \/ HookTick \/ DispatcherDies \/ DispatcherStarts
  \/ \E d \in DOMAIN deliveries : PostEnds(d) \/ BackoffEnds(d)

\* setInterval ticks, a POST is answered or aborted, time passes, a dead worker is respawned.
HooksFairness ==
  /\ WF_hookVars(HookTick) /\ WF_hookVars(DispatcherStarts)
  /\ \A d \in 1..MaxDeliveries : WF_hookVars(PostEnds(d)) /\ WF_hookVars(BackoffEnds(d))

HooksSpec == HooksInit /\ [][HooksNext]_hookVars /\ HooksFairness

----------------------------------------------------------------------------
HooksTypeOK ==
  /\ \A d \in DOMAIN deliveries : /\ deliveries[d].status \in {"pending", "succeeded", "dead"}
                                  /\ deliveries[d].attempt \in 1..RetryMax
  /\ DOMAIN posts = DOMAIN deliveries /\ DOMAIN failures = DOMAIN deliveries
  /\ acked \subseteq DOMAIN deliveries

\* A delivery counts as succeeded only when its receiver has said so, and is given up for
\* its failures only after retry_max of them, however its POSTs overlapped and whichever
\* ended last.
HonestStatus ==
  \A d \in DOMAIN deliveries :
    /\ deliveries[d].status = "succeeded" => d \in acked
    /\ deliveries[d].tired => failures[d] >= RetryMax

\* Every delivery ends: from some time on it has succeeded or is dead and stays so, though
\* a late failure may reopen it, and though the dispatcher crashes.
Ended == \A d \in 1..MaxDeliveries : [](d \in DOMAIN deliveries => <>[]Settled(d))
=============================================================================
