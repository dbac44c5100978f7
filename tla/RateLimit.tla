------------------------------- MODULE RateLimit -------------------------------
(***************************************************************************)
(* The rate limiter of src/src/api/ratelimit.ts: token buckets by          *)
(* principal and rule, in each process its own, refilled as time passes,   *)
(* swept when idle, under rules that each process reads from the settings  *)
(* and keeps for a while.                                                  *)
(***************************************************************************)
EXTENDS Integers, Sequences, FiniteSets, SequencesExt, FiniteSetsExt

CONSTANTS LimitProcs, Principals,
          Kinds,        \* what findRule tells apart: path, action, with a token or without
          RuleLists,    \* settings: sequences of rules [covers, max, window]
          Slots,        \* numbers of rules in them
          Unit,         \* a token of a bucket; every window divides it
          IdleFor,      \* a bucket not used for longer is swept: 5 minutes
          KeepConfig,   \* the rules are kept: 5 seconds
          MaxClock, MaxAdmitted      \* for TLC

ASSUME RateAssumption ==
  /\ Unit \in Nat \ {0} /\ IdleFor \in Nat /\ KeepConfig \in Nat /\ Slots \subseteq Nat
  /\ \A list \in RuleLists : DOMAIN list \subseteq Slots /\ \A i \in DOMAIN list :
       /\ list[i].covers \subseteq Kinds /\ list[i].max \in Nat \ {0}
       /\ list[i].window \in Nat \ {0} /\ Unit % list[i].window = 0

VARIABLES clock,
          rules,      \* the rules in the settings
          config,     \* of each process: the rules it has read, and until when it keeps them
          bucket,     \* of each process, by principal and rule
          admitted    \* history: of each process, what passed a rule since the rules changed
                      \*   or the buckets were cleared

rateLimitVars == <<clock, rules, config, bucket, admitted>>

NoBucket == [tokens |-> -1, at |-> 0]
NoBuckets == [w \in Principals |-> [i \in Slots |-> NoBucket]]

RateLimitInit ==
  /\ clock = 0 /\ rules \in RuleLists
  /\ config = [p \in LimitProcs |-> [list |-> <<>>, until |-> 0]]
  /\ bucket = [p \in LimitProcs |-> NoBuckets] /\ admitted = [p \in LimitProcs |-> <<>>]

----------------------------------------------------------------------------
\* loadConfig, with no rules there being none; findRule: the first that covers the request.
Loaded(p) == IF config[p].until > clock THEN config[p] ELSE [list |-> rules, until |-> clock + KeepConfig]
Covering(list, k) == {i \in DOMAIN list : k \in list[i].covers}

\* consumeToken: what a bucket has now.
RefillUnbounded(b, r) == b.tokens + (clock - b.at) * r.max * (Unit \div r.window)      \* mutant
Refill(b, r) ==
  IF b = NoBucket THEN r.max * Unit
  ELSE IF clock = b.at THEN b.tokens
  ELSE Min({r.max * Unit, b.tokens + (clock - b.at) * r.max * (Unit \div r.window)})

\* rateLimitMiddleware.
Request(p, w, k) ==
  LET list == Loaded(p).list  hits == Covering(list, k)  i == Min(hits)
      has == Refill(bucket[p][w][i], list[i])
      seen == IF list = config[p].list THEN admitted[p] ELSE <<>> IN
  /\ config' = [config EXCEPT ![p] = Loaded(p)]
  /\ IF hits = {} THEN bucket' = bucket /\ admitted' = [admitted EXCEPT ![p] = seen]
     ELSE IF has < Unit
     THEN /\ bucket' = [bucket EXCEPT ![p][w][i] = [tokens |-> has, at |-> clock]]
          /\ admitted' = [admitted EXCEPT ![p] = seen]
     ELSE /\ Len(seen) < MaxAdmitted
          /\ bucket' = [bucket EXCEPT ![p][w][i] = [tokens |-> has - Unit, at |-> clock]]
          /\ admitted' = [admitted EXCEPT ![p] = Append(seen, [who |-> w, rule |-> i, at |-> clock])]
  /\ UNCHANGED <<clock, rules>>

\* The sweep, once a minute.
Swept(b) == IF b # NoBucket /\ b.at < clock - IdleFor THEN NoBucket ELSE b
Sweep(p) ==
  /\ bucket' = [bucket EXCEPT ![p] = [w \in Principals |-> [i \in Slots |-> Swept(bucket[p][w][i])]]]
  /\ UNCHANGED <<clock, rules, config, admitted>>

\* PATCH of the settings in one process: invalidateRateLimitCache there, not in the others.
Configure(p, list) ==
  /\ rules' = list
  /\ config' = [config EXCEPT ![p].until = 0]
  /\ bucket' = [bucket EXCEPT ![p] = NoBuckets] /\ admitted' = [admitted EXCEPT ![p] = <<>>]
  /\ clock' = clock

TimePasses == clock < MaxClock /\ clock' = clock + 1 /\ UNCHANGED <<rules, config, bucket, admitted>>

RateLimitNext ==
  \/ TimePasses
  \/ \E p \in LimitProcs : Sweep(p) \/ \E list \in RuleLists : Configure(p, list)
  \/ \E p \in LimitProcs, w \in Principals, k \in Kinds : Request(p, w, k)

RateLimitSpec == RateLimitInit /\ [][RateLimitNext]_rateLimitVars

----------------------------------------------------------------------------
\* Whatever is refused, swept or configured meanwhile: from any moment on a process lets a
\* principal through by a rule no more often than the rule's max and what the time since
\* refills, except in the moment the rules were read anew, and for a rule whose window is
\* longer than a bucket is kept.
Within(p, a, b) ==
  LET list == config[p].list  all == admitted[p]
      i == all[a].rule
      n == Cardinality({j \in a..b : all[j].rule = i /\ all[j].who = all[a].who}) IN
  \/ all[b].rule # i \/ all[b].who # all[a].who \/ list[i].window > IdleFor
  \/ n * list[i].window <= (list[i].max * list[i].window) + (all[b].at - all[a].at) * list[i].max

BurstBounded ==
  \A p \in LimitProcs : \A a, b \in DOMAIN admitted[p] :
    a <= b /\ admitted[p][a].at > admitted[p][1].at => Within(p, a, b)
=============================================================================
