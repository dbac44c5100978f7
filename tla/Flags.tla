-------------------------------- MODULE Flags --------------------------------
(***************************************************************************)
(* Feature flags: src/src/core/flags.ts.  A flag has rules; the first one  *)
(* whose prerequisites, condition and rollout all fit a context decides.   *)
(* Prerequisites are flags, conditions may be segments, and both may refer *)
(* to each other without end: evaluation gives up at a depth.              *)
(* Flags are boolean, without variations of their own; a condition looks   *)
(* at one attribute; a context is who is asked for.                        *)
(***************************************************************************)
EXTENDS Integers, Sequences, FiniteSets

CONSTANTS FlagKeys,      \* every key that a flag has or a rule names
          SegmentNames, Visitors,
          Matching,      \* the visitors whose attribute fits an attribute condition
          Bucket,        \* Bucket[k][u]: bucketHash of flag k for visitor u, 0 .. Percents - 1
          Percents,      \* 100, scaled down
          MaxDepth,      \* MAX_PREREQ_DEPTH
          FlagRules      \* the rules a flag may be given

ASSUME FlagsAssumption == /\ MaxDepth \in Nat /\ Percents \in Nat
                          /\ Bucket \in [FlagKeys -> [Visitors -> 0 .. Percents - 1]]
                          /\ \A rules \in FlagRules : \A n \in DOMAIN rules : \A p \in rules[n].needs :
                               p.flag \in FlagKeys

VARIABLES flags,       \* cogworks_feature_flags: each flag's definition, or Missing
          segments     \* cogworks_flag_segments: each segment's condition, or Undefined

flagVars == <<flags, segments>>

Cond(k, s) == [k |-> k, s |-> s]     \* always, attr, in a segment, not in it
Undefined == Cond("none", "")
Missing == [is |-> FALSE, enabled |-> FALSE, default |-> FALSE, rules |-> <<>>]

FlagsInit ==
  /\ flags = [k \in FlagKeys |-> Missing]
  /\ segments = [s \in SegmentNames |-> Undefined]

----------------------------------------------------------------------------
\* matchCondition: `not` and `segment` each go a level deeper; too deep is no match.
TooDeepBy1(d) == d >= MaxDepth     \* mutant
TooDeep(d) == d > MaxDepth

Names == {"none", "always", "attr"}
Fits[d \in 0 .. MaxDepth + 2] ==
  [u \in Visitors |-> [c \in {Cond(k, "") : k \in Names} \cup {Cond(k, s) : k \in {"in", "not"},
                                                                             s \in SegmentNames} |->
     IF TooDeep(d) THEN FALSE
     ELSE CASE c.k = "none" -> FALSE
            [] c.k = "always" -> TRUE
            [] c.k = "attr" -> u \in Matching
            [] c.k = "in" -> Fits[d + 1][u][segments[c.s]]
            [] c.k = "not" -> ~(~TooDeep(d + 1) /\ Fits[d + 2][u][segments[c.s]])]]

\* rollout: a percentage of the matched; NoRollout without one.
InRollout(k, r, u) == Bucket[k][u] < r.rollout

\* An answer: the value, and the variation, if a rule gave one.
Answer(v, name) == [value |-> v, variation |-> name]
Label(v) == IF v THEN "true" ELSE "false"
Meets(a, p) == p.variation \in {a.variation, Label(a.value)}

\* evaluate: prerequisites a level deeper.
Decides(k, r, u, below) ==
  /\ \A p \in r.needs : Meets(below[p.flag], p)
  /\ Fits[0][u][r.when]
  /\ InRollout(k, r, u)

FirstOf(rules, Test(_)) ==
  LET hits == {n \in DOMAIN rules : Test(rules[n])} IN
  IF hits = {} THEN 0 ELSE CHOOSE n \in hits : \A m \in hits : n <= m

Result(k, u, below) ==
  LET f == flags[k]
      Fires(r) == Decides(k, r, u, below)
      n == FirstOf(f.rules, Fires) IN
  IF ~f.is THEN Answer(FALSE, "none")
  ELSE IF ~f.enabled \/ n = 0 THEN Answer(f.default, "none")
  ELSE Answer(f.rules[n].variation = "true", f.rules[n].variation)

Evaluate(u) ==
  LET At[d \in 0 .. MaxDepth + 1] ==
        [k \in FlagKeys |-> IF TooDeep(d) THEN Answer(FALSE, "none") ELSE Result(k, u, At[d + 1])]
  IN At[0]

----------------------------------------------------------------------------
\* upsertFlag: what is given replaces what was.
UpsertFlag(k, on, v, rules) ==
  /\ flags' = [flags EXCEPT ![k] = [is |-> TRUE, enabled |-> on, default |-> v, rules |-> rules]]
  /\ segments' = segments
DeleteFlag(k) == flags' = [flags EXCEPT ![k] = Missing] /\ segments' = segments
UpsertSegment(s, c) == segments' = [segments EXCEPT ![s] = c] /\ flags' = flags
DeleteSegment(s) == segments' = [segments EXCEPT ![s] = Undefined] /\ flags' = flags

Conditions == {Cond("always", ""), Cond("attr", "")}
              \cup {Cond(k, s) : k \in {"in", "not"}, s \in SegmentNames}

FlagsNext ==
  \/ \E k \in FlagKeys, on \in BOOLEAN, v \in BOOLEAN, rs \in FlagRules : UpsertFlag(k, on, v, rs)
  \/ \E k \in FlagKeys : DeleteFlag(k)
  \/ \E s \in SegmentNames, c \in Conditions : UpsertSegment(s, c)
  \/ \E s \in SegmentNames : DeleteSegment(s)

FlagsSpec == FlagsInit /\ [][FlagsNext]_flagVars

----------------------------------------------------------------------------
Needs(k) == UNION {{p.flag : p \in flags[k].rules[n].needs} : n \in DOMAIN flags[k].rules}
Deep == \E path \in [0 .. MaxDepth + 1 -> FlagKeys] : \A d \in 0 .. MaxDepth : path[d + 1] \in Needs(path[d])

\* While no flag has more levels of prerequisites below it than the depth allows, as one that
\* needs itself, by others or at once, every flag is what its first fitting rule makes of the
\* values its prerequisites have when they are asked for themselves.
Consistent ==
  ~Deep => \A u \in Visitors, k \in FlagKeys : Evaluate(u)[k] = Result(k, u, Evaluate(u))
=============================================================================
