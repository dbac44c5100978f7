--------------------------------- MODULE Rules ---------------------------------
(***************************************************************************)
(* Access rules and what they let through, twice: src/src/core/rules.ts    *)
(* evaluates a rule in memory, for one record that is read, written or     *)
(* sent to a subscriber; src/src/core/filter.ts compiles it to SQL, for a  *)
(* list.  Rules are syntax trees of src/src/core/expression.ts: one        *)
(* comparison, or two joined by && or ||.                                  *)
(* A value is null, a number or a text, and a record has one field of each *)
(* type and an array of texts.  Comparisons are between values of one      *)
(* type; texts are ordered as localeCompare and SQLite's BINARY both do,   *)
(* the empty text is the least, and a pattern is of one case and without   *)
(* wildcards.  A number's column is REAL: SQLite makes of the 1 that is    *)
(* "1" in memory the text "1.0".  A rule parses and compiles.              *)
(***************************************************************************)
EXTENDS Integers, Sequences, FiniteSets

VARIABLES rule,      \* the collection's rule: None for public, AdminOnly, or an expression
          record,    \* a record of the collection
          auth,      \* the caller: NoAuth, the id of a user, or Admin
          query      \* @request.query.q

ruleVars == <<rule, record, auth, query>>

Val(t, n, s) == [t |-> t, v |-> n, items |-> s]
Null == Val("null", 0, <<>>)
Num(n) == Val("num", n, <<>>)
Text(n) == Val("text", n, <<>>)     \* Text(0) is the empty text
Array(s) == Val("array", 0, s)
Unauth == Val("unauth", 0, <<>>)

NoAuth == Null
Admin == Text(9)
Signed == auth # NoAuth

RuleFields == {"count", "owner", "tags"}
Domains == [count |-> {Null, Num(0), Num(1)}, owner |-> {Null, Text(0), Text(1), Text(2)},
            tags |-> {Null} \cup {Array(s) : s \in {<<>>, <<Text(1)>>, <<Text(1), Text(2)>>,
                                                      <<Text(1), Null>>}}]

----------------------------------------------------------------------------
\* Syntax.  An array operator is `?` and an operator, `each` the modifier :each.
Operand(k, x, f) == [k |-> k, x |-> x, f |-> f]
Lit(x) == Operand("lit", x, "")
Field(f) == Operand("field", Null, f)
AuthId == Operand("auth", Null, "")
Query == Operand("request", Null, "")
Scalar == {"=", "!=", "<", "<=", ">", ">=", "~", "!~"}
Cmp(l, o, r, many) == [k |-> "cmp", left |-> l, op |-> o, right |-> r, many |-> many]

Comparisons ==
  {Cmp(Field("count"), o, Lit(x), "one") : o \in Scalar, x \in {Null, Num(0), Num(1)}}
  \cup {Cmp(Field("owner"), o, r, "one") : o \in Scalar,
          r \in {Lit(Null), Lit(Text(0)), Lit(Text(1)), AuthId, Query, Field("owner")}}
  \cup {Cmp(l, o, r, "one") : l \in {AuthId, Query}, o \in {"=", "!=", "~", "<"},
          r \in {Lit(Null), Lit(Text(1)), Field("owner")}}
  \cup {Cmp(Field("tags"), o, r, m) : o \in {"=", "!=", "~", "<"},
          r \in {Lit(Text(1)), AuthId}, m \in {"any", "each"}}
Seconds == {Cmp(Field("owner"), "=", AuthId, "one"), Cmp(Field("count"), "!=", Lit(Num(0)), "one")}
Expressions == Comparisons \cup {[k |-> j, left |-> a, right |-> b] :
                                   j \in {"and", "or"}, a \in Comparisons, b \in Seconds}
None == [k |-> "none"]
AdminOnly == [k |-> "admin"]

Leaves(e) == IF e.k = "cmp" THEN {e} ELSE {e.left, e.right}
Sides(c) == {c.left, c.right}
Mentions(e, f) == \E c \in Leaves(e) : Field(f) \in Sides(c)

----------------------------------------------------------------------------
\* In memory.
Resolve(o) == CASE o.k = "lit" -> o.x
                [] o.k = "auth" -> IF Signed THEN auth ELSE Unauth
                [] o.k = "request" -> query
                [] o.k = "field" -> record[o.f]

\* cmp: null counts as 0 beside a number and as "" beside a text.
Less(a, b) == a.v < b.v
LooseEq(a, b) == a = b
Includes(a, b) == a = b \/ b \in {Null, Text(0)}

Holds(a, o, b) ==
  CASE o = "=" -> LooseEq(a, b)          [] o = "!=" -> ~LooseEq(a, b)
    [] o = "<" -> Less(a, b)             [] o = "<=" -> ~Less(b, a)
    [] o = ">" -> Less(b, a)             [] o = ">=" -> ~Less(a, b)
    [] o = "~" -> Includes(a, b)         [] o = "!~" -> ~Includes(a, b)

Comparable(c) == Unauth \notin {Resolve(c.left), Resolve(c.right)}

\* evaluateExpr, evaluateArrayCmp, evaluateEach.
EvalCmp(c) ==
  LET a == Resolve(c.left)  b == Resolve(c.right) IN
  /\ Comparable(c)
  /\ CASE c.many = "one" -> Holds(a, c.op, b)
       [] c.many = "any" -> \E n \in DOMAIN a.items : Holds(a.items[n], c.op, b)
       [] c.many = "each" -> /\ a.items # <<>>
                             /\ \A n \in DOMAIN a.items : Holds(a.items[n], c.op, b)

Eval(e) == CASE e.k = "cmp" -> EvalCmp(e)
             [] e.k = "and" -> EvalCmp(e.left) /\ EvalCmp(e.right)
             [] e.k = "or" -> EvalCmp(e.left) \/ EvalCmp(e.right)

\* evaluateRule: one record.
Allowed == CASE rule = None -> TRUE
             [] rule = AdminOnly -> auth = Admin
             [] OTHER -> auth = Admin \/ Eval(rule)

----------------------------------------------------------------------------
\* In SQL: a comparison is true, false or unknown.
Bool3(b) == IF b THEN "true" ELSE "false"
Not3(x) == CASE x = "true" -> "false" [] x = "false" -> "true" [] x = "unknown" -> "unknown"

\* A list is compiled without a request: its maps are empty.
Compiled(o) == CASE o.k = "lit" -> o.x
                 [] o.k = "auth" -> auth
                 [] o.k = "request" -> Null
                 [] o.k = "field" -> record[o.f]
\* The pattern of LIKE is made at compile time: a field is not known then.
Pattern(o) == IF o.k = "field" THEN Null ELSE Compiled(o)

\* LIKE: a number's text ends in ".0", where a pattern of 0 finds its digit.
Like(a, b) == Includes(a, b) \/ (a.t = "num" /\ b = Num(0))

Sql(a, o, b) ==
  IF a = Null \/ (b = Null /\ o \notin {"~", "!~"}) THEN "unknown"
  ELSE CASE o = "~" -> Bool3(Like(a, b)) [] o = "!~" -> Bool3(~Like(a, b)) [] OTHER -> Bool3(Holds(a, o, b))

NullLiteral(c) == c.op \in {"=", "!="} /\ Lit(Null) \in Sides(c)
\* `x = null` is IS NULL, whichever side the literal is on.
IsNull(c) ==
  LET x == IF c.right = Lit(Null) THEN c.left ELSE c.right IN
  Bool3((Compiled(x) = Null) = (c.op = "="))

Unguarded(a) == TRUE     \* mutant: NOT EXISTS alone, which is true of an empty array
SomeElement(a) == a.items # <<>>

\* compileNode, compileArrayCmp, compileEach: EXISTS, and NOT EXISTS (... WHERE NOT ...).
SqlCmp(c) ==
  LET a == Compiled(c.left)
      b == IF c.op \in {"~", "!~"} THEN Pattern(c.right) ELSE Compiled(c.right) IN
  CASE c.many = "one" -> IF NullLiteral(c) THEN IsNull(c) ELSE Sql(a, c.op, b)
    [] c.many = "any" -> Bool3(\E n \in DOMAIN a.items : Sql(a.items[n], c.op, b) = "true")
    [] c.many = "each" -> Bool3(/\ SomeElement(a)
                                /\ \A n \in DOMAIN a.items : Not3(Sql(a.items[n], c.op, b)) # "true")

\* AND and OR of three-valued logic, in a WHERE: a row is listed when it is true.
Where(e) == CASE e.k = "cmp" -> SqlCmp(e) = "true"
              [] e.k = "and" -> SqlCmp(e.left) = "true" /\ SqlCmp(e.right) = "true"
              [] e.k = "or" -> SqlCmp(e.left) = "true" \/ SqlCmp(e.right) = "true"

\* GET /:collection.
Listed == CASE rule = None -> TRUE
            [] rule = AdminOnly -> auth = Admin
            [] OTHER -> auth = Admin \/ Where(rule)

----------------------------------------------------------------------------
RulesInit ==
  /\ rule \in {None, AdminOnly} \cup Expressions
  /\ record = [f \in RuleFields |-> Null]
  /\ auth = NoAuth /\ query = Null

IsExpression == rule \notin {None, AdminOnly}

\* Fields a rule does not mention make no difference to it.
SaveColumn(f, x) ==
  /\ IsExpression /\ Mentions(rule, f)
  /\ record' = [record EXCEPT ![f] = x]
  /\ UNCHANGED <<rule, auth, query>>
CallAs(a) == auth' = a /\ UNCHANGED <<rule, record, query>>
CallWith(x) ==
  /\ IsExpression /\ \E c \in Leaves(rule) : Query \in Sides(c)
  /\ query' = x /\ UNCHANGED <<rule, record, auth>>

RulesNext ==
  \/ \E f \in RuleFields : \E x \in Domains[f] : SaveColumn(f, x)
  \/ \E a \in {NoAuth, Text(1), Text(2), Admin} : CallAs(a)
  \/ \E x \in {Null, Text(1), Text(2)} : CallWith(x)

RulesSpec == RulesInit /\ [][RulesNext]_ruleVars

----------------------------------------------------------------------------
\* Where the two readings of a comparison may differ by what the code does: the request,
\* which a list is not given; an absent caller tested for null, put into a pattern, or
\* compared with every element; a pattern that is a field, or that only the ".0" of a number
\* fits; null elements under :each.
Differs(c) ==
  \/ Query \in Sides(c)
  \/ AuthId \in Sides(c) /\ ~Signed /\ (NullLiteral(c) \/ c.op \in {"~", "!~"} \/ c.many = "each")
  \/ c.op \in {"~", "!~"} /\ c.right.k = "field"
  \/ /\ c.op \in {"~", "!~"} /\ c.left = Field("count") /\ c.right = Lit(Num(0))
     /\ record["count"] \notin {Null, Num(0)}
  \/ c.many = "each" /\ \E n \in DOMAIN record.tags.items : record.tags.items[n] = Null

\* An operand that is null, and of an array an element.
NullOperand(c) ==
  \/ ~NullLiteral(c) /\ Lit(Null) \in Sides(c)
  \/ \E f \in RuleFields \ {"tags"} : Field(f) \in Sides(c) /\ record[f] = Null
  \/ Field("tags") \in Sides(c) /\ \E n \in DOMAIN record.tags.items : record.tags.items[n] = Null

\* A record that a list shows is one that may be viewed by the same rule, and is sent to
\* the same caller as an event; and one that may be viewed is listed, unless an operand
\* of the rule is null, which is unknown to SQL and a value in memory.
Agree ==
  LET plain == IsExpression => \A c \in Leaves(rule) : ~Differs(c) IN
  /\ plain /\ Listed => Allowed
  /\ plain /\ Allowed /\ ~Listed => \E c \in Leaves(rule) : NullOperand(c)
=============================================================================
