--------------------------------- MODULE Tools ---------------------------------
(***************************************************************************)
(* The MCP server of src/src/mcp, over HTTP (src/src/api/mcp.ts) and over   *)
(* stdio (src/src/scripts/mcp.ts): which tools a session has, when a call   *)
(* of one is let through, and what it does.  A tool is called by its name,  *)
(* <<verb, noun>> for cogworks.<verb>_<noun>.  Every collection brings five *)
(* tools named for it, which hide a tool of the server with the same name.  *)
(***************************************************************************)
EXTENDS FiniteSets, Integers, Sequences

CONSTANTS Seats,            \* who calls: HTTP clients and stdio sessions
          Stdio,            \* those of them with a process of their own
          HoldsSets,        \* the scopes a token may have
          Nouns,            \* names a collection may have
          Called,           \* the tools that are called
          ReadMax, WriteMax, \* MCP_READ_PER_MIN, MCP_WRITE_PER_MIN
          Minute,           \* RATE_WINDOW_MS
          MaxInstant, MaxCalls

ASSUME ToolsAssumption ==
  /\ Stdio \subseteq Seats /\ Minute \in Nat \ {0}
  /\ WriteMax \in Nat /\ ReadMax \in Nat /\ WriteMax <= ReadMax

VARIABLES nouns,    \* the collections there are
          seat,     \* of each caller: its scopes; of a session also what its tools were made of
          rateLog,  \* of each process and tool name: the instants of its calls
          calling,  \* the call a caller has under way
          served,   \* history: the calls let through, with what they did
          instant

toolVars == <<nouns, seat, rateLog, calling, served, instant>>

(***************************************************************************)
(* The tools: their names, the scope asked for, and what a call does.      *)
(***************************************************************************)
Tool(names, scope, does) == {[name |-> t, scope |-> scope, does |-> does] : t \in names}

\* registerCollectionTools: of the collection n.
CollectionTools(n) ==
  Tool({"list", "get"} \X {n}, "mcp:read", "reads")
    \cup Tool({"create", "update", "delete"} \X {n}, "mcp:write", "records")

\* registerAdminTools
AdminTools ==
  Tool({<<"list", "collections">>, <<"describe", "collection">>, <<"read", "logs">>, <<"read", "audit_log">>},
       "mcp:read", "reads")

\* registerAdminWriteTools, part by part
SchemaTools == Tool({"create", "alter", "delete"} \X {"collection"}, "mcp:admin", "schema")
HookTools == Tool({<<"list", "hooks">>}, "mcp:read", "reads")
               \cup Tool({"create", "update", "delete"} \X {"hook"}, "mcp:admin", "logic")
RouteTools == Tool({<<"list", "routes">>}, "mcp:read", "reads")
                \cup Tool({"create", "delete"} \X {"route"}, "mcp:admin", "logic")
JobTools ==
  Tool({<<"list", "jobs">>}, "mcp:read", "reads")
    \cup Tool({<<"create", "job">>, <<"run", "job_now">>, <<"delete", "job">>}, "mcp:admin", "logic")
FlagTools == Tool({<<"evaluate", "flag">>}, "mcp:read", "reads")
               \cup Tool({"update", "delete"} \X {"flag"}, "mcp:admin", "logic")
WebhookTools == Tool({<<"list", "webhooks">>}, "mcp:read", "reads")
                  \cup Tool({<<"dispatch", "webhook_event">>}, "mcp:write", "sends")
SettingTools == Tool({<<"list", "settings">>, <<"get", "setting">>}, "mcp:admin", "secrets")
                  \cup Tool({<<"update", "setting">>}, "mcp:admin", "logic")
SqlTools == Tool({<<"run", "sql">>}, "mcp:sql", "sql")
SeedTools == Tool({<<"seed", "">>}, "mcp:write", "records")

\* buildRegistry, of the collections ns: the tool a name stands for, if there is one.  The
\* first tool of a name stays; --read-only keeps those that read.
Static == AdminTools \cup SchemaTools \cup HookTools \cup RouteTools \cup JobTools
            \cup FlagTools \cup WebhookTools \cup SettingTools \cup SqlTools \cup SeedTools
Readable(tool, readOnly) == readOnly => tool.scope = "mcp:read"
Registry(t, ns, readOnly) ==
  LET own == {tool \in CollectionTools(t[2]) : t[2] \in ns /\ tool.name = t}
      first == IF own # {} THEN own ELSE {tool \in Static : tool.name = t}
  IN {tool \in first : Readable(tool, readOnly)}

\* hasScope
HasScope(holds, scope) == "admin" \in holds \/ scope \in holds \/ "mcp:admin" \in holds

\* mcpRateLimited: the calls of a name in the last minute, whoever made them.  A log is in
\* order: what the filter drops is at its head.
Budget(tool) == IF tool.scope = "mcp:read" THEN ReadMax ELSE WriteMax
SinceFirst(times) ==                          \* mutant: a window that starts with its first call
  IF times # <<>> /\ instant - times[1] >= Minute THEN <<>> ELSE times
Expired(times) == {n \in DOMAIN times : instant - times[n] >= Minute}
Recent(times) == SubSeq(times, Cardinality(Expired(times)) + 1, Len(times))

Proc(s) == IF s \in Stdio THEN s ELSE "server"
Idle == [at |-> "idle"]

ToolsInit ==
  /\ nouns \in SUBSET Nouns
  /\ seat \in [Seats -> [holds : HoldsSets, open : {FALSE}, readOnly : {FALSE}, had : {{}}]]
  /\ rateLog = [p \in Stdio \cup {"server"} |-> [t \in Called |-> <<>>]]
  /\ calling = [s \in Seats |-> Idle] /\ served = <<>> /\ instant = 0

----------------------------------------------------------------------------
\* runMcpCli: one of the scopes is checked, and the tools are those of the collections there
\* are now; collections that come later have none.
Connect(s) ==
  /\ s \in Stdio /\ ~seat[s].open
  /\ HasScope(seat[s].holds, "mcp:read") \/ HasScope(seat[s].holds, "mcp:write")
  /\ \E r \in BOOLEAN : seat' = [seat EXCEPT ![s].open = TRUE, ![s].readOnly = r, ![s].had = nouns]
  /\ UNCHANGED <<nouns, rateLog, calling, served, instant>>

\* POST /mcp: the token is verified and has some scope of the server; then the body is read.
Post(s, t) ==
  /\ s \notin Stdio /\ calling[s] = Idle
  /\ \E x \in {"mcp:read", "mcp:write", "mcp:admin", "mcp:sql", "admin"} : HasScope(seat[s].holds, x)
  /\ calling' = [calling EXCEPT ![s] = [at |-> "posted", name |-> t]]
  /\ UNCHANGED <<nouns, seat, rateLog, served, instant>>

\* ToolRegistry.call up to the handler: no such tool, no scope or too many calls end it.
Denied(s) == calling' = [calling EXCEPT ![s] = Idle] /\ UNCHANGED served
Let(s, t, found) ==
  LET recent == Recent(rateLog[Proc(s)][t])
      usable == {tool \in found : HasScope(seat[s].holds, tool.scope)}
  IN
  IF usable = {} THEN Denied(s) /\ UNCHANGED rateLog
  ELSE \E tool \in usable :
         IF Len(recent) >= Budget(tool)
         THEN Denied(s) /\ rateLog' = [rateLog EXCEPT ![Proc(s)][t] = recent]
         ELSE /\ Len(served) < MaxCalls
              /\ calling' = [calling EXCEPT ![s] = [at |-> "handler", name |-> t, does |-> tool.does]]
              /\ rateLog' = [rateLog EXCEPT ![Proc(s)][t] = Append(recent, instant)]
              /\ served' = Append(served, [by |-> s, name |-> t, does |-> tool.does, at |-> instant])

\* Of a POST the tools are those of the collections there are by now.
Dispatched(s) ==
  /\ calling[s].at = "posted"
  /\ Let(s, calling[s].name, Registry(calling[s].name, nouns, FALSE))
  /\ UNCHANGED <<nouns, seat, instant>>
\* A session takes the next line when the one before is answered.
Line(s, t) ==
  /\ s \in Stdio /\ seat[s].open /\ calling[s] = Idle
  /\ Let(s, t, Registry(t, seat[s].had, seat[s].readOnly))
  /\ UNCHANGED <<nouns, seat, instant>>

\* The handler ends, with an error perhaps: create_collection and delete_collection change
\* the collections there are, alter_collection renames one.
Handled(s) ==
  /\ calling[s].at = "handler"
  /\ calling' = [calling EXCEPT ![s] = Idle]
  /\ nouns' \in IF calling[s].does # "schema" THEN {nouns}
                ELSE CASE calling[s].name[1] = "create" -> {nouns \cup {n} : n \in Nouns}
                       [] calling[s].name[1] = "delete" -> {nouns \ {n} : n \in Nouns}
                       [] OTHER -> {nouns} \cup {(nouns \ {n}) \cup {m} : n \in nouns, m \in Nouns}
  /\ UNCHANGED <<seat, rateLog, served, instant>>

Instant == instant < MaxInstant /\ instant' = instant + 1 /\ UNCHANGED <<nouns, seat, rateLog, calling, served>>

ToolsNext ==
  \/ Instant
  \/ \E s \in Seats : Connect(s) \/ Dispatched(s) \/ Handled(s) \/ \E t \in Called : Post(s, t) \/ Line(s, t)
ToolsSpec == ToolsInit /\ [][ToolsNext]_toolVars

----------------------------------------------------------------------------
\* What tokens may have done, by what is done and not by the tool that is asked.
MayDo(holds) ==
  CASE holds \cap {"admin", "mcp:admin"} # {} ->
         {"reads", "records", "sends", "schema", "logic", "secrets", "sql"}
    [] OTHER -> UNION {CASE x = "mcp:read" -> {"reads"} [] x = "mcp:write" -> {"records", "sends"}
                         [] x = "mcp:sql" -> {"sql"} [] OTHER -> {} : x \in holds}

\* Whatever collections come and go, and whichever tools theirs hide, a call does what its
\* token may do, and in a read-only session it only reads.
Permitted ==
  \A n \in DOMAIN served :
    /\ served[n].does \in MayDo(seat[served[n].by].holds)
    /\ seat[served[n].by].readOnly => served[n].does = "reads"

\* In no minute, wherever it begins, does a process let more calls of one name through than
\* those of a tool that reads may be, nor more that do something else than their limit;
\* also when collections come and the name stands for another tool.
Within(p, t, from) ==
  {n \in DOMAIN served : /\ Proc(served[n].by) = p /\ served[n].name = t
                         /\ served[n].at \in from..(from + Minute - 1)}
Budgeted ==
  \A n \in DOMAIN served :
    LET calls == Within(Proc(served[n].by), served[n].name, served[n].at) IN
    /\ Cardinality(calls) <= ReadMax
    /\ Cardinality({m \in calls : served[m].does # "reads"}) <= WriteMax

\* An agent is held to its token and to the limits of the tools.
ToolsGuarded == Permitted /\ Budgeted
=============================================================================
