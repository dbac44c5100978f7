------------------------------- MODULE MCContent -------------------------------
(***************************************************************************)
(* For TLC: what is kept with the records: rules, pages, files, tables,    *)
(* snapshots of them, flags and notifications; and the agents that edit    *)
(* it.  They share no state here, so one behaviour exercises one of them,  *)
(* and their states add up.                                                *)
(***************************************************************************)
EXTENDS Rules, Paging, Files, Schema, Flags, Notifications, Tools, Snapshots, TLC

CONSTANTS f1, f2, u1, v1, g1, g2, g3

(* What the other modules are given. *)
TextField(x, y) == [c \in Columns |-> IF c = "x" THEN x ELSE y]
MCSchemas == {TextField("text", "no"), TextField("searchable", "searchable"),
              TextField("number", "unique")}
MCQueries == {{"x"}, {"x", "y"}}

FlagRule(needs, c, percent, v) ==
  [needs |-> needs, when |-> c, rollout |-> percent, variation |-> v]
MCRules ==
  {<<FlagRule({}, Cond("in", "s1"), 1, "true")>>} \cup
  {<<FlagRule({[flag |-> k, variation |-> v]}, Cond("always", ""), 2, "true"),
     FlagRule({}, Cond("not", "s1"), 1, "false")>> : k \in {"a", "b"}, v \in {"true", "false"}}
MCBucket == [k \in FlagKeys |-> [u \in Visitors |-> IF u \in Matching THEN 0 ELSE 1]]

MCHolds == {{"mcp:admin"}, {"mcp:write"}, {"mcp:read", "mcp:sql"}}
MCCalled == {<<"create", "collection">>, <<"get", "setting">>, <<"run", "sql">>}

MCGiven == {<<[name |-> "m", def |-> Def("auth", 1, FALSE, 1)]>>,
            <<[name |-> "m", def |-> Def("view", 1, FALSE, 1)],
              [name |-> "n", def |-> Def("auth", 1, TRUE, 2)]>>}

VARIABLE family

all == <<ruleVars, pageVars, fileVars, schemaVars, flagVars, noteVars, toolVars, snapVars>>
Only(v) == UNCHANGED family /\ UNCHANGED v

(* Each family's first states; of the others' one stands for all. *)
MCInit ==
  /\ family \in {"rules", "paging", "files", "tokens", "schema", "flags", "push", "mail", "agents", "snapshots"}
  /\ RulesInit /\ (family # "rules" => rule = None)
  /\ PagingInit /\ (family # "paging" => desc /\ \A i \in Ids : column[i] = Absent)
  /\ FilesInit /\ (family # "tokens" => window >= Day)
  /\ SchemaInit /\ FlagsInit /\ NotificationsInit
  /\ ToolsInit /\ nouns \in {{}, {"setting"}}
  /\ seat[g3].holds = {"mcp:read", "mcp:sql"} /\ seat[g2].holds = {"mcp:write"}
  /\ seat[g1].holds # {"mcp:read", "mcp:sql"}
  /\ SnapshotsInit /\ (family # "snapshots" => Here = {} /\ Len(snap) = 1)
  /\ family # "agents" => nouns = {} /\ seat[g1].holds = {"mcp:admin"}

(* Bounds: one file when it is about tokens, none for it otherwise. *)
MCFiles ==
  /\ FilesNext
  /\ IF family = "files" THEN UNCHANGED <<minted, hours>>
     ELSE object' \cup fileRow' \subseteq {f1}

(* Bounds: until every table is spoilt; two requests at once on one collection, and when *)
(* there are views only until one is spoilt; the first collection alone is ever a view,  *)
(* and the fields that a caller gives it are one.                                        *)
MCSchema ==
  /\ SchemaNext /\ spoilt # TableNames
  /\ (\A q \in SchemaRequests : changing'[q].pc # "idle") =>
       /\ \E c \in Collections : coll'[c] = NoColl
       /\ spoilt = {} \/ "view" \notin {coll'[c].type : c \in Collections} \cup {tables[n].is : n \in TableNames}
  /\ \A q \in SchemaRequests :
       LET new == changing'[q].new IN
       new.type = "view" =>
         changing'[q].id = {1} /\ (new.given => new.fields = TextField("text", "no"))

(* Bounds: FCM alone, or mail and OneSignal; all to one of the people, one of whose *)
(* devices changes hands and comes back.  A second notice is sent by FCM, to that   *)
(* device alone, the others being gone, while the first one is being sent and FCM   *)
(* stays switched on.  That device alone is ever taken for dead when it is there.   *)
MCNotify ==
  /\ NotificationsNext
  /\ \A n \in Notices : notice'[n].to \in {Nobody, u1} /\ push'[n]["fcm"].dead \cap reachable' \subseteq {v1}
  /\ notice'[2] # notice[2] => family = "push" /\ push[1]["fcm"].pc = "sending"
  /\ notice'[2] # NoNotice =>
       /\ enabled' = {"fcm"} /\ reachable' \subseteq {v1}
       /\ \A d \in Devices : device'[d].user \in {Nobody} \cup IF d = v1 THEN {u1} ELSE {}
  /\ \A d \in Devices \ {v1} : device'[d].user \in {Nobody, u1} /\ (d \notin reachable => d \notin reachable')
  /\ IF family = "push" THEN enabled' \subseteq {"fcm"} /\ \A n \in Notices : "mail" \notin notice'[n].rest
     ELSE enabled' \subseteq {"onesignal"} /\ UNCHANGED device

(* Bounds: two clients, or one and a session, which alone asks for SQL. *)
MCAgents ==
  /\ ToolsNext
  /\ \A s \in Seats : calling'[s] # Idle /\ calling'[s].name = <<"run", "sql">> => s = g3
  /\ seat'[g3].open => calling'[g2] = Idle /\ \A n \in DOMAIN served' : served'[n].by # g2

(* Bounds: a snapshot is downloaded before the preview, of which there is one, and of *)
(* what others edit only one edit counts, amid an application.                        *)
MCSnapshots ==
  /\ SnapshotsNext
  /\ snap' # snap => preview = Gone /\ applying = Resting
  /\ preview' # preview => preview = Gone
  /\ local' # local /\ applying' = applying => quiet /\ applying.at # 0

MCNext ==
  \/ /\ family = "rules" /\ RulesNext
     /\ Only(<<pageVars, fileVars, schemaVars, flagVars, noteVars, toolVars, snapVars>>)
  \/ /\ family = "paging" /\ PagingNext
     /\ Only(<<ruleVars, fileVars, schemaVars, flagVars, noteVars, toolVars, snapVars>>)
  \/ /\ family \in {"files", "tokens"} /\ MCFiles
     /\ Only(<<ruleVars, pageVars, schemaVars, flagVars, noteVars, toolVars, snapVars>>)
  \/ /\ family = "schema" /\ MCSchema
     /\ Only(<<ruleVars, pageVars, fileVars, flagVars, noteVars, toolVars, snapVars>>)
  \/ /\ family = "flags" /\ FlagsNext
     /\ Only(<<ruleVars, pageVars, fileVars, schemaVars, noteVars, toolVars, snapVars>>)
  \/ /\ family \in {"push", "mail"} /\ MCNotify
     /\ Only(<<ruleVars, pageVars, fileVars, schemaVars, flagVars, toolVars, snapVars>>)
  \/ /\ family = "agents" /\ MCAgents
     /\ Only(<<ruleVars, pageVars, fileVars, schemaVars, flagVars, noteVars, snapVars>>)
  \/ /\ family = "snapshots" /\ MCSnapshots
     /\ Only(<<ruleVars, pageVars, fileVars, schemaVars, flagVars, noteVars, toolVars>>)

MCSpec == MCInit /\ [][MCNext]_<<all, family>>

=============================================================================
