------------------------------ MODULE MCOperations ------------------------------
(***************************************************************************)
(* For TLC: the job queue of one process, and what an operator of the      *)
(* server relies on: upgrades and restores, of the database and of the     *)
(* binary, the log and the rate of requests, rate limits, API tokens, how  *)
(* records are written, files of comma-separated values, and the SQL       *)
(* console.  They share no state here, so one behaviour exercises one of   *)
(* them, and their states add up.                                          *)
(***************************************************************************)
EXTENDS JobQueue, TLC, Upgrade, Logs, RateLimit, Tokens, Writes, Csv, Sandbox

CONSTANTS m1, m2, e1, h1, w1, w2, v1, v2, bad, s1, s2, a1

(* What the other modules are given. *)
Limit(kinds, n, window) == [covers |-> kinds, max |-> n, window |-> window]
MCRuleLists == {<<Limit({"create"}, 1, 2), Limit({"create", "list"}, 2, 1)>>,
                <<Limit({"create", "list"}, 2, 4)>>}
MCHookOrder == <<h1>>
MCChars == {Quote, ",", CR, LF, "[", "]", "1"}
SomeValues == {Null, Value("str", <<Quote>>), Value("str", <<CR>>), Value("num", <<"1">>),
               Value("bool", <<"true">>), Value("list", <<"[", "]">>)}

(* The jobs are interchangeable. *)
JobSymmetry == Permutations(Job)

VARIABLE family

fileVars == <<csvVars, exportVars>>
consoleVars == <<sandboxVars, savedVars>>
operating == <<vars, upVars, second, logVars, rateVars, rateLimitVars, tokenVars, writeVars,
               fileVars, consoleVars, updateVars>>
Only(v) == UNCHANGED family /\ UNCHANGED v

(* Each family's first states; of the others' one stands for all. *)
MCInit ==
  /\ family \in {"queue", "upgrade", "log", "meter", "limits", "tokens", "writes", "csv", "export", "copies", "saved", "updates"}
  /\ Init /\ SelfUpdateInit /\ LogsInit /\ TokensInit /\ SandboxInit
  /\ UpInit /\ (\A s \in db.shared : s.id = 1 => s.email = e1)
  /\ (family # "upgrade" => db = V11("cogworks", [u \in Accounts |-> NoColl], [u \in Accounts |-> e1]))
  /\ RateLimitInit /\ (family # "limits" => Len(rules) = 1)
  /\ WritesInit /\ recs[Seeded] \in {v1, Blank} /\ hooksOn = {h1}
  /\ writer[w1] \in {Call("create", <<v1>>), Call("patch", <<v2>>)}
  /\ writer[w2] \in {Call("create", <<v1>>), Call("import", <<v1, v2>>), Call("import", <<bad, v2>>)}
  /\ family # "writes" =>
       uniqueness = "check" /\ recs[Seeded] = Blank /\ \A w \in Writers : writer[w] = Call("create", <<v1>>)
  /\ IF family = "csv" THEN CsvInit /\ source.values[2] \in SomeValues
     ELSE /\ source = [type |-> "text", values |-> <<Null, Null>>] /\ withId = TRUE
          /\ text = <<>> /\ pos = 1 /\ field = <<>> /\ line = <<>> /\ grid = <<>> /\ quoted = FALSE
  /\ ExportInit /\ (family # "export" => listing = <<>>)

(* Bounds: a database is saved while it has the shared table, and one collection renamed. *)
MCUpgrade == UpNext /\ (backup' # backup => db.shared # {}) /\ m2 \notin db'.moved

(* Bounds: the log turns one midnight, and the meter is left alone when it has gone wrong. *)
MCLog == (Second \/ WriterNext) /\ second' <= 2
MCMeter == (Second \/ RateNext) /\ ~astray

(* Bounds: hooks are switched off once, and of the records only the seeded one is deleted. *)
MCWrites ==
  /\ WritesNext /\ (hooksOn' # {} => hooksOn' = hooksOn)
  /\ \A i \in RecIds \ {Seeded} : recs[i] # Blank => recs'[i] # Blank

(* Bounds: only the first process copies, for the second administrator in the first hour
   when the first has a copy, and to write; the other process commits while it copies. *)
MCCopies ==
  /\ SandboxNext /\ copying'[s2] = Absent /\ (versions' # versions => copying[s1] # Absent)
  /\ copying'[s1] # Absent =>
       \/ copying'[s1].of = a1
       \/ hour = 0 /\ Has(s1, a1) /\ copying'[s1].first = "writes"

(* Versions: a final one, a pre-release and a final one.  Bounds: until a file is spoilt; a
   version is asked for to go back, or to go to a pre-release. *)
MCReleases == {<<1, 0>>, <<2, 1>>, <<2, 0>>}
MCFirst == <<1, 0>>
MCUpdates ==
  /\ SelfUpdateNext /\ ~cut
  /\ \A u \in Busy' \ Busy : updater'[u].wanted # {} =>
       updater'[u].wanted = {<<2, 1>>} \/ (updater'[u].down /\ updater'[u].wanted = {<<1, 0>>})

MCNext ==
  \/ /\ family = "queue" /\ Next
     /\ Only(<<upVars, second, logVars, rateVars, rateLimitVars, tokenVars, writeVars, fileVars, consoleVars, updateVars>>)
  \/ /\ family = "upgrade" /\ MCUpgrade
     /\ Only(<<vars, second, logVars, rateVars, rateLimitVars, tokenVars, writeVars, fileVars, consoleVars, updateVars>>)
  \/ /\ \/ family = "log" /\ MCLog
        \/ family = "meter" /\ MCMeter
     /\ Only(<<vars, upVars, rateLimitVars, tokenVars, writeVars, fileVars, consoleVars, updateVars>>)
  \/ /\ family = "limits" /\ RateLimitNext
     /\ Only(<<vars, upVars, second, logVars, rateVars, tokenVars, writeVars, fileVars, consoleVars, updateVars>>)
  \/ /\ family = "tokens" /\ TokensNext
     /\ Only(<<vars, upVars, second, logVars, rateVars, rateLimitVars, writeVars, fileVars, consoleVars, updateVars>>)
  \/ /\ family = "writes" /\ MCWrites
     /\ Only(<<vars, upVars, second, logVars, rateVars, rateLimitVars, tokenVars, fileVars, consoleVars, updateVars>>)
  \/ /\ \/ family = "csv" /\ CsvNext /\ UNCHANGED exportVars
        \/ family = "export" /\ ExportNext /\ UNCHANGED csvVars
     /\ Only(<<vars, upVars, second, logVars, rateVars, rateLimitVars, tokenVars, writeVars, consoleVars, updateVars>>)
  \/ /\ \/ family = "copies" /\ MCCopies /\ UNCHANGED savedVars
        \/ family = "saved" /\ SavedNext /\ UNCHANGED sandboxVars
     /\ Only(<<vars, upVars, second, logVars, rateVars, rateLimitVars, tokenVars, writeVars, fileVars, updateVars>>)
  \/ /\ family = "updates" /\ MCUpdates
     /\ Only(<<vars, upVars, second, logVars, rateVars, rateLimitVars, tokenVars, writeVars, fileVars, consoleVars>>)

MCSpec == MCInit /\ [][MCNext]_<<operating, family>>
=============================================================================
