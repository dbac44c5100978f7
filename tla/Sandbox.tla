--------------------------------- MODULE Sandbox ---------------------------------
(***************************************************************************)
(* The SQL console: each administrator's private copy of the database in   *)
(* each process (src/src/core/sql-sandbox.ts), what is run there or, read  *)
(* only, on the live file (sql-runner.ts), and a query that is saved and      *)
(* run (sql-queries.ts), as src/src/api/sql.ts calls them.  A run happens  *)
(* in one turn of its process: the time limit cannot end it.               *)
(***************************************************************************)
EXTENDS Integers, Sequences, FiniteSets, SequencesExt

CONSTANTS SqlProcs,    \* processes: each keeps copies of its own
          Consoles,    \* administrators at the SQL console
          TableCount,  \* tables, in the order they are copied
          SlotIdle,        \* SANDBOX_IDLE_TTL_SEC, in units of the clock
          Absent,
          MaxHour, MaxCommits, MaxStatements, MaxVisits      \* for TLC

ASSUME SandboxAssumption == IsFiniteSet(SqlProcs) /\ TableCount \in Nat \ {0} /\ SlotIdle \in Nat

VARIABLES versions,        \* of each table how often it was written
          slots,       \* _sandboxes of each process: an administrator's copy, or Absent
          copying,     \* of each process the copy it is making: it does nothing else meanwhile
          hour,
          past,        \* history: of each copy the database when it was begun and when it ended,
                       \* what its administrator changed in it and used it last; until given up
          query,       \* a saved query: its owner, its text, what its last run found; or Absent
          visit,       \* of each administrator the request about it that is under way
          given        \* history: its texts, and who gave them

sandboxVars == <<versions, slots, copying, hour, past>>
savedVars == <<query, visit, given>>

TableIds == 1..TableCount
Empty == -1
Statements == {"reads", "writes", "names a write", "fails"}      \* of statements

SandboxInit ==
  /\ versions = [t \in TableIds |-> 0] /\ hour = 0
  /\ slots = [p \in SqlProcs |-> [a \in Consoles |-> Absent]]
  /\ copying = [p \in SqlProcs |-> Absent]
  /\ past = [p \in SqlProcs |-> [a \in Consoles |-> Absent]]
  /\ query = Absent /\ visit = [a \in Consoles |-> Absent]
  /\ given = [texts |-> {}, by |-> {}, visits |-> 0]

Total(f) == FoldLeftDomain(LAMBDA n, t : n + f[t], 0, f)
Free(p) == copying[p] = Absent
Has(p, a) == slots[p][a] # Absent
GivenUp(p, a) ==
  /\ slots' = [slots EXCEPT ![p][a] = Absent]
  /\ past' = [past EXCEPT ![p][a] = Absent]

----------------------------------------------------------------------------
\* Elsewhere: a transaction of another request, which writes some tables; and time.
Commit(p) ==
  /\ Free(p) /\ Total(versions) < MaxCommits
  /\ \E written \in SUBSET TableIds \ {{}} :
       versions' = [t \in TableIds |-> IF t \in written THEN versions[t] + 1 ELSE versions[t]]
  /\ UNCHANGED <<slots, copying, hour, past>>

HourPasses ==
  /\ hour < MaxHour /\ hour' = hour + 1
  /\ UNCHANGED <<versions, slots, copying, past>>

\* resetSandbox: the old copy goes first; table by table, each read on its own; a table
\* that cannot be copied stays empty.
BeginCopy(p, a, first) ==
  /\ Free(p) /\ GivenUp(p, a)
  /\ copying' = [copying EXCEPT ![p] = [of |-> a, tables |-> <<>>, first |-> first, begun |-> versions]]
  /\ UNCHANGED <<versions, hour>>

CopyTable(p) ==
  /\ ~Free(p) /\ Len(copying[p].tables) < TableCount
  /\ \E version \in {versions[Len(copying[p].tables) + 1], Empty} :
       copying' = [copying EXCEPT ![p].tables = Append(@, version)]
  /\ UNCHANGED <<versions, slots, hour, past>>

\* A run of a statement on a copy: its own transaction, or none when it changes nothing.
Changed(kind) == IF kind = "writes" THEN 1 ELSE 0
RanOn(slot, kind) == [slot EXCEPT !.own = @ + Changed(kind), !.lastUsedAt = hour]
Noted(note, kind) == [note EXCEPT !.ran = @ + Changed(kind), !.used = hour]

\* The copy is there; a run that made it follows in the same turn.
CopyEnds(p) ==
  LET copy == copying[p]
      slot == [tables |-> copy.tables, own |-> 0, createdAt |-> hour, lastUsedAt |-> hour]
      note == [begun |-> copy.begun, ended |-> versions, ran |-> 0, used |-> hour]
  IN
  /\ ~Free(p) /\ Len(copy.tables) = TableCount
  /\ slots' = [slots EXCEPT ![p][copy.of] = RanOn(slot, copy.first)]
  /\ past' = [past EXCEPT ![p][copy.of] = Noted(note, copy.first)]
  /\ copying' = [copying EXCEPT ![p] = Absent]
  /\ UNCHANGED <<versions, hour>>

\* The live file cannot be attached or read: the old copy is gone.
ResetFails(p, a) == Free(p) /\ GivenUp(p, a) /\ UNCHANGED <<versions, copying, hour>>

RunSql(p, a, kind) ==
  \/ ~Has(p, a) /\ BeginCopy(p, a, kind)
  \/ /\ Free(p) /\ Has(p, a)
     /\ slots' = [slots EXCEPT ![p][a] = RanOn(@, kind)]
     /\ past' = [past EXCEPT ![p][a] = Noted(@, kind)]
     /\ UNCHANGED <<versions, copying, hour>>

DropSandbox(p, a) == Free(p) /\ Has(p, a) /\ GivenUp(p, a) /\ UNCHANGED <<versions, copying, hour>>

StaleSinceMade(slot) == slot.createdAt < hour - SlotIdle       \* mutant: looks at when the copy was made
StaleSlot(slot) == slot.lastUsedAt < hour - SlotIdle
Prune(p) ==
  /\ Free(p) /\ \E a \in Consoles : Has(p, a)
  /\ slots' = [slots EXCEPT ![p] = [a \in Consoles |-> IF Has(p, a) /\ StaleSlot(@[a]) THEN Absent ELSE @[a]]]
  /\ UNCHANGED <<versions, copying, hour, past>>

Restart(p) ==
  /\ slots' = [slots EXCEPT ![p] = [a \in Consoles |-> Absent]]
  /\ copying' = [copying EXCEPT ![p] = Absent]
  /\ past' = [past EXCEPT ![p] = [a \in Consoles |-> Absent]]
  /\ UNCHANGED <<versions, hour>>

SandboxNext ==
  \/ HourPasses
  \/ \E p \in SqlProcs :
       \/ Commit(p) \/ CopyTable(p) \/ CopyEnds(p) \/ Prune(p) \/ Restart(p)
       \/ \E a \in Consoles :
            \/ BeginCopy(p, a, "reads") \/ ResetFails(p, a) \/ DropSandbox(p, a)
            \/ \E kind \in {"reads", "writes"} : (Has(p, a) => slots[p][a].own < MaxStatements) /\ RunSql(p, a, kind)

----------------------------------------------------------------------------
(***************************************************************************)
(* The saved query.  Every request looks it up by id and owner first, and  *)
(* writes it by id alone later.                                            *)
(***************************************************************************)
Ended(a) == visit' = [visit EXCEPT ![a] = Absent]
AnyOnes(a) == query # Absent                                    \* mutant: looked up by id alone
Found(a) == query # Absent /\ query.owner = a
At(a, step) == visit[a] # Absent /\ visit[a].step = step
Arrives(a) ==
  /\ visit[a] = Absent /\ given.visits < MaxVisits
  /\ given' = [given EXCEPT !.visits = @ + 1]

CreateQuery(a) ==
  /\ Arrives(a) /\ query = Absent /\ given.texts = {}
  /\ \E kind \in Statements : visit' = [visit EXCEPT ![a] = [step |-> "insert", text |-> kind]]
  /\ query' = query

InsertQuery(a) ==
  /\ At(a, "insert") /\ query = Absent /\ given.texts = {} /\ Ended(a)
  /\ query' = [owner |-> a, text |-> visit[a].text, last |-> Absent]
  /\ given' = [given EXCEPT !.texts = {visit[a].text}, !.by = {a}]

\* Once the query was there its id may be asked for.
Asks(a) ==
  /\ Arrives(a) /\ given.texts # {} /\ query' = query
  /\ \/ ~Found(a) /\ visit' = visit
     \/ /\ Found(a)
        /\ \/ \E kind \in Statements : visit' = [visit EXCEPT ![a] = [step |-> "update", text |-> kind]]
           \/ \E next \in {"delete", "run"} : visit' = [visit EXCEPT ![a] = [step |-> next, text |-> query.text]]

UpdateQuery(a) ==
  /\ At(a, "update") /\ Ended(a)
  /\ IF query = Absent THEN UNCHANGED <<query, given>>
     ELSE /\ query' = [query EXCEPT !.text = visit[a].text]
          /\ given' = [given EXCEPT !.texts = @ \cup {visit[a].text}, !.by = @ \cup {a}]

DeleteQuery(a) == At(a, "delete") /\ Ended(a) /\ query' = Absent /\ given' = given

\* runSql: what a run answers.  Read only, a statement that names a write is refused, and the
\* connection refuses one that writes.
Succeeds(kind, mode) == kind = "reads" \/ (mode = "sandbox" /\ kind # "fails")
RunQuery(a) ==
  /\ At(a, "run") /\ UNCHANGED <<query, given>>
  /\ \E mode \in {"readonly", "sandbox"} :
       visit' = [visit EXCEPT ![a] = [step |-> "find", text |-> @.text, ok |-> Succeeds(@.text, mode)]]

\* recordSavedQueryRun: the query is looked up again.
FindAgain(a) ==
  /\ At(a, "find") /\ UNCHANGED <<query, given>>
  /\ visit' = [visit EXCEPT ![a] = IF Found(a) THEN [@ EXCEPT !.step = "record"] ELSE Absent]

RecordRun(a) ==
  /\ At(a, "record") /\ Ended(a) /\ given' = given
  /\ query' = IF query = Absent THEN query
              ELSE [query EXCEPT !.last = [text |-> visit[a].text, ok |-> visit[a].ok]]

SavedNext ==
  \E a \in Consoles : CreateQuery(a) \/ InsertQuery(a) \/ Asks(a) \/ UpdateQuery(a) \/ DeleteQuery(a)
                         \/ RunQuery(a) \/ FindAgain(a) \/ RecordRun(a)

SandboxSpec ==
  SandboxInit /\ [][(SandboxNext /\ UNCHANGED savedVars) \/ (SavedNext /\ UNCHANGED sandboxVars)]_<<sandboxVars, savedVars>>

----------------------------------------------------------------------------
\* A copy that its administrator used within the idle time is still there, until it is
\* given up or its process ends; what it holds is, of every table, the rows of some moment
\* while it was made, or none, and what its administrator did since in that process: of
\* other processes' commits none, but those that came while it was made.
CopyIs(slot, note) ==
  /\ slot.own = note.ran
  /\ \A t \in TableIds : slot.tables[t] = Empty \/ slot.tables[t] \in note.begun[t]..note.ended[t]
  /\ Cardinality(SqlProcs) = 1 => note.begun = note.ended
CopiesKept ==
  \A p \in SqlProcs, a \in Consoles :
    /\ Has(p, a) => past[p][a] # Absent /\ CopyIs(slots[p][a], past[p][a])
    /\ past[p][a] # Absent => past[p][a].used < hour - SlotIdle \/ Has(p, a)

\* A saved query is its owner's: no other's request changes it, or its last run; a failed run
\* shown with it is that of a text it had, which its owner may have corrected since.
QueriesKept ==
  /\ Cardinality(given.by) <= 1
  /\ query # Absent =>
       /\ query.text \in given.texts /\ given.by = {query.owner}
       /\ query.last # Absent => query.last.text \in given.texts /\ (query.last.text = "fails" => ~query.last.ok)

SandboxKept == CopiesKept /\ QueriesKept
=============================================================================
