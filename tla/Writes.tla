--------------------------------- MODULE Writes ---------------------------------
(***************************************************************************)
(* How a record gets into its table and is announced: createRecord and     *)
(* updateRecord of src/src/core/records.ts, called by the records API and,  *)
(* row by row, by the CSV import, with the hooks of src/src/core/hooks.ts   *)
(* before and after and the validation of src/src/core/validate.ts between. *)
(* One process and one collection with a unique field; every await lets    *)
(* other requests in.                                                      *)
(***************************************************************************)
EXTENDS Integers, Sequences, FiniteSets, SequencesExt

CONSTANTS Writers,      \* requests
          HookOrder,    \* the collection's hooks in the order of their rows
          Contents, Valid,      \* what the field may be sent, and what passes validateValue
          Blank,        \* no record
          MaxRows       \* for TLC: rows of an import

ASSUME WritesAssumption == Valid \subseteq Contents /\ Blank \notin Contents /\ MaxRows \in Nat \ {0}

VARIABLES recs,         \* the table
          uniqueness,   \* what keeps the field's values apart
          hooksOn,      \* hooks enabled
          writer,       \* the request
          after,        \* of each row written: the after hooks still to run
          unseen,       \* history, of a request: records stored since it validated its row
          overlaps      \* history: pairs of records, one stored unseen by the other's request

uniqueVars == <<uniqueness, unseen, overlaps>>
writeVars == <<recs, hooksOn, writer, after, uniqueVars>>

\* A UNIQUE constraint, for a field that was unique when the table was made, beside
\* validation's own look at the table; that alone, for one made unique later; neither, for a
\* field that is encrypted too, whose column has each value under an IV of its own.
Uniqueness == {"constraint", "check", "cipher"}

HooksOf(on) == SelectSeq(HookOrder, LAMBDA h : h \in on)
AllHooks == {HookOrder[n] : n \in DOMAIN HookOrder}
Seeded == <<"seed", 0>>
RecIds == {Seeded} \cup (Writers \X (1..MaxRows))

(***************************************************************************)
(* A request: what it does (an import is a create for each row), the rows  *)
(* it was sent and the one it is at; of that row the data as hooks have    *)
(* left it, the hooks to pass and how many it has passed.  torn counts     *)
(* rows that were stored and then failed.                                  *)
(***************************************************************************)
Call(kind, rows) ==
  [kind |-> kind, rows |-> rows, row |-> 1, data |-> rows[1], hooks |-> <<>>, passed |-> 0,
   at |-> "idle", stored |-> 0, told |-> 0, created |-> 0, failed |-> 0, torn |-> 0]

WritesInit ==
  /\ recs \in [RecIds -> Valid \cup {Blank}] /\ \A i \in RecIds \ {Seeded} : recs[i] = Blank
  /\ hooksOn \in SUBSET AllHooks
  /\ writer \in [Writers -> {Call(k, <<v>>) : k \in {"create", "patch"}, v \in Contents}
                            \cup {Call("import", r) : r \in [1..MaxRows -> Contents]}]
  /\ after = [i \in RecIds |-> <<>>]
  /\ uniqueness \in Uniqueness /\ unseen = [w \in Writers |-> {}] /\ overlaps = {}

Target(w) == IF writer[w].kind = "patch" THEN Seeded ELSE <<w, writer[w].row>>
Moves(w, r) == writer' = [writer EXCEPT ![w] = r]

----------------------------------------------------------------------------
\* A row is over: an import goes on with the next one, an API request is answered.
RowOver(r) ==
  IF r.row < Len(r.rows)
  THEN [r EXCEPT !.at = "idle", !.row = @ + 1, !.data = r.rows[r.row + 1], !.hooks = <<>>, !.passed = 0]
  ELSE [r EXCEPT !.at = "answered"]
Refused(r) == RowOver([r EXCEPT !.failed = @ + 1])

\* createRecord and updateRecord; a patch of no record is refused.
Begin(w) ==
  /\ writer[w].at = "idle"
  /\ IF writer[w].kind = "patch" /\ recs[Seeded] = Blank THEN Moves(w, Refused(writer[w]))
     ELSE Moves(w, [writer[w] EXCEPT !.at = "lookup"])
  /\ UNCHANGED <<recs, hooksOn, after, uniqueVars>>

\* runBeforeHook: the hooks enabled now, then one after the other; each may change the data,
\* or ends the request when it throws or outlasts execution.timeout_ms.
LookUp(w) ==
  /\ writer[w].at = "lookup" /\ Moves(w, [writer[w] EXCEPT !.at = "hooks", !.hooks = HooksOf(hooksOn)])
  /\ UNCHANGED <<recs, hooksOn, after, uniqueVars>>

HooksLeft(r) == r.passed # Len(r.hooks)
BeforeHook(w, v) ==
  /\ writer[w].at = "hooks" /\ HooksLeft(writer[w])
  /\ Moves(w, [writer[w] EXCEPT !.passed = @ + 1, !.data = v])
  /\ UNCHANGED <<recs, hooksOn, after, uniqueVars>>

HookThrows(w) ==
  /\ writer[w].at = "hooks" /\ HooksLeft(writer[w]) /\ Moves(w, Refused(writer[w]))
  /\ UNCHANGED <<recs, hooksOn, after, uniqueVars>>

\* validateRecord, of what the hooks left: its form, and no other record is seen to have it.
AsSent(r) == r.rows[r.row]                                     \* mutant: validated as it was sent
Checked(r) == r.data
Elsewhere(v, i) == \E j \in RecIds \ {i} : recs[j] = v

Validate(w) ==
  LET v == Checked(writer[w])  taken == uniqueness # "cipher" /\ Elsewhere(v, Target(w)) IN
  /\ writer[w].at = "hooks" /\ ~HooksLeft(writer[w])
  /\ Moves(w, IF v \in Valid /\ ~taken THEN [writer[w] EXCEPT !.at = "store"] ELSE Refused(writer[w]))
  /\ unseen' = [unseen EXCEPT ![w] = {}]
  /\ UNCHANGED <<recs, hooksOn, after, uniqueness, overlaps>>

\* After encodeForStorage: the INSERT, or the UPDATE, which a UNIQUE constraint may refuse;
\* a record that is gone is not there to be read back, an error too.
Store(w) ==
  LET i == Target(w)  r == writer[w] IN
  /\ r.at = "store"
  /\ IF (uniqueness = "constraint" /\ Elsewhere(r.data, i)) \/ (r.kind = "patch" /\ recs[i] = Blank)
     THEN Moves(w, Refused(r)) /\ UNCHANGED <<recs, unseen, overlaps>>
     ELSE /\ recs' = [recs EXCEPT ![i] = r.data] /\ Moves(w, [r EXCEPT !.at = "record", !.stored = @ + 1])
          /\ unseen' = [x \in Writers |-> IF x # w /\ writer[x].at = "store" THEN unseen[x] \cup {i} ELSE {}]
          /\ overlaps' = {o \in overlaps : i \notin o} \cup {{i, j} : j \in unseen[w] \ {i}}
  /\ UNCHANGED <<hooksOn, after, uniqueness>>

\* maybeRecordHistory, whose error fails the request when the row is stored.
Record(w) ==
  /\ writer[w].at = "record" /\ Moves(w, [writer[w] EXCEPT !.at = "tell"])
  /\ UNCHANGED <<recs, hooksOn, after, uniqueVars>>

HistoryFails(w) ==
  /\ writer[w].at = "record" /\ Moves(w, Refused([writer[w] EXCEPT !.torn = @ + 1]))
  /\ UNCHANGED <<recs, hooksOn, after, uniqueVars>>

\* Then all at once the event, the webhooks and the after hooks, which nobody awaits.
Tell(w) ==
  /\ writer[w].at = "tell"
  /\ Moves(w, RowOver([writer[w] EXCEPT !.told = @ + 1, !.created = @ + 1]))
  /\ after' = [after EXCEPT ![Target(w)] = @ \o HooksOf(hooksOn)]
  /\ UNCHANGED <<recs, hooksOn, uniqueVars>>

\* An after hook ends, whatever it throws.
AfterHook(i) ==
  /\ after[i] # <<>> /\ after' = [after EXCEPT ![i] = Tail(@)]
  /\ UNCHANGED <<recs, hooksOn, writer, uniqueVars>>

----------------------------------------------------------------------------
\* Meanwhile records are deleted, and hooks switched on and off.
Deleted(i) ==
  /\ recs[i] # Blank /\ recs' = [recs EXCEPT ![i] = Blank]
  /\ UNCHANGED <<hooksOn, writer, after, uniqueVars>>

Toggle(h) ==
  /\ hooksOn' = IF h \in hooksOn THEN hooksOn \ {h} ELSE hooksOn \cup {h}
  /\ UNCHANGED <<recs, writer, after, uniqueVars>>

\* The process dies, with every request and after hook in it.
Die ==
  /\ writer' = [w \in Writers |-> [writer[w] EXCEPT !.at = "dead"]]
  /\ after' = [i \in RecIds |-> <<>>]
  /\ UNCHANGED <<recs, hooksOn, uniqueVars>>

WritesNext ==
  \/ \E w \in Writers :
       \/ Begin(w) \/ LookUp(w) \/ HookThrows(w) \/ Validate(w) \/ Store(w)
       \/ Record(w) \/ HistoryFails(w) \/ Tell(w)
       \/ \E v \in Contents : BeforeHook(w, v)
  \/ \E i \in RecIds : AfterHook(i) \/ Deleted(i)
  \/ \E h \in AllHooks : Toggle(h)
  \/ (\E w \in Writers : writer[w].at \notin {"answered", "dead"}) /\ Die

WritesSpec == WritesInit /\ [][WritesNext]_writeVars

----------------------------------------------------------------------------
\* Whatever hooks do to the data and requests to each other's: every record stored is valid,
\* and two have the same value in a unique field only when the field is encrypted, or was
\* made unique later and one was stored between the other's validation and its own INSERT.
Excused(i, j) == uniqueness = "cipher" \/ (uniqueness = "check" /\ {i, j} \in overlaps)
TableSound ==
  /\ \A i \in RecIds : recs[i] # Blank => recs[i] \in Valid
  /\ \A i, j \in RecIds : i # j /\ recs[i] = recs[j] /\ recs[i] # Blank => Excused(i, j)

\* And requests are answered for what they did: each row that is stored passed all the
\* hooks it was to pass and is announced once, none that is refused is stored, an import
\* counts its rows right; but for rows whose history could not be written, and the one a
\* crash interrupts.
AnsweredTruly ==
  \A w \in Writers :
    LET r == writer[w]  storing == IF r.at \in {"record", "tell"} THEN 1 ELSE 0 IN
    /\ storing = 1 => r.passed = Len(r.hooks)
    /\ r.at # "dead" => /\ r.stored = r.created + r.torn + storing /\ r.told = r.created
                        /\ r.told = 0 /\ r.kind # "patch" => \A n \in 1..MaxRows : after[<<w, n>>] = <<>>
                        /\ r.created + r.failed = IF r.at = "answered" THEN Len(r.rows) ELSE r.row - 1
    /\ r.at = "dead" => r.stored - (r.told + r.torn) \in {0, 1}

WrittenSound == TableSound /\ AnsweredTruly
=============================================================================
