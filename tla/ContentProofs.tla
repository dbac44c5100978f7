----------------------------- MODULE ContentProofs -----------------------------
(***************************************************************************)
(* Theorems about what requests leave behind: records are stored valid and *)
(* unique and requests are answered for what they did (Writes), files are  *)
(* whole, gone when deleted and handed out once by a one-time token        *)
(* (Files), notices reach those they are for (Notifications), what an      *)
(* agent calls is what its token may do, within the limits (Tools), a      *)
(* client that pages sees what stays once (Paging), collections have the   *)
(* tables of their fields and snapshots do what they tell (Schema,         *)
(* Snapshots), a flag is what its rules make of its prerequisites (Flags), *)
(* and a file of exported records reads back as what they were (Csv).      *)
(***************************************************************************)
EXTENDS Writes, Files, Notifications, Tools, Paging, Snapshots, Flags, Csv, SequenceTheorems,
        FiniteSetTheorems, WellFoundedInduction, TLAPS

(***************************************************************************)
(* The state of a request, and what is so of it wherever it is.            *)
(***************************************************************************)
HookLists == {HooksOf(on) : on \in SUBSET AllHooks} \cup {<<>>}
WriterState ==
  [kind : {"create", "patch", "import"}, rows : Seq(Contents), row : Nat, data : Contents,
   hooks : HookLists, passed : Nat,
   at : {"idle", "lookup", "hooks", "store", "record", "tell", "answered", "dead"},
   stored : Nat, told : Nat, created : Nat, failed : Nat, torn : Nat]

Storing(r) == IF r.at \in {"record", "tell"} THEN 1 ELSE 0
Placed(r) == r \in WriterState /\ r.row \in 1..Len(r.rows)
Vetted(r) == /\ r.at \in {"store", "record", "tell"} => r.passed = Len(r.hooks)
             /\ r.at = "store" => r.data \in Valid
Tallied(r) ==
  /\ r.at # "dead" => /\ r.stored = r.created + r.torn + Storing(r) /\ r.told = r.created
                      /\ r.created + r.failed = IF r.at = "answered" THEN Len(r.rows) ELSE r.row - 1
  /\ r.at = "dead" => r.stored - (r.told + r.torn) \in {0, 1}
Good(r) == Placed(r) /\ Vetted(r) /\ Tallied(r)

(* What changes when a row is over, of which one more was told or failed.  *)
NextRow(r, s) ==
  /\ Placed(s) /\ s.at \in {"idle", "answered"}
  /\ s.at = "idle" => s.row = r.row + 1
  /\ s.at = "answered" => r.row = Len(s.rows)
  /\ s.rows = r.rows /\ s.kind = r.kind /\ s.stored = r.stored /\ s.told = r.told
  /\ s.created = r.created /\ s.failed = r.failed /\ s.torn = r.torn

LEMMA RowOverStep == ASSUME NEW r, Placed(r) PROVE NextRow(r, RowOver(r))
<1>1. Len(r.rows) \in Nat /\ \A n \in 1..Len(r.rows) : r.rows[n] \in Contents
  BY DEF Placed, WriterState
<1>2. <<>> \in HookLists
  BY DEF HookLists
<1>3. CASE r.row < Len(r.rows)
  <2>1. r.rows[r.row + 1] \in Contents /\ r.row + 1 \in 1..Len(r.rows) /\ r.row + 1 \in Nat
    BY <1>1, <1>3 DEF Placed
  <2> DEFINE s == [r EXCEPT !.at = "idle", !.row = @ + 1, !.data = r.rows[r.row + 1],
                            !.hooks = <<>>, !.passed = 0]
  <2>2. RowOver(r) = s
    BY <1>3 DEF RowOver
  <2>3. s \in WriterState
    BY <1>2, <2>1 DEF WriterState, Placed
  <2>4. s.row = r.row + 1 /\ s.rows = r.rows /\ s.at = "idle" /\ s.kind = r.kind
    BY DEF WriterState, Placed
  <2>5. s.stored = r.stored /\ s.told = r.told /\ s.created = r.created /\ s.failed = r.failed /\ s.torn = r.torn
    BY DEF WriterState, Placed
  <2> HIDE DEF s
  <2>6. QED
    BY <2>1, <2>2, <2>3, <2>4, <2>5 DEF Placed, NextRow
<1>4. CASE ~(r.row < Len(r.rows))
  <2> DEFINE s == [r EXCEPT !.at = "answered"]
  <2>1. RowOver(r) = s
    BY <1>4 DEF RowOver
  <2>2. s \in WriterState
    BY DEF WriterState, Placed
  <2>3. s.row = r.row /\ s.rows = r.rows /\ s.at = "answered" /\ s.kind = r.kind
    BY DEF WriterState, Placed
  <2>4. s.stored = r.stored /\ s.told = r.told /\ s.created = r.created /\ s.failed = r.failed /\ s.torn = r.torn
    BY DEF WriterState, Placed
  <2>5. r.row = Len(r.rows)
    BY <1>1, <1>4 DEF Placed
  <2> HIDE DEF s
  <2>6. QED
    BY <1>1, <2>1, <2>2, <2>3, <2>4, <2>5 DEF Placed, NextRow
<1>5. QED
  BY <1>3, <1>4

(* A row that is refused counts as failed.                                 *)
LEMMA RefusedStep ==
  ASSUME NEW r, Placed(r) PROVE NextRow([r EXCEPT !.failed = @ + 1], Refused(r))
<1>1. Placed([r EXCEPT !.failed = @ + 1])
  BY DEF Placed, WriterState
<1>2. QED
  BY <1>1, RowOverStep DEF Refused

LEMMA WellTyped ==
  ASSUME NEW r \in WriterState, NEW x \in Nat, NEW y \in Nat, NEW v \in Contents
  PROVE  /\ [r EXCEPT !.told = x, !.created = y] \in WriterState
         /\ [r EXCEPT !.passed = x, !.data = v] \in WriterState
         /\ [r EXCEPT !.at = "record", !.stored = x] \in WriterState
<1>1. [r EXCEPT !.told = x, !.created = y] \in WriterState
  BY DEF WriterState
<1>2. [r EXCEPT !.passed = x, !.data = v] \in WriterState
  BY DEF WriterState
<1>3. [r EXCEPT !.at = "record", !.stored = x] \in WriterState
  BY DEF WriterState
<1>4. QED
  BY <1>1, <1>2, <1>3

(***************************************************************************)
(* Each step of a request leaves it good.                                  *)
(***************************************************************************)
LEMMA RefusedGood ==
  ASSUME NEW r, Good(r), r.at \in {"idle", "hooks", "store"}
  PROVE  /\ Good(Refused(r)) /\ Refused(r).told = r.told /\ Refused(r).kind = r.kind
         /\ Refused(r).at # "store"
<1> DEFINE f == [r EXCEPT !.failed = @ + 1]
           s == Refused(r)
<1>1. NextRow(f, s)
  BY RefusedStep DEF Good
<1>2. /\ f.row = r.row /\ f.rows = r.rows /\ f.kind = r.kind /\ f.stored = r.stored /\ f.told = r.told
      /\ f.created = r.created /\ f.failed = r.failed + 1 /\ f.torn = r.torn
  BY DEF Good, Placed, WriterState
<1>3. /\ r.row \in Nat /\ r.created \in Nat /\ r.failed \in Nat /\ r.torn \in Nat
      /\ r.stored = r.created + r.torn /\ r.told = r.created /\ r.created + r.failed = r.row - 1
  BY DEF Good, Placed, WriterState, Tallied, Storing
<1> HIDE DEF f, s
<1>4. Tallied(s)
  <2>1. s.at \in {"idle", "answered"} /\ Storing(s) = 0
    BY <1>1 DEF NextRow, Storing
  <2>2. s.stored = r.stored /\ s.told = r.told /\ s.created = r.created /\ s.torn = r.torn
    BY <1>1, <1>2 DEF NextRow
  <2>3. s.created + s.failed = r.row
    <3>1. s.created = r.created /\ s.failed = r.failed + 1
      BY <1>1, <1>2 DEF NextRow
    <3>2. QED
      BY <3>1, <1>3
  <2>4. s.at = "idle" => s.row - 1 = r.row
    BY <1>1, <1>2, <1>3 DEF NextRow
  <2>5. s.at = "answered" => Len(s.rows) = r.row
    BY <1>1, <1>2, <1>3 DEF NextRow
  <2>6. s.stored = s.created + s.torn + 0
    BY <2>2, <1>3
  <2>7. QED
    BY <1>3, <2>1, <2>2, <2>3, <2>4, <2>5, <2>6 DEF Tallied
<1>5. Placed(s) /\ Vetted(s) /\ s.told = r.told /\ s.kind = r.kind /\ s.at # "store"
  BY <1>1, <1>2 DEF NextRow, Vetted
<1>6. QED
  BY <1>4, <1>5 DEF Good, s

LEMMA TornGood ==
  ASSUME NEW r, Good(r), r.at = "record"
  PROVE  LET s == Refused([r EXCEPT !.torn = @ + 1]) IN
         Good(s) /\ s.told = r.told /\ s.kind = r.kind /\ s.at # "store"
<1> DEFINE t == [r EXCEPT !.torn = @ + 1]
           f == [t EXCEPT !.failed = @ + 1]
           s == Refused(t)
<1>1. Placed(t)
  BY DEF Good, Placed, WriterState
<1>2. NextRow(f, s)
  BY <1>1, RefusedStep
<1>3. /\ f.row = r.row /\ f.rows = r.rows /\ f.kind = r.kind /\ f.stored = r.stored /\ f.told = r.told
      /\ f.created = r.created /\ f.failed = r.failed + 1 /\ f.torn = r.torn + 1
  BY DEF Good, Placed, WriterState
<1>4. /\ r.row \in Nat /\ r.created \in Nat /\ r.failed \in Nat /\ r.torn \in Nat
      /\ r.stored = r.created + r.torn + 1 /\ r.told = r.created /\ r.created + r.failed = r.row - 1
  BY DEF Good, Placed, WriterState, Tallied, Storing
<1> HIDE DEF t, f, s
<1>5. Tallied(s)
  <2>1. s.at \in {"idle", "answered"} /\ Storing(s) = 0
    BY <1>2 DEF NextRow, Storing
  <2>2. s.stored = r.stored /\ s.told = r.told /\ s.created = r.created /\ s.torn = r.torn + 1
    BY <1>2, <1>3 DEF NextRow
  <2>3. s.created + s.failed = r.row
    <3>1. s.created = r.created /\ s.failed = r.failed + 1
      BY <1>2, <1>3 DEF NextRow
    <3>2. QED
      BY <3>1, <1>4
  <2>4. s.at = "idle" => s.row - 1 = r.row
    BY <1>2, <1>3, <1>4 DEF NextRow
  <2>5. s.at = "answered" => Len(s.rows) = r.row
    BY <1>2, <1>3 DEF NextRow
  <2>6. s.stored = s.created + s.torn + 0
    BY <2>2, <1>4
  <2>7. QED
    BY <1>4, <2>1, <2>2, <2>3, <2>4, <2>5, <2>6 DEF Tallied
<1>6. Placed(s) /\ Vetted(s) /\ s.told = r.told /\ s.kind = r.kind /\ s.at # "store"
  BY <1>2, <1>3 DEF NextRow, Vetted
<1>7. QED
  BY <1>5, <1>6 DEF Good, s, t

LEMMA ToldGood ==
  ASSUME NEW r, Good(r), r.at = "tell"
  PROVE  LET s == RowOver([r EXCEPT !.told = @ + 1, !.created = @ + 1]) IN
         Good(s) /\ s.told # 0 /\ s.at # "store"
<1> DEFINE t == [r EXCEPT !.told = @ + 1, !.created = @ + 1]
           s == RowOver(t)
<1>1. Placed(t)
  <2>1. t \in WriterState
    <3>1. r \in WriterState
      BY DEF Good, Placed
    <3>2. r.told + 1 \in Nat /\ r.created + 1 \in Nat /\ r.data \in Contents
      BY <3>1 DEF WriterState
    <3>3. QED
      BY <3>1, <3>2, WellTyped
  <2>2. t.row = r.row /\ t.rows = r.rows
    BY DEF Good, Placed, WriterState
  <2> HIDE DEF t
  <2>3. QED
    BY <2>1, <2>2 DEF Good, Placed
<1>2. NextRow(t, s)
  BY <1>1, RowOverStep
<1>3. /\ t.row = r.row /\ t.rows = r.rows /\ t.stored = r.stored /\ t.told = r.told + 1
      /\ t.created = r.created + 1 /\ t.failed = r.failed /\ t.torn = r.torn
  BY DEF Good, Placed, WriterState
<1>4. /\ r.row \in Nat /\ r.created \in Nat /\ r.failed \in Nat /\ r.torn \in Nat
      /\ r.stored = r.created + r.torn + 1 /\ r.told = r.created /\ r.created + r.failed = r.row - 1
  BY DEF Good, Placed, WriterState, Tallied, Storing
<1> HIDE DEF t, s
<1>5. Tallied(s) /\ s.told # 0
  <2>1. s.at \in {"idle", "answered"} /\ Storing(s) = 0
    BY <1>2 DEF NextRow, Storing
  <2>2. s.stored = r.stored /\ s.told = r.told + 1 /\ s.created = r.created + 1 /\ s.torn = r.torn
    BY <1>2, <1>3 DEF NextRow
  <2>3. s.created + s.failed = r.row
    <3>1. s.failed = r.failed
      BY <1>2, <1>3 DEF NextRow
    <3>2. QED
      BY <3>1, <2>2, <1>4
  <2>4. s.at = "idle" => s.row - 1 = r.row
    BY <1>2, <1>3, <1>4 DEF NextRow
  <2>5. s.at = "answered" => Len(s.rows) = r.row
    BY <1>2, <1>3 DEF NextRow
  <2>6. s.stored = s.created + s.torn + 0 /\ s.told # 0 /\ s.told = s.created
    BY <2>2, <1>4
  <2>7. QED
    BY <1>4, <2>1, <2>2, <2>3, <2>4, <2>5, <2>6 DEF Tallied
<1>6. Placed(s) /\ Vetted(s) /\ s.at # "store"
  BY <1>2 DEF NextRow, Vetted
<1>7. QED
  BY <1>5, <1>6 DEF Good, s, t

(* Steps within a row: only the place, the data or the hooks change.       *)
LEMMA StaysGood ==
  ASSUME NEW r, Good(r)
  PROVE  /\ r.at = "idle" => Good([r EXCEPT !.at = "lookup"])
         /\ r.at = "lookup" =>
              \A l \in HookLists : Good([r EXCEPT !.at = "hooks", !.hooks = l])
         /\ r.at = "hooks" => \A v \in Contents : Good([r EXCEPT !.passed = @ + 1, !.data = v])
         /\ r.at = "hooks" /\ r.passed = Len(r.hooks) /\ r.data \in Valid => Good([r EXCEPT !.at = "store"])
         /\ r.at = "store" => Good([r EXCEPT !.at = "record", !.stored = @ + 1])
         /\ r.at = "record" => Good([r EXCEPT !.at = "tell"])
         /\ Good([r EXCEPT !.at = "dead"])
<1>0. r \in WriterState
  BY DEF Good, Placed
<1> USE DEF Good, Placed, WriterState, Vetted, Tallied, Storing
<1>1. r.at = "idle" => Good([r EXCEPT !.at = "lookup"])
  OBVIOUS
<1>2. ASSUME r.at = "lookup", NEW l \in HookLists PROVE Good([r EXCEPT !.at = "hooks", !.hooks = l])
  BY <1>2
<1>3. ASSUME r.at = "hooks", NEW v \in Contents PROVE Good([r EXCEPT !.passed = @ + 1, !.data = v])
  <2> DEFINE s == [r EXCEPT !.passed = @ + 1, !.data = v]
  <2>1. s \in WriterState
    <3>1. r.passed + 1 \in Nat /\ r.data \in Contents
      BY <1>0
    <3> HIDE DEF Good, Placed, WriterState, Vetted, Tallied, Storing
    <3>2. QED
      BY <1>0, <3>1, WellTyped
  <2>2. /\ s.at = "hooks" /\ s.row = r.row /\ s.rows = r.rows /\ s.stored = r.stored /\ s.told = r.told
        /\ s.created = r.created /\ s.failed = r.failed /\ s.torn = r.torn
    BY <1>3
  <2> HIDE DEF s
  <2>3. Good(s)
    BY <1>3, <2>1, <2>2
  <2>4. QED
    BY <2>3 DEF s
<1>4. r.at = "hooks" /\ r.passed = Len(r.hooks) /\ r.data \in Valid => Good([r EXCEPT !.at = "store"])
  OBVIOUS
<1>5. ASSUME r.at = "store" PROVE Good([r EXCEPT !.at = "record", !.stored = @ + 1])
  <2> DEFINE s == [r EXCEPT !.at = "record", !.stored = @ + 1]
  <2>1. s \in WriterState
    <3>1. r.stored + 1 \in Nat /\ r.data \in Contents
      BY <1>0
    <3> HIDE DEF Good, Placed, WriterState, Vetted, Tallied, Storing
    <3>2. QED
      BY <1>0, <3>1, WellTyped
  <2>2. /\ s.at = "record" /\ s.row = r.row /\ s.rows = r.rows /\ s.stored = r.stored + 1 /\ s.told = r.told
        /\ s.created = r.created /\ s.failed = r.failed /\ s.torn = r.torn
        /\ s.passed = r.passed /\ s.hooks = r.hooks
    BY <1>5
  <2> HIDE DEF s
  <2>3. Placed(s) /\ Vetted(s)
    BY <1>5, <2>1, <2>2
  <2>4. Tallied(s)
    <3>1. /\ r.created \in Nat /\ r.torn \in Nat
          /\ r.stored = r.created + r.torn + 0 /\ r.told = r.created /\ r.created + r.failed = r.row - 1
      BY <1>5
    <3>2. s.stored = s.created + s.torn + Storing(s)
      BY <2>2, <3>1
    <3>3. QED
      BY <2>2, <3>1, <3>2
  <2>5. QED
    BY <2>3, <2>4 DEF s
<1>6. r.at = "record" => Good([r EXCEPT !.at = "tell"])
  OBVIOUS
<1>7. Good([r EXCEPT !.at = "dead"])
  <2> DEFINE s == [r EXCEPT !.at = "dead"]
  <2>1. s \in WriterState
    <3> HIDE DEF Good, Placed, Vetted, Tallied, Storing
    <3>1. QED
      BY <1>0
  <2>2. /\ s.at = "dead" /\ s.row = r.row /\ s.rows = r.rows /\ s.stored = r.stored /\ s.told = r.told
        /\ s.torn = r.torn
    OBVIOUS
  <2> HIDE DEF s
  <2>3. /\ r.created \in Nat /\ r.torn \in Nat /\ r.told \in Nat /\ r.stored \in Nat
    OBVIOUS
  <2>4. r.stored - (r.told + r.torn) \in {0, 1}
    <3>1. CASE r.at = "dead"
      BY <3>1
    <3>2. CASE r.at # "dead"
      <4>1. r.stored = r.created + r.torn + Storing(r) /\ r.told = r.created
        BY <3>2
      <4>2. Storing(r) \in {0, 1}
        OBVIOUS
      <4> HIDE DEF Storing
      <4>3. QED
        BY <2>3, <4>1, <4>2
    <3>3. QED
      BY <3>1, <3>2
  <2>5. Placed(s) /\ Vetted(s) /\ Tallied(s)
    BY <2>1, <2>2, <2>4
  <2>6. QED
    BY <2>5 DEF s
<1>8. QED
  BY <1>1, <1>2, <1>3, <1>4, <1>5, <1>6, <1>7

(***************************************************************************)
(* The invariant: the table, what a request about to store knows of it,    *)
(* each request, and the after hooks of the rows of a request that told    *)
(* nothing.                                                                *)
(***************************************************************************)
Table == /\ recs \in [RecIds -> Valid \cup {Blank}]
         /\ \A i, j \in RecIds : i # j /\ recs[i] = recs[j] /\ recs[i] # Blank => Excused(i, j)
Aware(w) == writer[w].at = "store" /\ uniqueness # "cipher" =>
              \A j \in RecIds : j # Target(w) /\ recs[j] = writer[w].data => j \in unseen[w]
AllAware == /\ unseen = [w \in Writers |-> unseen[w]] /\ uniqueness \in Uniqueness
            /\ \A w \in Writers : Aware(w)
Running == writer \in [Writers -> WriterState] /\ \A w \in Writers : Good(writer[w])
Silent(w) == writer[w].at # "dead" /\ writer[w].told = 0 /\ writer[w].kind # "patch"
Quiet == /\ after = [i \in RecIds |-> after[i]]
         /\ \A w \in Writers : Silent(w) => \A n \in 1..MaxRows : after[<<w, n>>] = <<>>
IInv == Table /\ AllAware /\ Running /\ Quiet /\ hooksOn \in SUBSET AllHooks

LEMMA ImpliesSound == IInv => WrittenSound
<1> SUFFICES ASSUME IInv PROVE TableSound /\ AnsweredTruly
  BY DEF WrittenSound
<1>1. TableSound
  BY DEF IInv, Table, TableSound
<1>2. ASSUME NEW w \in Writers PROVE Vetted(writer[w]) /\ Tallied(writer[w])
  BY DEF IInv, Running, Good
<1>3. AnsweredTruly
  BY <1>2 DEF IInv, Quiet, Silent, AnsweredTruly, Vetted, Tallied, Storing
<1>4. QED
  BY <1>1, <1>3

(* A request that comes to another good state leaves the others as they are. *)
LEMMA OneMoves ==
  ASSUME Running, NEW w \in Writers, NEW s, Good(s), Moves(w, s)
  PROVE  Running' /\ writer'[w] = s /\ \A u \in Writers \ {w} : writer'[u] = writer[u]
<1>1. s \in WriterState
  BY DEF Good, Placed
<1>2. writer' = [writer EXCEPT ![w] = s] /\ writer \in [Writers -> WriterState]
  BY DEF Moves, Running
<1>3. writer'[w] = s /\ \A u \in Writers \ {w} : writer'[u] = writer[u]
  BY <1>2
<1>4. writer' \in [Writers -> WriterState]
  BY <1>1, <1>2
<1>5. \A u \in Writers : Good(writer'[u])
  BY <1>3 DEF Running
<1>6. QED
  BY <1>3, <1>4, <1>5 DEF Running

(* It stays silent if it was, and so the hooks of its rows do.              *)
LEMMA QuietStays ==
  ASSUME Quiet, NEW w \in Writers, UNCHANGED after,
         \A u \in Writers \ {w} : writer'[u] = writer[u],
         writer[w].at # "dead", writer'[w].told = writer[w].told \/ writer'[w].told # 0,
         writer'[w].kind = writer[w].kind
  PROVE  Quiet'
<1>1. \A u \in Writers : Silent(u)' => Silent(u)
  BY DEF Silent
<1>2. QED
  BY <1>1 DEF Quiet

(* A request begins with its first row and nothing counted.                *)
LEMMA CallGood ==
  ASSUME NEW k \in {"create", "patch", "import"}, NEW rows \in Seq(Contents), Len(rows) \in Nat \ {0}
  PROVE  Good(Call(k, rows)) /\ Call(k, rows).told = 0
<1>1. rows[1] \in Contents /\ 1 \in 1..Len(rows)
  OBVIOUS
<1>2. <<>> \in HookLists
  BY DEF HookLists
<1> DEFINE c == Call(k, rows)
<1>3. c \in WriterState
  BY <1>1, <1>2 DEF Call, WriterState
<1>4. /\ c.row = 1 /\ c.rows = rows /\ c.at = "idle" /\ c.stored = 0 /\ c.told = 0 /\ c.created = 0
      /\ c.failed = 0 /\ c.torn = 0
  BY DEF Call
<1> HIDE DEF c
<1>5. Placed(c) /\ Vetted(c) /\ Tallied(c)
  BY <1>1, <1>3, <1>4 DEF Placed, Vetted, Tallied, Storing
<1>6. QED
  BY <1>4, <1>5 DEF Good, c

LEMMA InitSound == WritesInit => IInv
<1> SUFFICES ASSUME WritesInit PROVE IInv
  OBVIOUS
<1>1. Table
  BY DEF WritesInit, Table
<1>2. Quiet
  BY DEF WritesInit, Quiet, RecIds
<1>3. ASSUME NEW w \in Writers PROVE Good(writer[w])
  <2>1. \A v \in Contents : <<v>> \in Seq(Contents) /\ Len(<<v>>) \in Nat \ {0}
    OBVIOUS
  <2>2. \A r \in [1..MaxRows -> Contents] : r \in Seq(Contents) /\ Len(r) \in Nat \ {0}
    BY WritesAssumption
  <2>3. CASE \E k \in {"create", "patch"}, v \in Contents : writer[w] = Call(k, <<v>>)
    BY <2>1, <2>3, CallGood
  <2>4. CASE \E r \in [1..MaxRows -> Contents] : writer[w] = Call("import", r)
    BY <2>2, <2>4, CallGood
  <2>5. QED
    BY <2>3, <2>4 DEF WritesInit
<1>4. Running
  <2>1. writer \in [Writers -> WriterState]
    BY <1>3 DEF WritesInit, Good, Placed
  <2>2. QED
    BY <1>3, <2>1 DEF Running
<1>5. AllAware
  <2>1. ASSUME NEW w \in Writers PROVE writer[w].at = "idle"
    BY <2>1 DEF WritesInit, Call
  <2>2. QED
    BY <2>1 DEF WritesInit, AllAware, Aware
<1>6. QED
  BY <1>1, <1>2, <1>4, <1>5 DEF IInv, WritesInit

(* A step of a request that changes nothing but the request, and what it has yet to see. *)
LEMMA RequestStep ==
  ASSUME IInv, NEW w \in Writers, NEW s, Good(s), Moves(w, s),
         UNCHANGED <<recs, hooksOn, after, uniqueness, overlaps>>,
         unseen' = unseen \/ unseen' = [unseen EXCEPT ![w] = {}],
         writer[w].at # "dead", s.told = writer[w].told, s.kind = writer[w].kind,
         s.at = "store" => Aware(w)'
  PROVE  IInv'
<1>1. Running' /\ writer'[w] = s /\ \A u \in Writers \ {w} : writer'[u] = writer[u]
  BY OneMoves DEF IInv
<1>2. Quiet'
  BY <1>1, QuietStays DEF IInv
<1>3. Table' /\ hooksOn' \in SUBSET AllHooks
  BY DEF IInv, Table, Excused
<1>4. AllAware'
  <2>1. unseen' = [u \in Writers |-> unseen'[u]] /\ \A u \in Writers \ {w} : unseen'[u] = unseen[u]
    BY DEF IInv, AllAware
  <2>2. ASSUME NEW u \in Writers PROVE Aware(u)'
    <3>1. CASE u = w
      BY <1>1, <3>1 DEF Aware
    <3>2. CASE u # w
      BY <1>1, <2>1, <3>2 DEF IInv, AllAware, Aware, Target
    <3>3. QED
      BY <3>1, <3>2
  <2>3. QED
    BY <2>1, <2>2 DEF IInv, AllAware
<1>5. QED
  BY <1>1, <1>2, <1>3, <1>4 DEF IInv

LEMMA HandlerSteps ==
  ASSUME IInv, NEW w \in Writers,
         \/ Begin(w) \/ LookUp(w) \/ HookThrows(w) \/ Record(w) \/ HistoryFails(w)
         \/ \E v \in Contents : BeforeHook(w, v)
  PROVE  IInv'
<1> DEFINE r == writer[w]
           Unmoved == UNCHANGED <<recs, hooksOn, after, uniqueVars>>
<1>1. Good(r) /\ r \in WriterState
  BY DEF IInv, Running, Good, Placed
<1>2. ASSUME NEW s, Good(s), Moves(w, s), Unmoved,
             r.at # "dead", s.told = r.told, s.kind = r.kind, s.at # "store"
      PROVE  IInv'
  BY <1>2, RequestStep DEF uniqueVars
<1>3. ASSUME Moves(w, Refused(r)), Unmoved, r.at \in {"idle", "hooks"} PROVE IInv'
  <2>1. Good(Refused(r)) /\ Refused(r).told = r.told /\ Refused(r).kind = r.kind /\ Refused(r).at # "store"
    BY <1>1, <1>3, RefusedGood
  <2> HIDE DEF r, Unmoved
  <2>2. QED
    BY <1>2, <1>3, <2>1
<1>4. CASE Begin(w)
  <2> DEFINE s == [r EXCEPT !.at = "lookup"]
  <2>1. CASE Moves(w, Refused(r))
    BY <1>3, <1>4, <2>1 DEF Begin
  <2>2. CASE Moves(w, s)
    <3>1. Good(s) /\ r.at = "idle"
      BY <1>1, <1>4, StaysGood DEF Begin
    <3>2. s.told = r.told /\ s.kind = r.kind /\ s.at # "store"
      BY <1>1 DEF WriterState
    <3>3. Unmoved
      BY <1>4 DEF Begin
    <3> HIDE DEF r, s, Unmoved
    <3>4. QED
      BY <1>2, <2>2, <3>1, <3>2, <3>3
  <2>3. QED
    BY <1>4, <2>1, <2>2 DEF Begin
<1>5. CASE LookUp(w)
  <2> DEFINE s == [r EXCEPT !.at = "hooks", !.hooks = HooksOf(hooksOn)]
  <2>1. HooksOf(hooksOn) \in HookLists
    BY DEF IInv, HookLists
  <2>2. Good(s) /\ r.at = "lookup" /\ Moves(w, s) /\ Unmoved
    BY <1>1, <1>5, <2>1, StaysGood DEF LookUp
  <2>3. s.told = r.told /\ s.kind = r.kind /\ s.at # "store"
    BY <1>1 DEF WriterState
  <2> HIDE DEF r, s, Unmoved
  <2>4. QED
    BY <1>2, <2>2, <2>3
<1>6. CASE HookThrows(w)
  BY <1>3, <1>6 DEF HookThrows
<1>8. CASE Record(w)
  <2> DEFINE s == [r EXCEPT !.at = "tell"]
  <2>1. Good(s) /\ r.at = "record" /\ Moves(w, s) /\ Unmoved
    BY <1>1, <1>8, StaysGood DEF Record
  <2>2. s.told = r.told /\ s.kind = r.kind /\ s.at # "store"
    BY <1>1 DEF WriterState
  <2> HIDE DEF r, s, Unmoved
  <2>3. QED
    BY <1>2, <2>1, <2>2
<1>9. CASE HistoryFails(w)
  <2> DEFINE s == Refused([r EXCEPT !.torn = @ + 1])
  <2>1. r.at = "record" /\ Moves(w, s) /\ Unmoved
    BY <1>9 DEF HistoryFails
  <2>2. Good(s) /\ s.told = r.told /\ s.kind = r.kind /\ s.at # "store"
    BY <1>1, <2>1, TornGood
  <2> HIDE DEF r, s, Unmoved
  <2>3. QED
    BY <1>2, <2>1, <2>2
<1>10. ASSUME NEW v \in Contents, BeforeHook(w, v) PROVE IInv'
  <2> DEFINE s == [r EXCEPT !.passed = @ + 1, !.data = v]
  <2>1. Good(s) /\ r.at = "hooks" /\ Moves(w, s) /\ Unmoved
    BY <1>1, <1>10, StaysGood DEF BeforeHook
  <2>2. s.told = r.told /\ s.kind = r.kind /\ s.at = r.at
    BY <1>1 DEF WriterState
  <2> HIDE DEF r, s, Unmoved
  <2>3. QED
    BY <1>2, <2>1, <2>2
<1>11. QED
  BY <1>4, <1>5, <1>6, <1>8, <1>9, <1>10

(* Validation leaves nothing unseen: whoever stored the value before it, it has seen. *)
LEMMA ValidateStep == ASSUME IInv, NEW w \in Writers, Validate(w) PROVE IInv'
<1> DEFINE r == writer[w]
           s == [r EXCEPT !.at = "store"]
<1>1. Good(r) /\ r \in WriterState /\ r.at = "hooks" /\ r.passed = Len(r.hooks)
  BY DEF IInv, Running, Good, Placed, Validate, HooksLeft
<1>2. /\ UNCHANGED <<recs, hooksOn, after, uniqueness, overlaps>>
      /\ unseen' = unseen \/ unseen' = [unseen EXCEPT ![w] = {}]
  BY DEF Validate
<1>3. CASE Moves(w, Refused(r))
  <2>1. Good(Refused(r)) /\ Refused(r).told = r.told /\ Refused(r).kind = r.kind /\ Refused(r).at # "store"
    BY <1>1, RefusedGood
  <2> HIDE DEF s
  <2>2. QED
    BY <1>1, <1>2, <1>3, <2>1, RequestStep
<1>4. CASE Moves(w, s) /\ r.data \in Valid /\ (uniqueness = "cipher" \/ ~Elsewhere(r.data, Target(w)))
  <2>1. Good(s)
    BY <1>1, <1>4, StaysGood
  <2>2. s.told = r.told /\ s.kind = r.kind /\ s.data = r.data /\ s.row = r.row
    BY <1>1 DEF WriterState
  <2> HIDE DEF s
  <2>3. writer'[w] = s
    BY <1>4, <2>1, OneMoves DEF IInv
  <2>4. Aware(w)'
    BY <1>2, <1>4, <2>2, <2>3 DEF Aware, Elsewhere, Target
  <2>5. QED
    BY <1>1, <1>2, <1>4, <2>1, <2>2, <2>4, RequestStep
<1>5. QED
  BY <1>3, <1>4 DEF Validate, Checked

(* The row is stored: beside one of the same value only if the other was stored unseen. *)
LEMMA StoreStep == ASSUME IInv, NEW w \in Writers, Store(w) PROVE IInv'
<1>i. PICK i : i = Target(w)
  OBVIOUS
<1> DEFINE r == writer[w]
           s == [r EXCEPT !.at = "record", !.stored = @ + 1]
           Clash == uniqueness = "constraint" /\ Elsewhere(r.data, i)
<1>1. Good(r) /\ r \in WriterState /\ r.at = "store" /\ UNCHANGED <<hooksOn, after, uniqueness>>
  BY DEF IInv, Running, Good, Placed, Store
<1>2. CASE UNCHANGED <<recs, unseen, overlaps>> /\ Moves(w, Refused(r))
  <2>1. Good(Refused(r)) /\ Refused(r).told = r.told /\ Refused(r).kind = r.kind /\ Refused(r).at # "store"
    BY <1>1, RefusedGood
  <2> HIDE DEF s
  <2>2. QED
    BY <1>1, <1>2, <2>1, RequestStep
<1>3. CASE /\ ~Clash /\ recs' = [recs EXCEPT ![i] = r.data] /\ Moves(w, s)
           /\ unseen' = [x \in Writers |-> IF x # w /\ writer[x].at = "store" THEN unseen[x] \cup {i} ELSE {}]
           /\ overlaps' = {o \in overlaps : i \notin o} \cup {{i, j} : j \in unseen[w] \ {i}}
  <2>1. Good(s)
    BY <1>1, StaysGood
  <2>2. s.told = r.told /\ s.kind = r.kind /\ s.at = "record"
    BY <1>1 DEF WriterState
  <2> HIDE DEF s
  <2>3. Running' /\ writer'[w] = s /\ \A u \in Writers \ {w} : writer'[u] = writer[u]
    BY <1>3, <2>1, OneMoves DEF IInv
  <2>4. Quiet'
    BY <1>1, <2>2, <2>3, QuietStays DEF IInv
  <2>5. r.data \in Valid
    BY <1>1 DEF Good, Vetted
  <2>a. Aware(w) /\ uniqueness \in Uniqueness
    BY DEF IInv, AllAware
  <2>6. Table'
    <3>1. recs \in [RecIds -> Valid \cup {Blank}] /\ recs' \in [RecIds -> Valid \cup {Blank}]
      BY <1>3, <2>5 DEF IInv, Table
    <3>2. \A j \in RecIds : j # i => recs'[j] = recs[j]
      BY <1>3, <3>1
    <3>3. i \in RecIds => recs'[i] = r.data
      BY <1>3, <3>1
    <3>4. ASSUME NEW j \in RecIds, j # i, recs[j] = r.data PROVE Excused(i, j)' /\ Excused(j, i)'
      <4>1. CASE uniqueness = "constraint"
        BY <1>3, <3>4, <4>1 DEF Elsewhere
      <4>2. CASE uniqueness = "check"
        <5>1. j \in unseen[w]
          BY <1>i, <1>1, <2>a, <3>4, <4>2 DEF Aware
        <5>2. {i, j} \in overlaps' /\ {j, i} = {i, j}
          <6>1. j \in unseen[w] \ {i} /\ {j, i} = {i, j}
            BY <3>4, <5>1
          <6>2. {i, j} \in {{i, k} : k \in unseen[w] \ {i}}
            BY <6>1
          <6>3. QED
            BY <1>3, <6>1, <6>2
        <5>3. QED
          BY <1>1, <4>2, <5>2 DEF Excused
      <4>3. QED
        BY <1>1, <2>a, <4>1, <4>2 DEF Uniqueness, Excused
    <3>5. ASSUME NEW j \in RecIds, NEW k \in RecIds, j # k, recs'[j] = recs'[k], recs'[j] # Blank
          PROVE  Excused(j, k)'
      <4> HIDE DEF r, Clash
      <4>1. CASE j = i
        <5>1. k \in RecIds /\ k # i /\ recs[k] = r.data
          BY <3>2, <3>3, <3>5, <4>1
        <5>2. QED
          BY <3>4, <4>1, <5>1
      <4>2. CASE k = i
        <5>1. j \in RecIds /\ j # i /\ recs[j] = r.data
          BY <3>2, <3>3, <3>5, <4>2
        <5>2. QED
          BY <3>4, <4>2, <5>1
      <4>3. CASE j # i /\ k # i
        <5>1. Excused(j, k)
          BY <3>2, <3>5, <4>3 DEF IInv, Table
        <5>2. {j, k} \in overlaps => {j, k} \in overlaps'
          BY <1>3, <4>3
        <5>3. QED
          BY <1>1, <5>1, <5>2 DEF Excused
      <4>4. QED
        BY <4>1, <4>2, <4>3
    <3>6. QED
      BY <3>1, <3>5 DEF Table
  <2>7. AllAware'
    <3>1. ASSUME NEW x \in Writers, NEW j \in RecIds, writer'[x].at = "store", uniqueness' # "cipher",
                 j # Target(x)', recs'[j] = writer'[x].data
          PROVE  j \in unseen'[x]
      <4>1. x # w
        BY <2>2, <2>3, <3>1
      <4>2. writer'[x] = writer[x] /\ Target(x)' = Target(x)
        BY <2>3, <4>1 DEF Target
      <4>3. unseen'[x] = unseen[x] \cup {i}
        BY <1>3, <3>1, <4>1, <4>2
      <4>4. CASE j # i
        <5>1. recs[j] = writer[x].data
          BY <1>3, <3>1, <4>2, <4>4 DEF IInv, Table
        <5>2. Aware(x)
          BY DEF IInv, AllAware
        <5>3. QED
          BY <1>1, <3>1, <4>2, <4>3, <5>1, <5>2 DEF Aware
      <4>5. QED
        BY <4>3, <4>4
    <3>2. unseen' = [x \in Writers |-> unseen'[x]]
      BY <1>3
    <3>3. QED
      BY <1>1, <2>a, <3>1, <3>2 DEF AllAware, Aware
  <2>8. QED
    BY <1>1, <2>3, <2>4, <2>6, <2>7 DEF IInv
<1>4. QED
  BY <1>i, <1>2, <1>3 DEF Store

(* The row is told: from then on its request is not silent.                *)
LEMMA TellStep == ASSUME IInv, NEW w \in Writers, Tell(w) PROVE IInv'
<1> DEFINE r == writer[w]
           s == RowOver([r EXCEPT !.told = @ + 1, !.created = @ + 1])
           i == Target(w)
<1>1. Good(r) /\ r.at = "tell" /\ Moves(w, s) /\ UNCHANGED <<recs, hooksOn, uniqueVars>>
  BY DEF IInv, Running, Tell
<1>2. Good(s) /\ s.told # 0 /\ s.at # "store"
  BY <1>1, ToldGood
<1>3. i = Seeded \/ \E n : i = <<w, n>>
  BY DEF Target
<1>4. after' = [after EXCEPT ![i] = after[i] \o HooksOf(hooksOn)]
  BY DEF Tell
<1> HIDE DEF r, s, i
<1>5. Running' /\ writer'[w] = s /\ \A u \in Writers \ {w} : writer'[u] = writer[u]
  BY <1>1, <1>2, OneMoves DEF IInv
<1>6. Quiet'
  <2>1. after' = [j \in RecIds |-> after'[j]]
    BY <1>4 DEF IInv, Quiet
  <2>2. ASSUME NEW u \in Writers, Silent(u)', NEW n \in 1..MaxRows PROVE after'[<<u, n>>] = <<>>
    <3>1. u # w /\ Silent(u)
      BY <1>2, <1>5, <2>2 DEF Silent
    <3>2. <<u, n>> \in RecIds /\ <<u, n>> # i
      BY <1>3, <3>1 DEF RecIds, Seeded
    <3>3. after'[<<u, n>>] = after[<<u, n>>]
      BY <1>4, <3>2 DEF IInv, Quiet
    <3>4. QED
      BY <3>1, <3>3 DEF IInv, Quiet
  <2>3. QED
    BY <2>1, <2>2 DEF Quiet
<1>7. AllAware'
  <2>1. ASSUME NEW u \in Writers PROVE Aware(u)'
    <3>1. CASE u = w
      BY <1>2, <1>5, <3>1 DEF Aware
    <3>2. CASE u # w
      BY <1>1, <1>5, <3>2 DEF IInv, AllAware, Aware, Target, uniqueVars
    <3>3. QED
      BY <3>1, <3>2
  <2>2. QED
    BY <1>1, <2>1 DEF IInv, AllAware, uniqueVars
<1>8. QED
  BY <1>1, <1>5, <1>6, <1>7 DEF IInv, Table, Excused, uniqueVars

LEMMA TableStays ==
  ASSUME IInv, UNCHANGED <<recs, writer, uniqueVars>> PROVE Table' /\ AllAware'
BY DEF IInv, Table, Excused, AllAware, Aware, Target, uniqueVars

(* Steps of no request.                                                    *)
LEMMA WorldSteps ==
  ASSUME IInv,
         \/ \E i \in RecIds : AfterHook(i) \/ Deleted(i)
         \/ \E h \in AllHooks : Toggle(h)
         \/ Die
  PROVE  IInv'
<1>1. ASSUME NEW i \in RecIds, AfterHook(i) PROVE IInv'
  <2>1. after' = [after EXCEPT ![i] = Tail(after[i])] /\ after[i] # <<>> /\ UNCHANGED <<recs, hooksOn, writer, uniqueVars>>
    BY <1>1 DEF AfterHook
  <2>2. after' = [j \in RecIds |-> after'[j]] /\ \A j \in RecIds : after[j] = <<>> => after'[j] = after[j]
    BY <2>1 DEF IInv, Quiet
  <2>3. \A w \in Writers, n \in 1..MaxRows : <<w, n>> \in RecIds
    BY DEF RecIds
  <2>4. Quiet'
    BY <2>1, <2>2, <2>3 DEF IInv, Quiet, Silent
  <2>5. QED
    BY <2>1, <2>4, TableStays DEF IInv, Running
<1>2. ASSUME NEW i \in RecIds, Deleted(i) PROVE IInv'
  <2>1. Table'
    BY <1>2 DEF Deleted, IInv, Table, Excused, uniqueVars
  <2>2. ASSUME NEW w \in Writers PROVE Aware(w)'
    <3>1. writer' = writer /\ UNCHANGED uniqueVars /\ Aware(w) /\ Target(w)' = Target(w)
      BY <1>2 DEF Deleted, IInv, AllAware, Target
    <3>2. writer[w].at = "store" => writer[w].data \in Valid
      BY DEF IInv, Running, Good, Vetted
    <3>3. \A j \in RecIds : recs'[j] = recs[j] \/ recs'[j] = Blank
      BY <1>2 DEF Deleted, IInv, Table
    <3>4. Blank \notin Valid
      BY WritesAssumption
    <3>5. QED
      BY <3>1, <3>2, <3>3, <3>4 DEF Aware, uniqueVars
  <2>3. AllAware'
    BY <1>2, <2>2 DEF Deleted, IInv, AllAware, uniqueVars
  <2>4. QED
    BY <1>2, <2>1, <2>3 DEF Deleted, IInv, Running, Quiet, Silent
<1>3. ASSUME NEW h \in AllHooks, Toggle(h) PROVE IInv'
  BY <1>3, TableStays DEF Toggle, IInv, Running, Quiet, Silent
<1>4. CASE Die
  <2>1. ASSUME NEW w \in Writers PROVE Good(writer'[w]) /\ writer'[w].at = "dead" /\ writer'[w] \in WriterState
    <3>1. writer'[w] = [writer[w] EXCEPT !.at = "dead"] /\ Good(writer[w])
      BY <1>4 DEF Die, IInv, Running
    <3>2. Good(writer'[w])
      BY <3>1, StaysGood
    <3>3. writer'[w].at = "dead"
      BY <3>1 DEF Good, Placed, WriterState
    <3>4. QED
      BY <3>2, <3>3 DEF Good, Placed
  <2>2. Running'
    <3>1. writer' = [w \in Writers |-> writer'[w]]
      BY <1>4 DEF Die
    <3>2. QED
      BY <2>1, <3>1 DEF Running
  <2>3. Quiet'
    BY <1>4, <2>1 DEF Die, Quiet, Silent
  <2>4. AllAware'
    BY <1>4, <2>1 DEF Die, IInv, AllAware, Aware, uniqueVars
  <2>5. QED
    BY <1>4, <2>2, <2>3, <2>4 DEF Die, IInv, Table, Excused, uniqueVars
<1>5. QED
  BY <1>1, <1>2, <1>3, <1>4

(* However requests, hooks, deletes and a crash interleave, the table stays *)
(* valid, and unique but where nothing keeps the field so: an encrypted    *)
(* one, and one made unique later when two writes overlap; and each        *)
(* request is answered for what it did.                                    *)
THEOREM RequestsWriteSoundly == WritesSpec => []WrittenSound
<1>1. WritesInit => IInv
  BY InitSound
<1>2. IInv /\ [WritesNext]_writeVars => IInv'
  <2> SUFFICES ASSUME IInv, [WritesNext]_writeVars PROVE IInv'
    OBVIOUS
  <2>1. CASE UNCHANGED writeVars
    BY <2>1, TableStays DEF writeVars, IInv, Running, Quiet, Silent
  <2>2. CASE WritesNext
    BY <2>2, HandlerSteps, ValidateStep, StoreStep, TellStep, WorldSteps DEF WritesNext
  <2>3. QED
    BY <2>1, <2>2
<1>3. IInv => WrittenSound
  BY ImpliesSound
<1>4. QED
  BY <1>1, <1>2, <1>3, PTL DEF WritesSpec

-----------------------------------------------------------------------------
(***************************************************************************)
(* Files.  Of a token: it ends within a window from now; and once it let a *)
(* download through, either it has ended or its use is on record and will  *)
(* be until it ends.                                                       *)
(***************************************************************************)
TokenHonest(t) ==
  /\ minted[t].exp <= hours + window
  /\ window < Day /\ takes[t] > 0 =>
       /\ takes[t] = 1 /\ 0 < minted[t].exp
       /\ minted[t].exp <= hours \/ (uses[t] # Never /\ minted[t].exp <= uses[t] + window)

(***************************************************************************)
(* Of a request: an upload's object has no row yet, the files in a         *)
(* delete's hands have one or are gone, and a download that came after its *)
(* file was deleted gets past the row for an admin only.                   *)
(***************************************************************************)
FilePcs == {"idle", "insert", "remove", "forget", "row", "check", "send", "thumb"}
FileCalls == [pc : FilePcs, file : SUBSET Files, who : {"admin", "member", "other"}, late : BOOLEAN]

Inserts(s) == s.pc = "insert" => \E f \in object \ (fileRow \cup removed) : s.file = {f}
Removes(s) == s.pc \in {"remove", "forget"} => s.file # {} /\ s.file \subseteq fileRow \cup removed
Late(s) == s.late => /\ s.file # {} /\ s.file \subseteq removed
                     /\ s.pc = "row" \/ (s.pc \in {"send", "thumb"} /\ s.who = "admin")
CallHonest(s) == s \in FileCalls /\ Inserts(s) /\ Removes(s) /\ Late(s)

\* No two uploads are of one file, and what lacks its object is in a delete's hand.
UploadsApart ==
  \A q, r \in FileRequests :
    q # r /\ serving[q].pc = "insert" /\ serving[r].pc = "insert" => serving[q].file # serving[r].file
OneFile(S) == CHOOSE f \in S : TRUE
RowsCovered ==
  \A f \in fileRow \ object :
    f \in torn \/ \E r \in FileRequests : serving[r].pc = "forget" /\ f = OneFile(serving[r].file)

TokensTyped ==
  /\ minted \in [FileTokens -> [file : SUBSET Files, exp : Int]]
  /\ uses \in [FileTokens -> Nat \cup {Never}] /\ takes \in [FileTokens -> Nat]
  /\ hours \in Nat /\ window \in Nat
TokensInv == TokensTyped /\ \A t \in FileTokens : TokenHonest(t)
RowsTyped == object \subseteq Files /\ fileRow \subseteq Files /\ removed \subseteq Files
RowsInv ==
  /\ RowsTyped /\ fileRow \cap removed = {}
  /\ DOMAIN serving = FileRequests /\ serving = [r \in FileRequests |-> serving[r]]
  /\ \A r \in FileRequests : CallHonest(serving[r])
  /\ UploadsApart /\ RowsCovered
FilesIInv == TokensInv /\ RowsInv

LEMMA OneFileIn == ASSUME NEW S, S # {} PROVE OneFile(S) \in S
BY DEF OneFile

LEMMA FilesInitially == FilesInit => FilesIInv
<1> SUFFICES ASSUME FilesInit PROVE FilesIInv
  OBVIOUS
<1>1. TokensTyped
  BY FilesAssumption DEF FilesInit, TokensTyped, Unminted
<1>2. \A t \in FileTokens : TokenHonest(t)
  BY FilesAssumption DEF FilesInit, TokenHonest, Unminted
<1>3. \A r \in FileRequests : CallHonest(serving[r])
  BY DEF FilesInit, CallHonest, FileCalls, FilePcs, FileIdle, Inserts, Removes, Late
<1>4. RowsInv
  BY <1>3 DEF FilesInit, RowsInv, RowsTyped, UploadsApart, RowsCovered, FileIdle
<1> QED
  BY <1>1, <1>2, <1>4 DEF FilesIInv, TokensInv

(* What a step does to the tokens. *)
LEMMA TokensStep == TokensInv /\ [FilesNext]_fileVars => TokensInv'
<1> SUFFICES ASSUME TokensInv, [FilesNext]_fileVars PROVE TokensInv'
  OBVIOUS
<1> USE FilesAssumption DEF TokensInv, TokensTyped, fileVars, fileTables, fileHistory
<1>1. CASE UNCHANGED <<minted, uses, takes, hours, window>>
  BY <1>1 DEF TokenHonest
<1>2. ASSUME NEW t \in FileTokens, NEW f \in Files, Mint(t, f) PROVE TokensInv'
  <2>1. TokensTyped'
    BY <1>2 DEF Mint
  <2>2. ASSUME NEW u \in FileTokens PROVE TokenHonest(u)'
    <3>1. CASE u = t
      <4>1. minted'[u].exp = hours + window /\ minted[u].exp = -1
        BY <1>2, <3>1 DEF Mint, Unminted
      <4>2. TokenHonest(u) /\ UNCHANGED <<uses, takes, hours, window>>
        BY <1>2 DEF Mint
      <4> QED
        BY <4>1, <4>2 DEF TokenHonest
    <3>2. CASE u # t
      <4>1. minted'[u] = minted[u] /\ TokenHonest(u) /\ UNCHANGED <<uses, takes, hours, window>>
        BY <1>2, <3>2 DEF Mint
      <4> QED
        BY <4>1 DEF TokenHonest
    <3> QED
      BY <3>1, <3>2
  <2> QED
    BY <2>1, <2>2
<1>3. ASSUME NEW r \in FileRequests, NEW t \in FileTokens, ByToken(r, t) PROVE TokensInv'
  <2>0. CASE ~Unused(t)
    BY <1>3, <2>0, <1>1 DEF ByToken
  <2>1. CASE Unused(t)
    <3>1. /\ uses' = [uses EXCEPT ![t] = hours] /\ takes' = [takes EXCEPT ![t] = @ + 1]
          /\ UNCHANGED <<minted, hours, window>> /\ hours < minted[t].exp /\ uses[t] = Never
      BY <1>3, <2>1 DEF ByToken, Unused, Verified
    <3>2. TokensTyped'
      BY <3>1
    <3>3. TokenHonest(t)'
      <4>1. TokenHonest(t) /\ takes'[t] = takes[t] + 1 /\ uses'[t] = hours
        BY <3>1
      <4>2. hours # Never
        BY DEF Never
      <4> QED
        BY <3>1, <4>1, <4>2 DEF TokenHonest
    <3>4. ASSUME NEW u \in FileTokens, u # t PROVE TokenHonest(u)'
      <4>1. TokenHonest(u) /\ takes'[u] = takes[u] /\ uses'[u] = uses[u]
        BY <3>1, <3>4
      <4> QED
        BY <3>1, <4>1 DEF TokenHonest
    <3> QED
      BY <3>2, <3>3, <3>4
  <2> QED
    BY <2>0, <2>1
<1>4. CASE PruneUses
  <2>1. UNCHANGED <<minted, takes, hours, window>>
    BY <1>4 DEF PruneUses
  <2>2. TokensTyped'
    BY <1>4, <2>1 DEF PruneUses, Never
  <2>3. ASSUME NEW u \in FileTokens PROVE TokenHonest(u)'
    <3>1. TokenHonest(u) /\ uses'[u] = IF uses[u] < hours - Day THEN Never ELSE uses[u]
      BY <1>4 DEF PruneUses
    <3>2. CASE uses[u] = Never
      <4>1. uses'[u] = Never
        BY <3>1, <3>2
      <4> QED
        BY <2>1, <3>1, <3>2, <4>1 DEF TokenHonest
    <3>3. CASE uses[u] # Never /\ uses[u] < hours - Day
      <4>1. uses[u] \in Nat /\ (window < Day => uses[u] + window < hours)
        BY <3>3
      <4> QED
        BY <2>1, <3>1, <4>1 DEF TokenHonest
    <3>4. CASE ~(uses[u] < hours - Day)
      <4>1. uses'[u] = uses[u]
        BY <3>1, <3>4
      <4> QED
        BY <2>1, <3>1, <4>1 DEF TokenHonest
    <3> QED
      BY <3>2, <3>3, <3>4
  <2> QED
    BY <2>2, <2>3
<1>5. CASE FilesTick
  <2>1. hours' = hours + 1 /\ UNCHANGED <<minted, uses, takes, window>>
    BY <1>5 DEF FilesTick
  <2> QED
    BY <2>1 DEF TokenHonest
<1>6. ASSUME NEW r \in FileRequests,
        \/ InsertRow(r) \/ RemoveObject(r) \/ ForgetFile(r) \/ Send(r) \/ CacheThumb(r)
        \/ \E f \in Files : Upload(r, f) \/ Download(r, f)
        \/ \E S \in SUBSET Files : DeleteFiles(r, S)
        \/ \E w \in {"admin", "member", "other"} : ReadRow(r, w) \/ ByRules(r, w)
      PROVE UNCHANGED <<minted, uses, takes, hours, window>>
  BY <1>6 DEF InsertRow, RemoveObject, ForgetFile, Send, CacheThumb, Upload, Download, DeleteFiles,
              ReadRow, ByRules
<1>7. CASE FilesCrash
  BY <1>1, <1>7 DEF FilesCrash
<1>8. CASE UNCHANGED fileVars
  BY <1>1, <1>8
<1> QED
  BY <1>1, <1>2, <1>3, <1>4, <1>5, <1>6, <1>7, <1>8 DEF FilesNext

(* One call goes on while the tables stay. *)
LEMMA OneCallGoesOn ==
  ASSUME RowsInv, UNCHANGED <<object, fileRow, removed, torn>>, NEW r \in FileRequests, NEW s,
         serving' = [serving EXCEPT ![r] = s], CallHonest(s), s.pc # "insert", serving[r].pc # "forget"
  PROVE  RowsInv'
<1> USE DEF RowsInv
<1>1. \A q \in FileRequests : serving'[q] = IF q = r THEN s ELSE serving[q]
  OBVIOUS
<1>2. ASSUME NEW q \in FileRequests PROVE CallHonest(serving[q])'
  <2>1. CallHonest(serving'[q])
    BY <1>1
  <2> QED
    BY <2>1 DEF CallHonest, Inserts, Removes, Late
<1>3. UploadsApart'
  BY <1>1 DEF UploadsApart
<1>4. RowsCovered'
  BY <1>1 DEF RowsCovered
<1>5. RowsTyped' /\ (fileRow \cap removed = {})'
  BY DEF RowsTyped
<1> QED
  BY <1>2, <1>3, <1>4, <1>5

LEMMA UploadStep ==
  ASSUME RowsInv, NEW r \in FileRequests, NEW f \in Files, Upload(r, f) PROVE RowsInv'
<1> USE DEF RowsInv
<1>s. PICK s : s = [pc |-> "insert", file |-> {f}, who |-> "other", late |-> FALSE]
  OBVIOUS
<1>1. /\ serving' = [serving EXCEPT ![r] = s] /\ object' = object \cup {f}
      /\ UNCHANGED <<fileRow, removed, torn>> /\ serving[r].pc = "idle" /\ f \notin object \cup fileRow \cup removed
  <2>1. serving'[r] = s
    BY <1>s DEF Upload, FileIdle
  <2>2. serving' = [serving EXCEPT ![r] = serving'[r]]
    BY DEF Upload
  <2> QED
    BY <2>1, <2>2 DEF Upload, FreeFor, fileHistory
<1>2. \A q \in FileRequests : serving'[q] = IF q = r THEN s ELSE serving[q]
  BY <1>1
<1>3. CallHonest(s)'
  <2>1. s \in FileCalls /\ ~s.late /\ s.pc = "insert" /\ s.file = {f}
    BY <1>s DEF FileCalls, FilePcs
  <2> QED
    BY <1>1, <2>1 DEF CallHonest, Inserts, Removes, Late
<1>4. ASSUME NEW q \in FileRequests, q # r PROVE CallHonest(serving[q])'
  <2>1. CallHonest(serving[q]) /\ serving'[q] = serving[q]
    BY <1>2, <1>4
  <2> QED
    BY <1>1, <2>1 DEF CallHonest, Inserts, Removes, Late
<1>5. \A q \in FileRequests : CallHonest(serving[q])'
  BY <1>2, <1>3, <1>4
<1>6. \A q \in FileRequests \ {r} : serving[q].pc = "insert" => serving[q].file # {f}
  BY <1>1 DEF CallHonest, Inserts
<1>7. UploadsApart'
  BY <1>2, <1>6, <1>s DEF UploadsApart
<1>8. RowsCovered'
  BY <1>1, <1>2 DEF RowsCovered
<1>9. RowsTyped' /\ (fileRow \cap removed = {})'
  BY <1>1 DEF RowsTyped
<1> QED
  BY <1>1, <1>5, <1>7, <1>8, <1>9

LEMMA InsertRowStep ==
  ASSUME RowsInv, NEW r \in FileRequests, InsertRow(r) PROVE RowsInv'
<1> USE DEF RowsInv
<1>1. PICK f \in object \ (fileRow \cup removed) : serving[r].file = {f} /\ serving[r].pc = "insert"
  BY DEF InsertRow, CallHonest, Inserts
<1>2. /\ serving' = [serving EXCEPT ![r] = FileIdle] /\ fileRow' = fileRow \cup {f}
      /\ UNCHANGED <<object, removed, torn>>
  BY <1>1 DEF InsertRow, Answered, fileHistory
<1>3. \A q \in FileRequests : serving'[q] = IF q = r THEN FileIdle ELSE serving[q]
  BY <1>2
<1>4. CallHonest(FileIdle)'
  BY DEF CallHonest, FileCalls, FilePcs, Inserts, Removes, Late, FileIdle
<1>5. ASSUME NEW q \in FileRequests, q # r PROVE CallHonest(serving[q])'
  <2>1. CallHonest(serving[q]) /\ serving'[q] = serving[q]
    BY <1>3, <1>5
  <2>2. serving[q].pc = "insert" => serving[q].file # {f}
    BY <1>1, <1>5 DEF UploadsApart
  <2>3. Inserts(serving[q])'
    BY <1>2, <2>1, <2>2 DEF CallHonest, Inserts
  <2> QED
    BY <1>2, <2>1, <2>3 DEF CallHonest, Removes, Late
<1>6. \A q \in FileRequests : CallHonest(serving[q])'
  BY <1>3, <1>4, <1>5
<1>7. UploadsApart'
  BY <1>3 DEF UploadsApart, FileIdle
<1>8. RowsCovered'
  BY <1>1, <1>2, <1>3 DEF RowsCovered
<1>9. RowsTyped' /\ (fileRow \cap removed = {})'
  BY <1>1, <1>2 DEF RowsTyped
<1> QED
  BY <1>2, <1>6, <1>7, <1>8, <1>9

LEMMA RemoveObjectStep ==
  ASSUME RowsInv, NEW r \in FileRequests, RemoveObject(r) PROVE RowsInv'
<1> USE DEF RowsInv
<1>g. PICK g : g = OneFile(serving[r].file)
  OBVIOUS
<1>s. PICK s : s = [serving[r] EXCEPT !.pc = "forget"]
  OBVIOUS
<1>1. FileOf(r) = g
  BY <1>g DEF FileOf, OneFile
<1>2. /\ serving' = [serving EXCEPT ![r] = s] /\ object' \in {object, object \ {g}}
      /\ UNCHANGED <<fileRow, removed, torn>> /\ serving[r].pc = "remove"
  BY <1>1, <1>s DEF RemoveObject, Goto, fileHistory
<1>3. serving[r] \in FileCalls /\ serving[r].file # {} /\ serving[r].file \subseteq fileRow \cup removed /\ ~serving[r].late
  BY <1>2 DEF CallHonest, Removes, Late
<1>4. g \in fileRow \cup removed
  BY <1>3, <1>g, OneFileIn
<1>5. s \in FileCalls /\ s.pc = "forget" /\ s.file = serving[r].file /\ ~s.late
  BY <1>3, <1>s DEF FileCalls, FilePcs
<1>6. \A q \in FileRequests : serving'[q] = IF q = r THEN s ELSE serving[q]
  BY <1>2
<1>7. CallHonest(s)'
  BY <1>2, <1>3, <1>5 DEF CallHonest, Inserts, Removes, Late
<1>8. ASSUME NEW q \in FileRequests, q # r PROVE CallHonest(serving[q])'
  <2>1. CallHonest(serving[q]) /\ serving'[q] = serving[q]
    BY <1>6, <1>8
  <2> QED
    BY <1>2, <1>4, <2>1 DEF CallHonest, Inserts, Removes, Late
<1>9. \A q \in FileRequests : CallHonest(serving[q])'
  BY <1>6, <1>7, <1>8
<1>10. UploadsApart'
  BY <1>5, <1>6 DEF UploadsApart
<1>11. RowsCovered'
  <2> SUFFICES ASSUME NEW f \in (fileRow \ object)' 
      PROVE  (f \in torn \/ \E q \in FileRequests : serving[q].pc = "forget" /\ f = OneFile(serving[q].file))'
    BY DEF RowsCovered
  <2>1. CASE f = g
    <3>1. serving'[r].pc = "forget" /\ f = OneFile(serving'[r].file)
      BY <1>5, <1>6, <1>g, <2>1
    <3> QED
      BY <3>1
  <2>2. CASE f # g
    BY <1>2, <1>6, <2>2 DEF RowsCovered
  <2> QED
    BY <2>1, <2>2
<1>12. RowsTyped' /\ (fileRow \cap removed = {})'
  BY <1>2 DEF RowsTyped
<1> QED
  BY <1>2, <1>9, <1>10, <1>11, <1>12

LEMMA ForgetFileStep ==
  ASSUME RowsInv, NEW r \in FileRequests, ForgetFile(r) PROVE RowsInv'
<1> USE DEF RowsInv
<1>g. PICK g : g = OneFile(serving[r].file)
  OBVIOUS
<1>s. PICK s : s = IF serving[r].file = {g} THEN FileIdle
                   ELSE [serving[r] EXCEPT !.pc = "remove", !.file = @ \ {g}]
  OBVIOUS
<1>1. FileOf(r) = g
  BY <1>g DEF FileOf, OneFile
<1>2. /\ serving' = [serving EXCEPT ![r] = s] /\ fileRow' = fileRow \ {g} /\ removed' = removed \cup {g}
      /\ UNCHANGED <<object, torn>> /\ serving[r].pc = "forget"
  <2>1. CASE serving[r].file = {g}
    BY <1>1, <1>s, <2>1 DEF ForgetFile, Answered
  <2>2. CASE serving[r].file # {g}
    <3>1. serving' = [serving EXCEPT ![r].pc = "remove", ![r].file = @ \ {g}]
      BY <1>1, <2>2 DEF ForgetFile
    <3>2. serving' = [serving EXCEPT ![r] = s]
      BY <1>s, <2>2, <3>1, Zenon
    <3> QED
      BY <1>1, <3>2 DEF ForgetFile
  <2> QED
    BY <2>1, <2>2
<1>3. serving[r] \in FileCalls /\ serving[r].file # {} /\ serving[r].file \subseteq fileRow \cup removed /\ ~serving[r].late
  BY <1>2 DEF CallHonest, Removes, Late
<1>4. g \in serving[r].file
  BY <1>3, <1>g, OneFileIn
<1>5. s \in FileCalls /\ ~s.late /\ s.pc \in {"idle", "remove"} /\ (s.pc = "remove" => s.file # {} /\ s.file \subseteq serving[r].file)
  <2>1. CASE serving[r].file = {g}
    BY <1>s, <2>1 DEF FileIdle, FileCalls, FilePcs
  <2>2. CASE serving[r].file # {g}
    <3>1. s = [pc |-> "remove", file |-> serving[r].file \ {g}, who |-> serving[r].who, late |-> serving[r].late]
      BY <1>3, <1>s, <2>2 DEF FileCalls
    <3> QED
      BY <1>3, <1>4, <2>2, <3>1 DEF FileCalls, FilePcs
  <2> QED
    BY <2>1, <2>2
<1>6. \A q \in FileRequests : serving'[q] = IF q = r THEN s ELSE serving[q]
  BY <1>2
<1>7. (fileRow \cup removed)' = fileRow \cup removed /\ (fileRow \cap removed = {})'
  BY <1>2, <1>3, <1>4
<1>8. CallHonest(s)'
  BY <1>3, <1>5, <1>7 DEF CallHonest, Inserts, Removes, Late
<1>9. ASSUME NEW q \in FileRequests, q # r PROVE CallHonest(serving[q])'
  <2>1. CallHonest(serving[q]) /\ serving'[q] = serving[q]
    BY <1>6, <1>9
  <2>2. Inserts(serving[q])' /\ Removes(serving[q])'
    BY <1>2, <1>7, <2>1 DEF CallHonest, Inserts, Removes
  <2>3. Late(serving[q])'
    BY <1>2, <2>1 DEF CallHonest, Late
  <2> QED
    BY <2>1, <2>2, <2>3 DEF CallHonest
<1>10. \A q \in FileRequests : CallHonest(serving[q])'
  BY <1>6, <1>8, <1>9
<1>11. UploadsApart'
  BY <1>5, <1>6 DEF UploadsApart
<1>12. RowsCovered'
  BY <1>2, <1>6, <1>g DEF RowsCovered
<1>13. RowsTyped'
  BY <1>2, <1>3, <1>4, <1>7 DEF RowsTyped, FileCalls
<1> QED
  BY <1>2, <1>7, <1>10, <1>11, <1>12, <1>13

LEMMA DownloadStep ==
  ASSUME RowsInv, NEW r \in FileRequests,
         \/ \E f \in Files : Download(r, f)
         \/ \E w \in {"admin", "member", "other"} : ReadRow(r, w) \/ ByRules(r, w)
         \/ \E t \in FileTokens : ByToken(r, t)
         \/ Send(r) \/ CacheThumb(r) \/ \E S \in SUBSET Files : DeleteFiles(r, S)
  PROVE  RowsInv'
<1> USE DEF RowsInv
<1> DEFINE s == serving'[r]
<1>1. serving[r] \in FileCalls /\ serving[r].pc \in {"idle", "row", "check", "send", "thumb"}
  BY DEF CallHonest, Download, ReadRow, ByRules, ByToken, Send, CacheThumb, DeleteFiles, FreeFor
<1>2. UNCHANGED <<object, fileRow, removed, torn>>
  BY DEF Download, ReadRow, ByRules, ByToken, Send, CacheThumb, DeleteFiles, fileTables, fileHistory
<1>3. serving' = [serving EXCEPT ![r] = s]
  BY DEF Download, ReadRow, ByRules, ByToken, Send, CacheThumb, DeleteFiles, Goto, Answered, Outcome
<1>idle. CallHonest(FileIdle) /\ FileIdle.pc # "insert"
  BY DEF CallHonest, FileCalls, FilePcs, Inserts, Removes, Late, FileIdle
<1>outcome. ASSUME NEW w \in {"admin", "member", "other"}, NEW yes \in BOOLEAN, Outcome(r, w, yes),
                   serving[r].late => w = "admin" \/ ~yes
            PROVE  CallHonest(s) /\ s.pc # "insert"
  <2>1. CASE ~yes
    BY <1>outcome, <1>idle, <2>1 DEF Outcome
  <2>2. CASE yes
    <3>1. s = [pc |-> "send", file |-> serving[r].file, who |-> w, late |-> serving[r].late]
      BY <1>1, <1>outcome, <2>2 DEF Outcome, FileCalls
    <3>2. s \in FileCalls
      BY <1>1, <3>1 DEF FileCalls, FilePcs
    <3> QED
      BY <1>outcome, <2>2, <3>1, <3>2 DEF CallHonest, Inserts, Removes, Late
  <2> QED
    BY <2>1, <2>2
<1>goto. ASSUME NEW pc \in {"check", "thumb"}, Goto(r, pc),
                serving[r].late => pc = "thumb" /\ serving[r].who = "admin"
         PROVE  CallHonest(s) /\ s.pc # "insert"
  <2>1. s = [pc |-> pc, file |-> serving[r].file, who |-> serving[r].who, late |-> serving[r].late]
    BY <1>1, <1>goto DEF Goto, FileCalls
  <2>2. s \in FileCalls
    BY <1>1, <2>1 DEF FileCalls, FilePcs
  <2> QED
    BY <1>goto, <2>1, <2>2 DEF CallHonest, Inserts, Removes, Late
<1>4. CallHonest(s) /\ s.pc # "insert"
  <2>1. ASSUME NEW f \in Files, Download(r, f) PROVE CallHonest(s) /\ s.pc # "insert"
    <3>1. s = [pc |-> "row", file |-> {f}, who |-> "other", late |-> f \in removed]
      BY <2>1 DEF Download, FileIdle
    <3>2. s \in FileCalls
      BY <3>1 DEF FileCalls, FilePcs
    <3>3. (s.late => f \in removed) /\ s.file = {f} /\ s.pc = "row"
      BY <2>1 DEF Download, FileIdle
    <3> QED
      BY <3>2, <3>3 DEF CallHonest, Inserts, Removes, Late
  <2>2. ASSUME NEW w \in {"admin", "member", "other"}, ReadRow(r, w) PROVE CallHonest(s) /\ s.pc # "insert"
    <3>1. serving[r].late => FileOf(r) \in removed
      BY OneFileIn DEF FileOf, OneFile, CallHonest, Late
    <3>2. CASE FileOf(r) \in fileRow
      BY <2>2, <3>1, <3>2, <1>goto DEF ReadRow
    <3>3. CASE FileOf(r) \notin fileRow
      BY <2>2, <3>3, <1>outcome DEF ReadRow, OrphanFor
    <3> QED
      BY <3>2, <3>3
  <2>3. ASSUME NEW w \in {"admin", "member", "other"}, ByRules(r, w) PROVE CallHonest(s) /\ s.pc # "insert"
    <3>1. ~serving[r].late /\ May(w) \in BOOLEAN /\ Outcome(r, w, May(w))
      BY <2>3 DEF ByRules, May, CallHonest, Late
    <3> QED
      BY <3>1, <1>outcome
  <2>4. ASSUME NEW t \in FileTokens, ByToken(r, t) PROVE CallHonest(s) /\ s.pc # "insert"
    BY <2>4, <1>outcome DEF ByToken, Unused, CallHonest, Late
  <2>5. CASE Send(r)
    <3>1. serving[r].late => serving[r].who = "admin"
      BY <2>5 DEF Send, CallHonest, Late
    <3> QED
      BY <2>5, <3>1, <1>goto, <1>idle DEF Send, Answered
  <2>6. CASE CacheThumb(r)
    BY <2>6, <1>idle DEF CacheThumb, Answered
  <2>7. ASSUME NEW S \in SUBSET Files, DeleteFiles(r, S) PROVE CallHonest(s) /\ s.pc # "insert"
    <3>1. s = [pc |-> "remove", file |-> S, who |-> "other", late |-> FALSE] /\ S # {} /\ S \subseteq fileRow
      BY <2>7 DEF DeleteFiles, FileIdle
    <3>2. s \in FileCalls
      BY <3>1 DEF FileCalls, FilePcs
    <3> QED
      BY <3>1, <3>2 DEF CallHonest, Inserts, Removes, Late
  <2> QED
    BY <2>1, <2>2, <2>3, <2>4, <2>5, <2>6, <2>7
<1> QED
  BY <1>1, <1>2, <1>3, <1>4, OneCallGoesOn

LEMMA FilesCrashStep == ASSUME RowsInv, FilesCrash PROVE RowsInv'
<1> USE DEF RowsInv
<1>1. /\ serving' = [r \in FileRequests |-> FileIdle] /\ UNCHANGED <<object, fileRow, removed>>
      /\ torn' = torn \cup {FileOf(r) : r \in Forgetting}
  BY DEF FilesCrash, fileTables
<1>2. CallHonest(FileIdle)'
  BY DEF CallHonest, FileCalls, FilePcs, Inserts, Removes, Late, FileIdle
<1>3. UploadsApart'
  BY <1>1 DEF UploadsApart, FileIdle
<1>4. \A r \in FileRequests : FileOf(r) = OneFile(serving[r].file)
  BY DEF FileOf, OneFile
<1>5. \A f \in fileRow \ object : f \in torn'
  BY <1>1, <1>4 DEF RowsCovered, Forgetting
<1>6. RowsCovered'
  BY <1>1, <1>5 DEF RowsCovered
<1>7. RowsTyped' /\ (fileRow \cap removed = {})'
  BY <1>1 DEF RowsTyped
<1> QED
  BY <1>1, <1>2, <1>3, <1>6, <1>7

LEMMA RowsStep == RowsInv /\ [FilesNext]_fileVars => RowsInv'
<1> SUFFICES ASSUME RowsInv, [FilesNext]_fileVars PROVE RowsInv'
  OBVIOUS
<1>1. CASE UNCHANGED <<object, fileRow, removed, torn, serving>>
  BY <1>1 DEF RowsInv, RowsTyped, CallHonest, Inserts, Removes, Late, UploadsApart, RowsCovered
<1>2. ASSUME NEW t \in FileTokens, NEW f \in Files, Mint(t, f) PROVE RowsInv'
  BY <1>1, <1>2 DEF Mint, fileHistory
<1>3. CASE PruneUses \/ FilesTick \/ UNCHANGED fileVars
  BY <1>1, <1>3 DEF PruneUses, FilesTick, fileVars, fileTables, fileHistory
<1> QED
  BY <1>2, <1>3, UploadStep, InsertRowStep, RemoveObjectStep, ForgetFileStep, DownloadStep,
     FilesCrashStep DEF FilesNext

(***************************************************************************)
(* A one-time token lets one download through; a file's row has its object *)
(* unless a delete is between the two or was cut off there; and a deleted  *)
(* file is served to no request that comes afterwards but an admin's.  For *)
(* any files, tokens, requests and settings of the tokens' life.           *)
(***************************************************************************)
LEMMA FilesInvGuards == FilesIInv => FilesGuarded
<1> SUFFICES ASSUME FilesIInv PROVE FilesGuarded
  OBVIOUS
<1>1. OneUse
  BY DEF FilesIInv, TokensInv, TokensTyped, TokenHonest, OneUse
<1>2. RowHasObject
  <2>1. \A r \in FileRequests : FileOf(r) = OneFile(serving[r].file)
    BY DEF FileOf, OneFile
  <2> QED
    BY <2>1 DEF FilesIInv, RowsInv, RowsCovered, RowHasObject, Forgetting
<1>3. DeletedGone
  BY DEF FilesIInv, RowsInv, CallHonest, Late, DeletedGone
<1> QED
  BY <1>1, <1>2, <1>3 DEF FilesGuarded, FilesConsistent

THEOREM FilesHandedOutRight == FilesSpec => []FilesGuarded
<1>1. FilesIInv /\ [FilesNext]_fileVars => FilesIInv'
  BY TokensStep, RowsStep DEF FilesIInv
<1> QED
  BY <1>1, FilesInitially, FilesInvGuards, PTL DEF FilesSpec

-----------------------------------------------------------------------------

-----------------------------------------------------------------------------
(***************************************************************************)
(* Notifications.  A notice is sent once; what it owes are reachable       *)
(* devices of its addressee; a device is registered for its owner, and     *)
(* switched on unless an answer that is out of date, or about a message,   *)
(* switched it off; a device taken for dead that did not come back, and    *)
(* whose message was not refused, cannot be reached; and while a job has   *)
(* had no device put off, what is owed has been or will be asked for.      *)
(***************************************************************************)
Addressees == Devices \cup People \cup {Nobody}
Pushes ==
  [pc : {"none", "queued", "sending", "dropped", "done", "failed"}, tries : Nat,
   wait : SUBSET Addressees, dead : SUBSET Devices, good : SUBSET Devices, lost : BOOLEAN]

NotesTyped ==
  /\ enabled \subseteq Providers /\ reachable \subseteq Devices
  /\ device \in [Devices -> [user : People \cup {Nobody}, on : BOOLEAN]]
  /\ notice \in [Notices -> [to : People \cup {Nobody}, rest : SUBSET Transports]]
  /\ push \in [Notices -> [Transports -> Pushes]]
  /\ owner \in [Devices -> People \cup {Nobody}]
  /\ owed \in [Notices -> SUBSET Devices]
  /\ got \in [Notices -> SUBSET (Addressees \cup {"inbox"})]

SentOnce(n) ==
  /\ notice[n].to = Nobody => notice[n].rest = {} /\ owed[n] = {}
  /\ \A p \in Transports : notice[n].to = Nobody \/ p \in notice[n].rest => push[n][p].pc = "none"
Owes(n) == \A d \in owed[n] : d \in reachable /\ owner[d] = notice[n].to
JobHonest(j, p) ==
  /\ j.wait # {} => j.pc = "sending"
  /\ IF p = "fcm" THEN j.dead \cap reachable \subseteq j.good ELSE j.dead = {}
Asks(n, p, j) ==
  LET asked == got[n] \cup IF j.pc = "sending" THEN j.wait ELSE {} IN
  j.pc = "done" \/ (j.pc = "sending" /\ ~j.lost) =>
    /\ p = "fcm" => owed[n] \subseteq asked
    /\ p = "mail" => notice[n].to \in asked
Registered(d) ==
  /\ device[d].on => owner[d] = device[d].user
  /\ owner[d] # Nobody =>
       device[d].user = owner[d] /\ (d \in reachable => device[d].on \/ d \in mistaken)

NotesIInv ==
  /\ NotesTyped
  /\ \A n \in Notices : SentOnce(n) /\ Owes(n)
  /\ \A n \in Notices, p \in Transports : JobHonest(push[n][p], p) /\ Asks(n, p, push[n][p])
  /\ \A d \in Devices : Registered(d)

LEMMA NotesInitially == NotificationsInit => NotesIInv
<1> SUFFICES ASSUME NotificationsInit PROVE NotesIInv
  OBVIOUS
<1>1. NoPush \in Pushes
  BY DEF NoPush, Pushes
<1>2. \A n \in Notices, p \in Transports : push[n][p] = NoPush
  BY DEF NotificationsInit
<1>3. NotesTyped
  BY <1>1 DEF NotificationsInit, NotesTyped, NoNotice
<1>4. \A n \in Notices : SentOnce(n) /\ Owes(n)
  BY <1>2 DEF NotificationsInit, SentOnce, Owes, NoNotice, NoPush
<1>5. \A n \in Notices, p \in Transports : JobHonest(push[n][p], p) /\ Asks(n, p, push[n][p])
  BY <1>2 DEF JobHonest, Asks, NoPush
<1>6. \A d \in Devices : Registered(d)
  BY DEF NotificationsInit, Registered
<1> QED
  BY <1>3, <1>4, <1>5, <1>6 DEF NotesIInv

(* One job goes on, to j, and the others stay; less may be owed by then, more may have been *)
(* reached, and devices may have been switched off.                                         *)
LEMMA OneJobGoesOn ==
  ASSUME NotesIInv, NotesTyped', NEW n \in Notices, NEW p \in Transports, NEW j,
         push' = [push EXCEPT ![n][p] = j],
         UNCHANGED <<reachable, owner>>, \A d \in Devices : Registered(d)',
         \A m \in Notices : /\ notice'[m].to = notice[m].to /\ notice'[m].rest \subseteq notice[m].rest
                            /\ got[m] \subseteq got'[m] /\ owed'[m] \subseteq owed[m],
         notice[n].to # Nobody, p \notin notice'[n].rest,
         JobHonest(j, p), Asks(n, p, j)'
  PROVE  NotesIInv'
<1> USE DEF NotesIInv
<1>1. \A m \in Notices, q \in Transports : push'[m][q] = IF m = n /\ q = p THEN j ELSE push[m][q]
  BY DEF NotesTyped
<1>2. \A m \in Notices : SentOnce(m)' /\ Owes(m)'
  BY <1>1 DEF SentOnce, Owes
<1>3. ASSUME NEW m \in Notices, NEW q \in Transports
      PROVE  JobHonest(push[m][q], q)' /\ Asks(m, q, push[m][q])'
  <2>1. CASE m = n /\ q = p
    BY <1>1, <2>1 DEF JobHonest, Asks
  <2>2. CASE ~(m = n /\ q = p)
    <3>1. push'[m][q] = push[m][q] /\ JobHonest(push[m][q], q) /\ Asks(m, q, push[m][q])
      BY <1>1, <2>2
    <3> QED
      BY <3>1 DEF JobHonest, Asks
  <2> QED
    BY <2>1, <2>2
<1> QED
  BY <1>2, <1>3

(* What the jobs and the answers do. *)
LEMMA EnqueueStep ==
  ASSUME NotesIInv, NEW n \in Notices, NEW p \in Transports, Enqueue(n, p) PROVE NotesIInv'
<1> USE DEF NotesIInv
<1>j. PICK j : j = [push[n][p] EXCEPT !.pc = "queued"]
  OBVIOUS
<1>1. /\ push' = [push EXCEPT ![n][p] = j] /\ notice' = [notice EXCEPT ![n].rest = @ \ {p}]
      /\ UNCHANGED <<enabled, device, reachable, owner, owed, got, mistaken>> /\ p \in notice[n].rest
  BY <1>j DEF Enqueue, noteHistory
<1>2. push[n][p] \in Pushes /\ notice[n] \in [to : People \cup {Nobody}, rest : SUBSET Transports]
  BY DEF NotesTyped
<1>3. /\ j \in Pushes /\ j.pc = "queued"
      /\ j.dead = push[n][p].dead /\ j.good = push[n][p].good /\ j.wait = push[n][p].wait
  BY <1>2, <1>j DEF Pushes
<1>4. NotesTyped'
  BY <1>1, <1>2, <1>3 DEF NotesTyped
<1>5. \A m \in Notices : notice'[m].to = notice[m].to /\ notice'[m].rest \subseteq notice[m].rest
  BY <1>1 DEF NotesTyped
<1>6. notice[n].to # Nobody /\ p \notin notice'[n].rest
  BY <1>1, <1>2 DEF SentOnce, NotesTyped
<1>7. \A d \in Devices : Registered(d)'
  BY <1>1 DEF Registered
<1>8. JobHonest(push[n][p], p) /\ push[n][p].pc = "none"
  BY <1>1 DEF SentOnce
<1>9. JobHonest(j, p) /\ Asks(n, p, j)'
  BY <1>3, <1>8 DEF JobHonest, Asks
<1> QED
  BY <1>1, <1>4, <1>5, <1>6, <1>7, <1>9, OneJobGoesOn

(* A job whose turn it is has been enqueued. *)
LEMMA Enqueued ==
  ASSUME NotesIInv, NEW n \in Notices, NEW p \in Transports, push[n][p].pc # "none"
  PROVE  notice[n].to \in People /\ notice[n].to # Nobody /\ p \notin notice[n].rest
BY DEF NotesIInv, NotesTyped, SentOnce

LEMMA StartStep ==
  ASSUME NotesIInv, NEW n \in Notices, NEW p \in Transports, Start(n, p) PROVE NotesIInv'
<1> USE DEF NotesIInv
<1>j. PICK j : j = IF p \in Providers \ enabled THEN [push[n][p] EXCEPT !.pc = "dropped"]
                   ELSE [NoPush EXCEPT !.pc = "sending", !.tries = push[n][p].tries, !.wait = Targets(n, p)]
  OBVIOUS
<1>1. /\ push' = [push EXCEPT ![n][p] = j]
      /\ owed' = IF p = "fcm" THEN [owed EXCEPT ![n] = @ \ mistaken] ELSE owed
      /\ UNCHANGED <<enabled, notice, device, reachable, owner, got, mistaken>> /\ push[n][p].pc = "queued"
  BY <1>j DEF Start
<1>2. push[n][p] \in Pushes /\ notice[n].to \in People /\ notice[n].to # Nobody /\ p \notin notice[n].rest
  BY <1>1, Enqueued DEF NotesTyped
<1>3. Targets(n, p) \in SUBSET Addressees
  BY <1>2 DEF Targets, Addressees
<1>4. /\ j \in Pushes /\ j.pc \in {"dropped", "sending"} /\ (j.pc = "sending" => j.wait = Targets(n, p))
      /\ (j.pc = "dropped" => j.wait = push[n][p].wait)
      /\ (j.dead = {} \/ (j.dead = push[n][p].dead /\ j.good = push[n][p].good))
  <2>1. CASE p \in Providers \ enabled
    <3>1. j = [push[n][p] EXCEPT !.pc = "dropped"]
      BY <1>j, <2>1
    <3> QED
      BY <1>2, <3>1 DEF Pushes
  <2>2. CASE p \notin Providers \ enabled
    <3>1. j = [NoPush EXCEPT !.pc = "sending", !.tries = push[n][p].tries, !.wait = Targets(n, p)]
      BY <1>j, <2>2, Zenon
    <3>2. j = [pc |-> "sending", tries |-> push[n][p].tries, wait |-> Targets(n, p), dead |-> {}, good |-> {}, lost |-> FALSE]
      BY <3>1 DEF NoPush
    <3>3. push[n][p].tries \in Nat
      BY <1>2 DEF Pushes
    <3> QED
      BY <1>3, <3>2, <3>3 DEF Pushes
  <2> QED
    BY <2>1, <2>2
<1>5. \A m \in Notices : owed'[m] \subseteq owed[m]
  BY <1>1 DEF NotesTyped
<1>6. NotesTyped'
  <2>1. owed' \in [Notices -> SUBSET Devices]
    BY <1>1 DEF NotesTyped
  <2>2. push' \in [Notices -> [Transports -> Pushes]]
    BY <1>1, <1>4 DEF NotesTyped
  <2> QED
    BY <1>1, <2>1, <2>2 DEF NotesTyped
<1>7. \A d \in Devices : Registered(d)'
  BY <1>1 DEF Registered
<1>8. JobHonest(j, p)
  <2>1. JobHonest(push[n][p], p)
    OBVIOUS
  <2> QED
    BY <1>1, <1>4, <2>1 DEF JobHonest
<1>9. Asks(n, p, j)'
  <2>1. ASSUME p = "fcm", NEW d \in owed'[n] PROVE d \in Targets(n, p)
    <3>1. d \in owed[n] /\ d \notin mistaken /\ d \in Devices
      BY <1>1, <2>1 DEF NotesTyped
    <3>2. d \in reachable /\ owner[d] = notice[n].to /\ Registered(d)
      BY <3>1 DEF Owes
    <3>3. device[d].user = notice[n].to /\ device[d].on
      BY <1>2, <3>1, <3>2 DEF Registered
    <3>4. device[d] \in [user : People \cup {Nobody}, on : BOOLEAN]
      BY <3>1 DEF NotesTyped
    <3>5. device[d] = [user |-> notice[n].to, on |-> TRUE]
      BY <3>3, <3>4
    <3> QED
      BY <2>1, <3>1, <3>5 DEF Targets
  <2>2. p = "mail" => notice[n].to \in Targets(n, p)
    BY DEF Targets
  <2> QED
    BY <1>1, <1>4, <2>1, <2>2 DEF Asks
<1>10. \A m \in Notices : /\ notice'[m].to = notice[m].to /\ notice'[m].rest \subseteq notice[m].rest
                          /\ got[m] \subseteq got'[m]
  BY <1>1
<1> QED
  BY <1>1, <1>2, <1>5, <1>6, <1>7, <1>8, <1>9, <1>10, OneJobGoesOn

(* A target is answered for: it was reached, it is owed nothing now, or the job is not well. *)
LEMMA AnswerStep ==
  ASSUME NotesIInv, NEW n \in Notices, NEW p \in Transports, NEW x \in push[n][p].wait,
         NEW j \in Pushes, push' = [push EXCEPT ![n][p] = j],
         UNCHANGED <<enabled, notice, device, reachable, owner, mistaken>>,
         j.pc = push[n][p].pc, j.wait = push[n][p].wait \ {x}, JobHonest(j, p),
         j.lost \/ (j.lost = push[n][p].lost /\ (x \in got'[n] \/ (p # "mail" /\ x \notin owed'[n]))),
         got' \in [Notices -> SUBSET (Addressees \cup {"inbox"})], owed' \in [Notices -> SUBSET Devices],
         \A m \in Notices : got[m] \subseteq got'[m] /\ owed'[m] \subseteq owed[m]
  PROVE  NotesIInv'
<1> USE DEF NotesIInv
<1>1. NotesTyped'
  BY DEF NotesTyped
<1>2. notice[n].to # Nobody /\ p \notin notice[n].rest
  BY Enqueued DEF JobHonest
<1>3. \A d \in Devices : Registered(d)'
  BY DEF Registered
<1>4. Asks(n, p, j)'
  <2>1. Asks(n, p, push[n][p])
    OBVIOUS
  <2>2. CASE j.pc = "sending" /\ ~j.lost
    <3>1. ~push[n][p].lost /\ push[n][p].pc = "sending"
      BY <2>2
    <3>2. p = "fcm" => owed'[n] \subseteq got'[n] \cup j.wait
      BY <2>1, <2>2, <3>1 DEF Asks
    <3>3. p = "mail" => notice[n].to \in got'[n] \cup j.wait
      BY <2>1, <2>2, <3>1 DEF Asks
    <3> QED
      BY <2>2, <3>2, <3>3 DEF Asks
  <2>3. CASE ~(j.pc = "sending" /\ ~j.lost)
    BY <2>3 DEF Asks
  <2> QED
    BY <2>2, <2>3
<1> QED
  BY <1>1, <1>2, <1>3, <1>4, OneJobGoesOn

LEMMA AnswersStep ==
  ASSUME NotesIInv, NEW n \in Notices, NEW p \in Transports, NEW x,
         Accepted(n, p, x) \/ NotNow(n, p, x) \/ Rejected(n, p, x)
  PROVE  NotesIInv'
<1> USE DEF NotesIInv
<1>1. /\ push[n][p] \in Pushes /\ x \in push[n][p].wait /\ JobHonest(push[n][p], p)
      /\ UNCHANGED <<enabled, notice, device, reachable, owner, mistaken>>
  BY DEF NotesTyped, Accepted, NotNow, Rejected, noteHistory
<1>2. x \in Addressees
  BY <1>1 DEF Pushes
<1>3. CASE Accepted(n, p, x)
  <2>1. PICK j : j = [push[n][p] EXCEPT !.wait = @ \ {x}]
    OBVIOUS
  <2>2. push' = [push EXCEPT ![n][p] = j] /\ got' = [got EXCEPT ![n] = @ \cup {x}] /\ owed' = owed
    BY <1>3, <2>1 DEF Accepted
  <2>3. /\ j \in Pushes /\ j.pc = push[n][p].pc /\ j.wait = push[n][p].wait \ {x} /\ j.lost = push[n][p].lost
        /\ JobHonest(j, p)
    BY <1>1, <2>1 DEF Pushes, JobHonest
  <2>4. /\ got' \in [Notices -> SUBSET (Addressees \cup {"inbox"})] /\ x \in got'[n]
        /\ \A m \in Notices : got[m] \subseteq got'[m]
    BY <1>2, <2>2 DEF NotesTyped
  <2> QED
    BY <1>1, <2>2, <2>3, <2>4, AnswerStep DEF NotesTyped
<1>4. CASE NotNow(n, p, x)
  <2>1. PICK j : j = [push[n][p] EXCEPT !.wait = @ \ {x}, !.lost = TRUE]
    OBVIOUS
  <2>2. push' = [push EXCEPT ![n][p] = j] /\ UNCHANGED <<got, owed>>
    <3>1. push' = [push EXCEPT ![n][p].wait = @ \ {x}, ![n][p].lost = TRUE] /\ UNCHANGED <<got, owed>>
      BY <1>4 DEF NotNow, noteHistory
    <3>2. push' = [push EXCEPT ![n][p] = j]
      BY <2>1, <3>1
    <3> QED
      BY <3>1, <3>2
  <2>3. j \in Pushes
    BY <1>1, <2>1, Zenon DEF Pushes
  <2>4. /\ j.pc = push[n][p].pc /\ j.wait = push[n][p].wait \ {x} /\ j.lost
        /\ j.dead = push[n][p].dead /\ j.good = push[n][p].good
    BY <1>1, <2>1 DEF Pushes
  <2>5. JobHonest(j, p)
    BY <1>1, <2>4 DEF JobHonest
  <2> QED
    BY <1>1, <2>2, <2>3, <2>4, <2>5, AnswerStep DEF NotesTyped
<1>5. CASE Rejected(n, p, x)
  <2>1. PICK j : j = [push[n][p] EXCEPT !.wait = @ \ {x}]
    OBVIOUS
  <2>2. push' = [push EXCEPT ![n][p] = j] /\ owed' = [owed EXCEPT ![n] = @ \ {x}] /\ got' = got /\ p # "mail"
    BY <1>5, <2>1 DEF Rejected
  <2>3. /\ j \in Pushes /\ j.pc = push[n][p].pc /\ j.wait = push[n][p].wait \ {x} /\ j.lost = push[n][p].lost
        /\ JobHonest(j, p)
    BY <1>1, <2>1 DEF Pushes, JobHonest
  <2>4. /\ owed' \in [Notices -> SUBSET Devices] /\ x \notin owed'[n]
        /\ \A m \in Notices : owed'[m] \subseteq owed[m]
    BY <2>2 DEF NotesTyped
  <2> QED
    BY <1>1, <2>2, <2>3, <2>4, AnswerStep DEF NotesTyped
<1> QED
  BY <1>3, <1>4, <1>5

LEMMA UnknownToStep ==
  ASSUME NotesIInv, NEW n \in Notices, NEW x \in Devices, UnknownTo(n, x) PROVE NotesIInv'
<1> USE DEF NotesIInv
<1>1. /\ push[n]["fcm"] \in Pushes /\ x \in push[n]["fcm"].wait /\ x \notin reachable /\ "fcm" \in Transports
      /\ UNCHANGED <<enabled, notice, device, reachable, owner, mistaken, got, owed>>
      /\ JobHonest(push[n]["fcm"], "fcm")
  BY DEF NotesTyped, UnknownTo, noteHistory, Transports, Providers
<1>2. PICK j : j = [push[n]["fcm"] EXCEPT !.wait = @ \ {x}, !.dead = @ \cup {x}, !.good = @ \ {x}]
  OBVIOUS
<1>3. push' = [push EXCEPT ![n]["fcm"] = j]
  BY <1>2 DEF UnknownTo
<1>4. /\ j.pc = push[n]["fcm"].pc /\ j.wait = push[n]["fcm"].wait \ {x} /\ j.lost = push[n]["fcm"].lost
      /\ j.dead = push[n]["fcm"].dead \cup {x} /\ j.good = push[n]["fcm"].good \ {x}
      /\ j.tries = push[n]["fcm"].tries
  BY <1>1, <1>2 DEF Pushes
<1>5. j \in Pushes
  BY <1>1, <1>2, Zenon DEF Pushes
<1>6. JobHonest(j, "fcm")
  BY <1>1, <1>4 DEF JobHonest
<1>7. x \notin owed[n]
  BY <1>1 DEF Owes
<1> QED
  BY <1>1, <1>3, <1>4, <1>5, <1>6, <1>7, AnswerStep DEF NotesTyped

LEMMA CondemnedStep ==
  ASSUME NotesIInv, NEW n \in Notices, NEW x \in Devices, Condemned(n, x) PROVE NotesIInv'
<1> USE DEF NotesIInv
<1>1. /\ push[n]["fcm"] \in Pushes /\ x \in push[n]["fcm"].wait /\ "fcm" \in Transports /\ "fcm" # "mail"
      /\ UNCHANGED <<enabled, notice, device, reachable, owner, mistaken, got>>
      /\ owed' = [owed EXCEPT ![n] = @ \ {x}] /\ JobHonest(push[n]["fcm"], "fcm")
  BY DEF NotesTyped, Condemned, Transports, Providers
<1>2. PICK j : j = [push[n]["fcm"] EXCEPT !.wait = @ \ {x}, !.dead = @ \cup {x}, !.good = @ \cup {x}]
  OBVIOUS
<1>3. push' = [push EXCEPT ![n]["fcm"] = j]
  BY <1>2 DEF Condemned
<1>4. /\ j.pc = push[n]["fcm"].pc /\ j.wait = push[n]["fcm"].wait \ {x} /\ j.lost = push[n]["fcm"].lost
      /\ j.dead = push[n]["fcm"].dead \cup {x} /\ j.good = push[n]["fcm"].good \cup {x}
      /\ j.tries = push[n]["fcm"].tries
  BY <1>1, <1>2 DEF Pushes
<1>5. j \in Pushes
  BY <1>1, <1>2, Zenon DEF Pushes
<1>6. JobHonest(j, "fcm")
  BY <1>1, <1>4 DEF JobHonest
<1>7. /\ owed' \in [Notices -> SUBSET Devices] /\ x \notin owed'[n]
      /\ \A m \in Notices : owed'[m] \subseteq owed[m]
  BY <1>1 DEF NotesTyped
<1>8. got' \in [Notices -> SUBSET (Addressees \cup {"inbox"})] /\ \A m \in Notices : got[m] \subseteq got'[m]
  BY <1>1 DEF NotesTyped
<1> QED
  BY <1>1, <1>3, <1>4, <1>5, <1>6, <1>7, <1>8, AnswerStep

LEMMA JobEndsStep ==
  ASSUME NotesIInv, NEW n \in Notices, NEW p \in Transports, JobEnds(n, p) PROVE NotesIInv'
<1> USE DEF NotesIInv
<1>k. PICK k : k = push[n][p]
  OBVIOUS
<1>j. PICK j : j = [NoPush EXCEPT
        !.pc = IF AllAnswered(n, p) THEN "done" ELSE IF k.tries + 1 < MaxTries THEN "queued" ELSE "failed",
        !.tries = k.tries + 1]
  OBVIOUS
<1>1. /\ k.pc = "sending" /\ k.wait = {} /\ push' = [push EXCEPT ![n][p] = j]
      /\ device' = [d \in Devices |-> IF d \in k.dead THEN [device[d] EXCEPT !.on = FALSE] ELSE device[d]]
      /\ mistaken' = mistaken \cup (k.dead \cap k.good)
      /\ UNCHANGED <<enabled, notice, reachable, owner, owed, got>>
  BY <1>k, <1>j DEF JobEnds
<1>2. k \in Pushes /\ JobHonest(k, p) /\ Asks(n, p, k)
  BY <1>k DEF NotesTyped
<1>3. /\ j.wait = {} /\ j.dead = {} /\ j.pc \in {"done", "queued", "failed"} /\ (j.pc = "done" => ~k.lost)
      /\ j \in Pushes
  <2>1. PICK pc : pc = IF AllAnswered(n, p) THEN "done" ELSE IF k.tries + 1 < MaxTries THEN "queued" ELSE "failed"
    OBVIOUS
  <2>2. j = [pc |-> pc, tries |-> k.tries + 1, wait |-> {}, dead |-> {}, good |-> {}, lost |-> FALSE]
    BY <1>j, <2>1 DEF NoPush
  <2>3. k.tries + 1 \in Nat /\ pc \in {"done", "queued", "failed"} /\ (pc = "done" => ~k.lost)
    BY <1>2, <1>k, <2>1 DEF Pushes, AllAnswered
  <2> QED
    BY <2>2, <2>3 DEF Pushes
<1>4. \A d \in Devices : /\ device'[d].user = device[d].user /\ device'[d].on \in BOOLEAN
                          /\ device'[d].on <=> (device[d].on /\ d \notin k.dead)
                          /\ device'[d] \in [user : People \cup {Nobody}, on : BOOLEAN]
  BY <1>1 DEF NotesTyped
<1>5. NotesTyped'
  <2>1. push' \in [Notices -> [Transports -> Pushes]]
    BY <1>1, <1>3 DEF NotesTyped
  <2>2. device' \in [Devices -> [user : People \cup {Nobody}, on : BOOLEAN]]
    <3>1. \A d \in Devices : (IF d \in k.dead THEN [device[d] EXCEPT !.on = FALSE] ELSE device[d])
                               \in [user : People \cup {Nobody}, on : BOOLEAN]
      BY ZenonT(40) DEF NotesTyped
    <3> QED
      BY <1>1, <3>1
  <2> QED
    BY <1>1, <2>1, <2>2 DEF NotesTyped
<1>6. ASSUME NEW d \in Devices PROVE Registered(d)'
  <2>1. d \in k.dead /\ d \in reachable => d \in k.good
    BY <1>2 DEF JobHonest
  <2>2. Registered(d)
    OBVIOUS
  <2> QED
    BY <1>1, <1>4, <2>1, <2>2 DEF Registered
<1>7. JobHonest(j, p)
  BY <1>3 DEF JobHonest
<1>8. Asks(n, p, j)'
  <2>1. ~k.lost => (p = "fcm" => owed[n] \subseteq got[n]) /\ (p = "mail" => notice[n].to \in got[n])
    BY <1>1, <1>2 DEF Asks
  <2> QED
    BY <1>1, <1>3, <2>1 DEF Asks
<1>9. notice[n].to # Nobody /\ p \notin notice[n].rest
  BY <1>1, <1>k, Enqueued
<1> QED
  BY <1>1, <1>5, <1>6, <1>7, <1>8, <1>9, OneJobGoesOn

(* What people and the world do. *)
LEMMA RegisterStep ==
  ASSUME NotesIInv, NEW e \in Devices, NEW u \in People, Register(e, u) PROVE NotesIInv'
<1> USE DEF NotesIInv
<1>1. /\ device' = [device EXCEPT ![e] = [user |-> u, on |-> TRUE]] /\ reachable' = reachable \cup {e}
      /\ push' = [n \in Notices |-> [push[n] EXCEPT !["fcm"].good = @ \cup {e}]]
      /\ owner' = [owner EXCEPT ![e] = u] /\ mistaken' = mistaken \ {e}
      /\ owed' = [n \in Notices |-> IF notice[n].to # u THEN owed[n] \ {e} ELSE owed[n]]
      /\ UNCHANGED <<enabled, notice, got>>
  BY DEF Register, Rebind
<1>2. ASSUME NEW n \in Notices, NEW p \in Transports
      PROVE  /\ push'[n][p] = IF p = "fcm" THEN [push[n][p] EXCEPT !.good = @ \cup {e}] ELSE push[n][p]
             /\ push[n][p] \in Pushes /\ push'[n][p] \in Pushes
  <2>1. push[n] \in [Transports -> Pushes] /\ push'[n] = [push[n] EXCEPT !["fcm"].good = @ \cup {e}]
    BY <1>1 DEF NotesTyped
  <2>2. push'[n][p] = IF p = "fcm" THEN [push[n][p] EXCEPT !.good = @ \cup {e}] ELSE push[n][p]
    BY <2>1
  <2> QED
    BY <2>1, <2>2 DEF Pushes
<1>3. ASSUME NEW n \in Notices, NEW p \in Transports
      PROVE  /\ push'[n][p].pc = push[n][p].pc /\ push'[n][p].wait = push[n][p].wait
             /\ push'[n][p].dead = push[n][p].dead /\ push'[n][p].lost = push[n][p].lost
             /\ push'[n][p].good = IF p = "fcm" THEN push[n][p].good \cup {e} ELSE push[n][p].good
  <2>1. CASE p = "fcm"
    <3>1. push'[n][p] = [push[n][p] EXCEPT !.good = @ \cup {e}] /\ push[n][p] \in Pushes
      BY <1>2, <2>1
    <3> QED
      BY <2>1, <3>1 DEF Pushes
  <2>2. CASE p # "fcm"
    BY <1>2, <2>2
  <2> QED
    BY <2>1, <2>2
<1>4. NotesTyped'
  <2>1. push' \in [Notices -> [Transports -> Pushes]]
    <3>1. ASSUME NEW n \in Notices PROVE push'[n] \in [Transports -> Pushes]
      <4>1. DOMAIN push'[n] = Transports /\ push'[n] = [p \in Transports |-> push'[n][p]]
        BY <1>1 DEF NotesTyped
      <4> QED
        BY <1>2, <4>1
    <3> QED
      BY <1>1, <3>1
  <2>2. owed' \in [Notices -> SUBSET Devices]
    BY <1>1 DEF NotesTyped
  <2> QED
    BY <1>1, <2>1, <2>2 DEF NotesTyped
<1>5. ASSUME NEW n \in Notices PROVE SentOnce(n)' /\ Owes(n)'
  <2>1. SentOnce(n) /\ Owes(n)
    OBVIOUS
  <2>2. owed'[n] \subseteq owed[n] /\ (e \in owed'[n] => notice[n].to = u) /\ owed[n] \subseteq Devices
    BY <1>1 DEF NotesTyped
  <2>3. \A d \in Devices : owner'[d] = IF d = e THEN u ELSE owner[d]
    BY <1>1 DEF NotesTyped
  <2>4. SentOnce(n)'
    BY <1>1, <1>3, <2>1, <2>2 DEF SentOnce
  <2>5. Owes(n)'
    BY <1>1, <2>1, <2>2, <2>3 DEF Owes
  <2> QED
    BY <2>4, <2>5
<1>6. ASSUME NEW n \in Notices, NEW p \in Transports
      PROVE  JobHonest(push[n][p], p)' /\ Asks(n, p, push[n][p])'
  <2>1. JobHonest(push[n][p], p) /\ Asks(n, p, push[n][p])
    OBVIOUS
  <2>2. JobHonest(push[n][p], p)'
    <3>1. CASE p = "fcm"
      <4>0. reachable' = reachable \cup {e}
        BY <1>1
      <4>1. push[n][p].dead \cap reachable \subseteq push[n][p].good
        BY <2>1, <3>1 DEF JobHonest
      <4>2. push'[n][p].dead = push[n][p].dead /\ push'[n][p].good = push[n][p].good \cup {e}
        BY <1>3, <3>1
      <4>3. push'[n][p].dead \cap reachable' \subseteq push'[n][p].good
        BY <4>0, <4>1, <4>2
      <4> QED
        BY <1>3, <2>1, <3>1, <4>3 DEF JobHonest
    <3>2. CASE p # "fcm"
      BY <1>3, <2>1, <3>2 DEF JobHonest
    <3> QED
      BY <3>1, <3>2
  <2>3. owed'[n] \subseteq owed[n]
    BY <1>1 DEF NotesTyped
  <2>4. Asks(n, p, push[n][p])'
    BY <1>1, <1>3, <2>1, <2>3 DEF Asks
  <2> QED
    BY <2>2, <2>4
<1>7. ASSUME NEW d \in Devices PROVE Registered(d)'
  <2>1. CASE d = e
    <3>1. device'[d] = [user |-> u, on |-> TRUE] /\ owner'[d] = u
      BY <1>1, <2>1 DEF NotesTyped
    <3> QED
      BY <3>1 DEF Registered
  <2>2. CASE d # e
    <3>1. /\ device'[d] = device[d] /\ owner'[d] = owner[d] /\ Registered(d)
          /\ (d \in reachable' <=> d \in reachable) /\ (d \in mistaken' <=> d \in mistaken)
      BY <1>1, <2>2 DEF NotesTyped
    <3> QED
      BY <3>1 DEF Registered
  <2> QED
    BY <2>1, <2>2
<1> QED
  BY <1>4, <1>5, <1>6, <1>7

(* A device is given up, by its user or by the world: nothing is owed to it. *)
LEMMA GiveUpStep ==
  ASSUME NotesIInv, NEW e \in Devices,
         Uninstall(e) \/ \E u \in People : Unregister(e, u)
  PROVE  NotesIInv'
<1> USE DEF NotesIInv
<1>1. /\ owed' = [n \in Notices |-> owed[n] \ {e}] /\ UNCHANGED <<enabled, notice, push, got, mistaken>>
      /\ reachable' \subseteq reachable /\ reachable \ {e} \subseteq reachable'
  BY DEF Uninstall, Unregister
<1>2. \A d \in Devices \ {e} : device'[d] = device[d] /\ owner'[d] = owner[d]
  BY DEF Uninstall, Unregister, NotesTyped
<1>3. \/ (device' = device /\ owner' = owner /\ e \notin reachable')
      \/ (device' = [device EXCEPT ![e].on = FALSE] /\ owner' = [owner EXCEPT ![e] = Nobody])
  BY DEF Uninstall, Unregister
<1>4. NotesTyped'
  <2>1. owed' \in [Notices -> SUBSET Devices]
    BY <1>1 DEF NotesTyped
  <2>2. device' \in [Devices -> [user : People \cup {Nobody}, on : BOOLEAN]] /\ owner' \in [Devices -> People \cup {Nobody}]
    <3>1. device \in [Devices -> [user : People \cup {Nobody}, on : BOOLEAN]] /\ owner \in [Devices -> People \cup {Nobody}]
      BY DEF NotesTyped
    <3>2. PICK row \in [user : People \cup {Nobody}, on : BOOLEAN] : row = [device[e] EXCEPT !.on = FALSE]
      <4>1. device[e] \in [user : People \cup {Nobody}, on : BOOLEAN]
        BY <3>1
      <4> QED
        BY <4>1, Zenon
    <3>3. \/ device' = device /\ owner' = owner
          \/ device' = [device EXCEPT ![e] = row] /\ owner' = [owner EXCEPT ![e] = Nobody]
      BY <1>3, <3>1, <3>2
    <3> QED
      BY <3>1, <3>3
  <2> QED
    BY <1>1, <2>1, <2>2 DEF NotesTyped
<1>5. ASSUME NEW n \in Notices PROVE SentOnce(n)' /\ Owes(n)'
  <2>1. SentOnce(n) /\ Owes(n) /\ owed'[n] = owed[n] \ {e} /\ owed[n] \subseteq Devices
    BY <1>1 DEF NotesTyped
  <2>2. SentOnce(n)'
    BY <1>1, <2>1 DEF SentOnce
  <2>3. Owes(n)'
    BY <1>1, <1>2, <2>1 DEF Owes
  <2> QED
    BY <2>2, <2>3
<1>6. ASSUME NEW n \in Notices, NEW p \in Transports
      PROVE  JobHonest(push[n][p], p)' /\ Asks(n, p, push[n][p])'
  <2>1. JobHonest(push[n][p], p) /\ Asks(n, p, push[n][p]) /\ owed'[n] \subseteq owed[n]
    BY <1>1
  <2>2. JobHonest(push[n][p], p)'
    BY <1>1, <2>1 DEF JobHonest
  <2>3. Asks(n, p, push[n][p])'
    BY <1>1, <2>1 DEF Asks
  <2> QED
    BY <2>2, <2>3
<1>7. ASSUME NEW d \in Devices PROVE Registered(d)'
  <2>1. Registered(d)
    OBVIOUS
  <2>2. CASE d # e
    BY <1>1, <1>2, <2>1, <2>2 DEF Registered
  <2>3. CASE d = e
    BY <1>1, <1>3, <2>1, <2>3 DEF Registered, NotesTyped
  <2> QED
    BY <2>2, <2>3
<1> QED
  BY <1>4, <1>5, <1>6, <1>7

(* A notice is sent, to someone registered or not. *)
LEMMA SendStep ==
  ASSUME NotesIInv, NEW n \in Notices, NEW u \in People, Dispatch(n, u) \/ EnqueueEmail(n, u)
  PROVE  NotesIInv'
<1> USE DEF NotesIInv
<1>1. PICK rest \in SUBSET Transports : notice' = [notice EXCEPT ![n] = [to |-> u, rest |-> rest]]
  <2>1. CASE Dispatch(n, u)
    <3>1. enabled \in SUBSET Transports
      BY DEF NotesTyped, Transports
    <3> QED
      BY <2>1, <3>1 DEF Dispatch
  <2>2. CASE EnqueueEmail(n, u)
    <3>1. {"mail"} \in SUBSET Transports
      BY DEF Transports
    <3> QED
      BY <2>2, <3>1 DEF EnqueueEmail
  <2> QED
    BY <2>1, <2>2
<1>2. /\ notice[n].to = Nobody /\ UNCHANGED <<enabled, device, reachable, push, owner, mistaken>>
      /\ got' = got \/ got' = [got EXCEPT ![n] = {"inbox"}]
  BY DEF Dispatch, EnqueueEmail, Inboxed, NoNotice, noteHistory
<1>3. owed' \in [Notices -> SUBSET Devices] /\ \A m \in Notices \ {n} : owed'[m] = owed[m]
  <2>1. CASE Dispatch(n, u)
    BY <2>1 DEF Dispatch, NotesTyped
  <2>2. CASE EnqueueEmail(n, u)
    BY <2>2 DEF EnqueueEmail, NotesTyped, noteHistory
  <2> QED
    BY <2>1, <2>2
<1>4. \A d \in owed'[n] : d \in reachable /\ owner[d] = u
  BY <1>2 DEF Dispatch, EnqueueEmail, NotesTyped, SentOnce, noteHistory
<1>5. \A p \in Transports : push[n][p].pc = "none"
  BY <1>2 DEF SentOnce
<1>6. \A m \in Notices : notice'[m] = IF m = n THEN [to |-> u, rest |-> rest] ELSE notice[m]
  BY <1>1 DEF NotesTyped
<1>7. u # Nobody
  BY NotificationsAssumption
<1>8. NotesTyped'
  <2>1. notice' \in [Notices -> [to : People \cup {Nobody}, rest : SUBSET Transports]]
    BY <1>1 DEF NotesTyped
  <2>2. got' \in [Notices -> SUBSET (Addressees \cup {"inbox"})]
    BY <1>2 DEF NotesTyped
  <2> QED
    BY <1>2, <1>3, <2>1, <2>2 DEF NotesTyped
<1>9. ASSUME NEW m \in Notices PROVE SentOnce(m)' /\ Owes(m)'
  <2>1. CASE m = n
    BY <1>2, <1>4, <1>5, <1>6, <1>7, <2>1 DEF SentOnce, Owes
  <2>2. CASE m # n
    <3>1. SentOnce(m) /\ Owes(m) /\ notice'[m] = notice[m] /\ owed'[m] = owed[m]
      BY <1>3, <1>6, <2>2
    <3> QED
      BY <1>2, <3>1 DEF SentOnce, Owes
  <2> QED
    BY <2>1, <2>2
<1>10. ASSUME NEW m \in Notices, NEW p \in Transports
       PROVE  JobHonest(push[m][p], p)' /\ Asks(m, p, push[m][p])'
  <2>1. JobHonest(push[m][p], p) /\ Asks(m, p, push[m][p])
    OBVIOUS
  <2>2. JobHonest(push[m][p], p)'
    BY <1>2, <2>1 DEF JobHonest
  <2>3. CASE m = n
    BY <1>2, <1>5, <2>2, <2>3 DEF Asks
  <2>4. CASE m # n
    <3>1. notice'[m] = notice[m] /\ owed'[m] = owed[m] /\ got'[m] = got[m]
      BY <1>2, <1>3, <1>6, <2>4 DEF NotesTyped
    <3> QED
      BY <1>2, <2>1, <2>2, <3>1 DEF Asks
  <2> QED
    BY <2>3, <2>4
<1>11. \A d \in Devices : Registered(d)'
  BY <1>2 DEF Registered
<1> QED
  BY <1>8, <1>9, <1>10, <1>11

LEMMA NotifyCrashStep == ASSUME NotesIInv, NotifyCrash PROVE NotesIInv'
<1> USE DEF NotesIInv
<1>1. /\ notice' = [n \in Notices |-> [notice[n] EXCEPT !.rest = {}]]
      /\ UNCHANGED <<enabled, device, reachable, owner, owed, got, mistaken>>
  BY DEF NotifyCrash, noteHistory
<1>2. \A n \in Notices : notice'[n].to = notice[n].to /\ notice'[n].rest = {}
  BY <1>1 DEF NotesTyped
<1>3. ASSUME NEW n \in Notices, NEW p \in Transports
      PROVE  /\ push'[n][p] \in Pushes
             /\ push'[n][p] = push[n][p] \/ (/\ push[n][p].pc = "sending" /\ push'[n][p].pc \in {"queued", "failed"}
                                            /\ push'[n][p].wait = {} /\ push'[n][p].dead = {})
  <2>1. push[n][p] \in Pushes
    BY DEF NotesTyped
  <2>2. CASE push[n][p].pc # "sending"
    BY <2>1, <2>2 DEF NotifyCrash
  <2>3. CASE push[n][p].pc = "sending"
    <3>1. PICK pc \in {"queued", "failed"}, tries \in Nat :
            push'[n][p] = [pc |-> pc, tries |-> tries, wait |-> {}, dead |-> {}, good |-> {}, lost |-> FALSE]
      <4>1. PICK tries : tries = push[n][p].tries + 1
        OBVIOUS
      <4>2. PICK pc : pc = IF push[n][p].tries + 1 < MaxTries THEN "queued" ELSE "failed"
        OBVIOUS
      <4>3. push'[n][p] = [NoPush EXCEPT !.pc = pc, !.tries = tries]
        BY <2>3, <4>1, <4>2 DEF NotifyCrash
      <4>4. push'[n][p] = [pc |-> pc, tries |-> tries, wait |-> {}, dead |-> {}, good |-> {}, lost |-> FALSE]
        BY <4>3 DEF NoPush
      <4>5. tries \in Nat /\ pc \in {"queued", "failed"}
        BY <2>1, <4>1, <4>2 DEF Pushes
      <4> QED
        BY <4>4, <4>5
    <3> QED
      BY <2>3, <3>1 DEF Pushes
  <2> QED
    BY <2>2, <2>3
<1>4. NotesTyped'
  <2>1. push' \in [Notices -> [Transports -> Pushes]]
    <3>1. push' = [n \in Notices |-> [p \in Transports |-> push'[n][p]]]
      BY DEF NotifyCrash
    <3> QED
      BY <1>3, <3>1
  <2>2. notice' \in [Notices -> [to : People \cup {Nobody}, rest : SUBSET Transports]]
    BY <1>1, ZenonT(40) DEF NotesTyped
  <2> QED
    BY <1>1, <2>1, <2>2 DEF NotesTyped
<1>5. ASSUME NEW n \in Notices PROVE SentOnce(n)' /\ Owes(n)'
  <2>1. SentOnce(n) /\ Owes(n)
    OBVIOUS
  <2>2. SentOnce(n)'
    BY <1>1, <1>2, <1>3, <2>1 DEF SentOnce
  <2> QED
    BY <1>1, <1>2, <2>1, <2>2 DEF Owes
<1>6. ASSUME NEW n \in Notices, NEW p \in Transports
      PROVE  JobHonest(push[n][p], p)' /\ Asks(n, p, push[n][p])'
  <2>1. JobHonest(push[n][p], p) /\ Asks(n, p, push[n][p])
    OBVIOUS
  <2>2. CASE push'[n][p] = push[n][p]
    BY <1>1, <1>2, <2>1, <2>2 DEF JobHonest, Asks
  <2>3. CASE push'[n][p].pc \in {"queued", "failed"} /\ push'[n][p].wait = {} /\ push'[n][p].dead = {}
    BY <2>3 DEF JobHonest, Asks
  <2> QED
    BY <1>3, <2>2, <2>3
<1>7. \A d \in Devices : Registered(d)'
  BY <1>1 DEF Registered
<1> QED
  BY <1>4, <1>5, <1>6, <1>7

LEMMA NotesStep == NotesIInv /\ [NotificationsNext]_noteVars => NotesIInv'
<1> SUFFICES ASSUME NotesIInv, [NotificationsNext]_noteVars PROVE NotesIInv'
  OBVIOUS
<1>1. CASE UNCHANGED <<device, reachable, notice, push, owner, owed, got, mistaken>> /\ enabled' \subseteq Providers
  BY <1>1 DEF NotesIInv, NotesTyped, SentOnce, Owes, JobHonest, Asks, Registered
<1>2. ASSUME NEW p \in Providers, Disable(p) \/ \E rejected \in BOOLEAN : Enable(p, rejected) PROVE NotesIInv'
  BY <1>1, <1>2 DEF Enable, Disable, noteHistory, NotesIInv, NotesTyped
<1>3. CASE Bootstrap \/ UNCHANGED noteVars
  BY <1>1, <1>3 DEF Bootstrap, noteHistory, noteVars, NotesIInv, NotesTyped
<1> QED
  BY <1>2, <1>3, NotifyCrashStep, GiveUpStep, RegisterStep, SendStep, EnqueueStep, StartStep, JobEndsStep,
     AnswersStep, UnknownToStep, CondemnedStep DEF NotificationsNext

(***************************************************************************)
(* A push job that ends well has reached every device that was registered  *)
(* for the addressee and reachable all the while, whose message was not    *)
(* refused for good and that no try found switched off by mistake, and a   *)
(* mail job its addressee; and a device that is switched on belongs to the *)
(* user who registered it last.  For any devices, people, notices, numbers *)
(* of tries, crashes, refusals and answers out of date.                    *)
(***************************************************************************)
THEOREM NoticesReach == NotificationsSpec => [](Reached /\ Addressed)
<1>1. NotesIInv => Reached /\ Addressed
  <2> SUFFICES ASSUME NotesIInv PROVE Reached /\ Addressed
    OBVIOUS
  <2>1. "fcm" \in Transports /\ "mail" \in Transports
    BY DEF Transports, Providers
  <2>2. Reached
    BY <2>1 DEF NotesIInv, Asks, Reached
  <2> QED
    BY <2>2 DEF NotesIInv, Registered, Addressed
<1> QED
  BY <1>1, NotesInitially, NotesStep, PTL DEF NotificationsSpec
-----------------------------------------------------------------------------
(***************************************************************************)
(* Tools.  What a tool may do by the scope it asks for, and that every     *)
(* tool of the server and of a collection keeps to it.                     *)
(***************************************************************************)
Does(scope) ==
  CASE scope = "mcp:read" -> {"reads"}
    [] scope = "mcp:write" -> {"records", "sends"}
    [] scope = "mcp:sql" -> {"sql"}
    [] scope = "mcp:admin" -> {"schema", "logic", "secrets"}
ToolScopes == {"mcp:read", "mcp:write", "mcp:sql", "mcp:admin"}
Honest(tool) == tool.scope \in ToolScopes /\ tool.does \in Does(tool.scope)

LEMMA HonestTool ==
  ASSUME NEW names, NEW scope \in ToolScopes, NEW does \in Does(scope)
  PROVE  \A tool \in Tool(names, scope, does) : Honest(tool)
BY DEF Tool, Honest

LEMMA EffectsOfScopes ==
  /\ "mcp:read" \in ToolScopes /\ "mcp:write" \in ToolScopes /\ "mcp:sql" \in ToolScopes /\ "mcp:admin" \in ToolScopes
  /\ "reads" \in Does("mcp:read") /\ "records" \in Does("mcp:write") /\ "sends" \in Does("mcp:write")
  /\ "sql" \in Does("mcp:sql")
  /\ "schema" \in Does("mcp:admin") /\ "logic" \in Does("mcp:admin") /\ "secrets" \in Does("mcp:admin")
BY DEF ToolScopes, Does

LEMMA CollectionToolsHonest == ASSUME NEW n PROVE \A tool \in CollectionTools(n) : Honest(tool)
BY EffectsOfScopes, HonestTool DEF CollectionTools

LEMMA StaticHonest == \A tool \in Static : Honest(tool)
<1> USE EffectsOfScopes, HonestTool
<1>1. \A tool \in AdminTools \cup SchemaTools : Honest(tool)
  BY DEF AdminTools, SchemaTools
<1>2. \A tool \in HookTools \cup RouteTools : Honest(tool)
  BY DEF HookTools, RouteTools
<1>3. \A tool \in JobTools \cup FlagTools : Honest(tool)
  BY DEF JobTools, FlagTools
<1>4. \A tool \in WebhookTools \cup SettingTools : Honest(tool)
  BY DEF WebhookTools, SettingTools
<1>5. \A tool \in SqlTools \cup SeedTools : Honest(tool)
  BY DEF SqlTools, SeedTools
<1> QED
  BY <1>1, <1>2, <1>3, <1>4, <1>5 DEF Static

(* Whatever collections there are, and whichever tools theirs hide. *)
LEMMA RegistryHonest ==
  ASSUME NEW t, NEW ns, NEW readOnly, NEW tool \in Registry(t, ns, readOnly)
  PROVE  Honest(tool) /\ (readOnly => tool.does = "reads")
<1>1. Honest(tool)
  BY CollectionToolsHonest, StaticHonest DEF Registry
<1>2. readOnly => tool.scope = "mcp:read"
  BY DEF Registry, Readable
<1> QED
  BY <1>1, <1>2 DEF Honest, Does

LEMMA ScopeGrants ==
  ASSUME NEW holds, NEW tool, Honest(tool), HasScope(holds, tool.scope) PROVE tool.does \in MayDo(holds)
<1>1. CASE holds \cap {"admin", "mcp:admin"} # {}
  BY <1>1 DEF Honest, ToolScopes, Does, MayDo
<1>2. CASE holds \cap {"admin", "mcp:admin"} = {}
  <2>1. tool.scope \in holds /\ tool.scope \in {"mcp:read", "mcp:write", "mcp:sql"}
    BY <1>2 DEF HasScope, Honest, ToolScopes
  <2>2. tool.does \in Does(tool.scope)
    BY DEF Honest
  <2>3. Does(tool.scope) = (CASE tool.scope = "mcp:read" -> {"reads"} [] tool.scope = "mcp:write" -> {"records", "sends"}
                         [] tool.scope = "mcp:sql" -> {"sql"} [] OTHER -> {})
    BY <2>1 DEF Does
  <2> QED
    BY <1>2, <2>1, <2>2, <2>3 DEF MayDo
<1> QED
  BY <1>1, <1>2

(***************************************************************************)
(* Logs.  What has expired of a log in order is its head.                  *)
(***************************************************************************)
SmallestNat == \A T \in SUBSET Nat : T # {} => \E x \in T : \A y \in T : x <= y
LEMMA SmallestIs == SmallestNat
<1> SUFFICES ASSUME NEW T \in SUBSET Nat, T # {} PROVE \E x \in T : \A y \in T : x <= y
  BY DEF SmallestNat
<1>1. IsWellFoundedOn(OpToRel(<, Nat), Nat)
  BY NatLessThanWellFounded
<1>2. PICK x \in T : \A y \in T : ~ (<<y, x>> \in OpToRel(<, Nat))
  BY <1>1, WFMin
<1>3. \A y \in T : ~ (y < x)
  BY <1>2 DEF OpToRel
<1> QED
  BY <1>3

Ordered(times) ==
  /\ times \in Seq(Nat)
  /\ \A i, j \in 1..Len(times) : i <= j => times[i] <= times[j]
  /\ \A i \in 1..Len(times) : times[i] <= instant

LEMMA RecentIs ==
  ASSUME NEW times, Ordered(times), instant \in Nat
  PROVE  \E k \in 0..Len(times) :
           /\ \A n \in 1..Len(times) : n <= k <=> instant - times[n] >= Minute
           /\ Recent(times) \in Seq(Nat) /\ Len(Recent(times)) = Len(times) - k
           /\ \A n \in 1..(Len(times) - k) : Recent(times)[n] = times[n + k]
<1> USE ToolsAssumption DEF Ordered
<1>1. Len(times) \in Nat /\ \A n \in 1..Len(times) : times[n] \in Nat
  OBVIOUS
<1> DEFINE T == {n \in Nat : n >= 1 /\ n \notin Expired(times)}
<1>2. T \in SUBSET Nat /\ Len(times) + 1 \in T
  BY <1>1 DEF Expired
<1>3. PICK m \in T : \A n \in T : m <= n
  BY <1>2, SmallestIs DEF SmallestNat
<1>4. m \in 1..(Len(times) + 1) /\ m \notin Expired(times)
  BY <1>1, <1>2, <1>3
<1>5. PICK k : k = m - 1
  OBVIOUS
<1>6. k \in 0..Len(times) /\ m = k + 1
  BY <1>1, <1>4, <1>5
<1>7. \A n \in 1..k : n \in Expired(times)
  <2>1. \A n \in 1..k : n \in Nat /\ n >= 1 /\ ~(m <= n)
    BY <1>1, <1>6
  <2> QED
    BY <1>3, <2>1
<1>8. \A n \in Expired(times) : n \in 1..k
  <2> SUFFICES ASSUME NEW n \in Expired(times), n > k PROVE FALSE
    BY <1>1, <1>6 DEF Expired
  <2>1. n \in 1..Len(times) /\ instant - times[n] >= Minute /\ n # m /\ n > m
    BY <1>1, <1>4, <1>6 DEF Expired
  <2>2. m \in 1..Len(times) /\ times[m] <= times[n]
    BY <1>1, <1>4, <2>1
  <2>3. times[m] \in Nat /\ times[n] \in Nat
    BY <1>1, <2>1, <2>2
  <2>4. instant - times[m] >= Minute
    BY <2>1, <2>2, <2>3
  <2> QED
    BY <1>4, <2>2, <2>4 DEF Expired
<1>9. Expired(times) = 1..k
  BY <1>7, <1>8
<1>10. Cardinality(Expired(times)) = k
  <2>1. Cardinality(1..k) = IF 1 > k THEN 0 ELSE k - 1 + 1
    BY <1>1, <1>6, FS_Interval
  <2> QED
    BY <1>1, <1>6, <1>9, <2>1
<1>11. Recent(times) = SubSeq(times, k + 1, Len(times))
  BY <1>10 DEF Recent
<1>12. /\ SubSeq(times, k + 1, Len(times)) \in Seq(Nat)
       /\ Len(SubSeq(times, k + 1, Len(times))) = Len(times) - k
       /\ \A n \in 1..(Len(times) - k) : SubSeq(times, k + 1, Len(times))[n] = times[n + k]
  <2>1. k + 1 \in Int /\ Len(times) \in Int /\ \A i \in (k + 1)..Len(times) : times[i] \in Nat
    BY <1>1, <1>6
  <2>2. /\ SubSeq(times, k + 1, Len(times)) \in Seq(Nat)
        /\ Len(SubSeq(times, k + 1, Len(times))) = IF k + 1 <= Len(times) THEN Len(times) - (k + 1) + 1 ELSE 0
        /\ \A i \in 1..(Len(times) - (k + 1) + 1) : SubSeq(times, k + 1, Len(times))[i] = times[(k + 1) + i - 1]
    BY <2>1, SubSeqProperties
  <2>3. Len(times) - (k + 1) + 1 = Len(times) - k /\ \A i \in 1..(Len(times) - k) : (k + 1) + i - 1 = i + k
    BY <1>1, <1>6
  <2>4. (IF k + 1 <= Len(times) THEN Len(times) - (k + 1) + 1 ELSE 0) = Len(times) - k
    BY <1>1, <1>6
  <2> QED
    BY <2>2, <2>3, <2>4
<1>13. \A n \in 1..Len(times) : n <= k <=> instant - times[n] >= Minute
  <2>1. \A n \in 1..Len(times) : n \in Expired(times) <=> instant - times[n] >= Minute
    BY <1>1 DEF Expired
  <2> QED
    BY <1>1, <1>6, <1>9, <2>1
<1> QED
  BY <1>6, <1>11, <1>12, <1>13

(***************************************************************************)
(* A call that is let through is in the log of its process and name for a  *)
(* minute, one entry for each; so the calls of a minute are no more than   *)
(* the log was long.                                                       *)
(***************************************************************************)
Processes == Stdio \cup {"server"}
ServedCalls == [by : Seats, name : Called, does : UNION {Does(x) : x \in ToolScopes}, at : Nat]
Fresh(p, t) ==
  {n \in 1..Len(served) : Proc(served[n].by) = p /\ served[n].name = t /\ instant - served[n].at < Minute}
InLog(p, t, times) ==
  \E h \in Injection(Fresh(p, t), 1..Len(times)) : \A n \in Fresh(p, t) : served[n].at <= times[h[n]]
Limits(p, t, from) ==
  /\ Cardinality(Within(p, t, from)) <= ReadMax
  /\ Cardinality({m \in Within(p, t, from) : served[m].does # "reads"}) <= WriteMax
Allowed(n) ==
  /\ served[n].does \in MayDo(seat[served[n].by].holds)
  /\ seat[served[n].by].readOnly => served[n].does = "reads"
  /\ served[n].by \in Stdio => seat[served[n].by].open

SeatsTyped ==
  /\ seat \in [Seats -> [holds : HoldsSets, open : BOOLEAN, readOnly : BOOLEAN, had : SUBSET Nouns]]
  /\ nouns \in SUBSET Nouns /\ DOMAIN calling = Seats
  /\ \A s \in Seats : calling[s].at = "posted" => s \notin Stdio /\ calling[s].name \in Called
  /\ \A s \in Seats \ Stdio : ~seat[s].readOnly
LogsTyped ==
  /\ rateLog \in [Processes -> [Called -> Seq(Nat)]] /\ instant \in Nat
  /\ served \in Seq(ServedCalls)
  /\ \A n \in 1..Len(served) : served[n].at <= instant
LogsInv ==
  /\ LogsTyped
  /\ \A p \in Processes, t \in Called : Ordered(rateLog[p][t]) /\ InLog(p, t, rateLog[p][t])
  /\ \A p \in Processes, t \in Called, from \in Nat : Limits(p, t, from)
SeatsInv == SeatsTyped /\ \A n \in 1..Len(served) : Allowed(n)
ToolsIInv == LogsInv /\ SeatsInv

LEMMA ToolsInitially == ToolsInit => ToolsIInv
<1> SUFFICES ASSUME ToolsInit PROVE ToolsIInv
  OBVIOUS
<1>1. served = <<>> /\ Len(served) = 0 /\ 1..Len(served) = {} /\ DOMAIN served = {} /\ instant = 0
  BY DEF ToolsInit
<1>2. LogsTyped
  BY <1>1 DEF ToolsInit, LogsTyped, Processes
<1>3. ASSUME NEW p \in Processes, NEW t \in Called PROVE Ordered(rateLog[p][t]) /\ InLog(p, t, rateLog[p][t])
  <2>1. rateLog[p][t] = <<>>
    BY DEF ToolsInit, Processes
  <2>2. Ordered(rateLog[p][t])
    BY <2>1 DEF Ordered
  <2>3. Fresh(p, t) = {}
    BY <1>1 DEF Fresh
  <2>4. [n \in {} |-> n] \in Injection({}, 1..Len(rateLog[p][t]))
    BY DEF Injection, IsInjective
  <2> QED
    BY <2>2, <2>3, <2>4 DEF InLog
<1>4. ASSUME NEW p \in Processes, NEW t \in Called, NEW from \in Nat PROVE Limits(p, t, from)
  <2>1. Within(p, t, from) = {} /\ {m \in Within(p, t, from) : served[m].does # "reads"} = {}
    BY <1>1 DEF Within
  <2> QED
    BY <2>1, FS_EmptySet, ToolsAssumption DEF Limits
<1>5. SeatsTyped
  BY DEF ToolsInit, SeatsTyped, Idle
<1> QED
  BY <1>1, <1>2, <1>3, <1>4, <1>5 DEF ToolsIInv, LogsInv, SeatsInv

(* What the filter keeps of a log still has an entry for each call of the minute. *)
LEMMA RecentHolds ==
  ASSUME LogsInv, NEW p \in Processes, NEW t \in Called
  PROVE  /\ Ordered(Recent(rateLog[p][t])) /\ InLog(p, t, Recent(rateLog[p][t]))
         /\ IsFiniteSet(Fresh(p, t)) /\ Cardinality(Fresh(p, t)) <= Len(Recent(rateLog[p][t]))
<1> USE ToolsAssumption
<1>1. PICK times : times = rateLog[p][t]
  OBVIOUS
<1>2. Ordered(times) /\ InLog(p, t, times) /\ instant \in Nat
  BY <1>1 DEF LogsInv, LogsTyped
<1>3. PICK k \in 0..Len(times) :
           /\ \A n \in 1..Len(times) : n <= k <=> instant - times[n] >= Minute
           /\ Recent(times) \in Seq(Nat) /\ Len(Recent(times)) = Len(times) - k
           /\ \A n \in 1..(Len(times) - k) : Recent(times)[n] = times[n + k]
  BY <1>2, RecentIs
<1>4. PICK recent : recent = Recent(times)
  OBVIOUS
<1>5. /\ Len(times) \in Nat /\ k \in Nat /\ Len(recent) \in Nat /\ Len(recent) = Len(times) - k /\ recent \in Seq(Nat)
      /\ \A n \in 1..Len(recent) : recent[n] = times[n + k] /\ n + k \in 1..Len(times)
      /\ \A n \in 1..Len(times) : times[n] \in Nat
  BY <1>2, <1>3, <1>4 DEF Ordered
<1>6. Ordered(recent)
  <2>1. \A i, j \in 1..Len(recent) : i <= j => recent[i] <= recent[j]
    <3> SUFFICES ASSUME NEW i \in 1..Len(recent), NEW j \in 1..Len(recent), i <= j PROVE recent[i] <= recent[j]
      OBVIOUS
    <3>1. i + k <= j + k
      BY <1>5
    <3> QED
      BY <1>2, <1>5, <3>1 DEF Ordered
  <2>2. \A i \in 1..Len(recent) : recent[i] <= instant
    BY <1>2, <1>5 DEF Ordered
  <2> QED
    BY <1>5, <2>1, <2>2 DEF Ordered
<1>7. PICK h \in Injection(Fresh(p, t), 1..Len(times)) : \A n \in Fresh(p, t) : served[n].at <= times[h[n]]
  BY <1>2 DEF InLog
<1>8. /\ h \in [Fresh(p, t) -> 1..Len(times)]
      /\ \A m, n \in Fresh(p, t) : h[m] = h[n] => m = n
  BY <1>7 DEF Injection, IsInjective
<1>9. \A n \in Fresh(p, t) : served[n].at \in Nat /\ instant - served[n].at < Minute
  <2> SUFFICES ASSUME NEW n \in Fresh(p, t) PROVE served[n].at \in Nat /\ instant - served[n].at < Minute
    OBVIOUS
  <2>1. n \in 1..Len(served) /\ instant - served[n].at < Minute
    BY DEF Fresh
  <2>2. served[n] \in ServedCalls
    BY <2>1 DEF LogsInv, LogsTyped
  <2> QED
    BY <2>1, <2>2 DEF ServedCalls
<1>10. ASSUME NEW n \in Fresh(p, t) PROVE h[n] - k \in 1..Len(recent) /\ recent[h[n] - k] = times[h[n]]
  <2>1. h[n] \in 1..Len(times) /\ times[h[n]] \in Nat /\ served[n].at <= times[h[n]]
    BY <1>5, <1>7, <1>8
  <2>2. ~(instant - times[h[n]] >= Minute)
    BY <1>2, <1>9, <2>1
  <2>3. ~(h[n] <= k)
    BY <1>3, <2>1, <2>2
  <2>4. h[n] - k \in 1..Len(recent) /\ (h[n] - k) + k = h[n]
    BY <1>5, <2>1, <2>3
  <2> QED
    BY <1>5, <2>4
<1>11. PICK g : g = [n \in Fresh(p, t) |-> h[n] - k]
  OBVIOUS
<1>12. g \in Injection(Fresh(p, t), 1..Len(recent))
  <2>1. g \in [Fresh(p, t) -> 1..Len(recent)]
    BY <1>10, <1>11
  <2>2. \A m, n \in Fresh(p, t) : g[m] = g[n] => m = n
    <3> SUFFICES ASSUME NEW m \in Fresh(p, t), NEW n \in Fresh(p, t), g[m] = g[n] PROVE m = n
      OBVIOUS
    <3>1. h[m] - k = h[n] - k /\ h[m] \in Int /\ h[n] \in Int
      BY <1>8, <1>11
    <3>2. h[m] = h[n]
      BY <1>5, <3>1
    <3> QED
      BY <1>8, <3>2
  <2> QED
    BY <2>1, <2>2 DEF Injection, IsInjective
<1>13. InLog(p, t, recent)
  <2>1. \A n \in Fresh(p, t) : served[n].at <= recent[g[n]]
    BY <1>7, <1>10, <1>11
  <2> QED
    BY <1>12, <2>1 DEF InLog
<1>14. IsFiniteSet(1..Len(recent)) /\ Cardinality(1..Len(recent)) = Len(recent)
  <2>1. PICK L : L = Len(recent)
    OBVIOUS
  <2>2. L \in Int /\ 1 \in Int /\ L >= 0
    BY <1>5, <2>1
  <2>3. IsFiniteSet(1..L) /\ Cardinality(1..L) = IF 1 > L THEN 0 ELSE L - 1 + 1
    BY <2>2, FS_Interval
  <2> QED
    BY <2>1, <2>2, <2>3
<1>15. IsFiniteSet(Fresh(p, t)) /\ Cardinality(Fresh(p, t)) <= Len(recent)
  BY <1>12, <1>14, FS_Injection
<1> QED
  BY <1>1, <1>4, <1>6, <1>13, <1>15

LEMMA InstantKeeps == ASSUME ToolsIInv, Instant PROVE ToolsIInv'
<1> USE ToolsAssumption
<1>1. /\ instant \in Nat /\ instant' = instant + 1
      /\ nouns' = nouns /\ seat' = seat /\ rateLog' = rateLog /\ calling' = calling /\ served' = served
  BY DEF Instant, ToolsIInv, LogsInv, LogsTyped
<1>2. SeatsInv'
  <2>1. SeatsInv
    BY DEF ToolsIInv
  <2> QED
    BY <1>1, <2>1 DEF SeatsInv, SeatsTyped, Allowed
<1>3. LogsTyped /\ \A n \in 1..Len(served) : served[n] \in ServedCalls /\ served[n].at \in Nat /\ served[n].at <= instant
  <2>1. \A n \in 1..Len(served) : served[n] \in ServedCalls /\ served[n].at <= instant
    BY DEF ToolsIInv, LogsInv, LogsTyped
  <2>2. \A c \in ServedCalls : c.at \in Nat
    BY DEF ServedCalls
  <2> QED
    BY <2>1, <2>2 DEF ToolsIInv, LogsInv
<1>4. LogsTyped'
  BY <1>1, <1>3 DEF LogsTyped
<1>5. ASSUME NEW p \in Processes, NEW t \in Called PROVE (Ordered(rateLog[p][t]) /\ InLog(p, t, rateLog[p][t]))'
  <2>1. PICK times : times = rateLog[p][t]
    OBVIOUS
  <2>2. Ordered(times) /\ InLog(p, t, times)
    BY <2>1 DEF ToolsIInv, LogsInv
  <2>3. /\ times \in Seq(Nat)
        /\ \A i, j \in 1..Len(times) : i <= j => times[i] <= times[j]
        /\ \A i \in 1..Len(times) : times[i] <= instant + 1
    BY <1>1, <2>2 DEF Ordered
  <2>4. PICK h \in Injection(Fresh(p, t), 1..Len(times)) : \A n \in Fresh(p, t) : served[n].at <= times[h[n]]
    BY <2>2 DEF InLog
  <2>5. PICK fresh : fresh = Fresh(p, t)
    OBVIOUS
  <2>6. PICK now : now = Fresh(p, t)'
    OBVIOUS
  <2>7. now \subseteq fresh
    BY <1>1, <1>3, <2>5, <2>6 DEF Fresh
  <2>8. PICK g : g = [n \in now |-> h[n]]
    OBVIOUS
  <2>9. h \in [fresh -> 1..Len(times)] /\ \A m, n \in fresh : h[m] = h[n] => m = n
    BY <2>4, <2>5 DEF Injection, IsInjective
  <2>10. g \in [now -> 1..Len(times)] /\ \A m, n \in now : g[m] = g[n] => m = n
    BY <2>7, <2>8, <2>9
  <2>11. g \in Injection(now, 1..Len(times)) /\ \A n \in now : served[n].at <= times[g[n]]
    BY <2>4, <2>5, <2>7, <2>8, <2>10 DEF Injection, IsInjective
  <2>12. rateLog'[p][t] = times
    BY <1>1, <2>1
  <2>13. Ordered(rateLog[p][t])'
    BY <1>1, <2>3, <2>12 DEF Ordered
  <2>14. InLog(p, t, rateLog[p][t])'
    BY <1>1, <2>6, <2>11, <2>12 DEF InLog
  <2> QED
    BY <2>13, <2>14
<1>6. ASSUME NEW p \in Processes, NEW t \in Called, NEW from \in Nat PROVE Limits(p, t, from)'
  <2>1. Limits(p, t, from)
    BY DEF ToolsIInv, LogsInv
  <2> QED
    BY <1>1, <2>1 DEF Limits, Within
<1> QED
  BY <1>2, <1>4, <1>5, <1>6 DEF ToolsIInv, LogsInv

LEMMA LogsUntouched ==
  ASSUME LogsInv, rateLog' = rateLog, served' = served, instant' = instant PROVE LogsInv'
<1>1. LogsTyped'
  BY DEF LogsInv, LogsTyped
<1>2. ASSUME NEW p \in Processes, NEW t \in Called PROVE (Ordered(rateLog[p][t]) /\ InLog(p, t, rateLog[p][t]))'
  <2>1. Ordered(rateLog[p][t]) /\ InLog(p, t, rateLog[p][t])
    BY DEF LogsInv
  <2> QED
    BY <2>1 DEF Ordered, InLog, Fresh
<1>3. ASSUME NEW p \in Processes, NEW t \in Called, NEW from \in Nat PROVE Limits(p, t, from)'
  <2>1. Limits(p, t, from)
    BY DEF LogsInv
  <2> QED
    BY <2>1 DEF Limits, Within
<1> QED
  BY <1>1, <1>2, <1>3 DEF LogsInv

LEMMA OthersKeep ==
  ASSUME ToolsIInv, NEW s \in Seats PROVE Connect(s) \/ Handled(s) \/ (\E t \in Called : Post(s, t)) => ToolsIInv'
<1> USE DEF ToolsIInv
<1>1. ASSUME Connect(s) PROVE ToolsIInv'
  <2>1. /\ s \in Stdio /\ ~seat[s].open /\ nouns' = nouns /\ calling' = calling
        /\ rateLog' = rateLog /\ served' = served /\ instant' = instant
    BY <1>1 DEF Connect
  <2>2. PICK r \in BOOLEAN : seat' = [seat EXCEPT ![s].open = TRUE, ![s].readOnly = r, ![s].had = nouns]
    BY <1>1 DEF Connect
  <2>3. /\ seat \in [Seats -> [holds : HoldsSets, open : BOOLEAN, readOnly : BOOLEAN, had : SUBSET Nouns]]
        /\ nouns \in SUBSET Nouns
    BY DEF SeatsInv, SeatsTyped
  <2>4. \A q \in Seats : q # s => seat'[q] = seat[q]
    BY <2>2, <2>3
  <2>5. seat' \in [Seats -> [holds : HoldsSets, open : BOOLEAN, readOnly : BOOLEAN, had : SUBSET Nouns]]
    <3>1. seat[s] \in [holds : HoldsSets, open : BOOLEAN, readOnly : BOOLEAN, had : SUBSET Nouns]
      BY <2>3
    <3>2. seat'[s] = [seat[s] EXCEPT !.open = TRUE, !.readOnly = r, !.had = nouns]
      BY <2>2, <2>3, Zenon
    <3>3. [seat[s] EXCEPT !.open = TRUE, !.readOnly = r, !.had = nouns]
             \in [holds : HoldsSets, open : BOOLEAN, readOnly : BOOLEAN, had : SUBSET Nouns]
      BY <2>2, <2>3, <3>1, Zenon
    <3>4. seat' = [q \in Seats |-> seat'[q]]
      BY <2>2, <2>3
    <3>5. \A q \in Seats : seat'[q] \in [holds : HoldsSets, open : BOOLEAN, readOnly : BOOLEAN, had : SUBSET Nouns]
      BY <2>3, <2>4, <3>2, <3>3
    <3> QED
      BY <3>4, <3>5
  <2>6. SeatsTyped'
    BY <2>1, <2>3, <2>4, <2>5 DEF SeatsInv, SeatsTyped
  <2>7. ASSUME NEW n \in 1..Len(served) PROVE Allowed(n)'
    <3>1. Allowed(n) /\ served[n].by # s /\ served[n].by \in Seats
      <4>1. Allowed(n) /\ served[n] \in ServedCalls
        BY DEF SeatsInv, LogsInv, LogsTyped
      <4> QED
        BY <2>1, <4>1 DEF Allowed, ServedCalls
    <3> QED
      BY <2>1, <2>4, <3>1 DEF Allowed
  <2> QED
    BY <2>1, <2>6, <2>7, LogsUntouched DEF SeatsInv
<1>2. ASSUME Handled(s) \/ \E t \in Called : Post(s, t) PROVE ToolsIInv'
  <2>1. seat' = seat /\ rateLog' = rateLog /\ served' = served /\ instant' = instant
    BY <1>2 DEF Handled, Post
  <2>2. SeatsTyped
    BY DEF SeatsInv
  <2>3. nouns' \in SUBSET Nouns
    <3>1. CASE Handled(s)
      <4>1. nouns \in SUBSET Nouns
        BY <2>2 DEF SeatsTyped
      <4>2. \/ nouns' = nouns
            \/ \E n \in Nouns : nouns' = nouns \cup {n}
            \/ \E n \in Nouns : nouns' = nouns \ {n}
            \/ \E n \in nouns, m \in Nouns : nouns' = (nouns \ {n}) \cup {m}
        BY <3>1 DEF Handled
      <4> QED
        BY <4>1, <4>2
    <3>2. CASE \E t \in Called : Post(s, t)
      BY <2>2, <3>2 DEF Post, SeatsTyped
    <3> QED
      BY <1>2, <3>1, <3>2
  <2>4. /\ DOMAIN calling' = Seats
        /\ \A q \in Seats : calling'[q].at = "posted" => q \notin Stdio /\ calling'[q].name \in Called
    <3>1. CASE Handled(s)
      BY <2>2, <3>1 DEF Handled, SeatsTyped, Idle
    <3>2. CASE \E t \in Called : Post(s, t)
      <4>1. PICK t \in Called : s \notin Stdio /\ calling' = [calling EXCEPT ![s] = [at |-> "posted", name |-> t]]
        BY <3>2 DEF Post
      <4> QED
        BY <2>2, <4>1 DEF SeatsTyped
    <3> QED
      BY <1>2, <3>1, <3>2
  <2>5. SeatsTyped'
    BY <2>1, <2>2, <2>3, <2>4 DEF SeatsTyped
  <2>6. \A n \in 1..Len(served) : Allowed(n)'
    BY <2>1 DEF SeatsInv, Allowed
  <2> QED
    BY <2>1, <2>5, <2>6, LogsUntouched DEF SeatsInv
<1> QED
  BY <1>1, <1>2

(* The log of one name is set to times, in order and with an entry for each call of the minute. *)
LEMMA LogOnlyTrimmed ==
  ASSUME LogsInv, NEW p \in Processes, NEW t \in Called, served' = served, instant' = instant,
         rateLog' = [rateLog EXCEPT ![p][t] = Recent(rateLog[p][t])]
  PROVE  LogsInv'
<1>1. PICK recent : recent = Recent(rateLog[p][t])
  OBVIOUS
<1>2. Ordered(recent) /\ InLog(p, t, recent)
  BY <1>1, RecentHolds
<1>3. rateLog \in [Processes -> [Called -> Seq(Nat)]] /\ rateLog' = [rateLog EXCEPT ![p][t] = recent]
  BY <1>1 DEF LogsInv, LogsTyped
<1>4. LogsTyped'
  BY <1>2, <1>3 DEF LogsInv, LogsTyped, Ordered
<1>5. ASSUME NEW q \in Processes, NEW u \in Called PROVE (Ordered(rateLog[q][u]) /\ InLog(q, u, rateLog[q][u]))'
  <2>1. PICK times : times = rateLog'[q][u]
    OBVIOUS
  <2>2. Ordered(times) /\ InLog(q, u, times)
    <3>1. CASE q = p /\ u = t
      <4>1. times = recent
        BY <1>3, <2>1, <3>1
      <4> QED
        BY <1>2, <3>1, <4>1
    <3>2. CASE ~(q = p /\ u = t)
      <4>1. times = rateLog[q][u]
        BY <1>3, <2>1, <3>2
      <4> QED
        BY <4>1 DEF LogsInv
    <3> QED
      BY <3>1, <3>2
  <2> QED
    BY <2>1, <2>2, ZenonT(40) DEF Ordered, InLog, Fresh
<1>6. ASSUME NEW q \in Processes, NEW u \in Called, NEW from \in Nat PROVE Limits(q, u, from)'
  <2>1. Limits(q, u, from)
    BY DEF LogsInv
  <2> QED
    BY <2>1 DEF Limits, Within
<1> QED
  BY <1>4, <1>5, <1>6 DEF LogsInv

LEMMA LogSet ==
  ASSUME NEW log \in [Processes -> [Called -> Seq(Nat)]], NEW p \in Processes, NEW t \in Called, NEW times \in Seq(Nat)
  PROVE  /\ [log EXCEPT ![p][t] = times] \in [Processes -> [Called -> Seq(Nat)]]
         /\ \A q \in Processes, u \in Called :
              [log EXCEPT ![p][t] = times][q][u] = IF q = p /\ u = t THEN times ELSE log[q][u]
OBVIOUS

LEMMA OneMore ==
  ASSUME NEW S, IsFiniteSet(S), NEW x
  PROVE  IsFiniteSet(S \cup {x}) /\ Cardinality(S \cup {x}) <= Cardinality(S) + 1
<1>1. Cardinality(S) \in Nat
  BY FS_CardinalityType
<1>2. IsFiniteSet(S \cup {x}) /\ Cardinality(S \cup {x}) = IF x \in S THEN Cardinality(S) ELSE Cardinality(S) + 1
  BY FS_AddElement
<1> QED
  BY <1>1, <1>2

(* A call let through goes to the end of the log, and no window of a minute is over a limit. *)
LEMMA LogExtended ==
  ASSUME LogsInv, NEW s \in Seats, NEW t \in Called, NEW does \in UNION {Does(x) : x \in ToolScopes}, NEW budget \in Nat,
         budget <= ReadMax, does # "reads" => budget = WriteMax, instant' = instant,
         Len(Recent(rateLog[Proc(s)][t])) < budget,
         rateLog' = [rateLog EXCEPT ![Proc(s)][t] = Append(Recent(rateLog[Proc(s)][t]), instant)],
         served' = Append(served, [by |-> s, name |-> t, does |-> does, at |-> instant])
  PROVE  LogsInv'
<1> USE ToolsAssumption
<1>1. PICK p : p = Proc(s)
  OBVIOUS
<1>2. p \in Processes
  BY <1>1 DEF Proc, Processes
<1>3. PICK recent : recent = Recent(rateLog[p][t])
  OBVIOUS
<1>4. /\ Ordered(recent) /\ InLog(p, t, recent)
      /\ IsFiniteSet(Fresh(p, t)) /\ Cardinality(Fresh(p, t)) <= Len(recent)
  BY <1>2, <1>3, RecentHolds
<1>5. PICK times : times = Append(recent, instant)
  OBVIOUS
<1>6. PICK N : N = Len(served)
  OBVIOUS
<1>7. PICK call : call = [by |-> s, name |-> t, does |-> does, at |-> instant]
  OBVIOUS
<1>8. /\ rateLog \in [Processes -> [Called -> Seq(Nat)]] /\ instant \in Nat
      /\ served \in Seq(ServedCalls) /\ \A n \in 1..N : served[n].at <= instant
  BY <1>6 DEF LogsInv, LogsTyped
<1>9. call \in ServedCalls /\ call.by = s /\ call.name = t /\ call.does = does /\ call.at = instant
  BY <1>7, <1>8 DEF ServedCalls
<1>10. served' = Append(served, call) /\ rateLog' = [rateLog EXCEPT ![p][t] = times] /\ Len(recent) < budget
  BY <1>1, <1>3, <1>5, <1>7
<1>11. /\ N \in Nat /\ served' \in Seq(ServedCalls) /\ Len(served') = N + 1 /\ served'[N + 1] = call
       /\ \A n \in 1..N : served'[n] = served[n]
  BY <1>6, <1>8, <1>9, <1>10, AppendProperties
<1>12. /\ recent \in Seq(Nat) /\ Len(recent) \in Nat
       /\ times \in Seq(Nat) /\ Len(times) = Len(recent) + 1 /\ times[Len(recent) + 1] = instant
       /\ \A n \in 1..Len(recent) : times[n] = recent[n] /\ recent[n] <= instant
  BY <1>4, <1>5, <1>8, AppendProperties DEF Ordered
<1>23. PICK L \in Nat : L = Len(recent)
  BY <1>12
<1>20. /\ L + 1 \in Nat /\ Len(times) = L + 1 /\ times[L + 1] = instant
       /\ \A n \in 1..L : times[n] = recent[n] /\ recent[n] <= instant /\ recent[n] \in Nat
  BY <1>12, <1>23
<1>21. rateLog \in [Processes -> [Called -> Seq(Nat)]] /\ times \in Seq(Nat)
  BY <1>8, <1>12
<1>22. rateLog' = [rateLog EXCEPT ![p][t] = times]
  BY <1>10
<1>24. /\ rateLog' \in [Processes -> [Called -> Seq(Nat)]]
       /\ \A q \in Processes, u \in Called : rateLog'[q][u] = IF q = p /\ u = t THEN times ELSE rateLog[q][u]
  <2>1. PICK log : log = [rateLog EXCEPT ![p][t] = times]
    OBVIOUS
  <2>2. /\ log \in [Processes -> [Called -> Seq(Nat)]]
        /\ \A q \in Processes, u \in Called : log[q][u] = IF q = p /\ u = t THEN times ELSE rateLog[q][u]
    BY <1>2, <1>21, <2>1, LogSet
  <2>3. rateLog' = log
    BY <1>22, <2>1
  <2> QED
    BY <2>2, <2>3
<1>13. LogsTyped'
  <2>1. rateLog' \in [Processes -> [Called -> Seq(Nat)]]
    BY <1>24
  <2>2. \A n \in 1..Len(served') : served'[n].at <= instant'
    BY <1>8, <1>9, <1>11
  <2> QED
    BY <1>8, <1>11, <2>1, <2>2 DEF LogsTyped
<1>14. Ordered(times)
  <2>1. \A i, j \in 1..Len(times) : i <= j => times[i] <= times[j]
    <3> SUFFICES ASSUME NEW i \in 1..Len(times), NEW j \in 1..Len(times), i <= j PROVE times[i] <= times[j]
      OBVIOUS
    <3>1. CASE j = L + 1
      <4>1. i = L + 1 \/ i \in 1..L
        BY <1>20
      <4> QED
        BY <1>8, <1>20, <3>1, <4>1
    <3>2. CASE j # L + 1
      <4>1. i \in 1..L /\ j \in 1..L
        BY <1>20, <3>2
      <4>2. recent[i] <= recent[j]
        BY <1>4, <1>23, <4>1 DEF Ordered
      <4> QED
        BY <1>20, <4>1, <4>2
    <3> QED
      BY <3>1, <3>2
  <2>2. \A i \in 1..Len(times) : times[i] <= instant
    <3>1. \A i \in 1..Len(times) : i = L + 1 \/ i \in 1..L
      BY <1>20
    <3> QED
      BY <1>8, <1>20, <3>1, SMTT(20)
  <2> QED
    BY <1>12, <2>1, <2>2 DEF Ordered
<1>15. ASSUME NEW q \in Processes, NEW u \in Called, ~(q = p /\ u = t)
       PROVE  Fresh(q, u)' = Fresh(q, u) /\ \A from \in Nat : Within(q, u, from)' = Within(q, u, from)
  <2>1. ~(Proc(call.by) = q /\ call.name = u)
    BY <1>1, <1>9, <1>15
  <2>2. DOMAIN served = 1..N /\ DOMAIN served' = 1..(N + 1) /\ 1..Len(served) = 1..N /\ 1..Len(served') = 1..(N + 1)
    BY <1>6, <1>8, <1>11
  <2>3. \A n \in 1..(N + 1) : n \in 1..N \/ n = N + 1
    BY <1>11
  <2>4. 1..N \subseteq 1..(N + 1)
    BY <1>11
  <2>5. Fresh(q, u)' = Fresh(q, u)
    BY <1>11, <2>1, <2>2, <2>3, <2>4 DEF Fresh
  <2>6. ASSUME NEW from \in Nat PROVE Within(q, u, from)' = Within(q, u, from)
    BY <1>11, <2>1, <2>2, <2>3, <2>4 DEF Within
  <2> QED
    BY <2>5, <2>6
<1>16. Fresh(p, t)' = Fresh(p, t) \cup {N + 1} /\ N + 1 \notin Fresh(p, t) /\ Fresh(p, t) \subseteq 1..N
  <2>1. Proc(call.by) = p /\ call.name = t /\ instant - call.at < Minute
    BY <1>1, <1>8, <1>9
  <2>2. 1..Len(served) = 1..N /\ 1..Len(served') = 1..(N + 1) /\ 1..(N + 1) = 1..N \cup {N + 1} /\ N + 1 \notin 1..N
    BY <1>6, <1>11
  <2>3. Fresh(p, t) \subseteq 1..N
    BY <2>2 DEF Fresh
  <2>4. ASSUME NEW n PROVE n \in Fresh(p, t)' <=> n \in Fresh(p, t) \/ n = N + 1
    <3>1. CASE n = N + 1
      BY <1>11, <2>1, <2>2, <3>1 DEF Fresh
    <3>2. CASE n # N + 1
      <4>1. n \in Fresh(p, t)' <=> n \in 1..N /\ Proc(served'[n].by) = p /\ served'[n].name = t /\ instant - served'[n].at < Minute
        BY <2>2, <3>2 DEF Fresh
      <4> QED
        BY <1>11, <2>2, <3>2, <4>1 DEF Fresh
    <3> QED
      BY <3>1, <3>2
  <2> QED
    BY <2>2, <2>3, <2>4
<1>17. InLog(p, t, times)'
  <2>1. PICK h \in Injection(Fresh(p, t), 1..Len(recent)) : \A n \in Fresh(p, t) : served[n].at <= recent[h[n]]
    BY <1>4 DEF InLog
  <2>2. PICK fresh : fresh = Fresh(p, t)
    OBVIOUS
  <2>3. h \in [fresh -> 1..Len(recent)] /\ \A m, n \in fresh : h[m] = h[n] => m = n
    BY <2>1, <2>2 DEF Injection, IsInjective
  <2>4. PICK now : now = fresh \cup {N + 1}
    OBVIOUS
  <2>5. PICK g : g = [n \in now |-> IF n = N + 1 THEN Len(recent) + 1 ELSE h[n]]
    OBVIOUS
  <2>6. N + 1 \notin fresh /\ fresh \subseteq 1..N
    BY <1>16, <2>2
  <2>7. /\ g[N + 1] = Len(recent) + 1 /\ Len(recent) + 1 \in 1..Len(times)
        /\ \A n \in fresh : g[n] = h[n] /\ h[n] \in 1..Len(recent) /\ h[n] \in 1..Len(times) /\ h[n] # Len(recent) + 1
    BY <1>12, <2>3, <2>4, <2>5, <2>6, SMTT(20)
  <2>8. g \in [now -> 1..Len(times)]
    BY <2>4, <2>5, <2>7
  <2>9. \A m, n \in now : g[m] = g[n] => m = n
    BY <2>3, <2>4, <2>7
  <2>10. \A n \in now : served'[n].at <= times[g[n]]
    <3>1. served'[N + 1].at <= times[g[N + 1]]
      BY <1>8, <1>9, <1>11, <1>12, <2>7
    <3>2. ASSUME NEW n \in fresh PROVE served'[n].at <= times[g[n]]
      <4>1. n \in 1..N /\ g[n] = h[n] /\ h[n] \in 1..Len(recent)
        BY <2>6, <2>7
      <4> QED
        BY <1>11, <1>12, <2>1, <2>2, <4>1
    <3> QED
      BY <2>4, <3>1, <3>2
  <2>11. Fresh(p, t)' = now
    BY <1>16, <2>2, <2>4
  <2> QED
    BY <2>8, <2>9, <2>10, <2>11 DEF InLog, Injection, IsInjective
<1>18. ASSUME NEW q \in Processes, NEW u \in Called PROVE (Ordered(rateLog[q][u]) /\ InLog(q, u, rateLog[q][u]))'
  <2>1. CASE q = p /\ u = t
    <3>1. rateLog'[q][u] = times
      BY <1>8, <1>10, <2>1
    <3>2. Ordered(times)'
      BY <1>14 DEF Ordered
    <3>3. InLog(q, u, times)'
      BY <1>17, <2>1
    <3> QED
      BY <3>1, <3>2, <3>3 DEF Ordered, InLog
  <2>2. CASE ~(q = p /\ u = t)
    <3>1. PICK others : others = rateLog[q][u]
      OBVIOUS
    <3>2. rateLog'[q][u] = others
      BY <1>24, <2>2, <3>1
    <3>3. Ordered(others) /\ InLog(q, u, others)
      BY <3>1 DEF LogsInv
    <3>4. Fresh(q, u)' = Fresh(q, u) /\ \A n \in Fresh(q, u) : served'[n] = served[n]
      BY <1>6, <1>11, <1>15, <2>2 DEF Fresh
    <3>5. Ordered(others)'
      BY <3>3 DEF Ordered
    <3>6. InLog(q, u, others)'
      BY <3>3, <3>4 DEF InLog
    <3> QED
      BY <3>2, <3>5, <3>6 DEF Ordered, InLog
  <2> QED
    BY <2>1, <2>2
<1>19. ASSUME NEW q \in Processes, NEW u \in Called, NEW from \in Nat PROVE Limits(q, u, from)'
  <2>1. Limits(q, u, from) /\ DOMAIN served = 1..N /\ DOMAIN served' = 1..(N + 1)
    BY <1>6, <1>8, <1>11 DEF LogsInv
  <2>2. Within(q, u, from) \subseteq 1..N /\ N + 1 \notin Within(q, u, from)
    BY <1>11, <2>1 DEF Within
  <2>3. CASE ~(q = p /\ u = t)
    <3>1. Within(q, u, from)' = Within(q, u, from)
      BY <1>15, <2>3
    <3>2. {m \in Within(q, u, from) : served'[m].does # "reads"} = {m \in Within(q, u, from) : served[m].does # "reads"}
      BY <1>11, <2>2
    <3> QED
      BY <2>1, <3>1, <3>2 DEF Limits
  <2>4. CASE q = p /\ u = t
    <3>1. PICK within : within = Within(p, t, from)
      OBVIOUS
    <3>2. PICK now : now = Within(p, t, from)'
      OBVIOUS
    <3>3. now \subseteq within \cup {N + 1} /\ within \subseteq now /\ within \subseteq 1..N /\ now \subseteq 1..(N + 1)
      <4>1. \A n \in 1..(N + 1) : n \in 1..N \/ n = N + 1
        BY <1>11
      <4>2. 1..N \subseteq 1..(N + 1)
        BY <1>11
      <4> QED
        BY <1>11, <2>1, <3>1, <3>2, <4>1, <4>2 DEF Within
    <3>4. CASE N + 1 \notin now
      <4>1. now = within
        BY <3>3, <3>4
      <4>2. {m \in now : served'[m].does # "reads"} = {m \in within : served[m].does # "reads"}
        BY <1>11, <3>3, <4>1
      <4> QED
        BY <2>1, <2>4, <3>1, <3>2, <4>1, <4>2 DEF Limits
    <3>5. CASE N + 1 \in now
      <4>1. from <= instant /\ instant <= from + Minute - 1
        <5>1. served'[N + 1].at \in from..(from + Minute - 1)
          BY <3>2, <3>5 DEF Within
        <5> QED
          BY <1>8, <1>9, <1>11, <5>1
      <4>2. PICK fresh : fresh = Fresh(p, t)
        OBVIOUS
      <4>3. within \subseteq fresh
        <5> SUFFICES ASSUME NEW n \in within PROVE n \in fresh
          OBVIOUS
        <5>1. n \in 1..N /\ Proc(served[n].by) = p /\ served[n].name = t /\ served[n].at \in from..(from + Minute - 1)
          BY <2>1, <3>1 DEF Within
        <5>2. served[n].at \in Int /\ served[n].at >= from
          BY <5>1
        <5>3. instant - served[n].at < Minute
          BY <1>8, <4>1, <5>2
        <5> QED
          BY <1>6, <4>2, <5>1, <5>3 DEF Fresh
      <4>4. IsFiniteSet(fresh) /\ Cardinality(fresh) <= Len(recent) /\ Cardinality(fresh) \in Nat
        BY <1>4, <4>2, FS_CardinalityType
      <4>5. IsFiniteSet(fresh \cup {N + 1}) /\ Cardinality(fresh \cup {N + 1}) <= Cardinality(fresh) + 1
        BY <4>4, OneMore
      <4>6. IsFiniteSet(now) /\ Cardinality(now) <= Cardinality(fresh \cup {N + 1}) /\ Cardinality(now) \in Nat
            /\ Cardinality(fresh \cup {N + 1}) \in Nat
        <5>1. now \subseteq fresh \cup {N + 1}
          BY <3>3, <4>3
        <5> QED
          BY <4>5, <5>1, FS_Subset, FS_CardinalityType
      <4>7. Cardinality(now) <= budget
        BY <1>10, <1>12, <4>4, <4>5, <4>6
      <4>8. PICK others : others = {m \in now : served'[m].does # "reads"}
        OBVIOUS
      <4>9. Cardinality(others) <= WriteMax
        <5>1. CASE does = "reads"
          <6>1. others = {m \in within : served[m].does # "reads"}
            BY <1>9, <1>11, <3>3, <4>8, <5>1
          <6> QED
            BY <2>1, <2>4, <3>1, <6>1 DEF Limits
        <5>2. CASE does # "reads"
          <6>1. others \subseteq now /\ budget = WriteMax
            BY <4>8, <5>2
          <6>2. Cardinality(others) <= Cardinality(now) /\ Cardinality(others) \in Nat
            BY <4>6, <6>1, FS_Subset, FS_CardinalityType
          <6> QED
            BY <4>6, <4>7, <6>1, <6>2
        <5> QED
          BY <5>1, <5>2
      <4>10. Cardinality(now) <= ReadMax
        BY <4>6, <4>7
      <4> QED
        BY <2>4, <3>2, <4>8, <4>9, <4>10 DEF Limits
    <3> QED
      BY <3>4, <3>5
  <2> QED
    BY <2>3, <2>4
<1> QED
  BY <1>13, <1>18, <1>19 DEF LogsInv

(* The whole of ToolRegistry.call, of a tool the caller may find under the name. *)
LEMMA LetKeeps ==
  ASSUME ToolsIInv, NEW s \in Seats, NEW t \in Called, NEW found, Let(s, t, found),
         \A tool \in found : Honest(tool) /\ (seat[s].readOnly => tool.does = "reads"),
         s \in Stdio => seat[s].open,
         nouns' = nouns, seat' = seat, instant' = instant
  PROVE  ToolsIInv'
<1> USE ToolsAssumption
<1>1. LogsInv /\ SeatsInv /\ SeatsTyped
  BY DEF ToolsIInv, SeatsInv
<1>2. Proc(s) \in Processes
  BY DEF Proc, Processes
<1>3. ASSUME DOMAIN calling' = Seats, \A q \in Seats : q # s => calling'[q] = calling[q], calling'[s].at # "posted"
      PROVE  SeatsTyped'
  BY <1>1, <1>3 DEF SeatsTyped
<1>4. CASE Denied(s) /\ (rateLog' = rateLog \/ rateLog' = [rateLog EXCEPT ![Proc(s)][t] = Recent(rateLog[Proc(s)][t])])
  <2>1. calling' = [calling EXCEPT ![s] = Idle] /\ served' = served
    BY <1>4 DEF Denied
  <2>2. LogsInv'
    BY <1>1, <1>2, <1>4, <2>1, LogsUntouched, LogOnlyTrimmed
  <2>3. SeatsTyped'
    BY <1>1, <1>3, <2>1 DEF SeatsTyped, Idle
  <2>4. \A n \in 1..Len(served') : Allowed(n)'
    BY <1>1, <2>1 DEF SeatsInv, Allowed
  <2> QED
    BY <2>2, <2>3, <2>4 DEF ToolsIInv, SeatsInv
<1>5. ASSUME NEW tool \in found, HasScope(seat[s].holds, tool.scope), Len(Recent(rateLog[Proc(s)][t])) < Budget(tool),
             calling' = [calling EXCEPT ![s] = [at |-> "handler", name |-> t, does |-> tool.does]],
             rateLog' = [rateLog EXCEPT ![Proc(s)][t] = Append(Recent(rateLog[Proc(s)][t]), instant)],
             served' = Append(served, [by |-> s, name |-> t, does |-> tool.does, at |-> instant])
      PROVE  ToolsIInv'
  <2>1. Honest(tool) /\ (seat[s].readOnly => tool.does = "reads")
    OBVIOUS
  <2>2. tool.does \in UNION {Does(x) : x \in ToolScopes}
    BY <2>1 DEF Honest
  <2>3. Budget(tool) \in Nat /\ Budget(tool) <= ReadMax /\ (tool.does # "reads" => Budget(tool) = WriteMax)
    BY <2>1 DEF Budget, Honest, Does
  <2>4. LogsInv'
    BY <1>1, <1>5, <2>2, <2>3, LogExtended
  <2>5. SeatsTyped'
    BY <1>1, <1>3, <1>5 DEF SeatsTyped
  <2>6. tool.does \in MayDo(seat[s].holds)
    BY <1>5, <2>1, ScopeGrants
  <2>7. PICK call : call = [by |-> s, name |-> t, does |-> tool.does, at |-> instant]
    OBVIOUS
  <2>8. instant \in Nat /\ served \in Seq(ServedCalls)
    BY <1>1 DEF LogsInv, LogsTyped
  <2>9. call \in ServedCalls /\ call.by = s /\ call.does = tool.does
    BY <2>2, <2>7, <2>8 DEF ServedCalls
  <2>10. served' = Append(served, call)
    BY <1>5, <2>7
  <2>11. PICK N : N = Len(served)
    OBVIOUS
  <2>12. /\ N \in Nat /\ Len(served') = N + 1 /\ served'[N + 1] = call
         /\ \A n \in 1..N : served'[n] = served[n]
    BY <2>8, <2>9, <2>10, <2>11, AppendProperties
  <2>13. ASSUME NEW n \in 1..Len(served') PROVE Allowed(n)'
    <3>1. CASE n = N + 1
      BY <2>1, <2>6, <2>9, <2>12, <3>1 DEF Allowed
    <3>2. CASE n # N + 1
      <4>1. n \in 1..N /\ served'[n] = served[n]
        BY <2>12, <3>2
      <4>2. Allowed(n)
        BY <1>1, <2>11, <4>1 DEF SeatsInv
      <4> QED
        BY <4>1, <4>2 DEF Allowed
    <3> QED
      BY <3>1, <3>2
  <2> QED
    BY <2>4, <2>5, <2>13 DEF ToolsIInv, SeatsInv
<1>6. CASE {tool \in found : HasScope(seat[s].holds, tool.scope)} = {}
  BY <1>4, <1>6 DEF Let
<1>7. CASE {tool \in found : HasScope(seat[s].holds, tool.scope)} # {}
  <2>1. PICK tool \in found :
          /\ HasScope(seat[s].holds, tool.scope)
          /\ IF Len(Recent(rateLog[Proc(s)][t])) >= Budget(tool)
             THEN Denied(s) /\ rateLog' = [rateLog EXCEPT ![Proc(s)][t] = Recent(rateLog[Proc(s)][t])]
             ELSE /\ Len(served) < MaxCalls
                  /\ calling' = [calling EXCEPT ![s] = [at |-> "handler", name |-> t, does |-> tool.does]]
                  /\ rateLog' = [rateLog EXCEPT ![Proc(s)][t] = Append(Recent(rateLog[Proc(s)][t]), instant)]
                  /\ served' = Append(served, [by |-> s, name |-> t, does |-> tool.does, at |-> instant])
    BY <1>7, Zenon DEF Let
  <2>2. CASE Len(Recent(rateLog[Proc(s)][t])) >= Budget(tool)
    BY <1>4, <2>1, <2>2
  <2>3. CASE ~(Len(Recent(rateLog[Proc(s)][t])) >= Budget(tool))
    <3>1. Honest(tool)
      OBVIOUS
    <3>2. Budget(tool) \in Nat
      BY <3>1 DEF Budget
    <3>3. Len(Recent(rateLog[Proc(s)][t])) \in Nat
      <4>1. Ordered(Recent(rateLog[Proc(s)][t]))
        BY <1>1, <1>2, RecentHolds
      <4> QED
        BY <4>1 DEF Ordered
    <3>4. Len(Recent(rateLog[Proc(s)][t])) < Budget(tool)
      BY <2>3, <3>2, <3>3
    <3> QED
      BY <1>5, <2>1, <2>3, <3>4, Zenon
  <2> QED
    BY <2>2, <2>3
<1> QED
  BY <1>6, <1>7

LEMMA ToolsKeeps == ToolsIInv /\ [ToolsNext]_toolVars => ToolsIInv'
<1> SUFFICES ASSUME ToolsIInv, [ToolsNext]_toolVars PROVE ToolsIInv'
  OBVIOUS
<1>1. CASE UNCHANGED toolVars
  <2>1. nouns' = nouns /\ seat' = seat /\ rateLog' = rateLog /\ calling' = calling /\ served' = served /\ instant' = instant
    BY <1>1 DEF toolVars
  <2> QED
    BY <2>1, LogsUntouched DEF ToolsIInv, SeatsInv, SeatsTyped, Allowed
<1>2. CASE Instant
  BY <1>2, InstantKeeps
<1>3. ASSUME NEW s \in Seats, Dispatched(s) PROVE ToolsIInv'
  <2>1. calling[s].at = "posted" /\ nouns' = nouns /\ seat' = seat /\ instant' = instant
    BY <1>3 DEF Dispatched
  <2>2. PICK t : t = calling[s].name
    OBVIOUS
  <2>3. t \in Called /\ s \notin Stdio /\ ~seat[s].readOnly
    BY <2>1, <2>2 DEF ToolsIInv, SeatsInv, SeatsTyped
  <2>4. PICK found : found = Registry(t, nouns, FALSE)
    OBVIOUS
  <2>5. Let(s, t, found)
    BY <1>3, <2>2, <2>4 DEF Dispatched
  <2>6. \A tool \in found : Honest(tool) /\ (seat[s].readOnly => tool.does = "reads")
    BY <2>3, <2>4, RegistryHonest
  <2> QED
    BY <2>1, <2>3, <2>5, <2>6, LetKeeps
<1>4. ASSUME NEW s \in Seats, NEW t \in Called, Line(s, t) PROVE ToolsIInv'
  <2>1. s \in Stdio /\ seat[s].open /\ nouns' = nouns /\ seat' = seat /\ instant' = instant
    BY <1>4 DEF Line
  <2>2. PICK found : found = Registry(t, seat[s].had, seat[s].readOnly)
    OBVIOUS
  <2>3. Let(s, t, found)
    BY <1>4, <2>2 DEF Line
  <2>4. \A tool \in found : Honest(tool) /\ (seat[s].readOnly => tool.does = "reads")
    BY <2>2, RegistryHonest
  <2> QED
    BY <2>1, <2>3, <2>4, LetKeeps
<1> QED
  BY <1>1, <1>2, <1>3, <1>4, OthersKeep DEF ToolsNext

LEMMA ToolsConclude == ToolsIInv => ToolsGuarded
<1> SUFFICES ASSUME ToolsIInv PROVE ToolsGuarded
  OBVIOUS
<1>1. served \in Seq(ServedCalls) /\ DOMAIN served = 1..Len(served)
  BY DEF ToolsIInv, LogsInv, LogsTyped
<1>2. ASSUME NEW n \in DOMAIN served
      PROVE  Proc(served[n].by) \in Processes /\ served[n].name \in Called /\ served[n].at \in Nat
  <2>1. served[n] \in ServedCalls
    BY <1>1
  <2> QED
    BY <2>1 DEF ServedCalls, Proc, Processes
<1>3. Permitted
  BY <1>1 DEF ToolsIInv, SeatsInv, Allowed, Permitted
<1>4. Budgeted
  BY <1>2 DEF ToolsIInv, LogsInv, Limits, Budgeted
<1> QED
  BY <1>3, <1>4 DEF ToolsGuarded

(* Whatever tokens callers hold, however collections come, go and are renamed, and whichever *)
(* tools of the server theirs hide: a call does what its token may do, a read-only session   *)
(* only reads, and in no minute does a process let more calls of a name through than the     *)
(* limit of tools that read, nor more that do something else than their limit.               *)
THEOREM AgentsHeld == ToolsSpec => []ToolsGuarded
<1>1. ToolsInit => ToolsIInv
  BY ToolsInitially
<1>2. ToolsIInv /\ [ToolsNext]_toolVars => ToolsIInv'
  BY ToolsKeeps
<1>3. ToolsIInv => ToolsGuarded
  BY ToolsConclude
<1> QED
  BY <1>1, <1>2, <1>3, PTL DEF ToolsSpec

-----------------------------------------------------------------------------
(***************************************************************************)
(* Paging.  The order of a page is total on the records that are there,    *)
(* so a page that is not the last ends at the record with the most others  *)
(* of the rest before it, and everything left lies behind that one.        *)
(***************************************************************************)
Held == Values \cup {NoValue}
Ahead(S, i) == {j \in S : Before(column[j], j, column[i], i)}

LEMMA ValuesAreNumbers ==
  ASSUME column \in [Ids -> Held \cup {Absent}]
  PROVE  \A i \in Ids : i \in Int /\ column[i] \in Int
<1>1. \A v \in Values : v \in Int
  BY PagingAssumption
<1>2. \A v \in Held \cup {Absent} : v \in Int
  BY <1>1 DEF Held, NoValue, Absent
<1>3. \A i \in Ids : i \in Int
  BY PagingAssumption
<1> QED
  BY <1>2, <1>3

LEMMA OrderIsTotal ==
  /\ \A v, w, i, j \in Int : Before(v, i, w, j) \/ Before(w, j, v, i) \/ (v = w /\ i = j)
  /\ \A v, w, i, j \in Int : ~(Before(v, i, w, j) /\ Before(w, j, v, i))
  /\ \A u, v, w, i, j, k \in Int : Before(u, i, v, j) /\ Before(v, j, w, k) => Before(u, i, w, k)
  BY DEF Before

\* What is before a record is before all that it is before.
LEMMA AheadGrows ==
  ASSUME column \in [Ids -> Held \cup {Absent}],
         NEW S \in SUBSET Ids, NEW i \in S, NEW j \in S, Before(column[i], i, column[j], j)
  PROVE  Cardinality(Ahead(S, i)) < Cardinality(Ahead(S, j))
<1> USE PagingAssumption
<1>1. i \in Int /\ j \in Int /\ \A k \in S : k \in Int /\ column[k] \in Int
  BY ValuesAreNumbers
<1>2. Ahead(S, i) \subseteq Ahead(S, j)
  <2> SUFFICES ASSUME NEW k \in S, Before(column[k], k, column[i], i) PROVE Before(column[k], k, column[j], j)
    BY DEF Ahead
  <2>1. k \in Int /\ column[k] \in Int /\ column[i] \in Int /\ column[j] \in Int
    BY <1>1
  <2> QED
    BY <1>1, <2>1, OrderIsTotal
<1>3. i \in Ahead(S, j) /\ i \notin Ahead(S, i)
  BY <1>1, OrderIsTotal DEF Ahead
<1>4. IsFiniteSet(Ahead(S, j)) /\ Ahead(S, i) # Ahead(S, j)
  BY <1>3, FS_Subset DEF Ahead
<1>5. Cardinality(Ahead(S, i)) \in Nat /\ Cardinality(Ahead(S, j)) \in Nat
  BY <1>2, <1>4, FS_Subset, FS_CardinalityType
<1> QED
  BY <1>2, <1>4, <1>5, FS_Subset

\* LastOf: a page with records has a last one.
LEMMA PageEnds ==
  ASSUME column \in [Ids -> Held \cup {Absent}], Page # {}
  PROVE  LastOf(Page) \in Page /\ \A j \in Page \ {LastOf(Page)} : Before(column[j], j, column[LastOf(Page)], LastOf(Page))
<1> USE PagingAssumption
<1> DEFINE rank(i) == Cardinality(Ahead(Rest, i))
           left == {PerPage - rank(i) : i \in Page}
<1>1. Rest \subseteq Ids /\ Page \subseteq Rest /\ \A i \in Page : rank(i) < PerPage
  BY DEF Rest, Present, Page, Ahead
<1>2. \A i \in Rest : rank(i) \in Nat
  BY <1>1, FS_Subset, FS_CardinalityType DEF Ahead
<1>3. left \in SUBSET Nat /\ left # {}
  <2>1. \A i \in Page : rank(i) \in Nat /\ rank(i) < PerPage
    BY <1>1, <1>2
  <2>2. \A n \in Nat : n < PerPage => PerPage - n \in Nat
    OBVIOUS
  <2>3. left \in SUBSET Nat
    BY <2>1, <2>2
  <2> QED
    BY <2>3
<1>4. PICK n \in left : \A m \in left : n <= m
  BY <1>3, SmallestIs DEF SmallestNat
<1>5. PICK last \in Page : n = PerPage - rank(last)
  BY <1>4
<1>6. \A j \in Page : rank(j) <= rank(last)
  BY <1>1, <1>2, <1>4, <1>5
<1>7. ASSUME NEW j \in Page \ {last} PROVE Before(column[j], j, column[last], last)
  <2>1. ~Before(column[last], last, column[j], j)
    <3> SUFFICES ASSUME Before(column[last], last, column[j], j) PROVE FALSE
      OBVIOUS
    <3>1. Rest \in SUBSET Ids /\ j \in Rest /\ last \in Rest /\ j \in Page
      BY <1>1, <1>7
    <3>2. Cardinality(Ahead(Rest, last)) < Cardinality(Ahead(Rest, j))
      BY <3>1, AheadGrows
    <3>3. rank(last) < rank(j) /\ rank(j) <= rank(last) /\ rank(j) \in Nat /\ rank(last) \in Nat
      BY <1>2, <1>6, <3>1, <3>2
    <3> QED
      BY <3>3
  <2> QED
    <3>1. j \in Ids /\ last \in Ids
      BY <1>1
    <3> QED
      BY <2>1, <3>1, ValuesAreNumbers, OrderIsTotal
<1>8. \E i \in Page : \A j \in Page \ {i} : Before(column[j], j, column[i], i)
  BY <1>7
<1> QED
  BY <1>8 DEF LastOf

\* Of what is left a page that is not the last takes the part up to its last record.
LEMMA PageSplits ==
  ASSUME column \in [Ids -> Held \cup {Absent}], Page # Rest
  PROVE  /\ Page # {} /\ Page \subseteq Rest /\ LastOf(Page) \in Page
         /\ \A i \in Rest : i \in Page <=> ~Before(column[LastOf(Page)], LastOf(Page), column[i], i)
<1> USE PagingAssumption
<1> DEFINE rank(i) == Cardinality(Ahead(Rest, i))
           ranks == {rank(i) : i \in Rest}
<1>1. Rest \subseteq Ids /\ Page = {i \in Rest : rank(i) < PerPage}
  BY DEF Rest, Present, Page, Ahead
<1>2. \A i \in Rest : rank(i) \in Nat
  BY <1>1, FS_Subset, FS_CardinalityType DEF Ahead
<1>3. \A i \in Rest : i \in Int /\ column[i] \in Int
  BY <1>1, ValuesAreNumbers
<1>4. Page # {}
  <2>1. ranks \in SUBSET Nat /\ ranks # {}
    BY <1>1, <1>2
  <2>2. PICK n \in ranks : \A m \in ranks : n <= m
    BY <2>1, SmallestIs DEF SmallestNat
  <2>3. PICK i \in Rest : n = rank(i)
    BY <2>2
  <2>4. \A j \in Rest : ~Before(column[j], j, column[i], i)
    BY <1>1, <1>2, <2>2, <2>3, AheadGrows
  <2>5. Ahead(Rest, i) = {}
    BY <2>4 DEF Ahead
  <2> QED
    <3>1. rank(i) = 0 /\ i \in Rest
      BY <2>3, <2>5, FS_EmptySet
    <3> QED
      BY <1>1, <3>1
<1>5. PICK last \in Ids : last = LastOf(Page) /\ last \in Page
  BY <1>1, <1>4, PageEnds
<1>6. \A j \in Page \ {last} : Before(column[j], j, column[last], last)
  BY <1>4, <1>5, PageEnds
<1>7. ASSUME NEW i \in Rest PROVE i \in Page <=> ~Before(column[last], last, column[i], i)
  <2>1. CASE i \in Page
    BY <2>1, <1>1, <1>3, <1>5, <1>6, OrderIsTotal
  <2>2. CASE i \notin Page
    <3>1. rank(i) >= PerPage /\ rank(last) < PerPage /\ last \in Rest /\ i # last
      BY <2>2, <1>1, <1>2, <1>5
    <3>2. ~Before(column[i], i, column[last], last)
      BY <3>1, <1>1, <1>2, AheadGrows
    <3> QED
      BY <2>2, <3>1, <3>2, <1>3, OrderIsTotal
  <2> QED
    BY <2>1, <2>2
<1> QED
  BY <1>1, <1>4, <1>5, <1>7

(***************************************************************************)
(* A record that stayed as it was has been given exactly when the cursor   *)
(* is not before it.  A cursor without a value finds nothing more.         *)
(***************************************************************************)
Cursor == [at : {"first", "after", "end"}, v : Held, id : Ids \cup {0}]
PagesTyped ==
  /\ column \in [Ids -> Held \cup {Absent}] /\ desc \in BOOLEAN
  /\ cursor \in Cursor /\ given \in [Ids -> Nat] /\ blank \in BOOLEAN
  /\ steady \subseteq Present
BlankEnds ==
  /\ cursor.at = "first" => cursor = First /\ ~blank /\ \A i \in Ids : given[i] = 0
  /\ cursor.at = "end" => cursor = NoMore
  /\ cursor.at = "after" => (blank <=> cursor.v = NoValue)
GivenBehind ==
  \A i \in steady :
    /\ given[i] <= 1
    /\ cursor.at = "after" /\ cursor.v # NoValue /\ column[i] # NoValue => (given[i] = 0 <=> Seek(i))
    /\ cursor.at = "end" /\ column[i] # NoValue /\ ~blank => given[i] = 1
PagesInv == PagesTyped /\ BlankEnds /\ GivenBehind

LEMMA PagesStart == PagingInit => PagesInv
<1> SUFFICES ASSUME PagingInit PROVE PagesInv
  OBVIOUS
<1>1. PagesTyped
  <2>1. First \in Cursor
    BY DEF First, Cursor, Held, NoValue
  <2>2. column \in [Ids -> Held \cup {Absent}]
    BY DEF PagingInit, Held
  <2> QED
    BY <2>1, <2>2 DEF PagingInit, PagesTyped
<1>2. cursor.at = "first" /\ BlankEnds
  BY DEF PagingInit, BlankEnds, First
<1>3. GivenBehind
  BY <1>2 DEF PagingInit, GivenBehind, Present
<1> QED
  BY <1>1, <1>2, <1>3 DEF PagesInv

\* What of a record that stayed is still ahead has not been given.
LEMMA RestNotGiven ==
  ASSUME PagesInv
  PROVE  /\ \A i \in steady \cap Rest : given[i] = 0
         /\ cursor.at # "end" => \A i \in steady \ Rest : column[i] # NoValue /\ ~blank => given[i] = 1
         /\ cursor.at = "after" /\ blank => Rest = {}
<1> USE DEF PagesInv, PagesTyped, BlankEnds, GivenBehind, Rest, Past, Present
<1>1. \A i \in steady : i \in Ids /\ given[i] \in Nat /\ given[i] <= 1
  OBVIOUS
<1>2. cursor.at \in {"first", "after", "end"}
  BY DEF Cursor
<1>3. CASE cursor.at = "first"
  BY <1>1, <1>3
<1>4. CASE cursor.at = "after"
  <2>1. \A i \in steady \cap Rest : cursor.v # NoValue /\ column[i] # NoValue /\ Seek(i)
    BY <1>4
  <2>2. \A i \in steady \cap Rest : given[i] = 0
    BY <1>4, <2>1
  <2>3. \A i \in steady \ Rest : column[i] # NoValue /\ ~blank => ~Seek(i)
    BY <1>4
  <2>4. \A i \in steady \ Rest : column[i] # NoValue /\ ~blank => given[i] = 1
    BY <1>1, <1>4, <2>3
  <2> QED
    BY <1>4, <2>2, <2>4
<1>5. CASE cursor.at = "end"
  <2>1. cursor.v = NoValue
    BY <1>5 DEF NoMore, NoValue
  <2> QED
    BY <1>5, <2>1
<1> QED
  BY <1>2, <1>3, <1>4, <1>5

LEMMA NextPageKeeps ==
  ASSUME PagesInv, NextPage
  PROVE  PagesInv'
<1> USE PagingAssumption
<1>1. /\ column' = column /\ desc' = desc /\ steady' = steady
      /\ column \in [Ids -> Held \cup {Absent}] /\ steady \subseteq Present /\ Present \subseteq Ids
      /\ Page \subseteq Rest /\ Rest \subseteq Present /\ cursor # NoMore /\ cursor \in Cursor
      /\ given \in [Ids -> Nat] /\ blank \in BOOLEAN
      /\ \A i \in Ids : given'[i] = IF i \in Page THEN given[i] + 1 ELSE given[i]
  BY DEF PagesInv, PagesTyped, NextPage, Page, Rest, Present
<1>2. cursor.at # "end"
  BY <1>1 DEF PagesInv, BlankEnds
<1>3. given' \in [Ids -> Nat] /\ blank' \in BOOLEAN
  BY <1>1 DEF NextPage
<1>4. Present' = Present
  BY <1>1 DEF Present
<1>5. \A i \in steady : given'[i] <= 1
  <2>1. \A i \in steady : given[i] \in Nat /\ given[i] <= 1 /\ (i \in Page => given[i] = 0)
    BY <1>1, RestNotGiven DEF PagesInv, GivenBehind
  <2> QED
    BY <1>1, <2>1
<1>6. CASE Page = Rest
  <2>1. cursor' = NoMore /\ blank' = blank
    BY <1>1, <1>6 DEF NextPage
  <2>2. \A i \in steady : column[i] # NoValue /\ ~blank => given'[i] = 1
    BY <1>1, <1>2, <1>6, RestNotGiven
  <2>3. PagesTyped' /\ BlankEnds'
    <3>1. NoMore \in Cursor /\ NoMore.at = "end"
      BY DEF NoMore, Cursor, Held, NoValue
    <3>2. PagesTyped'
      BY <1>1, <1>3, <1>4, <2>1, <3>1 DEF PagesInv, PagesTyped, Cursor
    <3>3. BlankEnds'
      BY <2>1, <3>1 DEF BlankEnds, First
    <3> QED
      BY <3>2, <3>3
  <2> QED
    BY <1>1, <1>5, <2>1, <2>2, <2>3 DEF PagesInv, GivenBehind, NoMore
<1>7. CASE Page # Rest
  <2>1. PICK last \in Ids : last = LastOf(Page) /\ last \in Page
    BY <1>1, <1>7, PageSplits
  <2>2. column[last] \in Held
    BY <1>1, <2>1 DEF Present
  <2>3. cursor' = [at |-> "after", v |-> column[last], id |-> last]
    BY <1>1, <1>7, <2>1 DEF NextPage, After
  <2>4. \A i \in Rest : i \in Page <=> ~Before(column[last], last, column[i], i)
    BY <1>1, <1>7, <2>1, PageSplits
  <2>5. ~blank
    <3>1. Rest # {}
      BY <1>1, <2>1
    <3> QED
      BY <1>2, <1>1, <3>1, RestNotGiven DEF PagesInv, BlankEnds, Cursor
  <2>6. blank' <=> column[last] = NoValue
    BY <1>7, <2>1, <2>5 DEF NextPage
  <2>7. PagesTyped' /\ BlankEnds'
    BY <1>1, <1>3, <1>4, <2>1, <2>2, <2>3, <2>6 DEF PagesInv, PagesTyped, BlankEnds, Cursor, Held
  <2>8. ASSUME NEW i \in steady, column[last] # NoValue, column[i] # NoValue
        PROVE  given'[i] = 0 <=> Before(column[last], last, column[i], i)
    <3>1. i \in Ids /\ column[i] \in Int /\ column[last] \in Int /\ i \in Int /\ last \in Int /\ given[i] \in Nat
      BY <1>1, <2>1, ValuesAreNumbers
    <3>2. CASE i \in Rest
      BY <1>1, <2>4, <3>1, <3>2, RestNotGiven
    <3>3. CASE i \notin Rest
      <4>1. given[i] = 1 /\ given'[i] = 1
        BY <1>1, <1>2, <2>5, <2>8, <3>1, <3>3, RestNotGiven
      <4>2. cursor.at = "after" /\ cursor.v # NoValue /\ cursor.v \in Int /\ cursor.id \in Int
        <5>1. cursor.at = "after"
          BY <1>1, <1>2, <3>3 DEF Rest, Past, Cursor
        <5>2. cursor.v # NoValue
          BY <5>1, <2>5 DEF PagesInv, BlankEnds
        <5>3. cursor.v \in Values \cup {NoValue} /\ cursor.id \in Ids \cup {0}
          BY <1>1 DEF Cursor, Held
        <5> QED
          <6>1. \A v \in Values \cup {NoValue} : v \in Int
            BY DEF NoValue
          <6>2. \A k \in Ids \cup {0} : k \in Int
            OBVIOUS
          <6> QED
            BY <5>1, <5>2, <5>3, <6>1, <6>2
      <4>3. ~Before(cursor.v, cursor.id, column[i], i)
        BY <1>1, <2>8, <3>3, <4>2 DEF Rest, Past, Seek
      <4>4. Before(cursor.v, cursor.id, column[last], last)
        BY <1>1, <2>1, <4>2 DEF Rest, Past, Seek
      <4>5. ~Before(column[last], last, column[i], i)
        BY <3>1, <4>2, <4>3, <4>4, OrderIsTotal
      <4> QED
        BY <4>1, <4>5
    <3> QED
      BY <3>2, <3>3
  <2>10. \A i \in steady : Seek(i)' <=> Before(column[last], last, column[i], i)
    BY <1>1, <2>3 DEF Seek, Before
  <2>11. GivenBehind'
    BY <1>1, <1>5, <2>3, <2>8, <2>10 DEF GivenBehind
  <2> QED
    BY <2>7, <2>11 DEF PagesInv
<1> QED
  BY <1>6, <1>7

LEMMA ChangeKeeps ==
  ASSUME PagesInv, NEW i \in Ids, NEW v \in Values \cup {NoValue, Absent}, Changes(i, v)
  PROVE  PagesInv'
<1>1. /\ desc' = desc /\ cursor' = cursor /\ given' = given /\ blank' = blank /\ steady' = steady \ {i}
      /\ column' \in [Ids -> Held \cup {Absent}] /\ \A j \in Ids \ {i} : column'[j] = column[j]
  BY DEF PagesInv, PagesTyped, Changes, Held
<1>2. steady \subseteq Ids /\ steady' \subseteq Present'
  BY <1>1 DEF PagesInv, PagesTyped, Present
<1>3. PagesTyped' /\ BlankEnds'
  BY <1>1, <1>2 DEF PagesInv, PagesTyped, BlankEnds
<1>4. \A j \in steady' : column'[j] = column[j] /\ j \in steady /\ (Seek(j)' <=> Seek(j))
  BY <1>1, <1>2 DEF Seek, Before
<1>5. GivenBehind'
  BY <1>1, <1>4 DEF PagesInv, GivenBehind
<1> QED
  BY <1>3, <1>5 DEF PagesInv

(* However records come, go and change between pages: whatever stayed as it was is on no two *)
(* pages, and by the end on one, but for records without a value and pages that ended there. *)
THEOREM PagesGiveOnce == PagingSpec => []EachOnce
<1>1. PagingInit => PagesInv
  BY PagesStart
<1>2. PagesInv /\ [PagingNext]_pageVars => PagesInv'
  <2> SUFFICES ASSUME PagesInv, [PagingNext]_pageVars PROVE PagesInv'
    OBVIOUS
  <2>1. CASE NextPage
    BY <2>1, NextPageKeeps
  <2>2. CASE \E i \in Ids, v \in Values \cup {NoValue, Absent} : Changes(i, v)
    BY <2>2, ChangeKeeps
  <2>3. CASE UNCHANGED pageVars
    BY <2>3 DEF pageVars, PagesInv, PagesTyped, BlankEnds, GivenBehind, Present, Seek, Before
  <2> QED
    BY <2>1, <2>2, <2>3 DEF PagingNext
<1>3. PagesInv => EachOnce
  BY DEF PagesInv, EachOnce, GivenBehind, BlankEnds, NoMore
<1> QED
  BY <1>1, <1>2, <1>3, PTL DEF PagingSpec
-----------------------------------------------------------------------------
(* Tables fit their collections                                            *)

Kinds == {"no", "number", "text", "searchable", "unique"}
Stored == {"no", "number", "text", "unique", "any"}
CollRows == [name : TableNames, type : {"base", "view"}, fields : [Columns -> Kinds],
             query : SUBSET Columns, given : BOOLEAN]
TableRows == [is : {"nothing", "base", "view"}, cols : [Columns -> Stored]]
Changings == [pc : {"create", "alter", "save", "forget"}, id : {{c} : c \in Collections},
            old : CollRows \cup {NoColl}, new : CollRows \cup {NoColl}]

(* The fields of a view are those of its query, or a caller's.             *)
Agreeing(row) == row.type = "view" => row.given \/ Named(row.fields) = row.query

(* The row that a request under way has made or read.                      *)
Seen(ch) == IF ch.pc = "create" THEN ch.new ELSE ch.old
WholeChange(ch) ==
  /\ Seen(ch) \in CollRows
  /\ ch.pc \in {"alter", "save"} => ch.new \in CollRows /\ ch.new.type = ch.old.type
  /\ ch.pc \in {"create", "alter"} => Agreeing(ch.new)

SchemaTypes ==
  /\ coll \in [Collections -> CollRows \cup {NoColl}]
  /\ tables \in [TableNames -> TableRows]
  /\ index \in [TableNames -> SUBSET Columns]
  /\ changing \in [SchemaRequests -> Changings \cup {SchemaIdle}]
  /\ \A r \in SchemaRequests : changing[r].pc # "idle" => WholeChange(changing[r])

Suits(n, row) ==
  /\ tables[n].is = row.type
  /\ IF row.type = "base" THEN BaseFits(row, tables[n], index[n]) ELSE ViewFits(row, tables[n])

(* What a request finds, unless the name of its row is spoilt: the row as  *)
(* it saw it, and the table as it left it.                                 *)
Finds(ch, c) ==
  LET row == Seen(ch) IN
  /\ coll[c] # NoColl /\ coll[c].name # row.name => coll[c].name \in spoilt
  /\ row.name \notin spoilt =>
       /\ coll[c] = row
       /\ ch.pc \in {"create", "forget"} => tables[row.name] = NoTable
       /\ ch.pc = "alter" => Suits(row.name, row)
       /\ ch.pc = "save" => Suits(row.name, ch.new)

WorkedOn(n) == \E r \in SchemaRequests : changing[r].pc # "idle" /\ Seen(changing[r]).name = n
AtRest(n) ==
  /\ \A c \in Collections : coll[c].name = n => Suits(n, coll[c])
  /\ ~ Taken(n) => tables[n] = NoTable

TablesInv ==
  /\ SchemaTypes
  /\ \A c, d \in Collections : coll[c] # NoColl /\ coll[c].name = coll[d].name => c = d
  /\ \A r \in SchemaRequests : changing[r].pc # "idle" =>
       \A c \in changing[r].id : Finds(changing[r], c)
  /\ \A r, s \in SchemaRequests :
       /\ r # s /\ changing[r].pc # "idle" /\ changing[s].pc # "idle"
       /\ Seen(changing[r]).name = Seen(changing[s]).name
       => Seen(changing[r]).name \in spoilt
  /\ \A n \in TableNames \ spoilt : ~ WorkedOn(n) => AtRest(n)

(* A request is at work on one collection and one name.                    *)
LEMMA AtWork ==
  ASSUME SchemaTypes, NEW r \in SchemaRequests, changing[r].pc # "idle"
  PROVE  \E c \in Collections, ch \in Changings :
           /\ ch = changing[r] /\ ch.id = {c} /\ Of(r) = c /\ WholeChange(ch)
           /\ Seen(ch).name \in TableNames /\ Seen(ch) # NoColl
<1>1. changing[r] \in Changings /\ WholeChange(changing[r])
  BY DEF SchemaTypes, SchemaIdle
<1>2. PICK ch \in Changings : ch = changing[r]
  BY <1>1
<1>3. PICK c \in Collections : ch.id = {c}
  BY DEF Changings
<1>4. Of(r) = c
  BY <1>2, <1>3 DEF Of
<1>5. Seen(ch).name \in TableNames /\ Seen(ch) # NoColl
  BY <1>1, <1>2, SchemaAssumption DEF WholeChange, CollRows, NoColl, BaseRow
<1> QED
  BY <1>1, <1>2, <1>3, <1>4, <1>5

(* What a step of request r on collection c and name n must leave as it is,*)
(* so that what the other requests find and what is at rest stays so.      *)
LEMMA StepKeeps ==
  ASSUME TablesInv, SchemaTypes', NEW r \in SchemaRequests, NEW c \in Collections, NEW n \in TableNames,
         \A d \in Collections \ {c} : coll'[d] = coll[d],
         \A m \in TableNames \ {n} : tables'[m] = tables[m] /\ index'[m] = index[m],
         \A s \in SchemaRequests \ {r} : changing'[s] = changing[s],
         spoilt \subseteq spoilt',
         \A d \in Collections \ {c} : coll'[c] # NoColl => coll'[c].name # coll[d].name,
         changing[r].pc # "idle" => Seen(changing[r]).name = n,
         \A s \in SchemaRequests \ {r} :
           changing[s].pc # "idle" /\ Seen(changing[s]).name = n => n \in spoilt',
         coll[c] # NoColl => coll[c].name = n \/ coll[c].name \in spoilt',
         coll'[c] # NoColl => coll'[c].name = n \/ coll'[c].name \in spoilt',
         \A s \in SchemaRequests \ {r} :
           changing[s].pc # "idle" /\ c \in changing[s].id /\ coll'[c] # NoColl =>
             coll'[c].name = Seen(changing[s]).name \/ coll'[c].name \in spoilt',
         changing'[r].pc # "idle" =>
           Seen(changing'[r]).name = n /\ \A d \in changing'[r].id : Finds(changing[r], d)',
         changing'[r].pc = "idle" /\ n \notin spoilt' => AtRest(n)'
  PROVE  TablesInv'
<1>1. SchemaTypes
  BY DEF TablesInv
<1>2. \A d \in Collections : /\ coll[d] \in CollRows \cup {NoColl}
                             /\ coll'[d] \in CollRows \cup {NoColl}
  BY <1>1 DEF SchemaTypes
<1>3. ASSUME NEW d \in Collections, NEW e \in Collections, coll'[d] # NoColl, coll'[d].name = coll'[e].name
      PROVE  d = e
  <2>1. NoColl.name \notin TableNames /\ \A row \in CollRows : row.name \in TableNames
    BY SchemaAssumption DEF CollRows, NoColl, BaseRow
  <2>2. coll'[e] # NoColl
    BY <1>2, <1>3, <2>1
  <2> QED
    BY <1>3, <2>2 DEF TablesInv
<1>4. ASSUME NEW s \in SchemaRequests \ {r}, changing[s].pc # "idle"
      PROVE  \A d \in changing[s].id : Finds(changing[s], d)'
  <2>1. PICK e \in Collections, ch \in Changings :
          /\ ch = changing[s] /\ ch.id = {e} /\ Seen(ch).name \in TableNames /\ Seen(ch) # NoColl
    BY <1>1, <1>4, AtWork
  <2>2. PICK row : row = Seen(ch)
    OBVIOUS
  <2>3. Finds(ch, e)
    BY <1>4, <2>1 DEF TablesInv
  <2>4. changing'[s] = ch
    BY <2>1
  <2>5. coll'[e] # NoColl /\ coll'[e].name # row.name => coll'[e].name \in spoilt'
    <3>1. CASE e = c
      BY <1>4, <2>1, <2>2, <3>1
    <3>2. CASE e # c
      BY <2>2, <2>3, <3>2 DEF Finds
    <3> QED
      BY <3>1, <3>2
  <2>6. ASSUME row.name \notin spoilt'
        PROVE  /\ coll'[e] = row
               /\ tables'[row.name] = tables[row.name] /\ index'[row.name] = index[row.name]
    <3>1. row.name \notin spoilt /\ coll[e] = row
      BY <2>2, <2>3, <2>6 DEF Finds
    <3>2. row.name # n
      BY <1>4, <2>1, <2>2, <2>6
    <3>3. e # c
      BY <2>1, <2>2, <2>6, <3>1, <3>2
    <3> QED
      BY <2>1, <2>2, <3>1, <3>2, <3>3
  <2>7. Finds(ch, e)'
    BY <2>2, <2>3, <2>5, <2>6 DEF Finds, Suits
  <2> QED
    BY <2>1, <2>4, <2>7
<1>5. \A s \in SchemaRequests : changing'[s].pc # "idle" =>
        \A d \in changing'[s].id : Finds(changing[s], d)'
  BY <1>4
<1>6. \A s, t \in SchemaRequests :
        /\ s # t /\ changing'[s].pc # "idle" /\ changing'[t].pc # "idle"
        /\ Seen(changing'[s]).name = Seen(changing'[t]).name
        => Seen(changing'[s]).name \in spoilt'
  BY DEF TablesInv
<1>7. ASSUME NEW m \in TableNames \ spoilt', ~ WorkedOn(m)' PROVE AtRest(m)'
  <2>1. CASE m = n
    <3>1. changing'[r].pc = "idle"
      BY <1>7, <2>1 DEF WorkedOn
    <3> QED
      BY <1>7, <2>1, <3>1
  <2>2. CASE m # n
    <3>1. ~ WorkedOn(m)
      BY <1>7, <2>2 DEF WorkedOn
    <3>2. AtRest(m)
      BY <1>7, <3>1 DEF TablesInv
    <3>3. \A d \in Collections : coll[d].name = m => d # c /\ coll'[d] = coll[d]
      BY <1>2, <1>7, <2>2, SchemaAssumption DEF NoColl, BaseRow
    <3>4. \A d \in Collections : coll'[d].name = m => d # c /\ coll'[d] = coll[d]
      BY <1>2, <1>7, <2>2, SchemaAssumption DEF NoColl, BaseRow
    <3>5. tables'[m] = tables[m] /\ index'[m] = index[m]
      BY <1>7, <2>2
    <3> QED
      BY <3>2, <3>3, <3>4, <3>5 DEF AtRest, Suits, Taken
  <2> QED
    BY <2>1, <2>2
<1> QED
  BY <1>3, <1>5, <1>6, <1>7 DEF TablesInv

LEMMA TypesKept ==
  ASSUME SchemaTypes, NEW r \in SchemaRequests, NEW ch \in Changings \cup {SchemaIdle},
         changing' = [changing EXCEPT ![r] = ch], ch.pc # "idle" => WholeChange(ch),
         coll' \in [Collections -> CollRows \cup {NoColl}], tables' \in [TableNames -> TableRows],
         index' \in [TableNames -> SUBSET Columns]
  PROVE  SchemaTypes' /\ changing'[r] = ch /\ \A s \in SchemaRequests \ {r} : changing'[s] = changing[s]
<1>1. changing' \in [SchemaRequests -> Changings \cup {SchemaIdle}]
  BY DEF SchemaTypes
<1>2. changing'[r] = ch /\ \A s \in SchemaRequests \ {r} : changing'[s] = changing[s]
  BY DEF SchemaTypes
<1>3. \A s \in SchemaRequests : changing'[s].pc # "idle" => WholeChange(changing'[s])
  BY <1>2 DEF SchemaTypes
<1> QED
  BY <1>1, <1>2, <1>3 DEF SchemaTypes

LEMMA TablesTyped ==
  /\ NoTable \in TableRows /\ SchemaIdle.pc = "idle" /\ NoColl \notin CollRows /\ NoColl.name \notin TableNames
  /\ \A f \in [Columns -> Kinds] : Searchable(f) \in SUBSET Columns
  /\ \A k \in Kinds : Storage(k) \in Stored /\ Typed(Storage(k)) = Typed(k)
BY SchemaAssumption
   DEF NoTable, TableRows, SchemaIdle, Nothing, Storage, Stored, Searchable, Kinds, Typed, NoColl, BaseRow, CollRows

(* A table as it is made for a row has the columns of its fields, or of its query. *)
LEMMA MadeFits ==
  ASSUME NEW row \in CollRows
  PROVE  /\ Made(row) \in TableRows /\ Made(row).is = row.type
         /\ row.type = "base" => \A x \in Columns : Typed(Made(row).cols[x]) = Typed(row.fields[x])
         /\ row.type = "view" => Named(Made(row).cols) = row.query
<1>1. row.type \in {"base", "view"} /\ row.fields \in [Columns -> Kinds] /\ row.query \in SUBSET Columns
  BY DEF CollRows
<1>2. CASE row.type = "base"
  <2>1. Made(row) = [is |-> "base", cols |-> Column(row.fields)]
    BY <1>2 DEF Made
  <2>2. /\ Column(row.fields) \in [Columns -> Stored]
        /\ \A x \in Columns : Typed(Column(row.fields)[x]) = Typed(row.fields[x])
    BY <1>1, TablesTyped DEF Column
  <2> QED
    BY <1>2, <2>1, <2>2 DEF TableRows
<1>3. CASE row.type = "view"
  <2>1. PICK cols : cols = [x \in Columns |-> IF x \in row.query THEN "any" ELSE "no"]
    OBVIOUS
  <2>2. Made(row) = [is |-> "view", cols |-> cols]
    BY <1>3, <2>1 DEF Made
  <2>3. cols \in [Columns -> Stored] /\ Named(cols) = row.query
    BY <1>1, <2>1 DEF Stored, Named
  <2> QED
    BY <1>3, <2>2, <2>3 DEF TableRows
<1> QED
  BY <1>1, <1>2, <1>3

(* The rows that a request sends.                                          *)
LEMMA BaseRowTyped ==
  ASSUME NEW n \in TableNames, NEW f \in [Columns -> Kinds]
  PROVE  BaseRow(n, f) \in CollRows /\ BaseRow(n, f).type = "base" /\ BaseRow(n, f).name = n
<1>1. BaseRow(n, f) = [name |-> n, type |-> "base", fields |-> f, query |-> {}, given |-> TRUE]
  BY DEF BaseRow
<1> QED
  BY <1>1 DEF CollRows

LEMMA ViewRowsTyped ==
  ASSUME NEW n \in TableNames, NEW f \in [Columns -> Kinds], NEW q \in SUBSET Columns
  PROVE  /\ GivenView(n, f, q) \in CollRows /\ GivenView(n, f, q).type = "view"
         /\ GivenView(n, f, q).name = n /\ GivenView(n, f, q).given
         /\ InferredView(n, q) \in CollRows /\ InferredView(n, q).type = "view"
         /\ InferredView(n, q).name = n /\ Named(InferredView(n, q).fields) = InferredView(n, q).query
<1>1. Inferred(q) \in [Columns -> Kinds] /\ Named(Inferred(q)) = q
  BY DEF Inferred, Named, Kinds
<1>2. /\ GivenView(n, f, q) \in CollRows /\ GivenView(n, f, q).type = "view"
      /\ GivenView(n, f, q).name = n /\ GivenView(n, f, q).given
  BY DEF GivenView, CollRows
<1>3. /\ InferredView(n, q) \in CollRows /\ InferredView(n, q).type = "view"
      /\ InferredView(n, q).name = n
      /\ InferredView(n, q).fields = Inferred(q) /\ InferredView(n, q).query = q
  BY <1>1 DEF InferredView, CollRows
<1> QED
  BY <1>1, <1>2, <1>3

LEMMA NewRowsFit ==
  ASSUME NEW n \in TableNames, NEW new \in NewRows(n)
  PROVE  new \in CollRows /\ new.name = n /\ Agreeing(new)
<1>1. Schemas \subseteq [Columns -> Kinds] /\ Queries \subseteq SUBSET Columns
  BY SchemaAssumption DEF Kinds
<1>2. CASE \E f \in Schemas : new = BaseRow(n, f)
  BY <1>1, <1>2, BaseRowTyped DEF Agreeing
<1>3. CASE \E f \in Schemas, q \in Queries : new = GivenView(n, f, q)
  BY <1>1, <1>3, ViewRowsTyped DEF Agreeing
<1>4. CASE \E q \in Queries : new = InferredView(n, q)
  <2>1. PICK q \in SUBSET Columns : new = InferredView(n, q)
    BY <1>1, <1>4
  <2>2. PICK f \in [Columns -> Kinds] : f = Inferred(q)
    BY DEF Inferred, Kinds
  <2> QED
    BY <2>1, <2>2, ViewRowsTyped DEF Agreeing
<1> QED
  BY <1>2, <1>3, <1>4 DEF NewRows

LEMMA RewrittenFits ==
  ASSUME NEW old \in CollRows, NEW new \in Rewritten(old)
  PROVE  /\ new \in CollRows /\ new.type = old.type
         /\ \/ Agreeing(new)
            \/ new.fields = old.fields /\ new.query = old.query /\ (new.given <=> old.given)
<1>1. Schemas \subseteq [Columns -> Kinds] /\ Queries \subseteq SUBSET Columns
  BY SchemaAssumption DEF Kinds
<1>2. old.fields \in [Columns -> Kinds] /\ old.query \in SUBSET Columns /\ old.type \in {"base", "view"}
  BY DEF CollRows
<1>3. CASE old.type = "base"
  <2>1. PICK n \in TableNames, f \in Schemas \cup {old.fields} : new = BaseRow(n, f)
    BY <1>3 DEF Rewritten
  <2> QED
    BY <1>1, <1>2, <1>3, <2>1, BaseRowTyped DEF Agreeing
<1>4. CASE \E n \in TableNames, f \in Schemas, q \in Queries \cup {old.query} :
             old.type = "view" /\ new = GivenView(n, f, q)
  <2>1. PICK n \in TableNames, f \in [Columns -> Kinds], q \in SUBSET Columns :
          old.type = "view" /\ new = GivenView(n, f, q)
    BY <1>1, <1>2, <1>4
  <2> QED
    BY <2>1, ViewRowsTyped DEF Agreeing
<1>5. CASE \E n \in TableNames, q \in Queries : old.type = "view" /\ new = InferredView(n, q)
  <2>1. PICK n \in TableNames, q \in SUBSET Columns : old.type = "view" /\ new = InferredView(n, q)
    BY <1>1, <1>5
  <2> QED
    BY <1>2, <2>1, ViewRowsTyped DEF Agreeing
<1>6. CASE \E n \in TableNames : new = [old EXCEPT !.name = n]
  BY <1>6 DEF CollRows
<1> QED
  BY <1>2, <1>3, <1>4, <1>5, <1>6 DEF Rewritten

(* Who is busy with a name or a collection may have seen it.               *)
LEMMA Clashes ==
  ASSUME SchemaTypes, NEW c \in Collections, NEW n \in TableNames, NEW s \in SchemaRequests,
         changing[s].pc # "idle", Seen(changing[s]).name = n \/ c \in changing[s].id
  PROVE  BusyWith(c, n)
  BY DEF BusyWith, Seen

LEMMA InsertKeeps ==
  ASSUME TablesInv, NEW r \in SchemaRequests, NEW c \in Collections, NEW new \in CollRows, Agreeing(new),
         InsertCollection(r, c, new)
  PROVE  TablesInv'
<1>1. /\ SchemaTypes /\ changing[r].pc = "idle" /\ coll[c] = NoColl /\ ~ Taken(new.name)
      /\ coll' = [coll EXCEPT ![c] = new] /\ tables' = tables /\ index' = index
  BY DEF InsertCollection, TablesInv
<1>2. PICK ch : ch = [pc |-> "create", id |-> {c}, old |-> NoColl, new |-> new]
  OBVIOUS
<1>3. ch \in Changings /\ WholeChange(ch) /\ Seen(ch) = new /\ ch.pc = "create" /\ ch.id = {c}
  BY <1>2 DEF Changings, WholeChange, Seen
<1>4. changing' = [changing EXCEPT ![r] = ch]
  BY <1>2 DEF InsertCollection, Step
<1>5. PICK n \in TableNames : n = new.name
  BY DEF CollRows
<1>6. /\ SchemaTypes' /\ changing'[r] = ch /\ \A s \in SchemaRequests \ {r} : changing'[s] = changing[s]
      /\ coll'[c] = new /\ \A d \in Collections \ {c} : coll'[d] = coll[d]
  <2>1. coll' \in [Collections -> CollRows \cup {NoColl}]
    BY <1>1 DEF SchemaTypes
  <2>2. tables' \in [TableNames -> TableRows] /\ index' \in [TableNames -> SUBSET Columns]
    BY <1>1 DEF SchemaTypes
  <2>3. coll'[c] = new /\ \A d \in Collections \ {c} : coll'[d] = coll[d]
    BY <1>1 DEF SchemaTypes
  <2> QED
    BY <1>1, <1>3, <1>4, <2>1, <2>2, <2>3, TypesKept
<1>7. spoilt \subseteq spoilt' /\ (BusyWith(c, n) => n \in spoilt')
  BY <1>5 DEF InsertCollection
<1>8. \A s \in SchemaRequests \ {r} :
        changing[s].pc # "idle" /\ (Seen(changing[s]).name = n \/ c \in changing[s].id) => n \in spoilt'
  BY <1>1, <1>7, Clashes
<1>9. Finds(ch, c)'
  <2>1. SUFFICES ASSUME n \notin spoilt' PROVE tables[n] = NoTable
    BY <1>1, <1>3, <1>5, <1>6 DEF Finds
  <2>2. ~ WorkedOn(n)
    BY <1>1, <1>8, <2>1 DEF WorkedOn
  <2>3. AtRest(n)
    BY <1>7, <2>1, <2>2 DEF TablesInv
  <2> QED
    BY <1>1, <1>5, <2>3 DEF AtRest
<1>10. \A d \in Collections \ {c} : coll'[c].name # coll[d].name
  BY <1>1, <1>6 DEF Taken
<1> QED
  BY <1>1, <1>3, <1>5, <1>6, <1>7, <1>8, <1>9, <1>10, StepKeeps, TablesTyped DEF TablesInv

(* A step of a request that is at work already.                            *)
LEMMA GoingOn ==
  ASSUME TablesInv, SchemaTypes', NEW r \in SchemaRequests, NEW c \in Collections, NEW n \in TableNames,
         changing[r].pc # "idle", changing[r].id = {c}, Seen(changing[r]).name = n,
         \A d \in Collections \ {c} : coll'[d] = coll[d],
         coll'[c] # NoColl =>
           \/ coll[c] # NoColl /\ coll'[c].name = coll[c].name
           \/ coll'[c].name \in spoilt' /\ \A d \in Collections \ {c} : coll'[c].name # coll[d].name,
         \A m \in TableNames \ {n} : tables'[m] = tables[m] /\ index'[m] = index[m],
         \A s \in SchemaRequests \ {r} : changing'[s] = changing[s],
         spoilt \subseteq spoilt',
         changing'[r].pc # "idle" =>
           Seen(changing'[r]).name = n /\ \A d \in changing'[r].id : Finds(changing[r], d)',
         changing'[r].pc = "idle" /\ n \notin spoilt' => AtRest(n)'
  PROVE  TablesInv'
<1>1. /\ \A d, e \in Collections : coll[d] # NoColl /\ coll[d].name = coll[e].name => d = e
      /\ \A s \in SchemaRequests : changing[s].pc # "idle" =>
           \A d \in changing[s].id : Finds(changing[s], d)
      /\ \A s \in SchemaRequests \ {r} :
           changing[s].pc # "idle" /\ Seen(changing[s]).name = n => n \in spoilt
  BY DEF TablesInv
<1>2. \A d \in Collections \ {c} : coll'[c] # NoColl => coll'[c].name # coll[d].name
  BY <1>1
<1>3. \A s \in SchemaRequests : changing[s].pc # "idle" /\ c \in changing[s].id /\ coll[c] # NoColl =>
        coll[c].name = Seen(changing[s]).name \/ coll[c].name \in spoilt
  BY <1>1 DEF Finds
<1>4. coll[c] # NoColl => coll[c].name = n \/ coll[c].name \in spoilt'
  BY <1>3
<1>5. coll'[c] # NoColl => coll'[c].name = n \/ coll'[c].name \in spoilt'
  BY <1>4
<1>6. \A s \in SchemaRequests \ {r} :
        changing[s].pc # "idle" /\ c \in changing[s].id /\ coll'[c] # NoColl =>
          coll'[c].name = Seen(changing[s]).name \/ coll'[c].name \in spoilt'
  BY <1>3
<1>7. \A s \in SchemaRequests \ {r} :
        changing[s].pc # "idle" /\ Seen(changing[s]).name = n => n \in spoilt'
  BY <1>1
<1> QED
  BY <1>2, <1>4, <1>5, <1>6, <1>7, StepKeeps

LEMMA CreateTableKeeps ==
  ASSUME TablesInv, NEW r \in SchemaRequests, CreateTable(r)
  PROVE  TablesInv'
<1>1. /\ SchemaTypes /\ changing[r].pc = "create" /\ coll' = coll /\ spoilt \subseteq spoilt'
      /\ changing' = [changing EXCEPT ![r] = SchemaIdle]
  BY DEF CreateTable, Done, TablesInv
<1>2. PICK c \in Collections, ch \in Changings :
        /\ ch = changing[r] /\ ch.id = {c} /\ WholeChange(ch)
        /\ Seen(ch).name \in TableNames /\ Seen(ch) # NoColl
  BY <1>1, AtWork
<1>3. PICK n \in TableNames, row \in CollRows :
        row = ch.new /\ row = Seen(ch) /\ n = row.name /\ Agreeing(row)
  BY <1>1, <1>2 DEF WholeChange, Seen
<1>4. row.fields \in [Columns -> Kinds] /\ row.type \in {"base", "view"}
  BY DEF CollRows
<1>5. PICK t \in TableRows : t = Made(row)
  BY MadeFits
<1>6. PICK i \in SUBSET Columns : i = IF row.type = "view" THEN {} ELSE Searchable(row.fields)
  BY <1>4, TablesTyped
<1>7. \/ /\ tables' = IF tables[n] # NoTable THEN tables ELSE [tables EXCEPT ![n] = t]
         /\ index' = [index EXCEPT ![n] = i]
      \/ tables' = tables /\ index' = index /\ n \in spoilt'
  BY <1>2, <1>3, <1>5, <1>6 DEF CreateTable
<1>8. /\ coll' \in [Collections -> CollRows \cup {NoColl}] /\ tables' \in [TableNames -> TableRows]
      /\ index' \in [TableNames -> SUBSET Columns]
      /\ \A m \in TableNames \ {n} : tables'[m] = tables[m] /\ index'[m] = index[m]
  BY <1>1, <1>7 DEF SchemaTypes
<1>9. SchemaTypes' /\ changing'[r].pc = "idle" /\ \A s \in SchemaRequests \ {r} : changing'[s] = changing[s]
  BY <1>1, <1>4, <1>8, TypesKept, TablesTyped
<1>10. ASSUME n \notin spoilt' PROVE AtRest(n)'
  <2>1. Finds(ch, c)
    BY <1>1, <1>2 DEF TablesInv
  <2>2. n \notin spoilt
    BY <1>1, <1>10
  <2>3. coll[c] = row /\ tables[n] = NoTable
    BY <1>1, <1>2, <1>3, <2>1, <2>2 DEF Finds
  <2>4. tables' = [tables EXCEPT ![n] = t] /\ index' = [index EXCEPT ![n] = i]
    BY <1>7, <1>10, <2>3
  <2>5. tables'[n] = t /\ index'[n] = i
    BY <1>1, <2>4 DEF SchemaTypes
  <2>6. /\ t.is = row.type
        /\ row.type = "base" => \A x \in Columns : Typed(t.cols[x]) = Typed(row.fields[x])
        /\ row.type = "view" => Named(t.cols) = row.query
    BY <1>5, MadeFits
  <2>7. row.type = "base" => i = Searchable(row.fields)
    BY <1>6
  <2>8. coll[c] # NoColl
    BY <1>2, <1>3, <2>3
  <2>9. \A d \in Collections : coll'[d].name = n => d = c
    BY <1>1, <1>3, <2>3, <2>8 DEF TablesInv
  <2>10. Suits(n, row)'
    BY <1>3, <1>4, <2>5, <2>6, <2>7 DEF Suits, BaseFits, ViewFits, Agreeing
  <2>11. Taken(n)'
    BY <1>1, <1>3, <2>3 DEF Taken
  <2> QED
    BY <1>1, <2>3, <2>9, <2>10, <2>11 DEF AtRest
<1> QED
  BY <1>1, <1>2, <1>3, <1>8, <1>9, <1>10, GoingOn, SchemaAssumption
     DEF TablesInv

(* Altering a table that refuses nothing gives it the columns of the fields.*)
LEMMA AlteringFits ==
  ASSUME NEW f \in [Columns -> Kinds], NEW g \in [Columns -> Kinds],
         NEW cols \in [Columns -> Stored]
  PROVE  /\ \A off, on \in SUBSET Columns :
              With(cols, off, on, g) \in [Columns -> Stored]
         /\ Dropped(f, g) \in SUBSET Columns /\ Added(f, g) \in SUBSET Columns
         /\ (\A x \in Columns : Typed(cols[x]) = Typed(f[x])) /\ Retyped(f, g) = {} =>
              \A x \in Columns : Typed(Altered(cols, f, g)[x]) = Typed(g[x])
<1>1. \A x \in Columns : Storage(g[x]) \in Stored /\ Typed(Storage(g[x])) = Typed(g[x])
  BY TablesTyped
<1>2. \A off, on \in SUBSET Columns :
        With(cols, off, on, g) \in [Columns -> Stored]
  BY <1>1 DEF With, Stored
<1>3. Dropped(f, g) \in SUBSET Columns /\ Added(f, g) \in SUBSET Columns
  BY DEF Dropped, Added
<1>4. ASSUME \A x \in Columns : Typed(cols[x]) = Typed(f[x]), Retyped(f, g) = {}, NEW x \in Columns
      PROVE  Typed(Altered(cols, f, g)[x]) = Typed(g[x])
  <2>1. CASE x \in Dropped(f, g)
    <3>1. Altered(cols, f, g)[x] = "no" /\ g[x] = "no"
      BY <2>1 DEF Altered, With, Dropped
    <3> QED
      BY <3>1
  <2>2. CASE x \in Added(f, g) /\ x \notin Dropped(f, g)
    <3>1. Altered(cols, f, g)[x] = Storage(g[x])
      BY <2>2 DEF Altered, With
    <3> QED
      BY <1>1, <3>1
  <2>3. CASE x \notin Added(f, g) /\ x \notin Dropped(f, g)
    <3>1. Altered(cols, f, g)[x] = cols[x]
      BY <2>3 DEF Altered, With
    <3>2. Typed(f[x]) = Typed(g[x])
      BY <1>4, <2>3 DEF Added, Dropped, Retyped
    <3> QED
      BY <1>4, <3>1, <3>2
  <2> QED
    BY <2>1, <2>2, <2>3
<1> QED
  BY <1>2, <1>3, <1>4

LEMMA AlterTableKeeps ==
  ASSUME TablesInv, NEW r \in SchemaRequests, AlterTable(r)
  PROVE  TablesInv'
<1>1. /\ SchemaTypes /\ changing[r].pc = "alter" /\ coll' = coll /\ spoilt \subseteq spoilt'
      /\ changing[r].old.type = "base"
  BY DEF AlterTable, TablesInv
<1>2. PICK c \in Collections, ch \in Changings :
        /\ ch = changing[r] /\ ch.id = {c} /\ Of(r) = c /\ WholeChange(ch)
        /\ Seen(ch).name \in TableNames /\ Seen(ch) # NoColl
  BY <1>1, AtWork
<1>3. PICK n \in TableNames, row \in CollRows, new \in CollRows :
        /\ row = ch.old /\ row = Seen(ch) /\ n = row.name /\ row.type = "base"
        /\ new = ch.new /\ new.type = row.type
  BY <1>1, <1>2 DEF WholeChange, Seen
<1>4. PICK f \in [Columns -> Kinds], g \in [Columns -> Kinds] : f = row.fields /\ g = new.fields
  BY DEF CollRows
<1>5. PICK had \in [Columns -> Stored] : had = tables[n].cols
  BY <1>1 DEF SchemaTypes, TableRows
<1>6. PICK save : save = [pc |-> "save", id |-> {c}, old |-> row, new |-> new]
  OBVIOUS
<1>6a. /\ save \in Changings /\ save.pc = "save" /\ save.id = {c} /\ save.old = row /\ save.new = new
       /\ Seen(save) = row
  BY <1>6 DEF Changings, Seen
<1>6b. WholeChange(save)
  BY <1>3, <1>6a DEF WholeChange
<1>7. \/ /\ tables[n].is = "base" /\ Retyped(f, g) = {}
         /\ tables' = [tables EXCEPT ![n].cols = Altered(had, f, g)]
         /\ index' = [index EXCEPT ![n] = Searchable(g)]
         /\ changing' = [changing EXCEPT ![r] = save]
      \/ /\ \/ \E cols \in [Columns -> Stored] : tables' = [tables EXCEPT ![n].cols = cols]
            \/ tables' = tables
         /\ index' = [index EXCEPT ![n] = {}]
         /\ changing' = [changing EXCEPT ![r] = SchemaIdle] /\ n \in spoilt'
  <2>1. CASE tables[n].is = "base" /\ Undroppable(n, f, g) \cup Unaddable(n, f, g) \cup Retyped(f, g) = {}
    BY <1>2, <1>3, <1>4, <1>5, <1>6, <2>1 DEF AlterTable, Step
  <2>2. CASE tables[n].is # "base"
    BY <1>2, <1>3, <1>4, <2>2 DEF AlterTable, Done
  <2>3. CASE tables[n].is = "base" /\ Undroppable(n, f, g) \cup Unaddable(n, f, g) \cup Retyped(f, g) # {}
    <3>0. n = changing[r].old.name /\ f = changing[r].old.fields /\ g = changing[r].new.fields
      BY <1>2, <1>3, <1>4
    <3>1. /\ \/ \E off \in SUBSET (Dropped(f, g) \ Undroppable(n, f, g)) :
                  tables' = [tables EXCEPT ![n].cols = With(had, off, {}, g)]
             \/ \E on \in SUBSET (Added(f, g) \ Unaddable(n, f, g)) :
                  tables' = [tables EXCEPT ![n].cols = With(had, Dropped(f, g), on, g)]
          /\ index' = [index EXCEPT ![n] = {}]
          /\ changing' = [changing EXCEPT ![r] = SchemaIdle] /\ n \in spoilt'
      BY <1>5, <2>3, <3>0, ZenonT(60) DEF AlterTable, Done
    <3>2. Dropped(f, g) \in SUBSET Columns /\ Added(f, g) \in SUBSET Columns /\ {} \in SUBSET Columns
      BY AlteringFits
    <3>3. \A off \in SUBSET Columns, on \in SUBSET Columns :
            With(had, off, on, g) \in [Columns -> Stored]
      BY AlteringFits
    <3>4. CASE \E off \in SUBSET (Dropped(f, g) \ Undroppable(n, f, g)) :
                  tables' = [tables EXCEPT ![n].cols = With(had, off, {}, g)]
      BY <3>1, <3>2, <3>3, <3>4
    <3>5. CASE \E on \in SUBSET (Added(f, g) \ Unaddable(n, f, g)) :
                  tables' = [tables EXCEPT ![n].cols = With(had, Dropped(f, g), on, g)]
      BY <3>1, <3>2, <3>3, <3>5
    <3> QED
      BY <3>1, <3>4, <3>5
  <2> QED
    BY <2>1, <2>2, <2>3
<1>8. Altered(had, f, g) \in [Columns -> Stored] /\ Searchable(g) \in SUBSET Columns
  BY AlteringFits, TablesTyped DEF Altered
<1>9. \A cols \in [Columns -> Stored] : [tables[n] EXCEPT !.cols = cols] \in TableRows
  BY <1>1 DEF SchemaTypes, TableRows
<1>10. /\ coll' \in [Collections -> CollRows \cup {NoColl}] /\ tables' \in [TableNames -> TableRows]
       /\ index' \in [TableNames -> SUBSET Columns]
       /\ \A m \in TableNames \ {n} : tables'[m] = tables[m] /\ index'[m] = index[m]
  BY <1>1, <1>7, <1>8, <1>9 DEF SchemaTypes
<1>11. PICK next \in Changings \cup {SchemaIdle} :
         /\ changing' = [changing EXCEPT ![r] = next]
         /\ next = SchemaIdle \/ next = save
  BY <1>6a, <1>7
<1>12. SchemaIdle.pc = "idle" /\ (next.pc # "idle" => WholeChange(next) /\ next = save)
  BY <1>6b, <1>11 DEF SchemaIdle
<1>13. SchemaTypes' /\ changing'[r] = next /\ \A s \in SchemaRequests \ {r} : changing'[s] = changing[s]
  BY <1>1, <1>10, <1>11, <1>12, TypesKept
<1>14. next.pc = "idle" => n \in spoilt'
  BY <1>1, <1>6a, <1>7, <1>11, <1>13 DEF SchemaTypes
<1>15. ASSUME next.pc # "idle" PROVE Finds(next, c)'
  <2>1. Finds(ch, c)
    BY <1>1, <1>2 DEF TablesInv
  <2>2. next = save /\ next # SchemaIdle
    BY <1>12, <1>15
  <2>3. changing' # [changing EXCEPT ![r] = SchemaIdle]
    BY <1>1, <1>13, <2>2 DEF SchemaTypes
  <2>4. /\ tables[n].is = "base" /\ Retyped(f, g) = {}
        /\ tables' = [tables EXCEPT ![n].cols = Altered(had, f, g)]
        /\ index' = [index EXCEPT ![n] = Searchable(g)]
    BY <1>7, <2>3
  <2>5. ASSUME n \notin spoilt' PROVE Suits(n, new)'
    <3>1. n \notin spoilt
      BY <1>1, <2>5
    <3>2. coll[c] = row /\ Suits(n, row)
      BY <1>1, <1>2, <1>3, <1>4, <2>1, <3>1 DEF Finds
    <3>3. /\ tables'[n].is = "base" /\ tables'[n].cols = Altered(had, f, g)
          /\ index'[n] = Searchable(g)
      BY <1>1, <2>4 DEF SchemaTypes, TableRows
    <3>4. \A x \in Columns : Typed(Altered(had, f, g)[x]) = Typed(g[x])
      <4>1. \A x \in Columns : Typed(had[x]) = Typed(f[x])
        BY <1>3, <1>4, <1>5, <3>2 DEF Suits, BaseFits
      <4> QED
        BY <2>4, <4>1, AlteringFits
    <3> QED
      BY <1>3, <1>4, <3>3, <3>4 DEF Suits, BaseFits
  <2> QED
    BY <1>1, <1>2, <1>3, <1>6a, <2>1, <2>2, <2>5 DEF Finds
<1>16. /\ changing[r].pc # "idle" /\ changing[r].id = {c} /\ Seen(changing[r]).name = n
       /\ \A d \in Collections : coll'[d] = coll[d]
  BY <1>1, <1>2, <1>3
<1>17. next.pc # "idle" => Seen(next).name = n /\ \A d \in next.id : Finds(next, d)'
  BY <1>3, <1>6a, <1>12, <1>15
<1> QED
  BY <1>1, <1>10, <1>13, <1>14, <1>16, <1>17, GoingOn

LEMMA AlterViewKeeps ==
  ASSUME TablesInv, NEW r \in SchemaRequests, AlterView(r)
  PROVE  TablesInv'
<1>1. /\ SchemaTypes /\ changing[r].pc = "alter" /\ coll' = coll /\ index' = index /\ spoilt \subseteq spoilt'
      /\ changing[r].old.type = "view"
  BY DEF AlterView, TablesInv
<1>2. PICK c \in Collections, ch \in Changings :
        /\ ch = changing[r] /\ ch.id = {c} /\ Of(r) = c /\ WholeChange(ch)
        /\ Seen(ch).name \in TableNames /\ Seen(ch) # NoColl
  BY <1>1, AtWork
<1>3. PICK n \in TableNames, row \in CollRows, new \in CollRows :
        /\ row = ch.old /\ row = Seen(ch) /\ n = row.name /\ row.type = "view"
        /\ new = ch.new /\ new.type = row.type
  BY <1>1, <1>2 DEF WholeChange, Seen
<1>4. new.type = "view" /\ Agreeing(new)
  BY <1>1, <1>2, <1>3 DEF WholeChange
<1>5. PICK t \in TableRows : t = Made(new)
  BY MadeFits
<1>6. PICK save : save = [pc |-> "save", id |-> {c}, old |-> row, new |-> new]
  OBVIOUS
<1>7. /\ save \in Changings /\ save.pc = "save" /\ save.id = {c} /\ save.old = row /\ save.new = new
      /\ Seen(save) = row
  BY <1>6 DEF Changings, Seen
<1>8. WholeChange(save)
  BY <1>3, <1>7 DEF WholeChange
<1>9. \/ tables' = [tables EXCEPT ![n] = t] /\ changing' = [changing EXCEPT ![r] = save]
      \/ /\ \/ tables' = tables \/ tables' = [tables EXCEPT ![n] = NoTable] \/ tables' = [tables EXCEPT ![n] = t]
         /\ changing' = [changing EXCEPT ![r] = SchemaIdle] /\ n \in spoilt'
  BY <1>2, <1>3, <1>5, <1>6 DEF AlterView, Step, Done
<1>10. PICK next \in Changings \cup {SchemaIdle} :
         changing' = [changing EXCEPT ![r] = next] /\ (next = SchemaIdle \/ next = save)
  BY <1>7, <1>9
<1>11. SchemaIdle.pc = "idle" /\ (next.pc # "idle" => WholeChange(next) /\ next = save)
  BY <1>8, <1>10 DEF SchemaIdle
<1>12. /\ coll' \in [Collections -> CollRows \cup {NoColl}] /\ tables' \in [TableNames -> TableRows]
       /\ index' \in [TableNames -> SUBSET Columns]
       /\ \A m \in TableNames \ {n} : tables'[m] = tables[m] /\ index'[m] = index[m]
  BY <1>1, <1>4, <1>9, TablesTyped DEF SchemaTypes
<1>13. SchemaTypes' /\ changing'[r] = next /\ \A s \in SchemaRequests \ {r} : changing'[s] = changing[s]
  BY <1>1, <1>10, <1>11, <1>12, TypesKept
<1>14. next.pc = "idle" => n \in spoilt'
  BY <1>1, <1>7, <1>9, <1>10, <1>13 DEF SchemaTypes
<1>15. ASSUME next.pc # "idle" PROVE Finds(next, c)'
  <2>1. Finds(ch, c)
    BY <1>1, <1>2 DEF TablesInv
  <2>2. next = save /\ next # SchemaIdle
    BY <1>11, <1>15
  <2>3. changing' # [changing EXCEPT ![r] = SchemaIdle]
    BY <1>1, <1>13, <2>2 DEF SchemaTypes
  <2>4. tables'[n] = t
    BY <1>1, <1>9, <2>3 DEF SchemaTypes
  <2>5. Suits(n, new)'
    <3>1. t.is = new.type /\ Named(t.cols) = new.query
      BY <1>4, <1>5, MadeFits
    <3> QED
      BY <1>4, <2>4, <3>1 DEF Suits, ViewFits, Agreeing
  <2> QED
    BY <1>1, <1>2, <1>3, <1>7, <2>1, <2>2, <2>5 DEF Finds
<1>16. /\ changing[r].pc # "idle" /\ changing[r].id = {c} /\ Seen(changing[r]).name = n
       /\ \A d \in Collections : coll'[d] = coll[d]
  BY <1>1, <1>2, <1>3
<1>17. next.pc # "idle" => Seen(next).name = n /\ \A d \in next.id : Finds(next, d)'
  BY <1>3, <1>7, <1>11, <1>15
<1> QED
  BY <1>1, <1>12, <1>13, <1>14, <1>16, <1>17, GoingOn

LEMMA SaveCollectionKeeps ==
  ASSUME TablesInv, NEW r \in SchemaRequests, SaveCollection(r)
  PROVE  TablesInv'
<1>1. /\ SchemaTypes /\ changing[r].pc = "save" /\ spoilt \subseteq spoilt' /\ tables' = tables /\ index' = index
      /\ changing' = [changing EXCEPT ![r] = SchemaIdle]
  BY DEF SaveCollection, Done, TablesInv
<1>2. PICK c \in Collections, ch \in Changings :
        /\ ch = changing[r] /\ ch.id = {c} /\ Of(r) = c /\ WholeChange(ch)
        /\ Seen(ch).name \in TableNames /\ Seen(ch) # NoColl
  BY <1>1, AtWork
<1>3. PICK n \in TableNames, row \in CollRows, new \in CollRows :
        /\ row = ch.old /\ row = Seen(ch) /\ n = row.name /\ new = ch.new /\ new.type = row.type
  BY <1>1, <1>2 DEF WholeChange, Seen
<1>4. PICK had \in CollRows \cup {NoColl} : had = coll[c]
  BY <1>1 DEF SchemaTypes
<1>5. \/ coll' = coll /\ n \in spoilt'
      \/ /\ had # NoColl /\ \A d \in Collections \ {c} : new.name # coll[d].name
         /\ \E now \in CollRows :
              /\ coll' = [coll EXCEPT ![c] = now] /\ now.type = had.type
              /\ now.fields = (IF new.fields = row.fields THEN had.fields ELSE new.fields)
              /\ now.query = (IF new.query = row.query THEN had.query ELSE new.query)
              /\ now.given = (IF new.given = row.given THEN had.given ELSE new.given)
              /\ now.name = (IF new.name = row.name THEN had.name ELSE new.name)
              /\ new.name = row.name \/ (new.name \in spoilt' /\ n \in spoilt')
  <2>1. CASE had = NoColl \/ new.name \in {coll[d].name : d \in Collections \ {c}}
    BY <1>2, <1>3, <1>4, <2>1 DEF SaveCollection
  <2>2. CASE had # NoColl /\ new.name \notin {coll[d].name : d \in Collections \ {c}}
    <3>1. PICK now : now = [had EXCEPT !.name = IF new.name = row.name THEN @ ELSE new.name,
                                       !.fields = IF new.fields = row.fields THEN @ ELSE new.fields,
                                       !.query = IF new.query = row.query THEN @ ELSE new.query,
                                       !.given = IF new.given = row.given THEN @ ELSE new.given]
      OBVIOUS
    <3>2. /\ now \in CollRows /\ now.type = had.type
          /\ now.fields = (IF new.fields = row.fields THEN had.fields ELSE new.fields)
          /\ now.query = (IF new.query = row.query THEN had.query ELSE new.query)
          /\ now.given = (IF new.given = row.given THEN had.given ELSE new.given)
          /\ now.name = (IF new.name = row.name THEN had.name ELSE new.name)
      BY <2>2, <3>1 DEF CollRows
    <3>3. /\ coll' = [coll EXCEPT ![c].name = IF new.name = row.name THEN @ ELSE new.name,
                                  ![c].fields = IF new.fields = row.fields THEN @ ELSE new.fields,
                                  ![c].query = IF new.query = row.query THEN @ ELSE new.query,
                                  ![c].given = IF new.given = row.given THEN @ ELSE new.given]
          /\ new.name = row.name \/ (new.name \in spoilt' /\ n \in spoilt')
      BY <1>2, <1>3, <1>4, <2>2 DEF SaveCollection
    <3>4. coll' = [coll EXCEPT ![c] = now]
      BY <1>1, <1>4, <2>2, <3>1, <3>3 DEF SchemaTypes, CollRows
    <3> QED
      BY <2>2, <3>2, <3>3, <3>4
  <2> QED
    BY <2>1, <2>2
<1>6. /\ coll' \in [Collections -> CollRows \cup {NoColl}]
      /\ \A d \in Collections \ {c} : coll'[d] = coll[d]
      /\ coll'[c] # NoColl =>
           \/ coll[c] # NoColl /\ coll'[c].name = coll[c].name
           \/ coll'[c].name \in spoilt' /\ \A d \in Collections \ {c} : coll'[c].name # coll[d].name
  <2>1. CASE coll' = coll
    BY <1>1, <2>1 DEF SchemaTypes
  <2>2. CASE coll' # coll
    <3>1. PICK now \in CollRows :
              /\ coll' = [coll EXCEPT ![c] = now] /\ had # NoColl
              /\ now.name = (IF new.name = row.name THEN had.name ELSE new.name)
              /\ new.name = row.name \/ (new.name \in spoilt' /\ n \in spoilt')
              /\ \A d \in Collections \ {c} : new.name # coll[d].name
      BY <1>5, <2>2
    <3>2. coll'[c] = now /\ \A d \in Collections \ {c} : coll'[d] = coll[d]
      BY <1>1, <3>1 DEF SchemaTypes
    <3>3. coll' \in [Collections -> CollRows \cup {NoColl}]
      BY <1>1, <3>1 DEF SchemaTypes
    <3> QED
      BY <1>4, <3>1, <3>2, <3>3
  <2> QED
    BY <2>1, <2>2
<1>7. tables' \in [TableNames -> TableRows] /\ index' \in [TableNames -> SUBSET Columns]
  BY <1>1 DEF SchemaTypes
<1>8. SchemaIdle.pc = "idle"
  BY DEF SchemaIdle
<1>9. SchemaTypes' /\ changing'[r].pc = "idle" /\ \A s \in SchemaRequests \ {r} : changing'[s] = changing[s]
  BY <1>1, <1>6, <1>7, <1>8, TypesKept
<1>10. ASSUME n \notin spoilt' PROVE AtRest(n)'
  <2>1. Finds(ch, c)
    BY <1>1, <1>2 DEF TablesInv
  <2>2. n \notin spoilt
    BY <1>1, <1>10
  <2>3. coll[c] = row /\ Suits(n, new)
    BY <1>1, <1>2, <1>3, <2>1, <2>2 DEF Finds
  <2>4. PICK now \in CollRows :
          /\ coll' = [coll EXCEPT ![c] = now] /\ now.type = row.type
          /\ now.fields = new.fields /\ now.query = new.query /\ now.given = new.given /\ now.name = n
    BY <1>3, <1>4, <1>5, <1>10, <2>3
  <2>5. coll'[c] = now /\ \A d \in Collections \ {c} : coll'[d] = coll[d]
    BY <1>1, <2>4 DEF SchemaTypes
  <2>6. \A d \in Collections : coll'[d].name = n => d = c
    BY <1>2, <1>3, <2>3, <2>5 DEF TablesInv
  <2>7. Taken(n)'
    BY <2>4, <2>5 DEF Taken
  <2>8. Suits(n, now)'
    BY <1>1, <1>3, <2>3, <2>4 DEF Suits, BaseFits, ViewFits
  <2> QED
    BY <2>4, <2>5, <2>6, <2>7, <2>8 DEF AtRest
<1>11. changing[r].pc # "idle" /\ changing[r].id = {c} /\ Seen(changing[r]).name = n
  BY <1>1, <1>2, <1>3
<1> QED
  BY <1>1, <1>6, <1>9, <1>10, <1>11, GoingOn

LEMMA ForgetCollectionKeeps ==
  ASSUME TablesInv, NEW r \in SchemaRequests, ForgetCollection(r)
  PROVE  TablesInv'
<1>1. /\ SchemaTypes /\ changing[r].pc = "forget" /\ tables' = tables /\ index' = index /\ spoilt' = spoilt
      /\ changing' = [changing EXCEPT ![r] = SchemaIdle]
  BY DEF ForgetCollection, Done, TablesInv
<1>2. PICK c \in Collections, ch \in Changings :
        /\ ch = changing[r] /\ ch.id = {c} /\ Of(r) = c /\ WholeChange(ch)
        /\ Seen(ch).name \in TableNames /\ Seen(ch) # NoColl
  BY <1>1, AtWork
<1>3. PICK n \in TableNames : n = Seen(ch).name
  BY <1>2
<1>4. coll' = [coll EXCEPT ![c] = NoColl]
  BY <1>2 DEF ForgetCollection
<1>5. /\ coll' \in [Collections -> CollRows \cup {NoColl}] /\ coll'[c] = NoColl
      /\ \A d \in Collections \ {c} : coll'[d] = coll[d]
  BY <1>1, <1>4 DEF SchemaTypes
<1>6. tables' \in [TableNames -> TableRows] /\ index' \in [TableNames -> SUBSET Columns]
  BY <1>1 DEF SchemaTypes
<1>7. SchemaIdle.pc = "idle"
  BY DEF SchemaIdle
<1>8. SchemaTypes' /\ changing'[r].pc = "idle" /\ \A s \in SchemaRequests \ {r} : changing'[s] = changing[s]
  BY <1>1, <1>5, <1>6, <1>7, TypesKept
<1>9. ASSUME n \notin spoilt' PROVE AtRest(n)'
  <2>1. Finds(ch, c)
    BY <1>1, <1>2 DEF TablesInv
  <2>2. coll[c] # NoColl /\ coll[c].name = n /\ tables[n] = NoTable
    BY <1>1, <1>2, <1>3, <1>9, <2>1 DEF Finds
  <2>3. \A d \in Collections : coll'[d].name # n
    BY <1>3, <1>5, <2>2, SchemaAssumption DEF TablesInv, NoColl, BaseRow
  <2> QED
    BY <1>1, <2>2, <2>3 DEF AtRest
<1>10. changing[r].pc # "idle" /\ changing[r].id = {c} /\ Seen(changing[r]).name = n
  BY <1>1, <1>2, <1>3
<1> QED
  BY <1>1, <1>5, <1>8, <1>9, <1>10, GoingOn

(* A request that begins to change or to delete a collection.              *)
LEMMA Beginning ==
  ASSUME TablesInv, SchemaTypes', NEW r \in SchemaRequests, NEW c \in Collections, NEW n \in TableNames,
         changing[r].pc = "idle", changing'[r].pc # "idle", Seen(changing'[r]).name = n,
         coll' = coll, coll[c] # NoColl, coll[c].name = n,
         \A m \in TableNames \ {n} : tables'[m] = tables[m] /\ index'[m] = index[m],
         \A s \in SchemaRequests \ {r} : changing'[s] = changing[s],
         spoilt \subseteq spoilt', BusyWith(c, n) => n \in spoilt',
         \A d \in changing'[r].id : Finds(changing[r], d)'
  PROVE  TablesInv'
<1>1. SchemaTypes
  BY DEF TablesInv
<1>2. \A s \in SchemaRequests \ {r} :
        changing[s].pc # "idle" /\ (Seen(changing[s]).name = n \/ c \in changing[s].id) => n \in spoilt'
  BY <1>1, Clashes
<1>3. \A d \in Collections \ {c} : coll'[c] # NoColl => coll'[c].name # coll[d].name
  BY DEF TablesInv
<1> QED
  BY <1>2, <1>3, StepKeeps

LEMMA RestsUnlessBusy ==
  ASSUME TablesInv, NEW c \in Collections, NEW n \in TableNames \ spoilt, ~ BusyWith(c, n)
  PROVE  AtRest(n)
BY Clashes DEF TablesInv, WorkedOn

LEMMA DropTableKeeps ==
  ASSUME TablesInv, NEW r \in SchemaRequests, NEW c \in Collections, DropTable(r, c)
  PROVE  TablesInv'
<1>1. /\ SchemaTypes /\ changing[r].pc = "idle" /\ coll' = coll /\ coll[c] # NoColl /\ spoilt \subseteq spoilt'
  BY DEF DropTable, TablesInv
<1>2. PICK row \in CollRows, n \in TableNames : row = coll[c] /\ n = row.name
  BY <1>1 DEF SchemaTypes, CollRows
<1>3. PICK ch : ch = [pc |-> "forget", id |-> {c}, old |-> row, new |-> NoColl]
  OBVIOUS
<1>4. ch \in Changings /\ ch.pc = "forget" /\ ch.id = {c} /\ Seen(ch) = row
  BY <1>3 DEF Changings, Seen
<1>5. WholeChange(ch)
  BY <1>4 DEF WholeChange
<1>6. /\ tables' = [tables EXCEPT ![n] = NoTable] /\ index' = [index EXCEPT ![n] = {}]
      /\ changing' = [changing EXCEPT ![r] = ch] /\ (BusyWith(c, n) => n \in spoilt')
  BY <1>2, <1>3 DEF DropTable, Step
<1>7. NoTable \in TableRows
  BY TablesTyped
<1>8. /\ coll' \in [Collections -> CollRows \cup {NoColl}] /\ tables' \in [TableNames -> TableRows]
      /\ index' \in [TableNames -> SUBSET Columns] /\ tables'[n] = NoTable
      /\ \A m \in TableNames \ {n} : tables'[m] = tables[m] /\ index'[m] = index[m]
  BY <1>1, <1>6, <1>7 DEF SchemaTypes
<1>9. SchemaTypes' /\ changing'[r] = ch /\ \A s \in SchemaRequests \ {r} : changing'[s] = changing[s]
  BY <1>1, <1>4, <1>5, <1>6, <1>8, TypesKept
<1>10. Finds(ch, c)'
  BY <1>1, <1>2, <1>4, <1>8 DEF Finds
<1>11. /\ changing'[r].pc # "idle" /\ Seen(changing'[r]).name = n
       /\ \A d \in changing'[r].id : Finds(changing[r], d)'
  BY <1>2, <1>4, <1>9, <1>10
<1> QED
  BY <1>1, <1>2, <1>6, <1>8, <1>9, <1>11, Beginning

LEMMA ReadCollectionKeeps ==
  ASSUME TablesInv, NEW r \in SchemaRequests, NEW c \in Collections,
         NEW new \in Rewritten(coll[c]), ReadCollection(r, c, new)
  PROVE  TablesInv'
<1>1. /\ SchemaTypes /\ changing[r].pc = "idle" /\ coll' = coll /\ coll[c] # NoColl /\ spoilt \subseteq spoilt'
      /\ tables' = tables /\ index' = index
  BY DEF ReadCollection, TablesInv
<1>2. PICK row \in CollRows, n \in TableNames : row = coll[c] /\ n = row.name
  BY <1>1 DEF SchemaTypes, CollRows
<1>3. /\ new \in CollRows /\ new.type = row.type /\ row.type \in {"base", "view"}
      /\ Agreeing(new) \/ (new.fields = row.fields /\ new.query = row.query /\ (new.given <=> row.given))
  BY <1>2, RewrittenFits DEF CollRows
<1>4. PICK alters \in BOOLEAN :
        alters = IF row.type = "base" THEN new.fields # row.fields ELSE new.query # row.query
  OBVIOUS
<1>5. PICK pc \in {"save", "alter"} : pc = IF alters THEN "alter" ELSE "save"
  OBVIOUS
<1>6. PICK ch : ch = [pc |-> pc, id |-> {c}, old |-> row, new |-> new]
  OBVIOUS
<1>7. ch \in Changings /\ ch.pc = pc /\ ch.id = {c} /\ Seen(ch) = row /\ ch.new = new /\ ch.old = row
  BY <1>3, <1>6 DEF Changings, Seen
<1>8. WholeChange(ch)
  BY <1>3, <1>4, <1>5, <1>7 DEF WholeChange, Agreeing
<1>9. changing' = [changing EXCEPT ![r] = ch] /\ (BusyWith(c, n) => n \in spoilt')
  BY <1>2, <1>4, <1>5, <1>6 DEF ReadCollection, Step
<1>10. /\ coll' \in [Collections -> CollRows \cup {NoColl}] /\ tables' \in [TableNames -> TableRows]
       /\ index' \in [TableNames -> SUBSET Columns]
  BY <1>1 DEF SchemaTypes
<1>11. SchemaTypes' /\ changing'[r] = ch /\ \A s \in SchemaRequests \ {r} : changing'[s] = changing[s]
  BY <1>1, <1>7, <1>8, <1>9, <1>10, TypesKept
<1>12. ASSUME n \notin spoilt' PROVE Suits(n, row)' /\ (~ alters => Suits(n, new)')
  <2>1. AtRest(n)
    BY <1>1, <1>9, <1>12, RestsUnlessBusy
  <2>2. Suits(n, row)
    BY <1>2, <2>1 DEF AtRest
  <2>3. ASSUME ~ alters PROVE Suits(n, new)
    BY <1>3, <1>4, <2>2, <2>3 DEF Suits, BaseFits, ViewFits, Agreeing
  <2> QED
    BY <1>1, <2>2, <2>3 DEF Suits
<1>13. Finds(ch, c)'
  BY <1>1, <1>2, <1>5, <1>7, <1>12 DEF Finds
<1>14. /\ changing'[r].pc # "idle" /\ Seen(changing'[r]).name = n
       /\ \A d \in changing'[r].id : Finds(changing[r], d)'
  BY <1>2, <1>5, <1>7, <1>11, <1>13
<1> QED
  BY <1>1, <1>2, <1>9, <1>11, <1>14, Beginning

(* What was under way when the process ended is spoilt.                    *)
LEMMA SchemaCrashKeeps ==
  ASSUME TablesInv, SchemaCrash
  PROVE  TablesInv'
<1>1. /\ SchemaTypes /\ coll' = coll /\ tables' = tables /\ index' = index /\ spoilt \subseteq spoilt'
      /\ changing' = [r \in SchemaRequests |-> SchemaIdle]
  BY DEF SchemaCrash, TablesInv
<1>2. \A r \in SchemaRequests : changing'[r] = SchemaIdle /\ changing'[r].pc = "idle"
  BY <1>1 DEF SchemaIdle
<1>3. SchemaTypes'
  BY <1>1, <1>2 DEF SchemaTypes
<1>4. ASSUME NEW r \in SchemaRequests, changing[r].pc # "idle" PROVE Seen(changing[r]).name \in spoilt'
  <2>1. PICK ch \in Changings : ch = changing[r] /\ Seen(ch).name \in TableNames
    BY <1>1, <1>4, AtWork
  <2>2. Seen(ch).name \in {ch.old.name, ch.new.name} \ {NoName}
    BY <2>1, SchemaAssumption DEF Seen
  <2> QED
    BY <1>4, <2>1, <2>2 DEF SchemaCrash
<1>5. ASSUME NEW n \in TableNames \ spoilt' PROVE AtRest(n)'
  <2>1. ~ WorkedOn(n)
    BY <1>4, <1>5 DEF WorkedOn
  <2>2. AtRest(n)
    BY <1>1, <1>5, <2>1 DEF TablesInv
  <2> QED
    BY <1>1, <2>2 DEF AtRest, Suits, Taken
<1> QED
  BY <1>1, <1>2, <1>3, <1>5 DEF TablesInv

LEMMA TablesStart == SchemaInit => TablesInv
<1> SUFFICES ASSUME SchemaInit PROVE TablesInv
  OBVIOUS
<1>1. /\ coll = [c \in Collections |-> NoColl] /\ index = [n \in TableNames |-> {}]
      /\ tables = [n \in TableNames |-> NoTable] /\ changing = [r \in SchemaRequests |-> SchemaIdle]
  BY DEF SchemaInit
<1>2. NoTable \in TableRows
  BY TablesTyped
<1>3. \A r \in SchemaRequests : changing[r].pc = "idle"
  BY <1>1 DEF SchemaIdle
<1>4. SchemaTypes
  BY <1>1, <1>2, <1>3 DEF SchemaTypes
<1>5. \A c \in Collections : coll[c] = NoColl /\ coll[c].name = NoName
  BY <1>1 DEF NoColl, BaseRow
<1>6. \A n \in TableNames : AtRest(n)
  BY <1>1, <1>5, SchemaAssumption DEF AtRest
<1> QED
  BY <1>3, <1>4, <1>5, <1>6 DEF TablesInv

LEMMA TablesStep == TablesInv /\ [SchemaNext]_schemaVars => TablesInv'
<1> SUFFICES ASSUME TablesInv, [SchemaNext]_schemaVars PROVE TablesInv'
  OBVIOUS
<1>1. CASE SchemaCrash
  BY <1>1, SchemaCrashKeeps
<1>2. ASSUME NEW r \in SchemaRequests,
             CreateTable(r) \/ AlterTable(r) \/ AlterView(r) \/ SaveCollection(r) \/ ForgetCollection(r)
      PROVE  TablesInv'
  BY <1>2, CreateTableKeeps, AlterTableKeeps, AlterViewKeeps, SaveCollectionKeeps, ForgetCollectionKeeps
<1>3. ASSUME NEW r \in SchemaRequests, NEW n \in TableNames, ApplyEntry(r, n) PROVE TablesInv'
  <2>1. \A new \in NewRows(n) : new \in CollRows /\ Agreeing(new)
    BY NewRowsFit
  <2> QED
    BY <1>3, <2>1, InsertKeeps, ReadCollectionKeeps DEF ApplyEntry
<1>4. ASSUME NEW r \in SchemaRequests, NEW c \in Collections,
             DropTable(r, c) \/ \E new \in Rewritten(coll[c]) : ReadCollection(r, c, new)
      PROVE  TablesInv'
  BY <1>4, DropTableKeeps, ReadCollectionKeeps
<1>5. CASE UNCHANGED schemaVars
  BY <1>5 DEF schemaVars, TablesInv, SchemaTypes, Finds, Suits, AtRest, WorkedOn, Taken
<1> QED
  BY <1>1, <1>2, <1>3, <1>4, <1>5 DEF SchemaNext

LEMMA TablesTold == TablesInv => TableFits
<1> SUFFICES ASSUME TablesInv, NEW c \in Collections, NEW row, NEW n, row = coll[c], n = row.name,
                    row # NoColl, n \notin spoilt, ~ BusyWith(c, n)
             PROVE  /\ tables[n].is = row.type
                    /\ IF row.type = "base" THEN BaseFits(row, tables[n], index[n]) ELSE ViewFits(row, tables[n])
  BY DEF TableFits
<1>1. n \in TableNames
  BY DEF TablesInv, SchemaTypes, CollRows
<1>2. AtRest(n)
  BY <1>1, RestsUnlessBusy
<1>3. Suits(n, row)
  BY <1>2 DEF AtRest
<1> QED
  BY <1>3 DEF Suits

(* Whatever the requests do, and however they overlap or fail, a collection*)
(* that none is at work on has the table and the index of its fields, or a *)
(* view of its query's columns, if no request has left its name half       *)
(* changed; and fields of those columns, if no caller gave them.           *)
THEOREM TablesFit == SchemaSpec => []TableFits
<1>1. SchemaSpec => []TablesInv
  BY TablesStart, TablesStep, PTL DEF SchemaSpec
<1> QED
  BY <1>1, TablesTold, PTL

-----------------------------------------------------------------------------
(* Snapshots do what they tell                                             *)

AnyDefs == [type : Types, fields : Fields, whole : BOOLEAN, rule : Rules]
Reports == [created : SUBSET CollNames, updated : SUBSET CollNames, unchanged : SUBSET CollNames,
            skipped : SUBSET CollNames, errors : SUBSET CollNames]
Applyings == [at : Nat \ {0}, mode : {"additive", "sync"}, step : {"read", "write"},
            found : AnyDefs \cup {Gone}, report : Reports]
Over == [at : {0}, mode : {"additive", "sync"}, report : Reports]
SnapTypes ==
  /\ local \in [CollNames -> AnyDefs \cup {Gone}]
  /\ snap \in Seq([name : CollNames, def : AnyDefs])
  /\ \A i, j \in DOMAIN snap : snap[i].name = snap[j].name => i = j
  /\ applying \in {Resting} \cup Applyings \cup Over
  /\ applying \in Applyings => applying.at <= Len(snap)

NamesBefore(k) == {snap[j].name : j \in 1..(k - 1)}

(* What the preview told of an entry that the application has yet to reach.*)
StillSo(n, e) ==
  /\ n \in preview.added <=> local[n] = Gone
  /\ n \in preview.unchanged <=> local[n] # Gone /\ local[n] = e
  /\ n \in preview.modified <=> local[n] # Gone /\ local[n] # e

(* The application has dealt with the entries before k and told r of them. *)
SoFar(k, mode, r) ==
  /\ preview.added \cup preview.unchanged \cup preview.modified = NamesBefore(Len(snap) + 1)
  /\ preview.removed \subseteq Here \ NamesBefore(Len(snap) + 1)
  /\ r.unchanged = preview.unchanged \cap NamesBefore(k)
  /\ r.created \subseteq preview.added \cap NamesBefore(k)
  /\ r.updated \cup r.skipped \subseteq preview.modified \cap NamesBefore(k)
  /\ (preview.added \cup preview.modified) \cap NamesBefore(k) = r.created \cup r.updated \cup r.skipped \cup r.errors
  /\ mode = "additive" => r.errors \subseteq preview.added /\ r.updated = {}
  /\ mode = "sync" => r.skipped = {}
  /\ \A j \in k..Len(snap) : StillSo(snap[j].name, snap[j].def)
  /\ \A j \in 1..(k - 1) :
       snap[j].name \in r.created \cup r.updated \cup r.unchanged /\ snap[j].def.whole
         => local[snap[j].name] = snap[j].def

SnapInv ==
  /\ SnapTypes
  /\ quiet /\ applying = Resting => \A mode \in {"additive", "sync"} : SoFar(1, mode, NoReport)
  /\ quiet /\ applying \in Applyings =>
       /\ SoFar(applying.at, applying.mode, applying.report)
       /\ applying.step = "write" =>
            /\ applying.found = local[Entry.name]
            /\ applying.found # Gone =>
                 applying.mode = "sync" /\ applying.found.type = Entry.def.type /\ applying.found # Entry.def
  /\ quiet /\ applying \in Over => SoFar(Len(snap) + 1, applying.mode, applying.report)

LEMMA EntriesDiffer ==
  ASSUME SnapTypes, NEW k \in 1..Len(snap)
  PROVE  /\ snap[k].name \in CollNames /\ snap[k].def \in AnyDefs /\ snap[k].def # Gone
         /\ snap[k].name \notin NamesBefore(k) /\ NamesBefore(k + 1) = NamesBefore(k) \cup {snap[k].name}
         /\ NamesBefore(k + 1) \subseteq NamesBefore(Len(snap) + 1)
         /\ \A j \in 1..Len(snap) : j # k => snap[j].name # snap[k].name
<1>1. snap[k] \in [name : CollNames, def : AnyDefs] /\ Len(snap) \in Nat /\ DOMAIN snap = 1..Len(snap)
  <2>1. PICK E : E = [name : CollNames, def : AnyDefs]
    OBVIOUS
  <2>2. snap \in Seq(E)
    BY <2>1 DEF SnapTypes
  <2>3. snap[k] \in E /\ Len(snap) \in Nat /\ DOMAIN snap = 1..Len(snap)
    BY <2>2
  <2> QED
    BY <2>1, <2>3
<1>2. \A j \in 1..Len(snap) : j # k => snap[j].name # snap[k].name
  BY <1>1 DEF SnapTypes
<1>3. snap[k].name \notin NamesBefore(k)
  BY <1>1, <1>2 DEF NamesBefore
<1>4. 1..((k + 1) - 1) = (1..(k - 1)) \cup {k} /\ 1..((k + 1) - 1) \subseteq 1..((Len(snap) + 1) - 1)
  BY <1>1
<1>5. NamesBefore(k + 1) = NamesBefore(k) \cup {snap[k].name}
  BY <1>4 DEF NamesBefore
<1>6. NamesBefore(k + 1) \subseteq NamesBefore(Len(snap) + 1)
  BY <1>4 DEF NamesBefore
<1>7. \A d \in AnyDefs : d # Gone
  BY SnapshotsAssumption DEF AnyDefs, Gone
<1> QED
  BY <1>1, <1>2, <1>3, <1>5, <1>6, <1>7

(* Report q is report r with the name in one more of its sets.             *)
FiledIn(r, n, kind, q) ==
  /\ q \in Reports
  /\ q.created = (IF kind = "created" THEN r.created \cup {n} ELSE r.created)
  /\ q.updated = (IF kind = "updated" THEN r.updated \cup {n} ELSE r.updated)
  /\ q.unchanged = (IF kind = "unchanged" THEN r.unchanged \cup {n} ELSE r.unchanged)
  /\ q.skipped = (IF kind = "skipped" THEN r.skipped \cup {n} ELSE r.skipped)
  /\ q.errors = (IF kind = "errors" THEN r.errors \cup {n} ELSE r.errors)

LEMMA FiledRight ==
  ASSUME NEW r \in Reports, NEW n \in CollNames,
         NEW kind \in {"created", "updated", "unchanged", "skipped", "errors"},
         NEW q, q = [r EXCEPT ![kind] = @ \cup {n}]
  PROVE  FiledIn(r, n, kind, q)
<1>1. CASE kind = "created"
  BY <1>1 DEF Reports, FiledIn
<1>2. CASE kind = "updated"
  BY <1>2 DEF Reports, FiledIn
<1>3. CASE kind = "unchanged"
  BY <1>3 DEF Reports, FiledIn
<1>4. CASE kind = "skipped"
  BY <1>4 DEF Reports, FiledIn
<1>5. CASE kind = "errors"
  BY <1>5 DEF Reports, FiledIn
<1> QED
  BY <1>1, <1>2, <1>3, <1>4, <1>5

(* An entry is told of as the preview told of it, or as an error, and is   *)
(* then as it says.                                                        *)
LEMMA Tells ==
  ASSUME SnapTypes, NEW k \in 1..Len(snap), NEW mode \in {"additive", "sync"}, NEW r \in Reports,
         SoFar(k, mode, r), snap' = snap, preview' = preview,
         NEW n \in CollNames, NEW e \in AnyDefs, n = snap[k].name, e = snap[k].def,
         \A m \in CollNames \ {n} : local'[m] = local[m],
         NEW kind \in {"created", "updated", "unchanged", "skipped", "errors"},
         NEW q \in Reports, FiledIn(r, n, kind, q),
         kind = "unchanged" <=> n \in preview.unchanged,
         kind = "created" => n \in preview.added,
         kind = "updated" => n \in preview.modified /\ mode = "sync",
         kind = "skipped" => n \in preview.modified /\ mode = "additive",
         kind = "errors" /\ mode = "additive" => n \in preview.added,
         kind \in {"created", "updated", "unchanged"} /\ e.whole => local'[n] = e
  PROVE  SoFar(k + 1, mode, q)'
<1>1. PICK fresh, unchanged, modified :
        fresh = preview.added /\ unchanged = preview.unchanged /\ modified = preview.modified
  OBVIOUS
<1>2. /\ n \notin NamesBefore(k) /\ NamesBefore(k + 1) = NamesBefore(k) \cup {n}
      /\ NamesBefore(k + 1) \subseteq NamesBefore(Len(snap) + 1)
      /\ \A j \in 1..Len(snap) : j # k => snap[j].name # n
  BY EntriesDiffer
<1>3. NamesBefore(k + 1)' = NamesBefore(k + 1) /\ NamesBefore(Len(snap) + 1)' = NamesBefore(Len(snap) + 1)
  BY DEF NamesBefore
<1>4. /\ q.created = (IF kind = "created" THEN r.created \cup {n} ELSE r.created)
      /\ q.updated = (IF kind = "updated" THEN r.updated \cup {n} ELSE r.updated)
      /\ q.unchanged = (IF kind = "unchanged" THEN r.unchanged \cup {n} ELSE r.unchanged)
      /\ q.skipped = (IF kind = "skipped" THEN r.skipped \cup {n} ELSE r.skipped)
      /\ q.errors = (IF kind = "errors" THEN r.errors \cup {n} ELSE r.errors)
  BY DEF FiledIn
<1>5. StillSo(n, e)
  <2>1. k \in k..Len(snap)
    BY DEF SnapTypes
  <2> QED
    BY <2>1 DEF SoFar
<1>6. /\ (n \in fresh <=> local[n] = Gone) /\ (n \in unchanged <=> local[n] # Gone /\ local[n] = e)
      /\ (n \in modified <=> local[n] # Gone /\ local[n] # e)
  BY <1>1, <1>5 DEF StillSo
<1>7. /\ r.unchanged = unchanged \cap NamesBefore(k) /\ r.created \subseteq fresh \cap NamesBefore(k)
      /\ r.updated \cup r.skipped \subseteq modified \cap NamesBefore(k)
      /\ (fresh \cup modified) \cap NamesBefore(k) = r.created \cup r.updated \cup r.skipped \cup r.errors
      /\ mode = "additive" => r.errors \subseteq fresh /\ r.updated = {}
      /\ mode = "sync" => r.skipped = {}
  BY <1>1 DEF SoFar
<1>8. /\ q.unchanged = unchanged \cap NamesBefore(k + 1)
      /\ q.created \subseteq fresh \cap NamesBefore(k + 1)
      /\ q.updated \cup q.skipped \subseteq modified \cap NamesBefore(k + 1)
      /\ mode = "additive" => q.errors \subseteq fresh /\ q.updated = {}
      /\ mode = "sync" => q.skipped = {}
  BY <1>1, <1>2, <1>4, <1>6, <1>7
<1>9. (fresh \cup modified) \cap NamesBefore(k + 1) = q.created \cup q.updated \cup q.skipped \cup q.errors
  BY <1>1, <1>2, <1>4, <1>6, <1>7
<1>10. /\ fresh \cup unchanged \cup modified = NamesBefore(Len(snap) + 1)
       /\ preview.removed \subseteq Here' \ NamesBefore(Len(snap) + 1)
  BY <1>1, <1>2 DEF SoFar, Here
<1>11. ASSUME NEW j \in (k + 1)..Len(snap) PROVE StillSo(snap[j].name, snap[j].def)'
  <2>1. j \in k..Len(snap) /\ j \in 1..Len(snap) /\ j # k
    BY DEF SnapTypes
  <2>2. StillSo(snap[j].name, snap[j].def) /\ snap[j].name # n /\ snap[j].name \in CollNames
    BY <1>2, <2>1, EntriesDiffer DEF SoFar
  <2> QED
    BY <2>2 DEF StillSo
<1>12. ASSUME NEW j \in 1..((k + 1) - 1), snap[j].name \in q.created \cup q.updated \cup q.unchanged,
              snap[j].def.whole
       PROVE  local'[snap[j].name] = snap[j].def
  <2>1. CASE j = k
    <3>1. n \notin r.created \cup r.updated \cup r.unchanged
      BY <1>2, <1>7
    <3>2. kind \in {"created", "updated", "unchanged"}
      BY <1>4, <1>12, <2>1, <3>1
    <3> QED
      BY <1>12, <2>1, <3>2
  <2>2. CASE j # k
    <3>1. j \in 1..(k - 1) /\ j \in 1..Len(snap)
      BY <2>2 DEF SnapTypes
    <3>2. snap[j].name # n /\ snap[j].name \in CollNames
      BY <1>2, <2>2, <3>1, EntriesDiffer
    <3>3. snap[j].name \in r.created \cup r.updated \cup r.unchanged
      BY <1>4, <1>12, <3>2
    <3> QED
      BY <1>12, <3>1, <3>2, <3>3 DEF SoFar
  <2> QED
    BY <2>1, <2>2
<1> QED
  BY <1>1, <1>3, <1>8, <1>9, <1>10, <1>11, <1>12 DEF SoFar

LEMMA ThreeStates ==
  /\ Resting \notin Applyings /\ Resting \notin Over
  /\ \A a \in Applyings : a.at # 0 /\ a # Resting /\ a \notin Over
  /\ \A a \in Over : a.at = 0 /\ a # Resting /\ a \notin Applyings
<1>1. Resting.at = 0 /\ DOMAIN Resting = {"at"}
  BY DEF Resting
<1>2. \A a \in Applyings : a.at # 0
  BY DEF Applyings
<1>3. \A a \in Over : a.at = 0 /\ DOMAIN a = {"at", "mode", "report"}
  BY DEF Over
<1>4. "mode" \notin {"at"}
  OBVIOUS
<1> QED
  BY <1>1, <1>2, <1>3, <1>4

LEMMA GoesOn ==
  ASSUME SnapTypes, applying \in Applyings, NEW q \in Reports, Goes(q),
         snap' = snap, preview' = preview, quiet' = quiet, local' \in [CollNames -> AnyDefs \cup {Gone}],
         NEW k, NEW mode, k = applying.at, mode = applying.mode, quiet => SoFar(k + 1, mode, q)'
  PROVE  SnapInv'
<1>1. PICK a \in Applyings : a = applying
  OBVIOUS
<1>2. k \in 1..Len(snap) /\ k = a.at /\ mode = a.mode /\ Len(snap) \in Nat
  BY <1>1 DEF SnapTypes, Applyings
<1>3. a.mode \in {"additive", "sync"}
  BY DEF Applyings
<1>4. CASE k < Len(snap)
  <2>1. PICK b : b = [a EXCEPT !.at = @ + 1, !.step = "read", !.report = q]
    OBVIOUS
  <2>2. b \in Applyings /\ b.at = k + 1 /\ b.step = "read" /\ b.mode = a.mode /\ b.report = q
    <3>1. PICK m \in Nat \ {0} : m = k + 1
      BY <1>2
    <3>2. b = [a EXCEPT !.at = m, !.step = "read", !.report = q]
      BY <1>2, <2>1, <3>1
    <3>3. b \in Applyings
      BY <3>2, Zenon DEF Applyings
    <3>4. b.at = m /\ b.step = "read" /\ b.mode = a.mode /\ b.report = q
      BY <3>2 DEF Applyings
    <3> QED
      BY <3>1, <3>3, <3>4
  <2>3. applying' = b
    BY <1>1, <1>2, <1>4, <2>1 DEF Goes
  <2>4. SnapTypes'
    BY <1>2, <1>4, <2>2, <2>3 DEF SnapTypes
  <2>5. quiet => SoFar(b.at, b.mode, b.report)'
    BY <1>1, <1>2, <2>2
  <2> QED
    BY <2>2, <2>3, <2>4, <2>5, ThreeStates DEF SnapInv
<1>5. CASE ~ (k < Len(snap))
  <2>1. PICK b : b = [at |-> 0, mode |-> a.mode, report |-> q]
    OBVIOUS
  <2>2. b \in Over /\ b.mode = a.mode /\ b.report = q
    BY <1>3, <2>1 DEF Over
  <2>3. applying' = b
    BY <1>1, <1>2, <1>5, <2>1 DEF Goes
  <2>4. SnapTypes'
    BY <2>2, <2>3, ThreeStates DEF SnapTypes
  <2>5. k = Len(snap) /\ Len(snap') = Len(snap)
    BY <1>2, <1>5
  <2>6. quiet => SoFar(Len(snap) + 1, b.mode, b.report)'
    BY <1>1, <1>2, <2>2, <2>5
  <2> QED
    BY <2>2, <2>3, <2>4, <2>6, ThreeStates DEF SnapInv
<1> QED
  BY <1>4, <1>5

(* What the diff tells of an entry, and of the collections it has none for.*)
LEMMA DiffSays ==
  ASSUME SnapTypes
  PROVE  /\ \A i \in DOMAIN snap :
              LET n == snap[i].name  e == snap[i].def IN
              /\ n \in Diff.added <=> local[n] = Gone
              /\ n \in Diff.unchanged <=> local[n] # Gone /\ local[n] = e
              /\ n \in Diff.modified <=> local[n] # Gone /\ local[n] # e
         /\ Diff.added \cup Diff.unchanged \cup Diff.modified \subseteq NamesOf(snap)
         /\ Diff.removed = Here \ NamesOf(snap)
<1>1. PICK E : E = {snap[i] : i \in DOMAIN snap}
  OBVIOUS
<1>2. /\ Diff.added = {x.name : x \in {y \in E : local[y.name] = Gone}}
      /\ Diff.unchanged = {x.name : x \in {y \in E : local[y.name] # Gone /\ local[y.name] = y.def}}
      /\ Diff.modified = {x.name : x \in {y \in E : local[y.name] # Gone /\ ~ (local[y.name] = y.def)}}
      /\ Diff.removed = Here \ NamesOf(snap)
  BY <1>1 DEF Diff, InSync
<1>3. \A x, y \in E : x.name = y.name => x = y
  BY <1>1 DEF SnapTypes
<1>4. \A x \in E :
        /\ x.name \in Diff.added <=> local[x.name] = Gone
        /\ x.name \in Diff.unchanged <=> local[x.name] # Gone /\ local[x.name] = x.def
        /\ x.name \in Diff.modified <=> local[x.name] # Gone /\ local[x.name] # x.def
  BY <1>2, <1>3
<1>5. Diff.added \cup Diff.unchanged \cup Diff.modified \subseteq {x.name : x \in E}
  BY <1>2
<1>6. NamesOf(snap) = {x.name : x \in E}
  BY <1>1 DEF NamesOf
<1> QED
  BY <1>1, <1>2, <1>4, <1>5, <1>6

(* Once a snapshot is applied, quietly, it was done as told.               *)
LEMMA SnapshotsTold == SnapInv => SnapshotsTell
<1> SUFFICES ASSUME SnapInv PROVE SnapshotsTell
  OBVIOUS
<1>1. CASE ~ (Ended /\ quiet)
  BY <1>1 DEF SnapshotsTell, Previewed, Lands
<1>2. CASE Ended /\ quiet
  <2>1. PICK a \in Over : a = applying
    BY <1>2, ThreeStates DEF Ended, SnapInv, SnapTypes
  <2>1a. PICK mode \in {"additive", "sync"}, r \in Reports : mode = a.mode /\ r = a.report
    BY DEF Over
  <2>2. SoFar(Len(snap) + 1, mode, r) /\ SnapTypes /\ mode \in {"additive", "sync"}
    BY <1>2, <2>1, <2>1a DEF SnapInv
  <2>3. PICK L \in Nat : L = Len(snap) /\ 1..((L + 1) - 1) = 1..L /\ DOMAIN snap = 1..L
    <3>1. PICK E : E = [name : CollNames, def : AnyDefs]
      OBVIOUS
    <3>2. snap \in Seq(E)
      BY <2>2, <3>1 DEF SnapTypes
    <3> QED
      BY <3>2
  <2>4. PICK fresh, unchanged, modified, all :
          /\ fresh = preview.added /\ unchanged = preview.unchanged /\ modified = preview.modified
          /\ all = NamesBefore(L + 1)
    OBVIOUS
  <2>5. /\ fresh \cup unchanged \cup modified = all
        /\ preview.removed \subseteq Here
        /\ r.unchanged = unchanged \cap all /\ r.created \subseteq fresh \cap all
        /\ r.updated \cup r.skipped \subseteq modified \cap all
        /\ (fresh \cup modified) \cap all = r.created \cup r.updated \cup r.skipped \cup r.errors
        /\ mode = "additive" => r.errors \subseteq fresh /\ r.updated = {}
        /\ mode = "sync" => r.skipped = {}
    BY <2>2, <2>3, <2>4 DEF SoFar
  <2>6. /\ r.unchanged = unchanged /\ r.created \subseteq fresh
        /\ r.updated \cup r.skipped \subseteq modified
        /\ fresh \cup modified = r.created \cup r.updated \cup r.skipped \cup r.errors
    BY <2>5
  <2>7. Previewed
    BY <2>1, <2>1a, <2>4, <2>5, <2>6 DEF Previewed
  <2>8. ASSUME NEW i \in DOMAIN snap, NEW n, NEW e, n = snap[i].name, e = snap[i].def, e.whole,
               n \in r.created \cup r.updated \cup r.unchanged
        PROVE  local[n] = e
    BY <2>2, <2>3, <2>8 DEF SoFar
  <2>9. ASSUME NEW i \in DOMAIN snap, NEW n, NEW e, n = snap[i].name, e = snap[i].def, e.whole,
               r.errors = {}, mode = "sync"
        PROVE  n \notin Diff.added \cup Diff.modified
    <3>1. n \in all
      BY <2>3, <2>4, <2>9 DEF NamesBefore
    <3>2. i \in 1..((L + 1) - 1) /\ (L + 1)..L = {}
      BY <2>3, <2>9
    <3>3. n \in r.created \cup r.updated \cup r.unchanged
      BY <2>5, <2>6, <2>9, <3>1
    <3>4. local[n] = e
      BY <2>8, <2>9, <3>3
    <3>5. e # Gone
      BY <2>2, <2>3, <2>9, EntriesDiffer
    <3>6. /\ n \in Diff.added <=> local[n] = Gone
          /\ n \in Diff.modified <=> local[n] # Gone /\ local[n] # e
      BY <2>2, <2>9, DiffSays
    <3> QED
      BY <3>4, <3>5, <3>6
  <2> QED
    BY <2>1, <2>1a, <2>7, <2>8, <2>9 DEF SnapshotsTell, Lands
<1> QED
  BY <1>1, <1>2

(* A step that tells of the entry at hand, as of what it found and left.   *)
LEMMA Telling ==
  ASSUME SnapInv, applying \in Applyings,
         NEW kind \in {"created", "updated", "unchanged", "skipped", "errors"}, Told(kind),
         snap' = snap, preview' = preview, quiet' = quiet, local' \in [CollNames -> AnyDefs \cup {Gone}],
         NEW n, NEW e, NEW mode, n = Entry.name, e = Entry.def, mode = applying.mode,
         \A m \in CollNames \ {n} : local'[m] = local[m],
         quiet =>
           /\ kind = "unchanged" <=> local[n] = e
           /\ kind = "created" => local[n] = Gone
           /\ kind = "updated" => local[n] \notin {Gone, e} /\ mode = "sync"
           /\ kind = "skipped" => local[n] \notin {Gone, e} /\ mode = "additive"
           /\ kind = "errors" /\ mode = "additive" => local[n] = Gone
           /\ kind \in {"created", "updated", "unchanged"} /\ e.whole => local'[n] = e
  PROVE  SnapInv'
<1>1. SnapTypes
  BY DEF SnapInv
<1>2. PICK a \in Applyings : a = applying
  OBVIOUS
<1>3. PICK r \in Reports : r = a.report
  BY DEF Applyings
<1>4. PICK k \in 1..Len(snap) : k = a.at
  BY <1>1, <1>2 DEF SnapTypes, Applyings
<1>5. n = snap[k].name /\ e = snap[k].def /\ n \in CollNames /\ e \in AnyDefs /\ e # Gone
  BY <1>1, <1>2, <1>4, EntriesDiffer DEF Entry
<1>6. mode \in {"additive", "sync"}
  BY <1>2 DEF Applyings
<1>7. PICK q : q = [r EXCEPT ![kind] = @ \cup {n}]
  OBVIOUS
<1>8. FiledIn(r, n, kind, q) /\ q \in Reports
  <2>1. n \in CollNames
    BY <1>5
  <2>2. FiledIn(r, n, kind, q)
    BY <1>7, <2>1, FiledRight, Zenon
  <2> QED
    BY <2>2 DEF FiledIn
<1>9. Goes(q)
  BY <1>2, <1>3, <1>7 DEF Told
<1>10. ASSUME quiet PROVE SoFar(k + 1, mode, q)'
  <2>1. SoFar(k, mode, r)
    BY <1>2, <1>3, <1>4, <1>10 DEF SnapInv
  <2>2. k \in k..Len(snap)
    BY <1>1 DEF SnapTypes
  <2>3. StillSo(n, e)
    BY <1>5, <2>1, <2>2 DEF SoFar
  <2>4. /\ (n \in preview.added <=> local[n] = Gone) /\ (n \in preview.unchanged <=> local[n] = e)
        /\ (n \in preview.modified <=> local[n] # Gone /\ local[n] # e)
    BY <1>5, <2>3 DEF StillSo
  <2> QED
    BY <1>1, <1>5, <1>6, <1>8, <1>10, <2>1, <2>4, Tells
<1> QED
  BY <1>1, <1>2, <1>4, <1>8, <1>9, <1>10, GoesOn

LEMMA AtAnEntry ==
  ASSUME SnapInv, applying.at # 0
  PROVE  /\ applying \in Applyings /\ SnapTypes
         /\ Entry.name \in CollNames /\ Entry.def \in AnyDefs /\ Entry.def # Gone
         /\ applying.mode \in {"additive", "sync"} /\ applying.found \in AnyDefs \cup {Gone}
<1>1. applying \in Applyings /\ SnapTypes
  BY ThreeStates DEF SnapInv, SnapTypes, Resting
<1>2. PICK k \in 1..Len(snap) : k = applying.at
  BY <1>1 DEF SnapTypes, Applyings
<1>3. Entry.name \in CollNames /\ Entry.def \in AnyDefs /\ Entry.def # Gone
  BY <1>1, <1>2, EntriesDiffer DEF Entry
<1> QED
  BY <1>1, <1>3 DEF Applyings

LEMMA ReadKeeps == ASSUME SnapInv, Read PROVE SnapInv'
<1>0. applying.at # 0
  BY DEF Read
<1>1. PICK a \in Applyings, mode \in {"additive", "sync"}, n \in CollNames, e \in AnyDefs :
        a = applying /\ mode = a.mode /\ n = Entry.name /\ e = Entry.def /\ e # Gone /\ SnapTypes
  BY <1>0, AtAnEntry
<1>2. snap' = snap /\ preview' = preview /\ quiet' = quiet /\ local' = local /\ a.step = "read"
  BY <1>1 DEF Read
<1>3. local' \in [CollNames -> AnyDefs \cup {Gone}] /\ mode \in {"additive", "sync"}
  BY <1>1, <1>2 DEF SnapTypes, Applyings
<1>4. PICK d \in AnyDefs \cup {Gone} : d = local[n]
  BY <1>1 DEF SnapTypes
<1>5. CASE d = e
  <2>1. Told("unchanged")
    BY <1>1, <1>4, <1>5 DEF Read, InSync
  <2> QED
    BY <1>1, <1>2, <1>3, <1>4, <1>5, <2>1, Telling
<1>6. CASE d \notin {Gone, e} /\ mode = "additive"
  <2>1. Told("skipped")
    BY <1>1, <1>4, <1>6 DEF Read, InSync
  <2> QED
    BY <1>1, <1>2, <1>3, <1>4, <1>6, <2>1, Telling
<1>7. CASE d \notin {Gone, e} /\ mode # "additive" /\ d.type # e.type
  <2>1. Told("errors")
    BY <1>1, <1>4, <1>7 DEF Read, InSync
  <2> QED
    BY <1>1, <1>2, <1>3, <1>4, <1>7, <2>1, Telling
<1>8. CASE d # e /\ (d = Gone \/ (mode # "additive" /\ d.type = e.type))
  <2>1. PICK b : b = [a EXCEPT !.step = "write", !.found = d]
    OBVIOUS
  <2>2. b \in Applyings /\ b.step = "write" /\ b.at = a.at /\ b.mode = a.mode /\ b.report = a.report /\ b.found = d
    BY <2>1 DEF Applyings
  <2>3. applying' = b
    BY <1>1, <1>4, <1>8, <2>1 DEF Read, InSync
  <2>4. SnapTypes'
    BY <1>1, <1>2, <2>2, <2>3 DEF SnapTypes
  <2>5. Entry' = Entry
    BY <1>1, <1>2, <2>2, <2>3 DEF Entry
  <2>6. quiet => SoFar(b.at, b.mode, b.report)
    BY <1>1, <2>2 DEF SnapInv
  <2>7. quiet => SoFar(b.at, b.mode, b.report)'
    BY <1>2, <2>6 DEF SoFar, NamesBefore, StillSo, Here
  <2>8. b.found = local'[n] /\ (b.found # Gone => b.mode = "sync" /\ b.found.type = e.type /\ b.found # e)
    BY <1>1, <1>2, <1>3, <1>4, <1>8, <2>2
  <2> QED
    BY <1>1, <1>2, <2>2, <2>3, <2>4, <2>5, <2>7, <2>8, ThreeStates DEF SnapInv
<1> QED
  BY <1>5, <1>6, <1>7, <1>8

LEMMA SameDefinition ==
  ASSUME NEW e \in AnyDefs
  PROVE  /\ Whole(e) \in AnyDefs /\ Whole(e).type = e.type /\ (e.whole => Whole(e) = e)
         /\ \A t \in Types : [e EXCEPT !.type = t] \in AnyDefs /\ (t = e.type => [e EXCEPT !.type = t] = e)
         /\ e.type \in Types
<1>1. Whole(e) \in AnyDefs /\ Whole(e).type = e.type
  BY DEF Whole, AnyDefs
<1>2. e.whole \in BOOLEAN /\ (e.whole => e.whole = TRUE)
  BY DEF AnyDefs
<1>3. e = [e EXCEPT !.whole = e.whole] /\ e = [e EXCEPT !.type = e.type] /\ e.type \in Types
  BY DEF AnyDefs
<1>4. e.whole => Whole(e) = e
  BY <1>2, <1>3 DEF Whole
<1>5. \A t \in Types : [e EXCEPT !.type = t] \in AnyDefs
  BY DEF AnyDefs
<1> QED
  BY <1>1, <1>3, <1>4, <1>5

LEMMA CreateKeeps == ASSUME SnapInv, Create PROVE SnapInv'
<1>0. applying.at # 0
  BY DEF Create
<1>1. PICK a \in Applyings, mode \in {"additive", "sync"}, n \in CollNames, e \in AnyDefs :
        a = applying /\ mode = a.mode /\ n = Entry.name /\ e = Entry.def /\ e # Gone /\ SnapTypes
  BY <1>0, AtAnEntry
<1>2. snap' = snap /\ preview' = preview /\ quiet' = quiet /\ a.step = "write" /\ a.found = Gone
  BY <1>1 DEF Create
<1>3. PICK d \in AnyDefs : d = Whole(e) /\ (e.whole => d = e)
  BY SameDefinition
<1>4. quiet => local[n] = Gone
  BY <1>1, <1>2 DEF SnapInv
<1>5. CASE local[n] = Gone /\ local' = [local EXCEPT ![n] = d] /\ Told("created")
  <2>1. /\ local' \in [CollNames -> AnyDefs \cup {Gone}] /\ local'[n] = d
        /\ \A m \in CollNames \ {n} : local'[m] = local[m]
    BY <1>1, <1>5 DEF SnapTypes
  <2> QED
    BY <1>1, <1>2, <1>3, <1>5, <2>1, Telling
<1>6. CASE local[n] = Gone /\ local' = [local EXCEPT ![n] = d] /\ Told("errors")
  <2>1. /\ local' \in [CollNames -> AnyDefs \cup {Gone}]
        /\ \A m \in CollNames \ {n} : local'[m] = local[m]
    BY <1>1, <1>6 DEF SnapTypes
  <2> QED
    BY <1>1, <1>2, <1>6, <2>1, Telling
<1>7. CASE local' = local /\ Told("errors")
  <2>1. local' \in [CollNames -> AnyDefs \cup {Gone}]
    BY <1>1, <1>7 DEF SnapTypes
  <2> QED
    BY <1>1, <1>2, <1>4, <1>7, <2>1, Telling
<1> QED
  BY <1>1, <1>3, <1>5, <1>6, <1>7 DEF Create

LEMMA UpdateKeeps == ASSUME SnapInv, Update PROVE SnapInv'
<1>0. applying.at # 0
  BY DEF Update
<1>1. PICK a \in Applyings, mode \in {"additive", "sync"}, n \in CollNames, e \in AnyDefs :
        a = applying /\ mode = a.mode /\ n = Entry.name /\ e = Entry.def /\ e # Gone /\ SnapTypes
  BY <1>0, AtAnEntry
<1>2. snap' = snap /\ preview' = preview /\ quiet' = quiet /\ a.step = "write" /\ a.found # Gone
  BY <1>1 DEF Update
<1>3. PICK d \in AnyDefs : d = (IF e.type = "auth" THEN Whole(e) ELSE e) /\ (e.whole => d = e)
                           /\ d.type = e.type
  BY SameDefinition
<1>4. quiet => mode = "sync" /\ local[n] # Gone /\ local[n].type = e.type /\ local[n] # e
  BY <1>1, <1>2 DEF SnapInv
<1>5. CASE local[n] # Gone /\ local' = [local EXCEPT ![n] = [d EXCEPT !.type = local[n].type]] /\ Told("updated")
  <2>1. PICK had \in AnyDefs : had = local[n]
    BY <1>1, <1>5 DEF SnapTypes
  <2>2. PICK now \in AnyDefs : now = [d EXCEPT !.type = had.type] /\ (had.type = d.type => now = d)
    BY SameDefinition
  <2>3. /\ local' \in [CollNames -> AnyDefs \cup {Gone}] /\ local'[n] = now
        /\ \A m \in CollNames \ {n} : local'[m] = local[m]
    BY <1>1, <1>5, <2>1, <2>2 DEF SnapTypes
  <2>4. quiet /\ e.whole => local'[n] = e
    BY <1>3, <1>4, <2>1, <2>2, <2>3
  <2> QED
    BY <1>1, <1>2, <1>4, <1>5, <2>3, <2>4, Telling
<1>6. CASE local' = local /\ Told("errors")
  <2>1. local' \in [CollNames -> AnyDefs \cup {Gone}]
    BY <1>1, <1>6 DEF SnapTypes
  <2> QED
    BY <1>1, <1>2, <1>4, <1>6, <2>1, Telling
<1> QED
  BY <1>1, <1>3, <1>5, <1>6 DEF Update

(* A snapshot that is taken has each collection once.                      *)
LEMMA TakeKeeps == ASSUME SnapInv, TakeSnapshot PROVE SnapInv'
<1>1. SnapTypes /\ local' = local /\ quiet' = FALSE /\ applying' = Resting
  BY DEF TakeSnapshot, SnapInv
<1>2. PICK N : N = Cardinality(Here)
  OBVIOUS
<1>3. Here \in SUBSET CollNames /\ IsFiniteSet(Here) /\ N \in Nat
  <2>1. Here \in SUBSET CollNames /\ IsFiniteSet(CollNames)
    BY SnapshotsAssumption DEF Here
  <2>2. IsFiniteSet(Here)
    BY <2>1, FS_Subset
  <2> QED
    BY <1>2, <2>1, <2>2, FS_CardinalityType
<1>4. PICK order \in [1..N -> Here] :
        /\ {order[i] : i \in DOMAIN order} = Here
        /\ snap' = [i \in DOMAIN order |-> [name |-> order[i], def |-> local[order[i]]]]
  BY <1>2 DEF TakeSnapshot
<1>5. \A i, j \in 1..N : order[i] = order[j] => i = j
  <2>1. order \in Surjection(1..N, Here)
    BY <1>4 DEF Surjection
  <2>2. IsFiniteSet(1..N) /\ Cardinality(1..N) = N
    BY <1>3, FS_Interval
  <2>3. order \in Injection(1..N, Here)
    BY <1>2, <2>1, <2>2, FS_SurjSameCardinalityImpliesInj
  <2> QED
    BY <2>3 DEF Injection, IsInjective
<1>6. PICK E : E = [name : CollNames, def : AnyDefs]
  OBVIOUS
<1>7. \A i \in 1..N : [name |-> order[i], def |-> local[order[i]]] \in E
  BY <1>1, <1>3, <1>4, <1>6 DEF Here, SnapTypes
<1>8. snap' = [i \in 1..N |-> [name |-> order[i], def |-> local[order[i]]]]
  BY <1>4
<1>9. snap' \in [1..N -> E]
  BY <1>7, <1>8
<1>10. snap' \in Seq(E)
  BY <1>3, <1>9
<1>11. \A i, j \in DOMAIN snap' : snap'[i].name = snap'[j].name => i = j
  BY <1>5, <1>8
<1>12. SnapTypes'
  BY <1>1, <1>6, <1>10, <1>11, ThreeStates DEF SnapTypes
<1> QED
  BY <1>1, <1>12 DEF SnapInv

LEMMA AllEntries == ASSUME SnapTypes PROVE NamesOf(snap) = NamesBefore(Len(snap) + 1)
<1>1. PICK E : E = [name : CollNames, def : AnyDefs]
  OBVIOUS
<1>2. snap \in Seq(E)
  BY <1>1 DEF SnapTypes
<1>3. DOMAIN snap = 1..((Len(snap) + 1) - 1)
  BY <1>2
<1> QED
  BY <1>3 DEF NamesOf, NamesBefore

LEMMA PreviewKeeps == ASSUME SnapInv, Preview PROVE SnapInv'
<1>1. SnapTypes /\ local' = local /\ snap' = snap /\ quiet' = TRUE /\ applying' = Resting /\ preview' = Diff
  BY DEF Preview, SnapInv
<1>2. SnapTypes'
  BY <1>1, ThreeStates DEF SnapTypes
<1>3. PICK fresh, unchanged, modified, left, all :
        /\ fresh = Diff.added /\ unchanged = Diff.unchanged /\ modified = Diff.modified
        /\ left = Diff.removed /\ all = NamesBefore(Len(snap) + 1)
  OBVIOUS
<1>4. DOMAIN snap = 1..Len(snap) /\ Len(snap) \in Nat
  <2>1. PICK E : E = [name : CollNames, def : AnyDefs]
    OBVIOUS
  <2>2. snap \in Seq(E)
    BY <1>1, <2>1 DEF SnapTypes
  <2> QED
    BY <2>2
<1>5. \A i \in 1..Len(snap) :
        /\ snap[i].name \in fresh <=> local[snap[i].name] = Gone
        /\ snap[i].name \in unchanged <=> local[snap[i].name] # Gone /\ local[snap[i].name] = snap[i].def
        /\ snap[i].name \in modified <=> local[snap[i].name] # Gone /\ local[snap[i].name] # snap[i].def
  BY <1>1, <1>3, <1>4, DiffSays
<1>6. fresh \cup unchanged \cup modified \subseteq all /\ left = Here \ all
  BY <1>1, <1>3, DiffSays, AllEntries
<1>7. all \subseteq fresh \cup unchanged \cup modified
  BY <1>3, <1>4, <1>5 DEF NamesBefore
<1>8. NamesBefore(1) = {} /\ NamesBefore(1)' = {} /\ all = NamesBefore(Len(snap) + 1)' /\ Here' = Here
  BY <1>1, <1>3 DEF NamesBefore, Here
<1>9. \A i \in 1..Len(snap) : StillSo(snap[i].name, snap[i].def)'
  BY <1>1, <1>3, <1>5 DEF StillSo
<1>10. /\ NoReport.created = {} /\ NoReport.updated = {} /\ NoReport.unchanged = {}
       /\ NoReport.skipped = {} /\ NoReport.errors = {}
  BY DEF NoReport
<1>11. 1..(1 - 1) = {}
  OBVIOUS
<1>12. \A mode \in {"additive", "sync"} : SoFar(1, mode, NoReport)'
  BY <1>1, <1>3, <1>6, <1>7, <1>8, <1>9, <1>10, <1>11 DEF SoFar
<1> QED
  BY <1>1, <1>2, <1>12, ThreeStates DEF SnapInv

LEMMA ApplyKeeps == ASSUME SnapInv, NEW mode \in {"additive", "sync"}, Apply(mode) PROVE SnapInv'
<1>1. /\ SnapTypes /\ snap' = snap /\ preview' = preview /\ local' = local
      /\ quiet' = (quiet /\ applying = Resting)
  BY DEF Apply, SnapInv
<1>2. PICK b : b = [at |-> 1, mode |-> mode, step |-> "read", found |-> Gone, report |-> NoReport]
  OBVIOUS
<1>3. NoReport \in Reports
  BY DEF NoReport, Reports
<1>4. b \in Applyings /\ b.at = 1 /\ b.mode = mode /\ b.step = "read" /\ b.report = NoReport
  BY <1>2, <1>3 DEF Applyings
<1>5. applying' = b
  BY <1>2 DEF Apply
<1>6. 1 <= Len(snap)
  <2>1. PICK E : E = [name : CollNames, def : AnyDefs]
    OBVIOUS
  <2>2. snap \in Seq(E) /\ snap # <<>>
    BY <1>1, <2>1 DEF SnapTypes, Apply
  <2> QED
    BY <2>2
<1>7. SnapTypes'
  BY <1>1, <1>4, <1>5, <1>6 DEF SnapTypes
<1>8. quiet' => SoFar(1, mode, NoReport)
  BY <1>1 DEF SnapInv
<1>9. quiet' => SoFar(1, mode, NoReport)'
  BY <1>1, <1>8 DEF SoFar, NamesBefore, StillSo, Here
<1>10. quiet' => SoFar(b.at, b.mode, b.report)'
  BY <1>4, <1>9
<1> QED
  BY <1>4, <1>5, <1>7, <1>10, ThreeStates DEF SnapInv

LEMMA EditKeeps == ASSUME SnapInv, NEW n \in CollNames, EditCollection(n) PROVE SnapInv'
<1>1. SnapTypes /\ quiet' = FALSE /\ snap' = snap /\ preview' = preview /\ applying' = applying
  BY DEF EditCollection, SnapInv
<1>2. Defs \subseteq AnyDefs
  BY DEF Defs, AnyDefs
<1>3. local' \in [CollNames -> AnyDefs \cup {Gone}]
  BY <1>1, <1>2 DEF EditCollection, SnapTypes
<1>4. SnapTypes'
  BY <1>1, <1>3 DEF SnapTypes
<1> QED
  BY <1>1, <1>4 DEF SnapInv

LEMMA SnapshotsStart == SnapshotsInit => SnapInv
<1> SUFFICES ASSUME SnapshotsInit PROVE SnapInv
  OBVIOUS
<1>1. Defs \subseteq AnyDefs
  BY DEF Defs, AnyDefs
<1>2. local \in [CollNames -> AnyDefs \cup {Gone}]
  BY <1>1 DEF SnapshotsInit
<1>3. snap \in Seq([name : CollNames, def : AnyDefs])
  BY SnapshotsAssumption DEF SnapshotsInit, AnyDefs
<1>4. \A i, j \in DOMAIN snap : snap[i].name = snap[j].name => i = j
  BY SnapshotsAssumption DEF SnapshotsInit
<1>5. applying = Resting /\ quiet = FALSE
  BY DEF SnapshotsInit
<1>6. SnapTypes
  BY <1>2, <1>3, <1>4, <1>5, ThreeStates DEF SnapTypes
<1> QED
  BY <1>5, <1>6 DEF SnapInv

LEMMA SnapshotsStep == SnapInv /\ [SnapshotsNext]_snapVars => SnapInv'
<1> SUFFICES ASSUME SnapInv, [SnapshotsNext]_snapVars PROVE SnapInv'
  OBVIOUS
<1>1. CASE UNCHANGED snapVars
  <2>1. local' = local /\ snap' = snap /\ preview' = preview /\ applying' = applying /\ quiet' = quiet
    BY <1>1 DEF snapVars
  <2> QED
    BY <2>1 DEF SnapInv, SnapTypes, SoFar, StillSo, NamesBefore, Here, Entry
<1> QED
  BY <1>1, TakeKeeps, PreviewKeeps, ReadKeeps, CreateKeeps, UpdateKeeps, ApplyKeeps, EditKeeps DEF SnapshotsNext

(* An application that no one disturbs ends with the report that its       *)
(* preview led to expect, and leaves what is removed where it was.         *)
THEOREM SnapshotsKept == SnapshotsSpec => []SnapshotsTell
<1>1. SnapshotsSpec => []SnapInv
  BY SnapshotsStart, SnapshotsStep, PTL DEF SnapshotsSpec
<1> QED
  BY <1>1, SnapshotsTold, PTL
(* Collections have the tables of their fields and snapshots do what is    *)
(* told of them, whatever overlaps, fails or is cut off.                   *)
THEOREM CollectionsTold == SchemaSpec /\ SnapshotsSpec => []SchemaTold
<1>1. SchemaSpec => []TableFits
  BY TablesFit
<1>2. SnapshotsSpec => []SnapshotsTell
  BY SnapshotsKept
<1>3. TableFits /\ SnapshotsTell => SchemaTold
  BY DEF SchemaTold
<1> QED
  BY <1>1, <1>2, <1>3, PTL

(***************************************************************************)
(* Feature flags.                                                          *)
(***************************************************************************)
FlagDefs == [is : BOOLEAN, enabled : BOOLEAN, default : BOOLEAN, rules : FlagRules \cup {<<>>}]
FlagsTyped == flags \in [FlagKeys -> FlagDefs]

LEMMA FlagsTypedAlways == FlagsSpec => []FlagsTyped
<1>1. FlagsInit => FlagsTyped
  <2>1. Missing \in FlagDefs
    BY DEF Missing, FlagDefs
  <2> QED
    BY <2>1 DEF FlagsInit, FlagsTyped
<1>2. FlagsTyped /\ [FlagsNext]_flagVars => FlagsTyped'
  <2> SUFFICES ASSUME FlagsTyped, [FlagsNext]_flagVars PROVE FlagsTyped'
    OBVIOUS
  <2>1. ASSUME NEW k \in FlagKeys, NEW on \in BOOLEAN, NEW v \in BOOLEAN, NEW rs \in FlagRules, UpsertFlag(k, on, v, rs)
        PROVE  FlagsTyped'
    <3>1. [is |-> TRUE, enabled |-> on, default |-> v, rules |-> rs] \in FlagDefs
      BY DEF FlagDefs
    <3> QED
      BY <2>1, <3>1 DEF UpsertFlag, FlagsTyped
  <2>2. ASSUME NEW k \in FlagKeys, DeleteFlag(k) PROVE FlagsTyped'
    <3>1. Missing \in FlagDefs
      BY DEF Missing, FlagDefs
    <3> QED
      BY <2>2, <3>1 DEF DeleteFlag, FlagsTyped
  <2>3. CASE flags' = flags
    BY <2>3 DEF FlagsTyped
  <2>4. \/ \E k \in FlagKeys, on \in BOOLEAN, v \in BOOLEAN, rs \in FlagRules : UpsertFlag(k, on, v, rs)
        \/ \E k \in FlagKeys : DeleteFlag(k)
        \/ flags' = flags
    BY DEF FlagsNext, UpsertSegment, DeleteSegment, flagVars
  <2> QED
    BY <2>1, <2>2, <2>3, <2>4
<1> QED
  BY <1>1, <1>2, PTL DEF FlagsSpec

(* A flag's value depends on those of its prerequisites only, which are flags. *)
LEMMA NeedsKeys ==
  ASSUME FlagsTyped, NEW k \in FlagKeys
  PROVE  Needs(k) \subseteq FlagKeys
<1>1. \A n \in DOMAIN flags[k].rules : \A p \in flags[k].rules[n].needs : p.flag \in FlagKeys
  <2>1. flags[k].rules \in FlagRules \cup {<<>>}
    BY DEF FlagsTyped, FlagDefs
  <2> QED
    BY <2>1, FlagsAssumption
<1> QED
  BY <1>1 DEF Needs

Firing(k, u, below) == {n \in DOMAIN flags[k].rules : Decides(k, flags[k].rules[n], u, below)}
Earliest(hits) == IF hits = {} THEN 0 ELSE CHOOSE n \in hits : \A m \in hits : n <= m
Chosen(f, n) ==
  IF ~f.is THEN Answer(FALSE, "none")
  ELSE IF ~f.enabled \/ n = 0 THEN Answer(f.default, "none")
  ELSE Answer(f.rules[n].variation = "true", f.rules[n].variation)

LEMMA ResultFires ==
  ASSUME NEW k, NEW u, NEW below
  PROVE  Result(k, u, below) = Chosen(flags[k], Earliest(Firing(k, u, below)))
BY DEF Result, FirstOf, Firing, Earliest, Chosen

LEMMA ResultLocal ==
  ASSUME NEW k, NEW u, NEW A, NEW B, \A j \in Needs(k) : A[j] = B[j]
  PROVE  Result(k, u, A) = Result(k, u, B)
<1>1. ASSUME NEW n \in DOMAIN flags[k].rules
      PROVE  Decides(k, flags[k].rules[n], u, A) <=> Decides(k, flags[k].rules[n], u, B)
  <2>1. ASSUME NEW p \in flags[k].rules[n].needs PROVE A[p.flag] = B[p.flag]
    <3>1. p.flag \in Needs(k)
      BY DEF Needs
    <3> QED
      BY <3>1
  <2> QED
    BY <2>1 DEF Decides
<1>2. Firing(k, u, A) = Firing(k, u, B)
  BY <1>1 DEF Firing
<1> QED
  BY <1>2, ResultFires

(* Evaluation by levels, of which the last is too deep. *)
Level(u, d, below) == [k \in FlagKeys |-> IF TooDeep(d) THEN Answer(FALSE, "none") ELSE Result(k, u, below)]
Evaluating(u, A) == A = [d \in 0 .. MaxDepth + 1 |-> Level(u, d, A[d + 1])]
EvaluatesFrom(u, m, A) == \A d \in m .. MaxDepth + 1 : A[d] = Level(u, d, A[d + 1])

LEMMA EvaluateIs == ASSUME NEW u PROVE Evaluate(u) = (CHOOSE A : Evaluating(u, A))[0]
BY DEF Evaluate, Evaluating, Level

LEMMA LevelLast ==
  ASSUME NEW u, NEW A, NEW B
  PROVE  Level(u, MaxDepth + 1, A) = Level(u, MaxDepth + 1, B)
<1>1. TooDeep(MaxDepth + 1)
  BY FlagsAssumption DEF TooDeep
<1> QED
  BY <1>1 DEF Level

LEMMA EvaluatesLevels == ASSUME NEW u PROVE \E A : EvaluatesFrom(u, 0, A)
<1> USE FlagsAssumption
<1> DEFINE Can(n) == \E A : EvaluatesFrom(u, MaxDepth + 1 - n, A)
           T == {n \in 0 .. MaxDepth + 1 : ~Can(n)}
<1>1. CASE T = {}
  <2>1. MaxDepth + 1 \in 0 .. MaxDepth + 1 /\ ~(MaxDepth + 1 \in T)
    <3>1. MaxDepth + 1 \in 0 .. MaxDepth + 1
      OBVIOUS
    <3>2. \A n : n \notin T
      BY <1>1
    <3> HIDE DEF T
    <3> QED
      BY <3>1, <3>2
  <2>3. Can(MaxDepth + 1)
    BY <2>1
  <2>2. MaxDepth + 1 - (MaxDepth + 1) = 0
    OBVIOUS
  <2> QED
    BY <2>2, <2>3
<1>2. CASE T # {}
  <2>1. T \in SUBSET Nat
    OBVIOUS
  <2>2. PICK n \in T : \A y \in T : n <= y
    BY <1>2, <2>1, SmallestIs DEF SmallestNat
  <2>3. CASE n = 0
    <3>1. PICK A : A = [d \in 0 .. MaxDepth + 2 |-> Level(u, MaxDepth + 1, {})]
      OBVIOUS
    <3>2. A[MaxDepth + 1] = Level(u, MaxDepth + 1, A[MaxDepth + 1 + 1])
      BY <3>1, LevelLast
    <3>3. EvaluatesFrom(u, MaxDepth + 1 - n, A)
      BY <2>3, <3>2 DEF EvaluatesFrom
    <3> QED
      BY <2>2, <3>3
  <2>4. CASE n # 0
    <3>1. PICK m \in 0 .. MaxDepth : m = MaxDepth + 1 - n
      BY <2>2, <2>4
    <3>2. n - 1 \in 0 .. MaxDepth + 1 /\ ~(n - 1 \in T)
      BY <2>2, <2>4
    <3>3. MaxDepth + 1 - (n - 1) = m + 1
      BY <2>2, <3>1
    <3>4. PICK A : EvaluatesFrom(u, m + 1, A)
      BY <3>2, <3>3
    <3>5. PICK B : B = [d \in 0 .. MaxDepth + 2 |-> IF d = m THEN Level(u, m, A[m + 1]) ELSE A[d]]
      OBVIOUS
    <3>6. ASSUME NEW d \in m .. MaxDepth + 1 PROVE B[d] = Level(u, d, B[d + 1])
      <4>1. B[d + 1] = A[d + 1]
        BY <3>5
      <4>2. CASE d = m
        BY <3>5, <4>1, <4>2
      <4>3. CASE d # m
        <5>1. B[d] = A[d] /\ d \in m + 1 .. MaxDepth + 1
          BY <3>5, <4>3
        <5> QED
          BY <3>4, <4>1, <5>1 DEF EvaluatesFrom
      <4> QED
        BY <4>2, <4>3
    <3>7. EvaluatesFrom(u, MaxDepth + 1 - n, B)
      BY <3>1, <3>6 DEF EvaluatesFrom
    <3> QED
      BY <2>2, <3>7
  <2> QED
    BY <2>3, <2>4
<1> QED
  BY <1>1, <1>2

LEMMA EvaluateByLevels ==
  ASSUME NEW u
  PROVE  \E A : Evaluate(u) = A[0] /\ EvaluatesFrom(u, 0, A)
<1> USE FlagsAssumption
<1>1. PICK A : EvaluatesFrom(u, 0, A)
  BY EvaluatesLevels
<1>2. PICK B : B = [d \in 0 .. MaxDepth + 1 |-> A[d]]
  OBVIOUS
<1>3. ASSUME NEW d \in 0 .. MaxDepth + 1 PROVE B[d] = Level(u, d, B[d + 1])
  <2>1. B[d] = Level(u, d, A[d + 1])
    BY <1>1, <1>2 DEF EvaluatesFrom
  <2>2. CASE d = MaxDepth + 1
    BY <2>1, <2>2, LevelLast
  <2>3. CASE d # MaxDepth + 1
    <3>1. B[d + 1] = A[d + 1]
      BY <1>2, <2>3
    <3> QED
      BY <2>1, <3>1
  <2> QED
    BY <2>2, <2>3
<1>4. Evaluating(u, B)
  BY <1>2, <1>3 DEF Evaluating
<1>5. PICK C : C = CHOOSE X : Evaluating(u, X)
  OBVIOUS
<1>6. Evaluating(u, C)
  BY <1>4, <1>5
<1>7. EvaluatesFrom(u, 0, C)
  BY <1>6 DEF Evaluating, EvaluatesFrom
<1> QED
  BY <1>5, <1>7, EvaluateIs

(* A value that differs from one level to the next is carried there by a chain of prerequisites *)
(* down to the level that is too deep.                                                          *)
Carries(A, d, path) ==
  /\ path \in [0 .. d + 1 -> FlagKeys]
  /\ \A i \in 0 .. d : path[i + 1] \in Needs(path[i])
  /\ A[d][path[d + 1]] # A[d + 1][path[d + 1]]

LEMMA NextCarries ==
  ASSUME FlagsTyped, NEW u, NEW A, EvaluatesFrom(u, 0, A), NEW d \in 0 .. MaxDepth - 1, NEW p, Carries(A, d, p)
  PROVE  \E q : Carries(A, d + 1, q)
<1> USE FlagsAssumption
<1>1. PICK k \in FlagKeys : k = p[d + 1]
  BY DEF Carries
<1>2. A[d] = Level(u, d, A[d + 1]) /\ A[d + 1] = Level(u, d + 1, A[d + 1 + 1])
  BY DEF EvaluatesFrom
<1>3. ~TooDeep(d) /\ ~TooDeep(d + 1)
  BY DEF TooDeep
<1>4. A[d][k] = Result(k, u, A[d + 1]) /\ A[d + 1][k] = Result(k, u, A[d + 1 + 1])
  BY <1>2, <1>3 DEF Level
<1>5. Result(k, u, A[d + 1]) # Result(k, u, A[d + 1 + 1])
  BY <1>1, <1>4 DEF Carries
<1>6. PICK j \in Needs(k) : A[d + 1][j] # A[d + 1 + 1][j]
  BY <1>5, ResultLocal
<1>7. j \in FlagKeys
  BY NeedsKeys
<1>8. PICK q : q = [i \in 0 .. d + 1 + 1 |-> IF i = d + 1 + 1 THEN j ELSE p[i]]
  OBVIOUS
<1>9. q \in [0 .. d + 1 + 1 -> FlagKeys]
  BY <1>7, <1>8 DEF Carries
<1>10. ASSUME NEW i \in 0 .. d + 1 PROVE q[i + 1] \in Needs(q[i])
  <2>1. q[i] = p[i]
    BY <1>8
  <2>2. CASE i = d + 1
    BY <1>1, <1>8, <2>1, <2>2
  <2>3. CASE i # d + 1
    <3>1. q[i + 1] = p[i + 1] /\ i \in 0 .. d
      BY <1>8, <2>3
    <3> QED
      BY <2>1, <3>1 DEF Carries
  <2> QED
    BY <2>2, <2>3
<1>11. q[d + 1 + 1] = j
  BY <1>8
<1> QED
  BY <1>6, <1>9, <1>10, <1>11 DEF Carries

LEMMA ConsistentWhenTyped == FlagsTyped => Consistent
<1> USE FlagsAssumption
<1> SUFFICES ASSUME FlagsTyped, ~Deep, NEW u \in Visitors, NEW k \in FlagKeys
    PROVE  Evaluate(u)[k] = Result(k, u, Evaluate(u))
  BY DEF Consistent
<1>1. PICK A : Evaluate(u) = A[0] /\ EvaluatesFrom(u, 0, A)
  BY EvaluateByLevels
<1>2. A[0] = Level(u, 0, A[0 + 1]) /\ ~TooDeep(0)
  BY <1>1 DEF EvaluatesFrom, TooDeep
<1>3. A[0][k] = Result(k, u, A[1])
  BY <1>2 DEF Level
<1> SUFFICES ASSUME Result(k, u, A[1]) # Result(k, u, A[0]) PROVE FALSE
  BY <1>1, <1>3
<1>4. PICK j \in Needs(k) : A[1][j] # A[0][j]
  BY ResultLocal
<1>5. j \in FlagKeys
  BY NeedsKeys
<1>6. PICK p : p = [i \in 0 .. 1 |-> IF i = 0 THEN k ELSE j]
  OBVIOUS
<1>7. Carries(A, 0, p)
  <2>1. p \in [0 .. 0 + 1 -> FlagKeys]
    BY <1>5, <1>6
  <2>2. \A i \in 0 .. 0 : p[i + 1] \in Needs(p[i])
    BY <1>4, <1>6
  <2>3. A[0][p[0 + 1]] # A[0 + 1][p[0 + 1]]
    BY <1>4, <1>6
  <2> QED
    BY <2>1, <2>2, <2>3 DEF Carries
<1> DEFINE Carried(d) == \E q : Carries(A, d, q)
           T == {d \in 0 .. MaxDepth : ~Carried(d)}
<1>8. Carried(0)
  BY <1>7
<1>9. \A d \in 0 .. MaxDepth - 1 : Carried(d) => Carried(d + 1)
  BY <1>1, NextCarries
<1> HIDE DEF Carried
<1>10. T = {}
  <2> SUFFICES ASSUME T # {} PROVE FALSE
    OBVIOUS
  <2>1. T \in SUBSET Nat
    OBVIOUS
  <2>2. PICK t \in T : \A y \in T : t <= y
    BY <2>1, SmallestIs DEF SmallestNat
  <2>3. t # 0
    BY <1>8, <2>2
  <2>4. t - 1 \in 0 .. MaxDepth - 1 /\ (t - 1) + 1 = t /\ ~(t - 1 \in T) /\ t - 1 \in 0 .. MaxDepth
    BY <2>2, <2>3
  <2>5. Carried(t - 1)
    BY <2>4
  <2>6. Carried(t)
    BY <1>9, <2>4, <2>5
  <2> QED
    BY <2>2, <2>6
<1>11. MaxDepth \in 0 .. MaxDepth /\ ~(MaxDepth \in T)
  BY <1>10
<1>12. Carried(MaxDepth)
  BY <1>11
<1>13. PICK path : Carries(A, MaxDepth, path)
  BY <1>12 DEF Carried
<1>14. Deep
  BY <1>13 DEF Carries, Deep
<1> QED
  BY <1>14

(* While no flag has more levels of prerequisites below it than the depth allows, whatever flags *)
(* and segments are edited, every flag is what its first fitting rule makes of the values that   *)
(* its prerequisites have when they are asked for themselves (evaluate, matchCondition and       *)
(* MAX_PREREQ_DEPTH of src/src/core/flags.ts), for any flags, rules, visitors and depth.          *)
THEOREM FlagsConsistent == FlagsSpec => []Consistent
BY FlagsTypedAlways, ConsistentWhenTyped, PTL

(***************************************************************************)
(* CSV files.                                                              *)
(***************************************************************************)
(* The prefixes of a sequence of sequences, one after the other.                              *)
Joins(S, q, F) ==
  /\ F \in [0..Len(q) -> Seq(S)] /\ F[0] = <<>>
  /\ \A i \in 1..Len(q) : F[i] = F[i - 1] \o q[i]

LEMMA JoinsUpTo ==
  ASSUME NEW S, NEW q \in Seq(Seq(S))
  PROVE  \E F : Joins(S, q, F)
<1> DEFINE UpTo(F, n) == F \in [0..n -> Seq(S)] /\ F[0] = <<>> /\ \A i \in 1..n : F[i] = F[i - 1] \o q[i]
           Can(n) == \E F : UpTo(F, n)
           T == {n \in 0..Len(q) : ~Can(n)}
<1>1. Len(q) \in Nat /\ \A i \in 1..Len(q) : q[i] \in Seq(S)
  OBVIOUS
<1>2. Can(0)
  <2>1. PICK F : F = [i \in 0..0 |-> <<>>]
    OBVIOUS
  <2>2. UpTo(F, 0)
    BY <2>1
  <2> HIDE DEF UpTo
  <2> QED
    BY <2>2
<1>3. ASSUME NEW n \in 0..(Len(q) - 1), Can(n) PROVE Can(n + 1)
  <2>1. PICK F : UpTo(F, n)
    BY <1>3
  <2>2. PICK G : G = [i \in 0..(n + 1) |-> IF i = n + 1 THEN F[n] \o q[n + 1] ELSE F[i]]
    OBVIOUS
  <2>3. F[n] \in Seq(S) /\ q[n + 1] \in Seq(S) /\ n + 1 \in Nat /\ n \in 0..n
    BY <1>1, <2>1
  <2>4. \A i \in 0..(n + 1) : G[i] \in Seq(S)
    <3>1. F[n] \o q[n + 1] \in Seq(S)
      BY <2>3
    <3>2. \A i \in 0..(n + 1) : i # n + 1 => i \in 0..n
      BY <2>3
    <3> QED
      BY <2>1, <2>2, <3>1, <3>2
  <2>5. G \in [0..(n + 1) -> Seq(S)]
    BY <2>2, <2>4
  <2>6. G[0] = <<>>
    BY <2>1, <2>2, <2>3
  <2>7. ASSUME NEW i \in 1..(n + 1) PROVE G[i] = G[i - 1] \o q[i]
    <3>1. CASE i = n + 1
      <4>1. i - 1 = n /\ n # n + 1 /\ n \in 0..(n + 1) /\ n + 1 \in 0..(n + 1)
        BY <2>3, <3>1
      <4> QED
        BY <2>2, <3>1, <4>1
    <3>2. CASE i # n + 1
      <4>1. i \in 1..n /\ i - 1 \in 0..(n + 1) /\ i - 1 # n + 1 /\ i \in 0..(n + 1)
        BY <2>3, <3>2
      <4> QED
        BY <2>1, <2>2, <3>2, <4>1
    <3> QED
      BY <3>1, <3>2
  <2>8. UpTo(G, n + 1)
    BY <2>5, <2>6, <2>7
  <2> HIDE DEF UpTo
  <2> QED
    BY <2>8
<1> HIDE DEF Can
<1>4. T = {}
  <2> SUFFICES ASSUME T # {} PROVE FALSE
    OBVIOUS
  <2>1. T \in SUBSET Nat
    BY <1>1
  <2>2. PICK t \in T : \A y \in T : t <= y
    BY <2>1, SmallestIs DEF SmallestNat
  <2>3. t # 0
    BY <1>2, <2>2
  <2>4. t - 1 \in 0..(Len(q) - 1) /\ (t - 1) + 1 = t /\ ~(t - 1 \in T) /\ t - 1 \in 0..Len(q)
    BY <1>1, <2>2, <2>3
  <2>5. Can(t - 1)
    BY <2>4
  <2>6. Can(t)
    BY <1>3, <2>4, <2>5
  <2> QED
    BY <2>2, <2>6
<1>5. Can(Len(q))
  BY <1>1, <1>4
<1> QED
  BY <1>5 DEF Can, Joins

LEMMA AppendedIs ==
  ASSUME NEW S, NEW s \in Seq(S), NEW t \in Seq(S)
  PROVE  /\ s \o t \in Seq(S) /\ Len(s \o t) = Len(s) + Len(t)
         /\ \A n \in 1..Len(s) : (s \o t)[n] = s[n]
         /\ \A n \in 1..Len(t) : (s \o t)[Len(s) + n] = t[n]
OBVIOUS

Extends(s, t, u) ==
  /\ Len(s) \in Nat /\ Len(t) \in Nat /\ Len(u) = Len(s) + Len(t)
  /\ \A k \in 1..Len(s) : u[k] = s[k]
  /\ \A k \in 1..Len(t) : u[Len(s) + k] = t[k]

LEMMA JoinsStep ==
  ASSUME NEW S, NEW q \in Seq(Seq(S)), NEW F, Joins(S, q, F),
         NEW i \in 1..Len(q), NEW p \in 0..Len(q), p = i - 1
  PROVE  /\ F[p] \in Seq(S) /\ q[i] \in Seq(S) /\ F[i] \in Seq(S)
         /\ F[i] = F[p] \o q[i] /\ Extends(F[p], q[i], F[i])
<1>1. i \in 0..Len(q)
  OBVIOUS
<1>2. q[i] \in Seq(S)
  OBVIOUS
<1>3. F[i] = F[p] \o q[i] /\ F[p] \in Seq(S) /\ F[i] \in Seq(S)
  <2>1. F \in [0..Len(q) -> Seq(S)] /\ \A n \in 1..Len(q) : F[n] = F[n - 1] \o q[n]
    BY DEF Joins
  <2> QED
    BY <1>1, <2>1
<1>4. ASSUME NEW s \in Seq(S), NEW t \in Seq(S), NEW u, u = s \o t PROVE Extends(s, t, u)
  BY <1>4, AppendedIs DEF Extends
<1> QED
  BY <1>2, <1>3, <1>4, Zenon

LEMMA JoinsIs ==
  ASSUME NEW S, NEW q \in Seq(Seq(S))
  PROVE  \E F : Joins(S, q, F) /\ FlattenSeq(q) = F[Len(q)]
<1>1. PICK F : Joins(S, q, F)
  BY JoinsUpTo
<1>2. Len(q) \in Nat
  OBVIOUS
<1>3. CASE Len(q) = 0
  <2>1. q = <<>>
    BY <1>3
  <2>2. FlattenSeq(q) = F[Len(q)]
    BY <1>1, <1>3, <2>1 DEF FlattenSeq, Joins
  <2> QED
    BY <1>1, <2>2
<1>4. CASE Len(q) # 0
  <2> DEFINE Flat(f) == f = [i \in 1..Len(q) |-> IF i = 1 THEN q[i] ELSE f[i - 1] \o q[i]]
             c == CHOOSE f : Flat(f)
  <2>1. FlattenSeq(q) = c[Len(q)]
    BY <1>4 DEF FlattenSeq
  <2>2. PICK G : G = [i \in 1..Len(q) |-> F[i]]
    OBVIOUS
  <2>3. F[1] = q[1]
    <3>1. 1 \in 1..Len(q) /\ 1 - 1 = 0
      BY <1>2, <1>4
    <3>2. F[1] = F[0] \o q[1] /\ q[1] \in Seq(S)
      <4>1. 0 \in 0..Len(q) /\ 0 = 1 - 1
        BY <1>2
      <4>2. ASSUME NEW i \in 1..Len(q), NEW p \in 0..Len(q), p = i - 1 PROVE F[i] = F[p] \o q[i] /\ q[i] \in Seq(S)
        BY <1>1, <4>2, JoinsStep, Zenon
      <4> QED
        BY <3>1, <4>1, <4>2
    <3>3. F[0] = <<>>
      BY <1>1 DEF Joins
    <3> QED
      BY <3>2, <3>3
  <2>4. \A i \in 1..Len(q) : F[i] = IF i = 1 THEN q[i] ELSE G[i - 1] \o q[i]
    <3>1. \A i \in 1..Len(q) : i # 1 => i - 1 \in 1..Len(q)
      BY <1>2
    <3> QED
      BY <1>1, <2>2, <2>3, <3>1 DEF Joins
  <2>5. Flat(G)
    BY <2>2, <2>4
  <2>6. Flat(c)
    <3> HIDE DEF Flat
    <3> QED
      BY <2>5
  <2> HIDE DEF c
  <2>7. \A i \in 1..Len(q) : c[i] = IF i = 1 THEN q[i] ELSE c[i - 1] \o q[i]
    BY <2>6
  <2> HIDE DEF Flat
  <2> DEFINE T == {i \in 1..Len(q) : c[i] # F[i]}
  <2>8. T = {}
    <3> SUFFICES ASSUME T # {} PROVE FALSE
      OBVIOUS
    <3>1. T \in SUBSET Nat
      OBVIOUS
    <3>2. PICK t \in T : \A y \in T : t <= y
      BY <3>1, SmallestIs DEF SmallestNat
    <3>3. t # 1
      BY <2>3, <2>7, <3>2
    <3>4. t - 1 \in 1..Len(q) /\ ~(t - 1 \in T)
      BY <1>2, <3>2, <3>3
    <3>5. c[t] = c[t - 1] \o q[t] /\ F[t] = F[t - 1] \o q[t] /\ c[t - 1] = F[t - 1]
      BY <1>1, <2>7, <3>2, <3>3, <3>4 DEF Joins
    <3> QED
      BY <3>2, <3>5
  <2>9. c[Len(q)] = F[Len(q)]
    BY <1>2, <1>4, <2>8
  <2> QED
    BY <1>1, <2>1, <2>9
<1> QED
  BY <1>3, <1>4

(* Where the parts of a sequence of sequences lie in what they make.                          *)
Lays(q, r, at) ==
  /\ at \in [0..Len(q) -> Nat] /\ at[0] = 0 /\ Len(r) = at[Len(q)]
  /\ \A i \in 1..Len(q) : /\ at[i] = at[i - 1] + Len(q[i]) /\ at[i] <= Len(r)
                          /\ \A k \in 1..Len(q[i]) : r[at[i - 1] + k] = q[i][k]

LEMMA JoinsGrow ==
  ASSUME NEW S, NEW q \in Seq(Seq(S)), NEW F, Joins(S, q, F), NEW i \in 0..Len(q)
  PROVE  \A j \in i..Len(q) : Len(F[i]) <= Len(F[j]) /\ \A k \in 1..Len(F[i]) : F[j][k] = F[i][k]
<1> DEFINE Same(j) == Len(F[i]) <= Len(F[j]) /\ \A k \in 1..Len(F[i]) : F[j][k] = F[i][k]
           T == {j \in i..Len(q) : ~Same(j)}
<1>1. Len(q) \in Nat /\ i \in Nat /\ \A j \in 0..Len(q) : F[j] \in Seq(S) /\ Len(F[j]) \in Nat
  <2>1. Len(q) \in Nat /\ \A n \in 0..Len(q) : n \in Nat
    OBVIOUS
  <2>2. \A j \in 0..Len(q) : F[j] \in Seq(S)
    BY DEF Joins
  <2>3. \A s \in Seq(S) : Len(s) \in Nat
    OBVIOUS
  <2> QED
    BY <2>1, <2>2, <2>3
<1>2. Same(i)
  BY <1>1
<1>3. ASSUME NEW j \in i..(Len(q) - 1), Same(j) PROVE Same(j + 1)
  <2>1. j + 1 \in 1..Len(q) /\ j \in 0..Len(q) /\ (j + 1) - 1 = j
    BY <1>1
  <2>2. /\ Len(F[j + 1]) = Len(F[j]) + Len(q[j + 1]) /\ Len(q[j + 1]) \in Nat /\ Len(F[j]) \in Nat
        /\ \A k \in 1..Len(F[j]) : F[j + 1][k] = F[j][k]
    <3>1. j = (j + 1) - 1
      BY <1>1
    <3>2. Extends(F[j], q[j + 1], F[j + 1])
      BY <2>1, <3>1, JoinsStep, Zenon
    <3> QED
      BY <3>2 DEF Extends
  <2>3. Len(F[i]) \in Nat /\ Len(F[i]) <= Len(F[j]) /\ \A k \in 1..Len(F[i]) : F[j][k] = F[i][k]
    BY <1>1, <1>3
  <2>4. \A k \in 1..Len(F[i]) : k \in 1..Len(F[j])
    <3>1. ASSUME NEW a \in Nat, NEW b \in Nat, a <= b, NEW k \in 1..a PROVE k \in 1..b
      BY <3>1
    <3> QED
      BY <2>2, <2>3, <3>1
  <2>5. Len(F[i]) <= Len(F[j + 1])
    <3>1. ASSUME NEW a \in Nat, NEW b \in Nat, NEW d \in Nat, a <= b PROVE a <= b + d
      BY <3>1
    <3> QED
      BY <2>2, <2>3, <3>1
  <2> QED
    BY <2>2, <2>3, <2>4, <2>5
<1> HIDE DEF Same
<1>4. T = {}
  <2> SUFFICES ASSUME T # {} PROVE FALSE
    OBVIOUS
  <2>1. T \in SUBSET Nat
    BY <1>1
  <2>2. PICK t \in T : \A y \in T : t <= y
    BY <2>1, SmallestIs DEF SmallestNat
  <2>3. t # i
    BY <1>2, <2>2
  <2>4. t - 1 \in i..(Len(q) - 1) /\ (t - 1) + 1 = t /\ ~(t - 1 \in T) /\ t - 1 \in i..Len(q)
    BY <1>1, <2>2, <2>3
  <2>5. Same(t - 1)
    BY <2>4
  <2>6. Same(t)
    BY <1>3, <2>4, <2>5
  <2> QED
    BY <2>2, <2>6
<1> QED
  BY <1>4 DEF Same

LEMMA LaysIs ==
  ASSUME NEW S, NEW q \in Seq(Seq(S))
  PROVE  FlattenSeq(q) \in Seq(S) /\ \E at : Lays(q, FlattenSeq(q), at)
<1>1. PICK F : Joins(S, q, F) /\ FlattenSeq(q) = F[Len(q)]
  BY JoinsIs
<1>2. /\ Len(q) \in Nat /\ \A j \in 0..Len(q) : F[j] \in Seq(S) /\ Len(F[j]) \in Nat
      /\ F[0] = <<>> /\ \A i \in 1..Len(q) : q[i] \in Seq(S) /\ Len(q[i]) \in Nat
  BY <1>1 DEF Joins
<1>3. PICK at : at = [i \in 0..Len(q) |-> Len(F[i])]
  OBVIOUS
<1>4. \A i \in 0..Len(q) : at[i] = Len(F[i])
  BY <1>3
<1>5. at \in [0..Len(q) -> Nat] /\ at[0] = 0 /\ Len(FlattenSeq(q)) = at[Len(q)]
  BY <1>1, <1>2, <1>3
<1>6. ASSUME NEW i \in 1..Len(q)
      PROVE  /\ at[i] = at[i - 1] + Len(q[i]) /\ at[i] <= Len(FlattenSeq(q))
             /\ \A k \in 1..Len(q[i]) : FlattenSeq(q)[at[i - 1] + k] = q[i][k]
  <2>1. i - 1 \in 0..Len(q) /\ i \in 0..Len(q) /\ Len(q) \in i..Len(q)
    BY <1>2
  <2>3. /\ Len(F[i]) = Len(F[i - 1]) + Len(q[i]) /\ Len(F[i - 1]) \in Nat /\ Len(q[i]) \in Nat
        /\ \A k \in 1..Len(q[i]) : F[i][Len(F[i - 1]) + k] = q[i][k]
    <3>1. i - 1 = i - 1
      OBVIOUS
    <3>2. Extends(F[i - 1], q[i], F[i])
      BY <1>1, <2>1, <3>1, JoinsStep, Zenon
    <3> QED
      BY <3>2 DEF Extends
  <2>4. Len(F[i]) <= Len(F[Len(q)]) /\ \A k \in 1..Len(F[i]) : F[Len(q)][k] = F[i][k]
    BY <1>1, <2>1, JoinsGrow
  <2>5. \A k \in 1..Len(q[i]) : Len(F[i - 1]) + k \in 1..Len(F[i])
    <3>1. ASSUME NEW a \in Nat, NEW b \in Nat, NEW k \in 1..b PROVE a + k \in 1..(a + b)
      OBVIOUS
    <3> QED
      BY <2>3, <3>1
  <2> QED
    BY <1>1, <1>4, <2>1, <2>3, <2>4, <2>5
<1>7. Lays(q, FlattenSeq(q), at)
  BY <1>5, <1>6, Zenon DEF Lays
<1>8. FlattenSeq(q) \in Seq(S)
  BY <1>1, <1>2
<1> QED
  BY <1>7, <1>8
-----------------------------------------------------------------------------
(* What is in a field, a row and a file, and where.                                           *)
Symbols == Chars \cup {Quote, ",", CR, LF, "id", "col", "1", "true", "false", "[", "]"}

Doubles(c, at) ==
  /\ at \in [0..Len(c) -> Nat] /\ at[0] = 0 /\ Len(Doubled(c)) = at[Len(c)]
  /\ \A i \in 1..Len(c) :
       /\ at[i] <= Len(Doubled(c))
       /\ c[i] = Quote => /\ at[i] = at[i - 1] + 2
                          /\ Doubled(c)[at[i - 1] + 1] = Quote /\ Doubled(c)[at[i - 1] + 2] = Quote
       /\ c[i] # Quote => at[i] = at[i - 1] + 1 /\ Doubled(c)[at[i - 1] + 1] = c[i]

LEMMA DoubledIs ==
  ASSUME NEW c \in Seq(Symbols)
  PROVE  Doubled(c) \in Seq(Symbols) /\ \E at : Doubles(c, at)
<1> DEFINE q == [n \in DOMAIN c |-> IF c[n] = Quote THEN <<Quote, Quote>> ELSE <<c[n]>>]
<1>0. Quote \in Symbols
  BY DEF Symbols
<1>1. Len(c) \in Nat /\ DOMAIN c = 1..Len(c) /\ (\A i \in 1..Len(c) : c[i] \in Symbols) /\ Quote \in Symbols
  BY <1>0
<1>2. \A i \in 1..Len(c) : q[i] \in Seq(Symbols)
  BY <1>1
<1>3. q \in Seq(Seq(Symbols)) /\ Len(q) = Len(c)
  BY <1>1, <1>2
<1>4. \A i \in 1..Len(c) : /\ c[i] = Quote => Len(q[i]) = 2 /\ q[i][1] = Quote /\ q[i][2] = Quote
                           /\ c[i] # Quote => Len(q[i]) = 1 /\ q[i][1] = c[i]
  BY <1>1
<1>5. Doubled(c) = FlattenSeq(q)
  BY DEF Doubled
<1> HIDE DEF q
<1>6. Doubled(c) \in Seq(Symbols)
  BY <1>3, <1>5, LaysIs
<1>7. PICK at : Lays(q, Doubled(c), at)
  BY <1>3, <1>5, LaysIs
<1>8. at \in [0..Len(c) -> Nat] /\ at[0] = 0 /\ Len(Doubled(c)) = at[Len(c)]
  BY <1>3, <1>7 DEF Lays
<1>9. ASSUME NEW i \in 1..Len(c)
      PROVE  /\ at[i] <= Len(Doubled(c))
             /\ c[i] = Quote => /\ at[i] = at[i - 1] + 2
                                /\ Doubled(c)[at[i - 1] + 1] = Quote /\ Doubled(c)[at[i - 1] + 2] = Quote
             /\ c[i] # Quote => at[i] = at[i - 1] + 1 /\ Doubled(c)[at[i - 1] + 1] = c[i]
  <2>1. /\ at[i] = at[i - 1] + Len(q[i]) /\ at[i] <= Len(Doubled(c))
        /\ \A k \in 1..Len(q[i]) : Doubled(c)[at[i - 1] + k] = q[i][k]
    BY <1>3, <1>7 DEF Lays
  <2>2. CASE c[i] = Quote
    <3>1. Len(q[i]) = 2 /\ q[i][1] = Quote /\ q[i][2] = Quote /\ 1 \in 1..2 /\ 2 \in 1..2
      BY <1>4, <2>2
    <3> QED
      BY <2>1, <2>2, <3>1
  <2>3. CASE c[i] # Quote
    <3>1. Len(q[i]) = 1 /\ q[i][1] = c[i] /\ 1 \in 1..1
      BY <1>4, <2>3
    <3> QED
      BY <2>1, <2>3, <3>1
  <2> QED
    BY <2>2, <2>3
<1>10. Doubles(c, at)
  BY <1>8, <1>9, Zenon DEF Doubles
<1> QED
  BY <1>6, <1>10

LEMMA FieldIs ==
  ASSUME NEW c \in Seq(Symbols)
  PROVE  /\ EncodeField(c) \in Seq(Symbols) /\ Len(EncodeField(c)) \in Nat
         /\ ~NeedsQuotes(c) => EncodeField(c) = c
         /\ NeedsQuotes(c) => /\ Len(EncodeField(c)) = Len(Doubled(c)) + 2 /\ EncodeField(c)[1] = Quote
                              /\ EncodeField(c)[Len(Doubled(c)) + 2] = Quote
                              /\ \A k \in 1..Len(Doubled(c)) : EncodeField(c)[k + 1] = Doubled(c)[k]
<1>1. Doubled(c) \in Seq(Symbols) /\ Quote \in Symbols
  BY DoubledIs DEF Symbols
<1>2. CASE ~NeedsQuotes(c)
  BY <1>2 DEF EncodeField
<1>3. CASE NeedsQuotes(c)
  <2>1. ASSUME NEW d \in Seq(Symbols), NEW e, e = <<Quote>> \o d \o <<Quote>>
        PROVE  /\ e \in Seq(Symbols) /\ Len(e) \in Nat /\ Len(e) = Len(d) + 2 /\ e[1] = Quote /\ e[Len(d) + 2] = Quote
               /\ \A k \in 1..Len(d) : e[k + 1] = d[k]
    BY <1>1, <2>1
  <2>2. EncodeField(c) = <<Quote>> \o Doubled(c) \o <<Quote>>
    BY <1>3 DEF EncodeField
  <2> QED
    BY <1>1, <1>3, <2>1, <2>2, Zenon
<1> QED
  BY <1>2, <1>3

Lead == IF withId THEN 2 ELSE 0
CellsOf(c) == IF withId THEN <<<<"id">>, c>> ELSE <<c>>
IsRow(r, c) ==
  /\ r \in Seq(Symbols) /\ Len(r) = Lead + Len(EncodeField(c))
  /\ withId => r[1] = "id" /\ r[2] = ","
  /\ \A k \in 1..Len(EncodeField(c)) : r[Lead + k] = EncodeField(c)[k]

LEMMA FlatOne == ASSUME NEW S, NEW a \in Seq(S) PROVE FlattenSeq(<<a>>) = a
<1> DEFINE q == <<a>>
<1>1. q \in Seq(Seq(S)) /\ Len(q) = 1 /\ q[1] = a
  OBVIOUS
<1> HIDE DEF q
<1>2. PICK F : Joins(S, q, F) /\ FlattenSeq(q) = F[1]
  BY <1>1, JoinsIs
<1>3. F[1] = F[0] \o q[1]
  <2>1. 1 \in 1..Len(q) /\ 0 \in 0..Len(q) /\ 0 = 1 - 1
    BY <1>1
  <2>2. ASSUME NEW i \in 1..Len(q), NEW p \in 0..Len(q), p = i - 1 PROVE F[i] = F[p] \o q[i]
    BY <1>1, <1>2, <2>2, JoinsStep, Zenon
  <2> QED
    BY <2>1, <2>2
<1>4. F[0] = <<>>
  BY <1>2 DEF Joins
<1>5. <<>> \o a = a
  BY ConcatEmptySeq
<1> QED
  BY <1>1, <1>2, <1>3, <1>4, <1>5 DEF q

LEMMA FlatTwo == ASSUME NEW S, NEW a \in Seq(S), NEW b \in Seq(S) PROVE FlattenSeq(<<a, b>>) = a \o b
<1> DEFINE q == <<a, b>>
<1>1. q \in Seq(Seq(S)) /\ Len(q) = 2 /\ q[1] = a /\ q[2] = b
  OBVIOUS
<1> HIDE DEF q
<1>2. PICK F : Joins(S, q, F) /\ FlattenSeq(q) = F[2]
  BY <1>1, JoinsIs
<1>3. F[1] = F[0] \o q[1] /\ F[2] = F[1] \o q[2]
  <2>1. 1 \in 1..Len(q) /\ 0 \in 0..Len(q) /\ 0 = 1 - 1 /\ 2 \in 1..Len(q) /\ 1 \in 0..Len(q) /\ 1 = 2 - 1
    BY <1>1
  <2>2. ASSUME NEW i \in 1..Len(q), NEW p \in 0..Len(q), p = i - 1 PROVE F[i] = F[p] \o q[i]
    BY <1>1, <1>2, <2>2, JoinsStep, Zenon
  <2> QED
    BY <2>1, <2>2
<1>4. F[0] = <<>>
  BY <1>2 DEF Joins
<1>5. <<>> \o a = a
  BY ConcatEmptySeq
<1> QED
  BY <1>1, <1>2, <1>3, <1>4, <1>5 DEF q

LEMMA RowIs == ASSUME NEW c \in Seq(Symbols) PROVE IsRow(EncodeRow(CellsOf(c)), c)
<1> DEFINE q(cells) == [n \in DOMAIN cells |-> (IF n = 1 THEN <<>> ELSE <<",">>) \o EncodeField(cells[n])]
<1>1. EncodeField(c) \in Seq(Symbols) /\ Len(EncodeField(c)) \in Nat
  BY FieldIs
<1>2. PICK e : e = EncodeField(c)
  OBVIOUS
<1>3. "id" \in Symbols /\ "," \in Symbols
  BY DEF Symbols
<1>4. CASE ~withId
  <2>1. q(<<c>>) = <<<<>> \o e>>
    BY <1>2
  <2>2. <<>> \o e = e
    BY <1>1, <1>2, ConcatEmptySeq
  <2>3. EncodeRow(CellsOf(c)) = FlattenSeq(<<e>>)
    BY <1>4, <2>1, <2>2 DEF EncodeRow, CellsOf
  <2>4. EncodeRow(CellsOf(c)) = e
    BY <1>1, <1>2, <2>3, FlatOne
  <2>5. Lead = 0 /\ \A k \in 1..Len(e) : Lead + k = k
    BY <1>1, <1>2, <1>4 DEF Lead
  <2>6. Len(e) = Lead + Len(e)
    BY <1>1, <1>2, <2>5
  <2> QED
    BY <1>1, <1>2, <1>4, <2>4, <2>5, <2>6 DEF IsRow
<1>5. CASE withId
  <2>1. EncodeField(<<"id">>) = <<"id">>
    <3>1. ToSet(<<"id">>) = {"id"}
      BY DEF ToSet
    <3> QED
      BY <3>1 DEF EncodeField, NeedsQuotes, Quote, CR, LF
  <2>2. q(<<<<"id">>, c>>) = <<<<>> \o EncodeField(<<"id">>), <<",">> \o e>>
    <3>1. PICK cells : cells = <<<<"id">>, c>>
      OBVIOUS
    <3>2. DOMAIN cells = {1, 2} /\ cells[1] = <<"id">> /\ cells[2] = c /\ 1 # 2
      BY <3>1
    <3>3. q(cells) = [n \in {1, 2} |-> IF n = 1 THEN <<>> \o EncodeField(<<"id">>) ELSE <<",">> \o e]
      BY <1>2, <3>2
    <3>4. ASSUME NEW a, NEW b PROVE [n \in {1, 2} |-> IF n = 1 THEN a ELSE b] = <<a, b>>
      OBVIOUS
    <3> QED
      BY <3>1, <3>3, <3>4
  <2>3. <<"id">> \in Seq(Symbols) /\ <<",">> \o e \in Seq(Symbols)
    <3>1. ASSUME NEW a \in Symbols, NEW b \in Symbols, NEW f \in Seq(Symbols)
          PROVE  <<a>> \in Seq(Symbols) /\ <<b>> \o f \in Seq(Symbols)
      OBVIOUS
    <3> QED
      BY <1>1, <1>2, <1>3, <3>1
  <2>4. <<>> \o EncodeField(<<"id">>) = <<"id">>
    BY <2>1, <2>3, ConcatEmptySeq
  <2>5. EncodeRow(CellsOf(c)) = FlattenSeq(<<<<"id">>, <<",">> \o e>>)
    BY <1>5, <2>2, <2>4 DEF EncodeRow, CellsOf
  <2>6. EncodeRow(CellsOf(c)) = <<"id">> \o (<<",">> \o e)
    BY <2>3, <2>5, FlatTwo
  <2>7. PICK r : r = EncodeRow(CellsOf(c))
    OBVIOUS
  <2>8. /\ r \in Seq(Symbols) /\ Len(r) = 2 + Len(e) /\ r[1] = "id" /\ r[2] = ","
        /\ \A k \in 1..Len(e) : r[2 + k] = e[k]
    <3>1. r = <<"id">> \o (<<",">> \o e) /\ e \in Seq(Symbols)
      BY <1>1, <1>2, <2>6, <2>7
    <3>2. e \in Seq(Symbols)
      BY <3>1
    <3>3. PICK a \in Symbols, b \in Symbols : a = "id" /\ b = ","
      BY <1>3
    <3>4. r = <<a>> \o (<<b>> \o e)
      BY <3>1, <3>3
    <3>5. /\ r \in Seq(Symbols) /\ Len(r) = 2 + Len(e) /\ r[1] = a /\ r[2] = b
          /\ \A k \in 1..Len(e) : r[2 + k] = e[k]
      BY <3>2, <3>4
    <3> QED
      BY <3>3, <3>5
  <2> QED
    BY <1>2, <1>5, <2>7, <2>8 DEF IsRow, Lead
<1> QED
  BY <1>4, <1>5

(* The rows of a file, of which the first is its header, and where each begins.              *)
ColumnTypes == {"text", "number", "bool", "json", "select", "relation"}
ColumnTyped ==
  /\ withId \in BOOLEAN /\ source.type \in ColumnTypes
  /\ source.values \in Seq(Holds(source.type)) /\ text = Encoded(source.values)
Height == Len(source.values)
CellOf(j) == IF j = 0 THEN <<"col">> ELSE source.values[j].s
RowOf(j) == EncodeRow(CellsOf(CellOf(j)))
Layout(b) ==
  /\ b \in [0..(Height + 1) -> Nat] /\ b[0] = 0 /\ b[Height + 1] = Len(text) + 2 /\ Len(text) \in Nat
  /\ \A j \in 0..Height : /\ b[j + 1] = b[j] + Len(RowOf(j)) + 2
                          /\ \A k \in 1..Len(RowOf(j)) : text[b[j] + k] = RowOf(j)[k]
                          /\ j > 0 => b[j] <= Len(text) /\ text[b[j] - 1] = CR /\ text[b[j]] = LF

LEMMA HoldsTexts ==
  ASSUME NEW type \in ColumnTypes, NEW v \in Holds(type)
  PROVE  v.s \in Seq(Symbols) /\ v = Value(v.kind, v.s)
<1>1. \A w \in Strings : w.s \in Seq(Symbols) /\ w = Value(w.kind, w.s)
  <2> SUFFICES ASSUME NEW n \in 0..MaxLength, NEW s \in [1..n -> Chars]
        PROVE  s \in Seq(Symbols) /\ Value("str", s).s = s /\ Value("str", s).kind = "str"
    BY DEF Strings
  <2>1. n \in Nat /\ Chars \subseteq Symbols
    <3>1. MaxLength \in Nat
      BY CsvAssumption DEF CsvAssumption
    <3>2. n \in Nat
      BY <3>1
    <3>3. Chars \subseteq Symbols
      BY DEF Symbols
    <3> QED
      BY <3>2, <3>3
  <2>2. s \in Seq(Chars)
    BY <2>1
  <2> QED
    BY <2>1, <2>2, SeqMonotonic DEF Value
<1>2. \A w \in {Null} \cup Numbers \cup Booleans \cup Lists : w.s \in Seq(Symbols) /\ w = Value(w.kind, w.s)
  <2>1. {"1", "true", "false", "[", "]"} \subseteq Symbols
    BY DEF Symbols
  <2>2. \A a \in Symbols, b \in Symbols, d \in Symbols :
          {<<>>, <<a>>, <<a, b>>, <<a, b, d>>} \subseteq Seq(Symbols)
    OBVIOUS
  <2>3. \A kind, s : Value(kind, s).s = s /\ Value(kind, s).kind = kind
    BY DEF Value
  <2>4. \A w \in {Null} \cup Numbers \cup Booleans \cup Lists : \E kind : \E s \in Seq(Symbols) : w = Value(kind, s)
    BY <2>1, <2>2 DEF Null, Numbers, Booleans, Lists
  <2> QED
    BY <2>3, <2>4
<1>3. v \in {Null} \cup Strings \cup Numbers \cup Booleans \cup Lists
  BY DEF Holds, ColumnTypes
<1> QED
  BY <1>1, <1>2, <1>3

LEMMA CellsTyped == ASSUME ColumnTyped, NEW j \in 0..Height PROVE CellOf(j) \in Seq(Symbols)
<1>1. CASE j = 0
  <2>1. "col" \in Symbols
    BY DEF Symbols
  <2>2. \A a \in Symbols : <<a>> \in Seq(Symbols)
    OBVIOUS
  <2> QED
    BY <1>1, <2>1, <2>2 DEF CellOf
<1>2. CASE j # 0
  <2>1. source.values[j] \in Holds(source.type)
    BY <1>2 DEF ColumnTyped, Height
  <2>2. source.values[j].s \in Seq(Symbols)
    BY <2>1, HoldsTexts DEF ColumnTyped
  <2> QED
    BY <1>2, <2>2 DEF CellOf
<1> QED
  BY <1>1, <1>2

LEMMA FileRowsTyped ==
  ASSUME ColumnTyped, NEW j \in 0..Height
  PROVE  IsRow(RowOf(j), CellOf(j)) /\ RowOf(j) \in Seq(Symbols) /\ Len(RowOf(j)) \in Nat
<1>1. IsRow(RowOf(j), CellOf(j))
  BY CellsTyped, RowIs DEF RowOf
<1>2. RowOf(j) \in Seq(Symbols)
  BY <1>1 DEF IsRow
<1> QED
  BY <1>1, <1>2

LEMMA TextLaid == ColumnTyped => \E b : Layout(b)
<1> SUFFICES ASSUME ColumnTyped PROVE \E b : Layout(b)
  OBVIOUS
<1> DEFINE q == [n \in DOMAIN source.values |-> <<CR, LF>> \o EncodeRow(Cells(source.values[n]))]
<1>1. /\ Height \in Nat /\ DOMAIN source.values = 1..Height
      /\ \A j \in 0..Height : RowOf(j) \in Seq(Symbols) /\ Len(RowOf(j)) \in Nat
  BY FileRowsTyped DEF ColumnTyped, Height
<1>2. \A j \in 1..Height : q[j] = <<CR, LF>> \o RowOf(j)
  <2> SUFFICES ASSUME NEW j \in 1..Height PROVE q[j] = <<CR, LF>> \o RowOf(j)
    OBVIOUS
  <2>1. j \in DOMAIN source.values /\ j # 0
    BY <1>1
  <2>2. Cells(source.values[j]) = CellsOf(CellOf(j))
    BY <2>1 DEF Cells, CellsOf, CellOf
  <2> QED
    BY <2>1, <2>2 DEF RowOf
<1>3. text = RowOf(0) \o FlattenSeq(q)
  BY DEF ColumnTyped, Encoded, RowOf, Header, CellsOf, CellOf
<1>4. CR \in Symbols /\ LF \in Symbols
  BY DEF Symbols
<1>5. DOMAIN q = 1..Height
  BY <1>1
<1> HIDE DEF q
<1>6. ASSUME NEW j \in 1..Height
      PROVE  /\ q[j] \in Seq(Symbols) /\ Len(q[j]) = Len(RowOf(j)) + 2 /\ q[j][1] = CR /\ q[j][2] = LF
             /\ \A k \in 1..Len(RowOf(j)) : q[j][k + 2] = RowOf(j)[k]
  <2>1. PICK x \in Symbols, y \in Symbols : x = CR /\ y = LF
    BY <1>4
  <2>2. PICK r \in Seq(Symbols) : r = RowOf(j)
    BY <1>1
  <2>3. q[j] = <<x, y>> \o r
    BY <1>2, <2>1, <2>2
  <2>4. /\ q[j] \in Seq(Symbols) /\ Len(q[j]) = Len(r) + 2 /\ q[j][1] = x /\ q[j][2] = y
        /\ \A k \in 1..Len(r) : q[j][k + 2] = r[k]
    BY <2>3
  <2> QED
    BY <2>1, <2>2, <2>4
<1>7. q \in Seq(Seq(Symbols)) /\ Len(q) = Height
  <2>1. q = [n \in 1..Height |-> q[n]]
    BY <1>5 DEF q
  <2> QED
    BY <1>1, <1>6, <2>1
<1>8. PICK at : Lays(q, FlattenSeq(q), at) /\ FlattenSeq(q) \in Seq(Symbols)
  BY <1>7, LaysIs
<1>9. PICK T : T = FlattenSeq(q)
  OBVIOUS
<1>10. at \in [0..Height -> Nat] /\ at[0] = 0 /\ Len(T) = at[Height]
  BY <1>7, <1>8, <1>9 DEF Lays
<1>11. PICK b : b = [j \in 0..(Height + 1) |-> IF j = 0 THEN 0 ELSE Len(RowOf(0)) + at[j - 1] + 2]
  OBVIOUS
<1>12. 0 \in 0..Height /\ RowOf(0) \in Seq(Symbols) /\ Len(RowOf(0)) \in Nat /\ T \in Seq(Symbols) /\ Len(T) \in Nat
  BY <1>1, <1>8, <1>9
<1>13. /\ Len(text) = Len(RowOf(0)) + Len(T)
       /\ \A k \in 1..Len(RowOf(0)) : text[k] = RowOf(0)[k]
       /\ \A k \in 1..Len(T) : text[Len(RowOf(0)) + k] = T[k]
  BY <1>3, <1>9, <1>12, AppendedIs
<1>14. \A j \in 1..(Height + 1) : j - 1 \in 0..Height /\ b[j] = Len(RowOf(0)) + at[j - 1] + 2
  BY <1>1, <1>11
<1>15. b \in [0..(Height + 1) -> Nat]
  BY <1>1, <1>10, <1>11, <1>12
<1>16. b[0] = 0 /\ b[Height + 1] = Len(text) + 2 /\ Len(text) \in Nat
  BY <1>1, <1>10, <1>11, <1>13, <1>14
<1>17. ASSUME NEW j \in 0..Height
       PROVE  /\ b[j + 1] = b[j] + Len(RowOf(j)) + 2
              /\ \A k \in 1..Len(RowOf(j)) : text[b[j] + k] = RowOf(j)[k]
              /\ j > 0 => b[j] <= Len(text) /\ text[b[j] - 1] = CR /\ text[b[j]] = LF
  <2>1. CASE j = 0
    <3>1. b[1] = Len(RowOf(0)) + at[0] + 2
      BY <1>1, <1>14
    <3> QED
      BY <1>10, <1>12, <1>13, <1>16, <2>1, <3>1
  <2>2. CASE j # 0
    <3>1. j \in 1..Height /\ j \in 1..(Height + 1) /\ j + 1 \in 1..(Height + 1) /\ (j + 1) - 1 = j /\ j - 1 \in 0..Height
      BY <1>1, <2>2
    <3>2. b[j] = Len(RowOf(0)) + at[j - 1] + 2 /\ b[j + 1] = Len(RowOf(0)) + at[j] + 2
      BY <1>14, <3>1
    <3>3. /\ at[j] = at[j - 1] + Len(q[j]) /\ at[j] <= Len(T)
          /\ \A k \in 1..Len(q[j]) : T[at[j - 1] + k] = q[j][k]
      BY <1>7, <1>8, <1>9, <3>1 DEF Lays
    <3>4. at[j - 1] \in Nat /\ at[j] \in Nat /\ Len(RowOf(j)) \in Nat
      BY <1>1, <1>10, <3>1
    <3>5. Len(q[j]) = Len(RowOf(j)) + 2
      BY <1>6, <3>1
    <3>10. PICK h \in Nat, a \in Nat, l \in Nat : h = Len(RowOf(0)) /\ a = at[j - 1] /\ l = Len(RowOf(j))
      BY <1>12, <3>4
    <3>11. b[j] = h + a + 2 /\ b[j + 1] = h + (a + (l + 2)) + 2
      BY <3>2, <3>3, <3>5, <3>10
    <3>6. \A k \in 1..(Len(RowOf(j)) + 2) : at[j - 1] + k \in 1..Len(T) /\ text[Len(RowOf(0)) + (at[j - 1] + k)] = q[j][k]
      <4> TAKE k \in 1..(Len(RowOf(j)) + 2)
      <4>1. at[j - 1] + k \in 1..Len(T)
        BY <1>12, <3>3, <3>4, <3>5
      <4> QED
        BY <1>13, <3>3, <3>5, <4>1
    <3>7. b[j + 1] = b[j] + Len(RowOf(j)) + 2
      <4>1. h + (a + (l + 2)) + 2 = (h + a + 2) + l + 2
        OBVIOUS
      <4>2. b[j + 1] = (h + a + 2) + l + 2
        BY <3>11, <4>1
      <4>3. b[j + 1] = b[j] + l + 2
        BY <3>11, <4>2
      <4> QED
        BY <3>10, <4>3
    <3>8. ASSUME NEW k \in 1..Len(RowOf(j)) PROVE text[b[j] + k] = RowOf(j)[k]
      <4>1. k + 2 \in 1..(Len(RowOf(j)) + 2) /\ b[j] + k = Len(RowOf(0)) + (at[j - 1] + (k + 2))
        <5>1. \A i \in 1..l : i + 2 \in 1..(l + 2) /\ h + a + 2 + i = h + (a + (i + 2))
          OBVIOUS
        <5>2. k \in 1..l
          BY <3>10
        <5>3. k + 2 \in 1..(l + 2) /\ (h + a + 2) + k = h + (a + (k + 2))
          BY <5>1, <5>2
        <5>4. k + 2 \in 1..(Len(RowOf(j)) + 2) /\ (h + a + 2) + k = Len(RowOf(0)) + (at[j - 1] + (k + 2))
          BY <3>10, <5>3
        <5> QED
          BY <3>11, <5>4
      <4> QED
        BY <1>6, <3>1, <3>6, <4>1
    <3>9. text[b[j] - 1] = CR /\ text[b[j]] = LF
      <4>1. /\ 1 \in 1..(Len(RowOf(j)) + 2) /\ 2 \in 1..(Len(RowOf(j)) + 2)
            /\ b[j] - 1 = Len(RowOf(0)) + (at[j - 1] + 1) /\ b[j] = Len(RowOf(0)) + (at[j - 1] + 2)
        BY <1>12, <3>2, <3>4
      <4> QED
        BY <1>6, <3>1, <3>6, <4>1
    <3>12. b[j] <= Len(text)
      <4>1. ASSUME NEW f \in Nat, a + (l + 2) <= f PROVE h + a + 2 <= h + f
        BY <4>1
      <4>2. h + a + 2 <= h + Len(T)
        BY <1>12, <3>3, <3>5, <3>10, <4>1
      <4> QED
        BY <1>13, <3>10, <3>11, <4>2
    <3> QED
      BY <3>7, <3>8, <3>9, <3>12
  <2> QED
    BY <2>1, <2>2
<1> QED
  BY <1>15, <1>16, <1>17, Zenon DEF Layout

-----------------------------------------------------------------------------
(* What a cell reads back as.                                                                 *)
LEMMA CoreIs ==
  ASSUME NEW c \in Seq(Symbols)
  PROVE  /\ Core(c) \in Seq(Symbols)
         /\ (\A n \in 1..Len(c) : c[n] \notin Spaces) => Core(c) = c
         /\ c # <<>> /\ c[1] \notin Spaces => Len(Core(c)) \in Nat \ {0} /\ Core(c)[1] = c[1]
<1> DEFINE q == [n \in DOMAIN c |-> IF c[n] \in Spaces THEN <<>> ELSE <<c[n]>>]
<1>1. Len(c) \in Nat /\ DOMAIN c = 1..Len(c) /\ \A i \in 1..Len(c) : c[i] \in Symbols
  OBVIOUS
<1>2. \A i \in 1..Len(c) : q[i] \in Seq(Symbols)
  BY <1>1
<1>3. q \in Seq(Seq(Symbols)) /\ Len(q) = Len(c)
  BY <1>1, <1>2
<1>4. \A i \in 1..Len(c) : c[i] \notin Spaces => Len(q[i]) = 1 /\ q[i][1] = c[i]
  BY <1>1
<1>5. Core(c) = FlattenSeq(q)
  BY DEF Core
<1> HIDE DEF q
<1>6. Core(c) \in Seq(Symbols)
  BY <1>3, <1>5, LaysIs
<1>7. PICK at : Lays(q, Core(c), at)
  BY <1>3, <1>5, LaysIs
<1>8. at \in [0..Len(c) -> Nat] /\ at[0] = 0 /\ Len(Core(c)) = at[Len(c)]
  BY <1>3, <1>7 DEF Lays
<1>9. ASSUME NEW i \in 1..Len(c), c[i] \notin Spaces
      PROVE  at[i] = at[i - 1] + 1 /\ at[i] <= Len(Core(c)) /\ Core(c)[at[i - 1] + 1] = c[i]
  <2>1. /\ at[i] = at[i - 1] + Len(q[i]) /\ at[i] <= Len(Core(c))
        /\ \A k \in 1..Len(q[i]) : Core(c)[at[i - 1] + k] = q[i][k]
    BY <1>3, <1>7 DEF Lays
  <2>2. Len(q[i]) = 1 /\ q[i][1] = c[i] /\ 1 \in 1..1
    BY <1>4, <1>9
  <2> QED
    BY <2>1, <2>2
<1>10. ASSUME \A n \in 1..Len(c) : c[n] \notin Spaces PROVE Core(c) = c
  <2> DEFINE T == {i \in 0..Len(c) : at[i] # i}
  <2>1. T = {}
    <3> SUFFICES ASSUME T # {} PROVE FALSE
      OBVIOUS
    <3>1. T \in SUBSET Nat
      OBVIOUS
    <3>2. PICK t \in T : \A y \in T : t <= y
      BY <3>1, SmallestIs DEF SmallestNat
    <3>3. t # 0
      BY <1>8, <3>2
    <3>4. t \in 1..Len(c) /\ t - 1 \in 0..Len(c) /\ ~(t - 1 \in T) /\ (t - 1) + 1 = t
      BY <1>1, <3>2, <3>3
    <3>5. at[t - 1] = t - 1 /\ at[t] = at[t - 1] + 1
      BY <1>9, <1>10, <3>4
    <3> QED
      BY <3>2, <3>4, <3>5
  <2>2. Len(Core(c)) = Len(c)
    BY <1>1, <1>8, <2>1
  <2>3. ASSUME NEW i \in 1..Len(c) PROVE Core(c)[i] = c[i]
    <3>1. i - 1 \in 0..Len(c) /\ (i - 1) + 1 = i
      BY <1>1
    <3>2. at[i - 1] = i - 1
      BY <2>1, <3>1
    <3> QED
      BY <1>9, <1>10, <3>1, <3>2
  <2> QED
    BY <1>6, <2>2, <2>3, SeqEqual
<1>11. ASSUME c # <<>>, c[1] \notin Spaces PROVE Len(Core(c)) \in Nat \ {0} /\ Core(c)[1] = c[1]
  <2>1. 1 \in 1..Len(c) /\ 1 - 1 = 0
    BY <1>1, <1>11
  <2>2. at[1] = at[1 - 1] + 1 /\ at[1] <= Len(Core(c)) /\ Core(c)[at[1 - 1] + 1] = c[1]
    BY <1>9, <1>11, <2>1
  <2>3. Len(Core(c)) \in Nat
    BY <1>6
  <2> QED
    BY <1>8, <2>2, <2>3
<1> QED
  BY <1>6, <1>10, <1>11

LEMMA JsonReads ==
  /\ \A v \in Numbers \cup Booleans \cup Lists : JsonOf(v.s) = v
  /\ \A s \in Seq(Symbols) : s # <<>> /\ s[1] = "[" /\ JsonOf(s) # Null => Value("list", Core(s)) \in Lists
<1>1. ASSUME NEW v \in Numbers \cup Booleans \cup Lists PROVE JsonOf(v.s) = v
  <2>1. v.s \in Seq(Symbols) /\ \A n \in 1..Len(v.s) : v.s[n] \notin Spaces
    <3>1. {"1", "true", "false", "[", "]"} \subseteq Symbols /\ {"1", "true", "false", "[", "]"} \cap Spaces = {}
      BY DEF Symbols, Spaces, CR, LF
    <3>2. \A a \in Symbols \ Spaces, b \in Symbols \ Spaces, d \in Symbols \ Spaces :
            \A s \in {<<a>>, <<a, b>>, <<a, b, d>>} : s \in Seq(Symbols) /\ \A n \in 1..Len(s) : s[n] \notin Spaces
      <4> SUFFICES ASSUME NEW a \in Symbols \ Spaces, NEW b \in Symbols \ Spaces, NEW d \in Symbols \ Spaces
            PROVE  \A s \in {<<a>>, <<a, b>>, <<a, b, d>>} : s \in Seq(Symbols) /\ \A n \in 1..Len(s) : s[n] \notin Spaces
        OBVIOUS
      <4>1. <<a>> \in Seq(Symbols) /\ \A n \in 1..Len(<<a>>) : <<a>>[n] \notin Spaces
        OBVIOUS
      <4>2. <<a, b>> \in Seq(Symbols) /\ \A n \in 1..Len(<<a, b>>) : <<a, b>>[n] \notin Spaces
        OBVIOUS
      <4>3. <<a, b, d>> \in Seq(Symbols) /\ \A n \in 1..Len(<<a, b, d>>) : <<a, b, d>>[n] \notin Spaces
        OBVIOUS
      <4> QED
        BY <4>1, <4>2, <4>3
    <3>3. \E a \in Symbols \ Spaces, b \in Symbols \ Spaces, d \in Symbols \ Spaces : v.s \in {<<a>>, <<a, b>>, <<a, b, d>>}
      BY <3>1 DEF Numbers, Booleans, Lists, Value
    <3> QED
      BY <3>2, <3>3
  <2>2. Core(v.s) = v.s
    BY <2>1, CoreIs
  <2>3. CASE v \in Lists
    <3>1. v = Value("list", v.s)
      BY <2>3 DEF Lists, Value
    <3> QED
      BY <2>2, <2>3, <3>1 DEF JsonOf
  <2>4. CASE v \in Booleans
    <3>1. v = Value("bool", v.s) /\ Value("list", v.s) \notin Lists
      BY <2>4 DEF Booleans, Lists, Value
    <3> QED
      BY <2>2, <2>4, <3>1 DEF JsonOf
  <2>5. CASE v \in Numbers
    <3>1. v = Value("num", v.s) /\ Value("list", v.s) \notin Lists /\ Value("bool", v.s) \notin Booleans
      BY <2>5 DEF Numbers, Booleans, Lists, Value
    <3>2. ToSet(v.s) = {"1"}
      BY <2>5 DEF Numbers, Value, ToSet
    <3>3. OneWord(v.s)
      <4>1. Len(v.s) \in Nat \ {0} /\ DOMAIN v.s = 1..Len(v.s)
        <5>1. v.s = <<"1">> \/ v.s = <<"1", "1">>
          BY <2>5 DEF Numbers, Value
        <5>2. \A a, b : Len(<<a>>) = 1 /\ Len(<<a, b>>) = 2 /\ DOMAIN <<a>> = 1..1 /\ DOMAIN <<a, b>> = 1..2
          OBVIOUS
        <5> QED
          BY <5>1, <5>2
      <4>2. 1 \in DOMAIN v.s /\ Len(v.s) \in DOMAIN v.s /\ \A n \in DOMAIN v.s : n \in 1..Len(v.s) <=> v.s[n] \notin Spaces
        BY <2>1, <4>1
      <4> QED
        BY <4>2 DEF OneWord
    <3> QED
      BY <2>2, <3>1, <3>2, <3>3 DEF JsonOf
  <2> QED
    BY <2>3, <2>4, <2>5
<1>2. ASSUME NEW s \in Seq(Symbols), s # <<>>, s[1] = "[", JsonOf(s) # Null, Value("list", Core(s)) \notin Lists PROVE FALSE
  <2>1. s[1] \notin Spaces
    BY <1>2 DEF Spaces, CR, LF
  <2>2. Len(Core(s)) \in Nat \ {0} /\ Core(s)[1] = "["
    BY <1>2, <2>1, CoreIs
  <2>3. Value("bool", Core(s)) \notin Booleans
    BY <2>2 DEF Booleans, Value
  <2>4. ToSet(Core(s)) # {"1"}
    <3>1. Core(s) \in Seq(Symbols)
      BY CoreIs
    <3>2. 1 \in DOMAIN Core(s)
      BY <2>2, <3>1
    <3> QED
      BY <2>2, <3>2 DEF ToSet
  <2>5. Core(s)[1] # Quote
    BY <2>2 DEF Quote
  <2> QED
    BY <1>2, <2>3, <2>4, <2>5 DEF JsonOf
<1> QED
  BY <1>1, <1>2

LEMMA ReadsBack ==
  ASSUME NEW type \in ColumnTypes, NEW v \in Holds(type)
  PROVE  Decode(type, v.s) = v \/ Blurred(type, v)
<1>1. Null.s = <<>> /\ Null.kind = "null" /\ Value("str", <<>>).s = <<>>
  BY DEF Null, Value
<1>2. \A w \in Strings : w = Value("str", w.s) /\ w.kind = "str" /\ w # Null
  BY DEF Strings, Value, Null
<1>3. \A w \in Numbers \cup Booleans \cup Lists : w.s # <<>> /\ w # Null
  BY DEF Numbers, Booleans, Lists, Value, Null
<1>4. v.s \in Seq(Symbols)
  BY HoldsTexts
<1>5. CASE type = "text"
  <2>1. v = Null \/ v \in Strings
    BY <1>5 DEF Holds
  <2> QED
    BY <1>2, <1>5, <2>1 DEF Decode, Blurred
<1>6. CASE v = Null /\ type # "text"
  BY <1>1, <1>6 DEF Decode
<1>7. CASE v \in Strings /\ v.s = <<>> /\ type # "text"
  BY <1>2, <1>7 DEF Blurred
<1>8. CASE type = "number" /\ v # Null
  <2>1. v \in Numbers
    BY <1>8 DEF Holds
  <2>2. ToSet(v.s) = {"1"} /\ v = Value("num", v.s)
    BY <2>1 DEF Numbers, Value, ToSet
  <2> QED
    BY <1>3, <1>8, <2>1, <2>2 DEF Decode, OrText
<1>9. CASE type = "bool" /\ v # Null
  <2>1. v \in Booleans
    BY <1>9 DEF Holds
  <2> QED
    BY <1>3, <1>9, <2>1 DEF Decode, Booleans, Value
<1>10. CASE type = "json" /\ v # Null /\ ~(v \in Strings /\ v.s = <<>>)
  <2>1. CASE v \in Strings
    BY <1>2, <1>10, <2>1 DEF Decode, OrText, Blurred
  <2>2. CASE v \in Numbers \cup Booleans \cup Lists
    <3>1. JsonOf(v.s) = v
      BY <2>2, JsonReads
    <3> QED
      BY <1>3, <1>10, <2>2, <3>1 DEF Decode, OrText
  <2> QED
    BY <1>10, <2>1, <2>2 DEF Holds
<1>11. CASE type = "select" /\ v # Null /\ ~(v \in Strings /\ v.s = <<>>)
  <2>1. CASE v \in Strings
    <3>1. CASE v.s[1] = "[" /\ JsonOf(v.s) # Null
      <4>1. Value("list", Core(v.s)) \in Lists
        BY <1>4, <1>11, <2>1, <3>1, JsonReads
      <4> QED
        BY <1>2, <1>11, <2>1, <3>1, <4>1 DEF Blurred
    <3>2. CASE ~(v.s[1] = "[" /\ JsonOf(v.s) # Null)
      BY <1>2, <1>11, <2>1, <3>2 DEF Decode, OrText
    <3> QED
      BY <3>1, <3>2
  <2>2. CASE v \in Lists
    <3>1. JsonOf(v.s) = v /\ v.s[1] = "["
      BY <2>2, JsonReads DEF Lists, Value
    <3> QED
      BY <1>3, <1>11, <2>2, <3>1 DEF Decode, OrText
  <2> QED
    BY <1>11, <2>1, <2>2 DEF Holds
<1>12. CASE type = "relation" /\ v # Null /\ ~(v \in Strings /\ v.s = <<>>)
  <2>1. CASE v \in Strings
    BY <1>2, <1>12, <2>1 DEF Decode
  <2>2. CASE v \in Lists
    BY <1>12, <2>2 DEF Blurred, Lists, Value
  <2> QED
    BY <1>12, <2>1, <2>2 DEF Holds
<1> QED
  BY <1>5, <1>6, <1>7, <1>8, <1>9, <1>10, <1>11, <1>12 DEF ColumnTypes

-----------------------------------------------------------------------------
(* The parser in a cell c whose text begins after p, and what comes after its text.             *)
End(c, p) == p + Len(EncodeField(c))
Holding(c, p) ==
  /\ c \in Seq(Symbols) /\ p \in Nat /\ Len(text) \in Nat /\ End(c, p) <= Len(text)
  /\ \A k \in 1..Len(EncodeField(c)) : text[p + k] = EncodeField(c)[k]
  /\ \/ End(c, p) = Len(text)
     \/ End(c, p) + 2 <= Len(text) /\ text[End(c, p) + 1] = CR /\ text[End(c, p) + 2] = LF

Plain(c, p, k) == ~NeedsQuotes(c) /\ ~quoted /\ pos = p + k + 1 /\ field = SubSeq(c, 1, k)
Opening(c, p) == NeedsQuotes(c) /\ ~quoted /\ pos = p + 1 /\ field = <<>>
Inside(c, p, at, k) == NeedsQuotes(c) /\ quoted /\ pos = p + at[k] + 2 /\ field = SubSeq(c, 1, k)
Closed(c, p) == ~quoted /\ pos = End(c, p) + 1 /\ field = c
InCell(c, p) ==
  \/ \E k \in 0..Len(c) : Plain(c, p, k)
  \/ Opening(c, p)
  \/ \E at : Doubles(c, at) /\ \E k \in 0..Len(c) : Inside(c, p, at, k)
  \/ Closed(c, p)
Same == UNCHANGED <<line, grid, text, source, withId>>

LEMMA NextSymbol ==
  ASSUME NEW c \in Seq(Symbols), NEW k \in 0..(Len(c) - 1)
  PROVE  Append(SubSeq(c, 1, k), c[k + 1]) = SubSeq(c, 1, k + 1)
OBVIOUS

LEMMA AllOf == ASSUME NEW c \in Seq(Symbols) PROVE SubSeq(c, 1, Len(c)) = c /\ SubSeq(c, 1, 0) = <<>>
OBVIOUS

LEMMA PlainStep ==
  ASSUME NEW c, NEW p, Holding(c, p), NEW k \in 0..Len(c), Plain(c, p, k), k # Len(c), CsvNext
  PROVE  Plain(c, p, k + 1)' /\ Same /\ k + 1 \in 0..Len(c)
<1>1. c \in Seq(Symbols) /\ p \in Nat /\ Len(c) \in Nat /\ EncodeField(c) = c /\ p + Len(c) <= Len(text) /\ Len(text) \in Nat
  BY FieldIs DEF Holding, Plain, End
<1>2. k + 1 \in 1..Len(c) /\ k + 1 \in 0..Len(c) /\ k \in 0..(Len(c) - 1)
  BY <1>1
<1>3. text[p + (k + 1)] = c[k + 1]
  BY <1>1, <1>2 DEF Holding
<1>4. pos = p + (k + 1) /\ pos <= Len(text) /\ pos + 1 = p + (k + 1) + 1
  BY <1>1, <1>2 DEF Plain
<1>5. Char = c[k + 1] /\ pos # Len(text) + 1
  BY <1>1, <1>3, <1>4 DEF Char
<1>6. Char \notin {",", Quote, CR, LF}
  <2>1. c[k + 1] \in ToSet(c)
    BY <1>1, <1>2 DEF ToSet
  <2> QED
    BY <1>5, <2>1 DEF Plain, NeedsQuotes
<1>7. ReadPlain
  <2>1. ~quoted /\ Char # Quote /\ Char # "," /\ Char \notin Spaces /\ pos # Len(text) + 1
    BY <1>5, <1>6 DEF Plain, Spaces
  <2>2. ~ReadQuoted /\ ~OpenQuote /\ ~EndField /\ ~EndLine /\ ~EndText
    BY <2>1 DEF ReadQuoted, OpenQuote, EndField, EndLine, EndText
  <2> QED
    BY <2>2 DEF CsvNext
<1>8. field' = SubSeq(c, 1, k + 1)
  BY <1>1, <1>2, <1>5, <1>7, NextSymbol DEF ReadPlain, Plain
<1>9. pos' = p + (k + 1) + 1 /\ ~quoted' /\ Same
  BY <1>4, <1>7 DEF ReadPlain, Plain, Same
<1> QED
  BY <1>2, <1>8, <1>9 DEF Plain

LEMMA OpeningStep ==
  ASSUME NEW c, NEW p, Holding(c, p), Opening(c, p), CsvNext
  PROVE  \E at : Doubles(c, at) /\ Inside(c, p, at, 0)' /\ Same
<1>1. c \in Seq(Symbols) /\ p \in Nat /\ Len(text) \in Nat
  BY DEF Holding
<1>2. /\ Doubled(c) \in Seq(Symbols) /\ EncodeField(c)[1] = Quote
      /\ Len(EncodeField(c)) = Len(Doubled(c)) + 2 /\ Len(Doubled(c)) \in Nat
  BY <1>1, FieldIs, DoubledIs DEF Opening
<1>3. PICK at : Doubles(c, at)
  BY <1>1, DoubledIs
<1>4. pos = p + 1 /\ pos <= Len(text) /\ text[p + 1] = Quote
  BY <1>1, <1>2 DEF Holding, End, Opening
<1>5. OpenQuote
  <2>1. pos # Len(text) + 1
    <3>1. ASSUME NEW x, NEW l \in Nat, NEW a \in Nat, x = a + 1, x <= l PROVE x # l + 1
      BY <3>1
    <3> QED
      BY <1>1, <1>4, <3>1
  <2>2. Quote \notin {","} \cup Spaces
    BY DEF Quote, Spaces, CR, LF
  <2>3. Char = Quote /\ ~quoted /\ field = <<>>
    BY <1>4 DEF Char, Opening
  <2> QED
    BY <2>1, <2>2, <2>3 DEF CsvNext, ReadQuoted, EndField, EndLine, EndText, ReadPlain
<1>6. pos' = p + at[0] + 2
  <2>1. at[0] = 0
    BY <1>3 DEF Doubles
  <2> QED
    BY <1>1, <1>4, <1>5, <2>1 DEF OpenQuote
<1>7. field' = SubSeq(c, 1, 0) /\ quoted' /\ Same
  BY <1>1, <1>5, AllOf DEF OpenQuote, Opening, Same
<1> QED
  BY <1>3, <1>6, <1>7 DEF Inside, Opening

LEMMA WithinStep ==
  ASSUME NEW c, NEW p, Holding(c, p), NEW at, Doubles(c, at), NEW k \in 0..Len(c), Inside(c, p, at, k), CsvNext
  PROVE  Same /\ (Closed(c, p)' \/ (k + 1 \in 0..Len(c) /\ Inside(c, p, at, k + 1)'))
<1> DEFINE d == Doubled(c)
           e == EncodeField(c)
<1>1. c \in Seq(Symbols) /\ p \in Nat /\ Len(text) \in Nat /\ Len(c) \in Nat
  BY DEF Holding
<1>2. /\ d \in Seq(Symbols) /\ Len(d) \in Nat /\ Len(e) = Len(d) + 2 /\ e[Len(d) + 2] = Quote
      /\ \A i \in 1..Len(d) : e[i + 1] = d[i]
  BY <1>1, FieldIs, DoubledIs DEF Inside
<1>3. /\ p + Len(e) <= Len(text) /\ \A i \in 1..Len(e) : text[p + i] = e[i]
      /\ p + Len(e) = Len(text) \/ text[p + Len(e) + 1] = CR
  BY DEF Holding, End
<1>4. /\ at \in [0..Len(c) -> Nat] /\ at[0] = 0 /\ Len(d) = at[Len(c)]
      /\ \A i \in 1..Len(c) : /\ at[i] <= Len(d)
                              /\ c[i] = Quote => at[i] = at[i - 1] + 2 /\ d[at[i - 1] + 1] = Quote /\ d[at[i - 1] + 2] = Quote
                              /\ c[i] # Quote => at[i] = at[i - 1] + 1 /\ d[at[i - 1] + 1] = c[i]
  BY DEF Doubles
<1> HIDE DEF d, e
<1>5. pos = p + at[k] + 2 /\ field = SubSeq(c, 1, k) /\ quoted /\ at[k] \in Nat
  BY <1>4 DEF Inside
<1>6. ReadQuoted
  BY <1>5 DEF CsvNext, OpenQuote, EndField, EndLine, EndText, ReadPlain
<1>7. Same
  BY <1>6 DEF ReadQuoted, Same
<1>8. CASE k = Len(c)
  <2>1. pos = p + (Len(d) + 2) /\ Len(d) + 2 \in 1..Len(e) /\ pos + 1 = p + Len(e) + 1
    BY <1>1, <1>2, <1>4, <1>5, <1>8
  <2>2. Char = Quote
    BY <1>2, <1>3, <2>1 DEF Char
  <2>3. ~Follows(Quote)
    <3>1. CASE p + Len(e) = Len(text)
      BY <1>1, <1>2, <2>1, <3>1 DEF Follows
    <3>2. CASE text[p + Len(e) + 1] = CR
      BY <2>1, <3>2 DEF Follows, CR, Quote
    <3> QED
      BY <1>3, <3>1, <3>2
  <2>4. field' = field /\ pos' = pos + 1 /\ quoted' = FALSE
    BY <1>6, <2>2, <2>3 DEF ReadQuoted
  <2>5. field' = c /\ pos' = p + Len(e) + 1 /\ ~quoted'
    BY <1>1, <1>5, <1>8, <2>1, <2>4, AllOf
  <2> QED
    BY <1>7, <2>5 DEF Closed, End, e
<1>9. CASE k # Len(c)
  <2>1. k + 1 \in 1..Len(c) /\ k + 1 \in 0..Len(c) /\ (k + 1) - 1 = k /\ k \in 0..(Len(c) - 1)
    BY <1>1, <1>9
  <2>2. /\ at[k + 1] <= Len(d) /\ at[k + 1] \in Nat
        /\ c[k + 1] = Quote => at[k + 1] = at[k] + 2 /\ d[at[k] + 1] = Quote /\ d[at[k] + 2] = Quote
        /\ c[k + 1] # Quote => at[k + 1] = at[k] + 1 /\ d[at[k] + 1] = c[k + 1]
    BY <1>4, <2>1
  <2>3. at[k] + 1 \in 1..Len(d) /\ at[k] + 2 \in 1..Len(e) /\ pos = p + (at[k] + 2) /\ at[k] + 2 = (at[k] + 1) + 1
    <3>1. at[k] + 1 <= Len(d)
      <4>1. ASSUME NEW x \in Nat, NEW y \in Nat, NEW m \in Nat, y = x + 1 \/ y = x + 2, y <= m PROVE x + 1 <= m
        BY <4>1
      <4> QED
        BY <1>2, <1>5, <2>2, <4>1
    <3>2. ASSUME NEW x \in Nat, NEW m \in Nat, x + 1 <= m
          PROVE  x + 1 \in 1..m /\ x + 2 \in 1..(m + 2) /\ p + x + 2 = p + (x + 2) /\ x + 2 = (x + 1) + 1
      BY <1>1, <3>2
    <3> QED
      BY <1>2, <1>5, <3>1, <3>2
  <2>4. text[pos] = d[at[k] + 1]
    BY <1>2, <1>3, <2>3
  <2>5. Append(SubSeq(c, 1, k), c[k + 1]) = SubSeq(c, 1, k + 1)
    BY <1>1, <2>1, NextSymbol
  <2>6. CASE c[k + 1] = Quote
    <3>1. /\ at[k] + 2 \in 1..Len(d) /\ at[k] + 3 \in 1..Len(e) /\ pos + 1 = p + (at[k] + 3) /\ at[k] + 3 = (at[k] + 2) + 1
          /\ pos < Len(text)
      <4>1. ASSUME NEW x \in Nat, NEW m \in Nat, NEW f \in Nat, x + 2 <= m, p + (m + 2) <= f
            PROVE  /\ x + 2 \in 1..m /\ x + 3 \in 1..(m + 2) /\ p + x + 2 + 1 = p + (x + 3) /\ x + 3 = (x + 2) + 1
                   /\ p + x + 2 < f
        BY <1>1, <4>1
      <4>2. at[k] + 2 <= Len(d) /\ p + (Len(d) + 2) <= Len(text)
        BY <1>2, <1>3, <2>2, <2>6
      <4>3. /\ at[k] + 2 \in 1..Len(d) /\ at[k] + 3 \in 1..(Len(d) + 2) /\ p + at[k] + 2 + 1 = p + (at[k] + 3)
            /\ at[k] + 3 = (at[k] + 2) + 1 /\ p + at[k] + 2 < Len(text)
        BY <1>1, <1>2, <1>5, <4>1, <4>2, Zenon
      <4> QED
        BY <1>2, <1>5, <4>3
    <3>2. text[pos + 1] = Quote
      BY <1>2, <1>3, <2>2, <2>6, <3>1
    <3>3. Char = Quote /\ Follows(Quote)
      BY <2>2, <2>4, <2>6, <3>1, <3>2 DEF Char, Follows
    <3>4. field' = Append(field, Quote) /\ pos' = pos + 2 /\ quoted'
      BY <1>6, <3>3 DEF ReadQuoted
    <3>5. field' = SubSeq(c, 1, k + 1)
      BY <1>5, <2>5, <2>6, <3>4
    <3>6. pos' = p + at[k + 1] + 2
      <4>1. \A x \in Nat : p + x + 2 + 2 = p + (x + 2) + 2
        BY <1>1
      <4> QED
        BY <1>5, <2>2, <2>6, <3>4, <4>1
    <3> QED
      BY <1>7, <2>1, <3>4, <3>5, <3>6 DEF Inside
  <2>7. CASE c[k + 1] # Quote
    <3>1. Char = c[k + 1]
      BY <2>2, <2>4, <2>7 DEF Char
    <3>4. field' = Append(field, c[k + 1]) /\ pos' = pos + 1 /\ quoted'
      BY <1>6, <2>7, <3>1 DEF ReadQuoted
    <3>5. field' = SubSeq(c, 1, k + 1)
      BY <1>5, <2>5, <3>4
    <3>6. pos' = p + at[k + 1] + 2
      <4>1. \A x \in Nat : p + x + 2 + 1 = p + (x + 1) + 2
        BY <1>1
      <4> QED
        BY <1>5, <2>2, <2>7, <3>4, <4>1
    <3> QED
      BY <1>7, <2>1, <3>4, <3>5, <3>6 DEF Inside
  <2> QED
    BY <2>6, <2>7
<1> QED
  BY <1>8, <1>9

LEMMA ClosedStep ==
  ASSUME NEW c, NEW p, Holding(c, p), Closed(c, p), CsvNext
  PROVE  \/ EndText /\ End(c, p) = Len(text)
         \/ EndLine /\ End(c, p) + 2 <= Len(text) /\ pos' = End(c, p) + 3
<1>1. End(c, p) \in Nat /\ Len(text) \in Nat
  BY FieldIs DEF Holding, End
<1>2. ~quoted /\ pos = End(c, p) + 1
  BY DEF Closed
<1>3. CASE End(c, p) = Len(text)
  <2>1. pos = Len(text) + 1 /\ ~(pos <= Len(text))
    BY <1>1, <1>2, <1>3
  <2> QED
    BY <1>3, <2>1 DEF CsvNext, ReadQuoted, OpenQuote, EndField, EndLine, ReadPlain, Reading
<1>4. CASE End(c, p) + 2 <= Len(text) /\ text[End(c, p) + 1] = CR /\ text[End(c, p) + 2] = LF
  <2>1. pos # Len(text) + 1 /\ pos < Len(text) /\ pos + 1 = End(c, p) + 2 /\ pos + 2 = End(c, p) + 3
    BY <1>1, <1>2, <1>4
  <2>2. Char = CR /\ Follows(LF)
    BY <1>2, <1>4, <2>1 DEF Char, Follows
  <2>3. EndLine
    BY <1>2, <2>1, <2>2 DEF CsvNext, ReadQuoted, OpenQuote, EndField, EndText, ReadPlain, Spaces, CR, LF, Quote
  <2>4. pos' = pos + 2
    BY <2>2, <2>3 DEF EndLine
  <2> QED
    BY <1>4, <2>1, <2>3, <2>4
<1> QED
  BY <1>3, <1>4 DEF Holding

LEMMA CellStep ==
  ASSUME NEW c, NEW p, Holding(c, p), InCell(c, p), CsvNext
  PROVE  \/ InCell(c, p)' /\ Same
         \/ Closed(c, p) /\ EndText /\ End(c, p) = Len(text)
         \/ Closed(c, p) /\ EndLine /\ End(c, p) + 2 <= Len(text) /\ pos' = End(c, p) + 3
<1>1. c \in Seq(Symbols) /\ p \in Nat /\ Len(c) \in Nat
  BY DEF Holding
<1>2. CASE Closed(c, p)
  BY <1>2, ClosedStep
<1>3. ASSUME NEW k \in 0..Len(c), Plain(c, p, k) PROVE Closed(c, p) \/ (InCell(c, p)' /\ Same)
  <2>1. CASE k = Len(c)
    <3>1. EncodeField(c) = c /\ SubSeq(c, 1, Len(c)) = c
      BY <1>1, <1>3, FieldIs, AllOf DEF Plain
    <3> QED
      BY <1>3, <2>1, <3>1 DEF Plain, Closed, End
  <2>2. CASE k # Len(c)
    <3>1. Plain(c, p, k + 1)' /\ Same /\ k + 1 \in 0..Len(c)
      BY <1>3, <2>2, PlainStep
    <3> QED
      BY <3>1 DEF InCell
  <2> QED
    BY <2>1, <2>2
<1>4. CASE Opening(c, p)
  <2>1. PICK at : Doubles(c, at) /\ Inside(c, p, at, 0)' /\ Same
    BY <1>4, OpeningStep
  <2>2. 0 \in 0..Len(c)
    BY <1>1
  <2> QED
    BY <2>1, <2>2 DEF InCell
<1>5. ASSUME NEW at, Doubles(c, at), NEW k \in 0..Len(c), Inside(c, p, at, k) PROVE InCell(c, p)' /\ Same
  BY <1>5, WithinStep DEF InCell
<1> QED
  BY <1>2, <1>3, <1>4, <1>5 DEF InCell

(* The parser in a row, and the rows it has read: F joins the values that are given back.      *)
Parts == [n \in DOMAIN source.values |->
            LET v == source.values[n] IN IF withId \/ v.s # <<>> THEN <<v>> ELSE <<>>]
LineLead == IF withId THEN <<<<"id">>>> ELSE <<>>
GridIs(F, j) ==
  /\ grid \in Seq(Seq(Seq(Symbols)))
  /\ j = 0 => grid = <<>>
  /\ j # 0 => /\ Len(grid) = Len(F[j - 1]) + 1 /\ grid[1] = CellsOf(<<"col">>)
              /\ \A n \in 1..Len(F[j - 1]) : grid[n + 1] = CellsOf(F[j - 1][n].s)
OnLine(b, j) ==
  \/ withId /\ ~quoted /\ line = <<>> /\ pos = b[j] + 1 /\ field = <<>>
  \/ withId /\ ~quoted /\ line = <<>> /\ pos = b[j] + 2 /\ field = <<"id">>
  \/ line = LineLead /\ InCell(CellOf(j), b[j] + Lead)
Progress(b, F) ==
  \/ \E j \in 0..Height : GridIs(F, j) /\ OnLine(b, j)
  \/ Parsed /\ ~quoted /\ GridIs(F, Height + 1)
CsvInv ==
  /\ ColumnTyped
  /\ \E b, F : /\ Layout(b) /\ Progress(b, F)
               /\ Joins(Holds(source.type), Parts, F) /\ GivenBack = F[Len(Parts)]

LEMMA LineHeld ==
  ASSUME ColumnTyped, NEW b, Layout(b), NEW j \in 0..Height
  PROVE  /\ Holding(CellOf(j), b[j] + Lead) /\ End(CellOf(j), b[j] + Lead) + 2 = b[j + 1] /\ b[j] \in Nat
         /\ withId => text[b[j] + 1] = "id" /\ text[b[j] + 2] = "," /\ b[j] + 2 <= Len(text)
         /\ End(CellOf(j), b[j] + Lead) = Len(text) => j = Height
         /\ End(CellOf(j), b[j] + Lead) + 2 <= Len(text) => j + 1 \in 1..Height
<1> DEFINE c == CellOf(j)
           e == EncodeField(c)
<1>1. Height \in Nat /\ j \in Nat /\ c \in Seq(Symbols)
  BY CellsTyped DEF ColumnTyped, Height
<1>2. IsRow(RowOf(j), c) /\ e \in Seq(Symbols) /\ Len(e) \in Nat
  BY <1>1, FileRowsTyped, FieldIs
<1>3. /\ Len(RowOf(j)) = Lead + Len(e) /\ \A k \in 1..Len(e) : RowOf(j)[Lead + k] = e[k]
      /\ withId => RowOf(j)[1] = "id" /\ RowOf(j)[2] = ","
  BY <1>2 DEF IsRow
<1>4. Lead \in {0, 2} /\ (withId => Lead = 2)
  BY DEF Lead
<1>5. /\ b \in [0..(Height + 1) -> Nat] /\ b[Height + 1] = Len(text) + 2 /\ Len(text) \in Nat
      /\ \A i \in 0..Height : /\ b[i + 1] = b[i] + Len(RowOf(i)) + 2
                              /\ \A k \in 1..Len(RowOf(i)) : text[b[i] + k] = RowOf(i)[k]
                              /\ i > 0 => b[i] <= Len(text) /\ text[b[i] - 1] = CR /\ text[b[i]] = LF
  BY Zenon DEF Layout
<1> HIDE DEF e
<1>6. /\ b[j] \in Nat /\ b[j + 1] \in Nat /\ b[j + 1] = b[j] + (Lead + Len(e)) + 2 /\ Len(RowOf(j)) = Lead + Len(e)
      /\ \A k \in 1..(Lead + Len(e)) : text[b[j] + k] = RowOf(j)[k]
  <2>1. j \in 0..(Height + 1) /\ j + 1 \in 0..(Height + 1)
    BY <1>1
  <2> QED
    BY <1>3, <1>5, <2>1, Zenon
<1>7. PICK x \in Nat, y \in Nat, m \in Nat, z \in Nat : x = b[j] /\ y = Lead /\ m = Len(e) /\ z = Len(text)
  BY <1>2, <1>4, <1>5, <1>6
<1>8. End(c, b[j] + Lead) = x + y + m /\ b[j + 1] = x + (y + m) + 2
  BY <1>6, <1>7, Zenon DEF End, e
<1>9. End(c, b[j] + Lead) + 2 = b[j + 1]
  <2>1. x + y + m + 2 = x + (y + m) + 2
    OBVIOUS
  <2> QED
    BY <1>8, <2>1, Zenon
<1>10. ASSUME NEW k \in 1..m PROVE text[x + y + k] = e[k]
  <2>1. y + k \in 1..(y + m) /\ x + y + k = x + (y + k)
    OBVIOUS
  <2>2. k \in 1..Len(e) /\ y + k \in 1..(Lead + Len(e))
    BY <1>7, <2>1
  <2>3. text[b[j] + (y + k)] = RowOf(j)[y + k] /\ RowOf(j)[y + k] = e[k]
    BY <1>3, <1>6, <1>7, <2>2, Zenon DEF e
  <2> QED
    BY <1>7, <2>1, <2>3, Zenon
<1>11. ASSUME j = Height PROVE End(c, b[j] + Lead) = Len(text) /\ ~(End(c, b[j] + Lead) + 2 <= Len(text))
  <2>1. b[j + 1] = z + 2
    BY <1>5, <1>7, <1>11
  <2>2. x + (y + m) + 2 = z + 2
    BY <1>8, <2>1
  <2>3. x + y + m = z /\ ~(x + y + m + 2 <= z)
    BY <2>2
  <2> QED
    BY <1>7, <1>8, <2>3, Zenon
<1>12. ASSUME j # Height
       PROVE  /\ j + 1 \in 1..Height /\ End(c, b[j] + Lead) + 2 <= Len(text) /\ End(c, b[j] + Lead) # Len(text)
              /\ text[End(c, b[j] + Lead) + 1] = CR /\ text[End(c, b[j] + Lead) + 2] = LF
  <2>1. j + 1 \in 1..Height /\ j + 1 \in 0..Height
    BY <1>1, <1>12
  <2>2. b[j + 1] <= Len(text) /\ text[b[j + 1] - 1] = CR /\ text[b[j + 1]] = LF
    <3>1. j + 1 > 0
      BY <1>1
    <3> QED
      BY <1>5, <2>1, <3>1
  <2>3. x + (y + m) + 2 <= z
    BY <1>7, <1>8, <2>2
  <2>4. x + y + m + 2 <= z /\ x + y + m # z /\ x + y + m + 1 = x + (y + m) + 2 - 1 /\ x + y + m + 2 = x + (y + m) + 2
    BY <2>3
  <2>5. /\ x + y + m + 2 <= Len(text) /\ x + y + m # Len(text)
        /\ text[x + y + m + 1] = CR /\ text[x + y + m + 2] = LF
    <3>1. text[x + (y + m) + 2 - 1] = CR /\ text[x + (y + m) + 2] = LF
      <4>1. ASSUME NEW q, NEW r, q = r, text[q - 1] = CR, text[q] = LF PROVE text[r - 1] = CR /\ text[r] = LF
        BY <4>1
      <4> QED
        BY <1>8, <2>2, <4>1
    <3>2. text[x + y + m + 1] = CR /\ text[x + y + m + 2] = LF
      BY <2>4, <3>1, Zenon
    <3> QED
      BY <1>7, <2>4, <3>2, Zenon
  <2> QED
    BY <1>8, <2>1, <2>5
<1>13. /\ End(c, b[j] + Lead) = Len(text) => j = Height
       /\ End(c, b[j] + Lead) + 2 <= Len(text) => j + 1 \in 1..Height
       /\ \/ End(c, b[j] + Lead) = Len(text)
          \/ End(c, b[j] + Lead) + 2 <= Len(text) /\ text[End(c, b[j] + Lead) + 1] = CR /\ text[End(c, b[j] + Lead) + 2] = LF
       /\ End(c, b[j] + Lead) <= Len(text)
  <2>1. \A i \in {x + y + m} : (i = z \/ i + 2 <= z) => i <= z
    OBVIOUS
  <2>2. x + y + m = z \/ x + y + m + 2 <= z
    BY <1>7, <1>8, <1>11, <1>12, Zenon
  <2>3. End(c, b[j] + Lead) <= Len(text)
    BY <1>7, <1>8, <2>1, <2>2
  <2> QED
    BY <1>11, <1>12, <2>3, Zenon
<1>14. Holding(c, b[j] + Lead)
  <2>1. b[j] + Lead \in Nat
    BY <1>4, <1>6
  <2>2. \A k \in 1..Len(e) : text[(b[j] + Lead) + k] = e[k]
    BY <1>7, <1>10, Zenon
  <2> QED
    BY <1>1, <1>5, <1>13, <2>1, <2>2, Zenon DEF Holding, e
<1>15. ASSUME withId PROVE text[b[j] + 1] = "id" /\ text[b[j] + 2] = "," /\ b[j] + 2 <= Len(text)
  <2>1. Lead = 2 /\ 1 \in 1..(2 + Len(e)) /\ 2 \in 1..(2 + Len(e))
    BY <1>2, <1>4, <1>15
  <2>2. text[b[j] + 1] = "id" /\ text[b[j] + 2] = ","
    BY <1>3, <1>6, <1>15, <2>1, Zenon
  <2>3. x + 2 + m <= z => x + 2 <= z
    OBVIOUS
  <2>4. x + 2 + m <= z
    BY <1>7, <1>8, <1>13, <2>1
  <2> QED
    BY <1>7, <2>2, <2>3, <2>4
<1> QED
  BY <1>6, <1>9, <1>13, <1>14, <1>15

LEMMA CellBegins ==
  ASSUME NEW c \in Seq(Symbols), NEW p \in Nat
  PROVE  /\ pos = p + 1 /\ field = <<>> /\ ~quoted => InCell(c, p)
         /\ pos' = p + 1 /\ field' = <<>> /\ ~quoted' => InCell(c, p)'
<1>1. SubSeq(c, 1, 0) = <<>> /\ 0 \in 0..Len(c) /\ p + 0 + 1 = p + 1
  BY AllOf
<1>2. CASE NeedsQuotes(c)
  BY <1>2 DEF InCell, Opening
<1>3. CASE ~NeedsQuotes(c)
  <2>1. ASSUME pos = p + 1, field = <<>>, ~quoted PROVE InCell(c, p)
    <3>1. Plain(c, p, 0)
      BY <1>1, <1>3, <2>1 DEF Plain
    <3> QED
      BY <1>1, <3>1 DEF InCell
  <2>2. ASSUME pos' = p + 1, field' = <<>>, ~quoted' PROVE InCell(c, p)'
    <3>1. Plain(c, p, 0)'
      BY <1>1, <1>3, <2>2 DEF Plain
    <3> QED
      BY <1>1, <3>1 DEF InCell
  <2> QED
    BY <2>1, <2>2
<1> QED
  BY <1>2, <1>3

LEMMA LineBegins ==
  ASSUME ColumnTyped, NEW b, Layout(b), NEW j \in 0..Height
  PROVE  /\ pos = b[j] + 1 /\ field = <<>> /\ line = <<>> /\ ~quoted => OnLine(b, j)
         /\ /\ UNCHANGED <<source, withId>>
            /\ pos' = b[j] + 1 /\ field' = <<>> /\ line' = <<>> /\ ~quoted'
            => OnLine(b, j)'
<1>1. b[j] \in Nat /\ CellOf(j) \in Seq(Symbols)
  BY LineHeld, CellsTyped
<1>2. ASSUME pos = b[j] + 1, field = <<>>, line = <<>>, ~quoted PROVE OnLine(b, j)
  <2>1. CASE withId
    BY <1>2, <2>1 DEF OnLine
  <2>2. CASE ~withId
    <3>1. b[j] + Lead = b[j] /\ line = LineLead
      BY <1>1, <1>2, <2>2 DEF Lead, LineLead
    <3>2. InCell(CellOf(j), b[j])
      BY <1>1, <1>2, CellBegins
    <3> QED
      BY <3>1, <3>2 DEF OnLine
  <2> QED
    BY <2>1, <2>2
<1>3. ASSUME UNCHANGED <<source, withId>>, pos' = b[j] + 1, field' = <<>>, line' = <<>>, ~quoted' PROVE OnLine(b, j)'
  <2>1. CASE withId
    BY <1>3, <2>1 DEF OnLine
  <2>2. CASE ~withId
    <3>1. b[j] + Lead' = b[j] /\ line' = LineLead' /\ CellOf(j)' = CellOf(j)
      BY <1>1, <1>3, <2>2 DEF Lead, LineLead, CellOf
    <3>2. InCell(CellOf(j), b[j])'
      <4>1. PICK c \in Seq(Symbols), p \in Nat : c = CellOf(j) /\ p = b[j]
        BY <1>1
      <4>2. InCell(c, p)'
        BY <1>3, <4>1, CellBegins
      <4> QED
        BY <3>1, <4>1, <4>2 DEF InCell, Plain, Opening, Inside, Closed, End
    <3> QED
      BY <3>1, <3>2 DEF OnLine
  <2> QED
    BY <2>1, <2>2
<1> QED
  BY <1>2, <1>3

LEMMA PartsIs ==
  ASSUME ColumnTyped
  PROVE  /\ Parts \in Seq(Seq(Holds(source.type))) /\ Len(Parts) = Height /\ Height \in Nat
         /\ \A j \in 1..Height : /\ source.values[j] \in Holds(source.type) /\ source.values[j].s = CellOf(j)
                                 /\ withId \/ CellOf(j) # <<>> => Parts[j] = <<source.values[j]>>
                                 /\ ~withId /\ CellOf(j) = <<>> => Parts[j] = <<>>
<1>1. /\ Height \in Nat /\ DOMAIN source.values = 1..Height
      /\ \A j \in 1..Height : source.values[j] \in Holds(source.type)
  BY DEF ColumnTyped, Height
<1>2. \A j \in 1..Height : j # 0 /\ source.values[j].s = CellOf(j)
  BY <1>1 DEF CellOf
<1>3. \A j \in 1..Height : /\ withId \/ CellOf(j) # <<>> => Parts[j] = <<source.values[j]>>
                           /\ ~withId /\ CellOf(j) = <<>> => Parts[j] = <<>>
  BY <1>1, <1>2 DEF Parts
<1>4. \A v \in Holds(source.type) : <<v>> \in Seq(Holds(source.type))
  OBVIOUS
<1>5. \A j \in 1..Height : Parts[j] \in Seq(Holds(source.type))
  <2> SUFFICES ASSUME NEW j \in 1..Height PROVE Parts[j] \in Seq(Holds(source.type))
    OBVIOUS
  <2>1. CASE withId \/ CellOf(j) # <<>>
    BY <1>1, <1>3, <1>4, <2>1
  <2>2. CASE ~(withId \/ CellOf(j) # <<>>)
    <3>1. Parts[j] = <<>>
      BY <1>3, <2>2
    <3> QED
      BY <3>1
  <2> QED
    BY <2>1, <2>2
<1>6. Parts = [j \in 1..Height |-> Parts[j]]
  BY <1>1 DEF Parts
<1>7. ASSUME NEW S, NEW n \in Nat, NEW q, q = [j \in 1..n |-> q[j]], \A j \in 1..n : q[j] \in S PROVE q \in Seq(S) /\ Len(q) = n
  BY <1>7
<1>8. Parts \in Seq(Seq(Holds(source.type))) /\ Len(Parts) = Height
  BY <1>1, <1>5, <1>6, <1>7
<1> QED
  BY <1>1, <1>2, <1>3, <1>8

LEMMA RowAdded ==
  ASSUME ColumnTyped, NEW F, Joins(Holds(source.type), Parts, F), NEW j \in 0..Height, GridIs(F, j),
         UNCHANGED <<source, withId>>,
         grid' = IF CellsOf(CellOf(j)) = <<<<>>>> THEN grid ELSE Append(grid, CellsOf(CellOf(j)))
  PROVE  GridIs(F, j + 1)'
<1>1. /\ Height \in Nat /\ j \in Nat /\ (j + 1) - 1 = j /\ j + 1 # 0 /\ j \in 0..Len(Parts)
      /\ CellOf(j) \in Seq(Symbols) /\ F[j] \in Seq(Holds(source.type)) /\ Len(F[j]) \in Nat
  <2>1. Height \in Nat /\ Len(Parts) = Height
    BY PartsIs
  <2>2. j \in Nat /\ (j + 1) - 1 = j /\ j + 1 # 0 /\ j \in 0..Len(Parts)
    BY <2>1
  <2>3. F[j] \in Seq(Holds(source.type))
    BY <2>2 DEF Joins
  <2>4. Len(F[j]) \in Nat
    BY <2>3
  <2> QED
    BY <2>1, <2>2, <2>3, <2>4, CellsTyped
<1>2. CellsOf(CellOf(j)) \in Seq(Seq(Symbols)) /\ (CellsOf(CellOf(j)) = <<<<>>>> <=> ~withId /\ CellOf(j) = <<>>)
  <2>1. \A c \in Seq(Symbols), i \in Seq(Symbols) :
          <<c>> \in Seq(Seq(Symbols)) /\ <<i, c>> \in Seq(Seq(Symbols)) /\ <<i, c>> # <<<<>>>> /\ (<<c>> = <<<<>>>> <=> c = <<>>)
    OBVIOUS
  <2>2. <<"id">> \in Seq(Symbols)
    <3>1. "id" \in Symbols
      BY DEF Symbols
    <3>2. \A a \in Symbols : <<a>> \in Seq(Symbols)
      OBVIOUS
    <3> QED
      BY <3>1, <3>2
  <2> QED
    BY <1>1, <2>1, <2>2 DEF CellsOf
<1>3. \A c : CellsOf(c)' = CellsOf(c)
  BY DEF CellsOf
<1>4. grid \in Seq(Seq(Seq(Symbols)))
  BY DEF GridIs
<1>5. grid' \in Seq(Seq(Seq(Symbols)))
  BY <1>2, <1>4
<1>6. CASE j = 0
  <2>1. CellOf(j) = <<"col">> /\ CellOf(j) # <<>> /\ grid = <<>>
    BY <1>6 DEF CellOf, GridIs
  <2>2. F[0] = <<>> /\ Len(F[j]) = 0
    BY <1>6 DEF Joins
  <2>3. grid' = Append(<<>>, CellsOf(<<"col">>))
    BY <1>2, <2>1
  <2>4. Len(grid') = 1 /\ grid'[1] = CellsOf(<<"col">>)
    BY <2>3
  <2>5. Len(grid') = Len(F[j]) + 1 /\ 1..Len(F[j]) = {}
    BY <2>2, <2>4
  <2> QED
    BY <1>1, <1>3, <1>5, <2>4, <2>5 DEF GridIs
<1>7. CASE j # 0
  <2> DEFINE p == j - 1
  <2>1. p \in Nat /\ j \in 1..Height /\ j \in 1..Len(Parts) /\ p \in 0..Len(Parts)
    BY <1>1, <1>7, PartsIs
  <2>2. /\ Len(grid) = Len(F[p]) + 1 /\ grid[1] = CellsOf(<<"col">>)
        /\ \A n \in 1..Len(F[p]) : grid[n + 1] = CellsOf(F[p][n].s)
    BY <1>7 DEF GridIs
  <2>3. F[p] \in Seq(Holds(source.type)) /\ F[j] = F[p] \o Parts[j]
    BY <2>1, PartsIs, JoinsStep, Zenon
  <2>4. source.values[j] \in Holds(source.type) /\ source.values[j].s = CellOf(j)
    BY <2>1, PartsIs
  <2> HIDE DEF p
  <2>5. CASE ~withId /\ CellOf(j) = <<>>
    <3>1. F[j] = F[p] \o <<>>
      BY <2>1, <2>3, <2>5, PartsIs
    <3>2. F[j] = F[p]
      BY <2>3, <3>1, ConcatEmptySeq
    <3>3. grid' = grid
      BY <1>2, <2>5
    <3> QED
      BY <1>1, <1>3, <1>5, <2>2, <3>2, <3>3 DEF GridIs
  <2>6. CASE withId \/ CellOf(j) # <<>>
    <3>1. F[j] = F[p] \o <<source.values[j]>>
      BY <2>1, <2>3, <2>6, PartsIs
    <3>2. grid' = Append(grid, CellsOf(CellOf(j)))
      BY <1>2, <2>6
    <3>3. ASSUME NEW S, NEW s \in Seq(S), NEW v \in S
          PROVE  /\ Len(s \o <<v>>) = Len(s) + 1 /\ (s \o <<v>>)[Len(s) + 1] = v
                 /\ \A n \in 1..Len(s) : (s \o <<v>>)[n] = s[n]
      OBVIOUS
    <3>4. ASSUME NEW S, NEW s \in Seq(S), NEW v \in S
          PROVE  /\ Len(Append(s, v)) = Len(s) + 1 /\ Append(s, v)[Len(s) + 1] = v
                 /\ \A n \in 1..Len(s) : Append(s, v)[n] = s[n]
      OBVIOUS
    <3>5. /\ Len(F[j]) = Len(F[p]) + 1 /\ F[j][Len(F[p]) + 1] = source.values[j]
          /\ \A n \in 1..Len(F[p]) : F[j][n] = F[p][n]
      BY <2>3, <2>4, <3>1, <3>3
    <3>6. /\ Len(grid') = Len(grid) + 1 /\ grid'[Len(grid) + 1] = CellsOf(CellOf(j))
          /\ \A n \in 1..Len(grid) : grid'[n] = grid[n]
      BY <1>2, <1>4, <3>2, <3>4
    <3>7. PICK l \in Nat : l = Len(F[p])
      BY <2>3
    <3>8. Len(F[j]) = l + 1 /\ Len(grid) = l + 1 /\ Len(grid') = (l + 1) + 1
      BY <2>2, <3>5, <3>6, <3>7
    <3>9. ASSUME NEW n \in 1..(l + 1) PROVE grid'[n + 1] = CellsOf(F[j][n].s)
      <4>1. CASE n = l + 1
        BY <2>4, <3>5, <3>6, <3>7, <3>8, <4>1
      <4>2. CASE n # l + 1
        <5>1. n \in 1..l /\ n + 1 \in 1..(l + 1)
          BY <4>2
        <5> QED
          BY <2>2, <3>5, <3>6, <3>7, <3>8, <5>1
      <4> QED
        BY <4>1, <4>2
    <3>10. Len(grid') = Len(F[j]) + 1
      BY <3>8
    <3>11. grid'[1] = CellsOf(<<"col">>)
      <4>1. 1 \in 1..(l + 1)
        OBVIOUS
      <4> QED
        BY <2>2, <3>6, <3>8, <4>1
    <3> QED
      BY <1>1, <1>3, <1>5, <3>8, <3>9, <3>10, <3>11 DEF GridIs
  <2> QED
    BY <2>5, <2>6
<1> QED
  BY <1>6, <1>7

LEMMA Pair == ASSUME NEW S, NEW x \in S, NEW y \in S PROVE Append(<<x>>, y) = <<x, y>> /\ Append(<<>>, y) = <<y>>
<1>1. <<x>> \in Seq(S) /\ <<>> \in Seq(S) /\ <<y>> \in Seq(S)
  OBVIOUS
<1>2. Append(<<x>>, y) = <<x>> \o <<y>> /\ Append(<<>>, y) = <<>> \o <<y>>
  BY <1>1, AppendIsConcat
<1>3. <<x, y>> \in Seq(S) /\ Len(<<x, y>>) = 2 /\ <<x, y>>[1] = x /\ <<x, y>>[2] = y
  OBVIOUS
<1>4. PICK s \in Seq(S) : s = Append(<<x>>, y) /\ Len(s) = 2 /\ s[1] = x /\ s[2] = y
  <2>1. /\ Append(<<x>>, y) \in Seq(S) /\ Len(Append(<<x>>, y)) = 2
        /\ Append(<<x>>, y)[1] = x /\ Append(<<x>>, y)[2] = y
    BY <1>1
  <2> QED
    BY <2>1
<1>5. PICK t \in Seq(S) : t = <<x, y>> /\ Len(t) = 2 /\ t[1] = x /\ t[2] = y
  BY <1>3
<1>6. s = t
  <2>1. Len(s) = Len(t) /\ \A i \in 1..Len(s) : s[i] = t[i]
    <3>1. \A i \in 1..2 : i = 1 \/ i = 2
      OBVIOUS
    <3> QED
      BY <1>4, <1>5, <3>1
  <2> QED
    BY <2>1, SeqEqual
<1> QED
  BY <1>1, <1>2, <1>4, <1>5, <1>6, ConcatEmptySeq

LEMMA LineStep ==
  ASSUME ColumnTyped, NEW b, Layout(b), NEW F, Joins(Holds(source.type), Parts, F),
         NEW j \in 0..Height, GridIs(F, j), OnLine(b, j), CsvNext, UNCHANGED <<source, withId, text>>
  PROVE  Progress(b, F)'
<1> DEFINE c == CellOf(j)
           p == b[j] + Lead
<1>1. /\ Holding(c, p) /\ End(c, p) + 2 = b[j + 1] /\ b[j] \in Nat /\ Lead \in {0, 2} /\ (withId => Lead = 2)
      /\ withId => text[b[j] + 1] = "id" /\ text[b[j] + 2] = "," /\ b[j] + 2 <= Len(text)
      /\ End(c, p) = Len(text) => j = Height
      /\ End(c, p) + 2 <= Len(text) => j + 1 \in 1..Height
  BY LineHeld DEF Lead
<1>2. Len(text) \in Nat /\ c \in Seq(Symbols) /\ p \in Nat
  BY <1>1 DEF Holding
<1>9. ASSUME NEW x \in Nat, NEW z \in Nat, x + 2 <= z
      PROVE  x + 1 # z + 1 /\ x + 2 # z + 1 /\ (x + 1) + 1 = x + 2 /\ (x + 2) + 1 = x + 2 + 1
  BY <1>9
<1>3. Height' = Height /\ c' = c /\ p' = p /\ LineLead' = LineLead
  BY DEF Height, CellOf, Lead, LineLead
<1>4. ASSUME grid' = grid PROVE GridIs(F, j)'
  <2>1. \A a : CellsOf(a)' = CellsOf(a)
    BY DEF CellsOf
  <2> QED
    BY <1>4, <2>1 DEF GridIs
<1>5. ASSUME grid' = grid, OnLine(b, j)' PROVE Progress(b, F)'
  BY <1>3, <1>4, <1>5 DEF Progress
<1>6. CASE withId /\ ~quoted /\ line = <<>> /\ pos = b[j] + 1 /\ field = <<>>
  <2>1. Char = "id" /\ pos # Len(text) + 1
    BY <1>1, <1>2, <1>6, <1>9, Zenon DEF Char
  <2>2. ReadPlain
    BY <1>6, <2>1 DEF CsvNext, ReadQuoted, OpenQuote, EndField, EndLine, EndText, Spaces, CR, LF, Quote
  <2>3. field' = <<"id">> /\ pos' = pos + 1 /\ line' = <<>> /\ grid' = grid /\ ~quoted'
    BY <1>6, <2>1, <2>2 DEF ReadPlain
  <2>4. pos' = b[j] + 2
    BY <1>1, <1>2, <1>6, <1>9, <2>3, Zenon
  <2> QED
    BY <1>5, <1>6, <2>3, <2>4 DEF OnLine
<1>7. CASE withId /\ ~quoted /\ line = <<>> /\ pos = b[j] + 2 /\ field = <<"id">>
  <2>1. Char = "," /\ pos # Len(text) + 1
    BY <1>1, <1>2, <1>7, <1>9, Zenon DEF Char
  <2>2. EndField
    BY <1>7, <2>1 DEF CsvNext, ReadQuoted, OpenQuote, ReadPlain, EndLine, EndText, Spaces, CR, LF, Quote
  <2>3. field' = <<>> /\ pos' = pos + 1 /\ line' = Append(<<>>, <<"id">>) /\ grid' = grid /\ ~quoted'
    BY <1>7, <2>2 DEF EndField
  <2>4. pos' = p + 1
    BY <1>1, <1>7, <2>3
  <2>5. line' = LineLead'
    BY <1>3, <1>7, <2>3 DEF LineLead
  <2>6. InCell(c, p)'
    <3>1. PICK d \in Seq(Symbols), x \in Nat : d = c /\ x = p
      BY <1>2
    <3>2. InCell(d, x)'
      BY <2>3, <2>4, <3>1, CellBegins
    <3> QED
      BY <1>3, <3>1, <3>2 DEF InCell, Plain, Opening, Inside, Closed, End
  <2> QED
    BY <1>5, <2>3, <2>5, <2>6 DEF OnLine
<1>8. CASE line = LineLead /\ InCell(c, p)
  <2>0. PICK u, y : u = c /\ y = p
    OBVIOUS
  <2>1. CASE InCell(u, y)' /\ Same
    <3>1. grid' = grid /\ line' = LineLead'
      BY <1>3, <1>8, <2>1 DEF Same
    <3>2. InCell(c, p)'
      BY <1>3, <2>0, <2>1 DEF InCell, Plain, Opening, Inside, Closed, End
    <3> QED
      BY <1>5, <3>1, <3>2 DEF OnLine
  <2>2. ASSUME Closed(c, p), EndLine \/ EndText
        PROVE  GridIs(F, j + 1)' /\ line' = <<>> /\ field' = <<>> /\ ~quoted'
    <3>1. field = c /\ line = LineLead /\ ~quoted
      BY <1>8, <2>2 DEF Closed
    <3>2. Append(LineLead, c) = CellsOf(c)
      <4>1. PICK d \in Seq(Symbols) : d = c
        BY <1>2
      <4>2. PICK i \in Seq(Symbols) : i = <<"id">>
        <5>1. "id" \in Symbols
          BY DEF Symbols
        <5>2. \A a \in Symbols : <<a>> \in Seq(Symbols)
          OBVIOUS
        <5> QED
          BY <5>1, <5>2
      <4>4. Append(<<i>>, d) = <<i, d>> /\ Append(<<>>, d) = <<d>>
        BY Pair
      <4> QED
        BY <4>1, <4>2, <4>4 DEF LineLead, CellsOf
    <3>3. (field # <<>> \/ line # <<>>) <=> CellsOf(c) # <<<<>>>>
      BY <1>2, <3>1 DEF LineLead, CellsOf
    <3>4. grid' = IF CellsOf(c) = <<<<>>>> THEN grid ELSE Append(grid, CellsOf(c))
      BY <2>2, <3>1, <3>2, <3>3 DEF EndLine, EndText
    <3>5. line' = <<>> /\ field' = <<>> /\ quoted' = quoted
      BY <2>2 DEF EndLine, EndText
    <3> QED
      BY <3>1, <3>4, <3>5, RowAdded
  <2>3. CASE Closed(c, p) /\ EndText /\ End(c, p) = Len(text)
    <3>1. GridIs(F, Height + 1)' /\ ~quoted'
      <4>1. j = Height /\ GridIs(F, j + 1)' /\ ~quoted'
        BY <1>1, <2>2, <2>3
      <4>2. PICK i, n : i = j /\ n = Height
        OBVIOUS
      <4>3. i = n /\ GridIs(F, i + 1)'
        BY <4>1, <4>2 DEF GridIs
      <4>4. GridIs(F, n + 1)'
        BY <4>3
      <4> QED
        BY <1>3, <4>1, <4>2, <4>4 DEF GridIs
    <3>2. pos' = Len(text) + 2
      BY <1>2, <2>3 DEF EndText
    <3> QED
      BY <1>3, <3>1, <3>2 DEF Progress, Parsed, GridIs
  <2>4. CASE Closed(c, p) /\ EndLine /\ End(c, p) + 2 <= Len(text) /\ pos' = End(c, p) + 3
    <3>1. GridIs(F, j + 1)' /\ line' = <<>> /\ field' = <<>> /\ ~quoted' /\ j + 1 \in 1..Height
      BY <1>1, <2>2, <2>4
    <3>2. pos' = b[j + 1] + 1 /\ j + 1 \in 0..Height
      <4>1. End(c, p) \in Nat
        BY <1>2, FieldIs DEF End
      <4> QED
        <5>1. ASSUME NEW x \in Nat PROVE x + 3 = (x + 2) + 1
          OBVIOUS
        <5>2. ASSUME NEW n, NEW m, n \in 1..m PROVE n \in 0..m
          BY <5>2
        <5> QED
          BY <1>1, <2>4, <3>1, <4>1, <5>1, <5>2, Zenon
    <3>3. OnLine(b, j + 1)'
      BY <3>1, <3>2, LineBegins
    <3> QED
      BY <1>3, <3>1, <3>2, <3>3 DEF Progress
  <2> QED
    BY <1>1, <1>8, <2>0, <2>1, <2>3, <2>4, CellStep
<1> QED
  BY <1>6, <1>7, <1>8 DEF OnLine

LEMMA CsvBegins == CsvInit => CsvInv
<1> SUFFICES ASSUME CsvInit PROVE CsvInv
  OBVIOUS
<1>0. PICK type \in ColumnTypes : \E values \in [1..CsvRows -> Holds(type)] : source = [type |-> type, values |-> values]
  BY DEF CsvInit, ColumnTypes
<1>1. PICK values \in [1..CsvRows -> Holds(type)] : source = [type |-> type, values |-> values]
  BY <1>0
<1>2. values \in Seq(Holds(type)) /\ source.type = type /\ source.values = values
  BY <1>1, CsvAssumption DEF CsvAssumption
<1>3. ColumnTyped
  BY <1>1, <1>2 DEF ColumnTyped, CsvInit
<1>4. PICK b : Layout(b)
  BY <1>3, TextLaid
<1>5. PICK F : Joins(Holds(source.type), Parts, F) /\ GivenBack = F[Len(Parts)]
  BY <1>3, PartsIs, JoinsIs DEF GivenBack, Parts
<1>6. 0 \in 0..Height /\ b[0] + 1 = 1
  <2>1. b[0] = 0
    BY <1>4 DEF Layout
  <2> QED
    BY <1>3, <2>1, PartsIs
<1>7. OnLine(b, 0)
  <2>1. pos = b[0] + 1 /\ field = <<>> /\ line = <<>> /\ ~quoted
    BY <1>6 DEF CsvInit
  <2> QED
    BY <1>3, <1>4, <1>6, <2>1, LineBegins
<1>8. GridIs(F, 0)
  BY DEF GridIs, CsvInit
<1> QED
  BY <1>3, <1>4, <1>5, <1>6, <1>7, <1>8 DEF CsvInv, Progress

LEMMA CsvKeeps == CsvInv /\ (CsvNext \/ UNCHANGED csvVars) => CsvInv'
<1> SUFFICES ASSUME CsvInv, CsvNext \/ UNCHANGED csvVars PROVE CsvInv'
  OBVIOUS
<1>1. PICK b, F : /\ Layout(b) /\ Progress(b, F)
                  /\ Joins(Holds(source.type), Parts, F) /\ GivenBack = F[Len(Parts)]
  BY DEF CsvInv
<1>2. UNCHANGED <<source, withId, text>>
  BY DEF CsvNext, ReadQuoted, OpenQuote, EndField, EndLine, ReadPlain, EndText, csvVars
<1>3. ColumnTyped /\ ColumnTyped'
  BY <1>2 DEF CsvInv, ColumnTyped, Encoded, Header, Cells
<1>4. Layout(b)'
  BY <1>1, <1>2 DEF Layout, Height, RowOf, CellOf, CellsOf
<1>5. Joins(Holds(source.type), Parts, F)' /\ (GivenBack = F[Len(Parts)])'
  <2>1. Parts' = Parts /\ source' = source /\ GivenBack' = GivenBack
    BY <1>2 DEF Parts, GivenBack
  <2> QED
    BY <1>1, <2>1
<1>6. CASE UNCHANGED csvVars
  <2>1. Progress(b, F)'
    <3>1. /\ UNCHANGED <<source, withId, text, pos, field, line, grid, quoted>>
          /\ Height' = Height /\ Lead' = Lead /\ LineLead' = LineLead /\ Parsed' = Parsed
          /\ (\A j : CellOf(j)' = CellOf(j)) /\ \A a : CellsOf(a)' = CellsOf(a)
      BY <1>6 DEF csvVars, Height, Lead, LineLead, Parsed, CellOf, CellsOf
    <3>2. ASSUME NEW j, GridIs(F, j) PROVE GridIs(F, j)'
      BY <3>1, <3>2 DEF GridIs
    <3>3. ASSUME NEW c, NEW p, InCell(c, p) PROVE InCell(c, p)'
      BY <3>1, <3>3 DEF InCell, Plain, Opening, Inside, Closed
    <3>4. ASSUME NEW j, OnLine(b, j) PROVE OnLine(b, j)'
      <4>1. PICK c, p : c = CellOf(j) /\ p = b[j] + Lead
        OBVIOUS
      <4>2. InCell(CellOf(j), b[j] + Lead) => InCell(c, p)'
        BY <3>3, <4>1
      <4>3. InCell(c, p)' => InCell(CellOf(j), b[j] + Lead)'
        BY <3>1, <4>1 DEF InCell, Plain, Opening, Inside, Closed, End
      <4> QED
        BY <3>1, <3>4, <4>2, <4>3 DEF OnLine
    <3>5. GridIs(F, Height + 1) => GridIs(F, Height + 1)'
      BY <3>1 DEF GridIs
    <3> QED
      BY <1>1, <3>1, <3>2, <3>4, <3>5 DEF Progress
  <2> QED
    BY <1>3, <1>4, <1>5, <2>1 DEF CsvInv
<1>7. CASE CsvNext
  <2>1. CASE \E j \in 0..Height : GridIs(F, j) /\ OnLine(b, j)
    <3>1. Progress(b, F)'
      BY <1>1, <1>2, <1>3, <1>7, <2>1, LineStep
    <3> QED
      BY <1>3, <1>4, <1>5, <3>1 DEF CsvInv
  <2>2. CASE Parsed
    <3>1. Len(text) \in Nat
      BY <1>1 DEF Layout
    <3>2. ~(pos <= Len(text)) /\ pos # Len(text) + 1
      BY <2>2, <3>1 DEF Parsed
    <3> QED
      BY <1>7, <3>2 DEF CsvNext, ReadQuoted, OpenQuote, EndField, EndLine, ReadPlain, EndText, Reading
  <2> QED
    BY <1>1, <2>1, <2>2 DEF Progress
<1> QED
  BY <1>6, <1>7

LEMMA Unfinished ==
  ASSUME ColumnTyped, NEW b, Layout(b), NEW j \in 0..Height, OnLine(b, j)
  PROVE  (pos > Len(text) => ~quoted) /\ ~Parsed
<1> DEFINE c == CellOf(j)
           p == b[j] + Lead
<1>1. /\ Holding(c, p) /\ End(c, p) + 2 = b[j + 1] /\ b[j] \in Nat /\ Lead \in {0, 2} /\ (withId => Lead = 2)
      /\ withId => b[j] + 2 <= Len(text)
  BY LineHeld DEF Lead
<1>2. Len(text) \in Nat /\ c \in Seq(Symbols) /\ p \in Nat /\ End(c, p) <= Len(text) /\ Len(EncodeField(c)) \in Nat
  BY <1>1, FieldIs DEF Holding
<1>3. ASSUME NEW x, NEW z \in Nat, x \in Nat, x <= z PROVE x # z + 2 /\ x + 1 # z + 2 /\ ~(x > z)
  BY <1>3
<1>4. CASE withId /\ ~quoted /\ (pos = b[j] + 1 \/ pos = b[j] + 2)
  <2>1. ASSUME NEW x \in Nat, NEW z \in Nat, x + 2 <= z PROVE x + 1 # z + 2 /\ x + 2 # z + 2
    BY <2>1
  <2> QED
    BY <1>1, <1>2, <1>4, <2>1 DEF Parsed
<1>5. CASE InCell(c, p)
  <2>1. PICK d, x : d = c /\ x = p
    OBVIOUS
  <2>2. d \in Seq(Symbols) /\ x \in Nat /\ Len(d) \in Nat /\ End(d, x) <= Len(text) /\ InCell(d, x) /\ Holding(d, x)
    BY <1>1, <1>2, <1>5, <2>1
  <2>3. ASSUME NEW k \in 0..Len(d), Plain(d, x, k) PROVE ~quoted /\ pos # Len(text) + 2
    <3>1. x + Len(d) <= Len(text) /\ pos = x + k + 1
      BY <2>2, <2>3, FieldIs DEF Plain, End
    <3>2. x + k \in Nat /\ x + k <= Len(text)
      BY <1>2, <2>2, <3>1
    <3> QED
      BY <1>2, <1>3, <2>3, <3>1, <3>2 DEF Plain
  <2>4. CASE Opening(d, x)
    <3>1. x <= Len(text)
      BY <1>2, <2>1, <2>2 DEF End
    <3> QED
      BY <1>2, <1>3, <2>2, <2>4, <3>1 DEF Opening, Parsed
  <2>5. ASSUME NEW at, Doubles(d, at), NEW k \in 0..Len(d), Inside(d, x, at, k) PROVE pos \in Nat /\ pos <= Len(text)
    <3>1. at[k] \in Nat /\ at[k] <= Len(Doubled(d)) /\ Len(Doubled(d)) \in Nat
      <4>1. at \in [0..Len(d) -> Nat] /\ at[0] = 0 /\ Len(Doubled(d)) = at[Len(d)] /\ \A i \in 1..Len(d) : at[i] <= Len(Doubled(d))
        BY <2>5 DEF Doubles
      <4>2. at[k] \in Nat /\ Len(Doubled(d)) \in Nat /\ (k # 0 => k \in 1..Len(d))
        BY <2>2, <4>1
      <4> QED
        BY <4>1, <4>2
    <3>2. Len(EncodeField(d)) = Len(Doubled(d)) + 2
      BY <2>2, <2>5, FieldIs DEF Inside
    <3>3. x + (Len(Doubled(d)) + 2) <= Len(text)
      BY <2>2, <3>2 DEF End
    <3>4. ASSUME NEW n \in Nat, NEW m \in Nat, NEW z \in Nat, n <= m, x + (m + 2) <= z PROVE x + n + 2 \in Nat /\ x + n + 2 <= z
      BY <2>2, <3>4
    <3> QED
      BY <1>2, <2>5, <3>1, <3>3, <3>4 DEF Inside
  <2>6. CASE Closed(d, x)
    <3>1. End(d, x) \in Nat
      BY <1>2, <2>1 DEF End
    <3> QED
      BY <1>2, <1>3, <2>2, <2>6, <3>1 DEF Closed, Parsed
  <2> QED
    BY <1>2, <1>3, <2>2, <2>3, <2>4, <2>5, <2>6 DEF InCell, Parsed
<1> QED
  BY <1>4, <1>5 DEF OnLine

LEMMA ReadBack == CsvInv => RoundTrips
<1> SUFFICES ASSUME CsvInv PROVE RoundTrips
  OBVIOUS
<1>1. PICK b, F : /\ Layout(b) /\ Progress(b, F)
                  /\ Joins(Holds(source.type), Parts, F) /\ GivenBack = F[Len(Parts)]
  BY DEF CsvInv
<1>2. ColumnTyped
  BY DEF CsvInv
<1>3. CASE \E j \in 0..Height : GridIs(F, j) /\ OnLine(b, j)
  BY <1>1, <1>2, <1>3, Unfinished DEF RoundTrips
<1>4. CASE Parsed /\ ~quoted /\ GridIs(F, Height + 1)
  <2>1. /\ Height \in Nat /\ Height + 1 # 0 /\ (Height + 1) - 1 = Height /\ Len(Parts) = Height
        /\ Parts \in Seq(Seq(Holds(source.type)))
    BY <1>2, PartsIs
  <2>2. GivenBack = F[Height]
    BY <1>1, <2>1
  <2>3. /\ Len(grid) = Len(GivenBack) + 1 /\ grid[1] = CellsOf(<<"col">>)
        /\ \A n \in 1..Len(GivenBack) : grid[n + 1] = CellsOf(GivenBack[n].s)
    BY <1>4, <2>1, <2>2 DEF GridIs
  <2>4. grid[1] = Header
    BY <2>3 DEF Header, CellsOf
  <2>5. GivenBack \in Seq(Holds(source.type))
    BY <1>1, <2>1, <2>2 DEF Joins
  <2>6. ASSUME NEW n \in DOMAIN GivenBack
        PROVE  Decode(source.type, Cell(n)) = GivenBack[n] \/ Blurred(source.type, GivenBack[n])
    <3>1. n \in 1..Len(GivenBack) /\ GivenBack[n] \in Holds(source.type)
      BY <2>5, <2>6
    <3>2. Cell(n) = GivenBack[n].s
      <4>1. \A i, d : Len(<<d>>) = 1 /\ Len(<<i, d>>) = 2 /\ <<d>>[1] = d /\ <<i, d>>[2] = d
        OBVIOUS
      <4>2. grid[n + 1] = CellsOf(GivenBack[n].s)
        BY <2>3, <3>1
      <4> QED
        BY <4>1, <4>2 DEF Cell, CellsOf, Header
    <3> QED
      BY <1>2, <3>1, <3>2, ReadsBack DEF ColumnTyped
  <2> QED
    BY <1>4, <2>3, <2>4, <2>6 DEF RoundTrips
<1> QED
  BY <1>1, <1>3, <1>4 DEF Progress

-----------------------------------------------------------------------------
(* What an export has sent or holds to send, up to the end of the page it has read; and the  *)
(* records that the listing still has before that, or at all when no page is left, unsent.   *)
Cut == IF batch.total = -1 THEN Offset ELSE Offset + PageRows
Ends == batch.page = 0 \/ (batch.total # -1 /\ IsLast)
Sees(r) == Times(r) + IF r \in ToSet(batch.rows) THEN 1 ELSE 0
Passed(n) == Ends \/ n <= Cut
Missed == {r \in ToSet(listing) : r > 0 /\ Sees(r) = 0 /\ \E n \in DOMAIN listing : listing[n] = r /\ Passed(n)}

ExportTyped ==
  /\ listing \in Seq(Int) /\ sent \in Seq(Int) /\ lost \in Nat /\ added \in Nat
  /\ batch \in [page : Nat, rows : Seq(Int), total : Nat \cup {-1}]
  /\ batch.total = -1 => batch.rows = <<>>
  /\ batch.page = 0 => batch.total = -1
InOrder(s) == \A m, n \in DOMAIN s : m < n => s[m] < s[n]
Known == \A r \in ToSet(listing) \cup ToSet(sent) \cup ToSet(batch.rows) : r > 0 - added
SeenOften ==
  /\ \A n \in DOMAIN listing : Sees(listing[n]) <= added + IF batch.page = 0 \/ n <= Cut THEN 1 ELSE 0
  /\ \A r \in Int : Sees(r) <= 1 + added
FewMissed == IsFiniteSet(Missed) /\ Cardinality(Missed) <= lost
ExportInv == ExportTyped /\ InOrder(listing) /\ InOrder(batch.rows) /\ Known /\ SeenOften /\ FewMissed

LEMMA TimesNat == ASSUME ExportTyped, NEW r PROVE Times(r) \in Nat
<1>1. DOMAIN sent = 1..Len(sent) /\ Len(sent) \in Nat
  BY DEF ExportTyped
<1>2. IsFiniteSet({n \in DOMAIN sent : sent[n] = r})
  <2>1. IsFiniteSet(1..Len(sent))
    BY <1>1, FS_Interval
  <2> QED
    BY <1>1, <2>1, FS_Subset
<1> QED
  BY <1>2, FS_CardinalityType DEF Times

LEMMA TimesNone == ASSUME ExportTyped, NEW r, r \notin ToSet(sent) PROVE Times(r) = 0
<1>1. {n \in DOMAIN sent : sent[n] = r} = {}
  BY DEF ToSet
<1> QED
  BY <1>1, FS_EmptySet DEF Times

(* How often a record is in a sequence to which others are added, in order. *)
Counted(s, r) == Cardinality({n \in DOMAIN s : s[n] = r})
LEMMA CountedMore ==
  ASSUME NEW s \in Seq(Int), NEW t \in Seq(Int), InOrder(t), NEW r
  PROVE  Counted(s \o t, r) = Counted(s, r) + IF r \in ToSet(t) THEN 1 ELSE 0
<1> DEFINE A == {n \in DOMAIN s : s[n] = r}
           B == {n \in DOMAIN (s \o t) : (s \o t)[n] = r}
<1>1. DOMAIN s = 1..Len(s) /\ DOMAIN t = 1..Len(t) /\ DOMAIN (s \o t) = 1..(Len(s) + Len(t)) /\ Len(s) \in Nat /\ Len(t) \in Nat
  OBVIOUS
<1>2. \A n \in 1..(Len(s) + Len(t)) : (s \o t)[n] = IF n <= Len(s) THEN s[n] ELSE t[n - Len(s)]
  OBVIOUS
<1>3. IsFiniteSet(A) /\ Cardinality(A) \in Nat
  <2>1. IsFiniteSet(1..Len(s))
    BY <1>1, FS_Interval
  <2>2. IsFiniteSet(A)
    BY <1>1, <2>1, FS_Subset
  <2> QED
    BY <2>2, FS_CardinalityType
<1>0. Counted(s \o t, r) = Cardinality(B) /\ Counted(s, r) = Cardinality(A)
  BY DEF Counted
<1> HIDE DEF A, B
<1>4. CASE r \notin ToSet(t)
  <2>1. B = A
    BY <1>1, <1>2, <1>4 DEF ToSet, A, B
  <2> QED
    BY <2>1, <1>0, <1>3, <1>4
<1>5. CASE r \in ToSet(t)
  <2>1. PICK m \in DOMAIN t : t[m] = r
    BY <1>5 DEF ToSet
  <2>2. \A n \in DOMAIN t : t[n] = r => n = m
    BY <1>1, <2>1 DEF InOrder
  <2>3. B = A \cup {Len(s) + m} /\ ~(Len(s) + m \in A)
    BY <1>1, <1>2, <2>1, <2>2 DEF A, B
  <2>4. Cardinality(A \cup {Len(s) + m}) = Cardinality(A) + 1
    BY <1>3, <2>3, FS_AddElement
  <2> QED
    BY <2>3, <2>4, <1>0, <1>3, <1>5
<1> QED
  BY <1>4, <1>5

LEMMA FewerMissed ==
  ASSUME FewMissed, lost \in Nat, lost' \in Nat,
         Missed' \subseteq Missed /\ lost' >= lost
  PROVE  FewMissed'
<1>1. IsFiniteSet(Missed') /\ Cardinality(Missed') <= Cardinality(Missed) /\ Cardinality(Missed) \in Nat /\ Cardinality(Missed') \in Nat
  BY FS_Subset, FS_CardinalityType DEF FewMissed
<1> QED
  BY <1>1 DEF FewMissed

LEMMA ExportFirst == CsvAssumption /\ ExportInit => ExportInv
<1> SUFFICES ASSUME CsvAssumption, ExportInit PROVE ExportInv
  OBVIOUS
<1>1. PICK k \in 0..MaxListed : listing = [n \in 1..k |-> n]
  BY DEF ExportInit
<1>2. k \in Nat /\ DOMAIN listing = 1..k /\ Len(listing) = k /\ listing \in Seq(Int) /\ \A n \in 1..k : listing[n] = n
  BY <1>1 DEF CsvAssumption
<1>3. batch.page = 1 /\ batch.rows = <<>> /\ batch.total = -1 /\ sent = <<>> /\ lost = 0 /\ added = 0
  BY DEF ExportInit, Unread
<1>4. ExportTyped
  BY <1>2, <1>3 DEF ExportInit, ExportTyped, Unread
<1>5. \A r : Times(r) = 0 /\ Sees(r) = 0
  BY <1>3, <1>4, TimesNone DEF Sees, ToSet
<1>6. Offset = 0 /\ Cut = 0 /\ ~Ends
  BY <1>3 DEF Offset, Cut, Ends, CsvAssumption
<1>7. Missed = {}
  BY <1>2, <1>6 DEF Missed, Passed
<1>8. FewMissed
  BY <1>3, <1>7, FS_EmptySet DEF FewMissed
<1>9. SeenOften
  BY <1>2, <1>3, <1>5 DEF SeenOften
<1>10. Known /\ InOrder(listing) /\ InOrder(batch.rows)
  BY <1>2, <1>3 DEF Known, InOrder, ToSet
<1> QED
  BY <1>4, <1>8, <1>9, <1>10 DEF ExportInv

LEMMA PageEnd == ASSUME CsvAssumption, ExportTyped
                 PROVE  Offset \in Int /\ batch.page * PageRows = Offset + PageRows /\ PageRows \in Nat /\ PageRows > 0
<1>1. \A p \in Nat, q \in Nat : (p - 1) * q \in Int /\ p * q = (p - 1) * q + q
  OBVIOUS
<1> QED
  BY <1>1 DEF CsvAssumption, ExportTyped, Offset

LEMMA FetchKeeps == CsvAssumption /\ ExportInv /\ FetchPage => ExportInv'
<1> SUFFICES ASSUME CsvAssumption, ExportInv, FetchPage PROVE ExportInv'
  OBVIOUS
<1> DEFINE end == IF Offset + PageRows < Len(listing) THEN Offset + PageRows ELSE Len(listing)
           rows == SubSeq(listing, Offset + 1, end)
<1>1. /\ ExportTyped /\ InOrder(listing) /\ Known /\ SeenOften /\ FewMissed
      /\ batch.page > 0 /\ batch.total = -1 /\ batch.rows = <<>>
      /\ listing' = listing /\ sent' = sent /\ lost' = lost /\ added' = added
      /\ batch'.page = batch.page /\ batch'.total = Len(listing) /\ batch'.rows = rows
  BY DEF ExportInv, ExportTyped, FetchPage
<1>18. batch.page * PageRows = Offset + PageRows
  BY <1>1, PageEnd
<1>2. /\ Offset \in Nat /\ PageRows \in Nat /\ PageRows > 0
      /\ Len(listing) \in Nat /\ DOMAIN listing = 1..Len(listing)
  <2>1. \A p \in Nat \ {0}, q \in Nat : (p - 1) * q \in Nat
    OBVIOUS
  <2>3. batch.page \in Nat \ {0} /\ PageRows \in Nat
    BY <1>1 DEF CsvAssumption, ExportTyped
  <2>2. Offset \in Nat
    BY <2>1, <2>3 DEF Offset
  <2> QED
    BY <1>1, <2>2, PageEnd DEF ExportTyped
<1>3. /\ rows \in Seq(Int)
      /\ Len(rows) = IF end >= Offset + 1 THEN end - Offset ELSE 0
      /\ \A i \in 1..Len(rows) : rows[i] = listing[Offset + i]
  <2>1. end \in Int /\ end <= Len(listing) /\ listing \in Seq(Int) /\ Offset + 1 \in Int /\ Offset + 1 >= 1
    BY <1>1, <1>2 DEF ExportTyped
  <2>2. ASSUME NEW a \in Int, NEW b \in Int, a >= 1, b <= Len(listing)
        PROVE  /\ SubSeq(listing, a, b) \in Seq(Int)
               /\ Len(SubSeq(listing, a, b)) = IF b >= a THEN b - a + 1 ELSE 0
               /\ \A i \in 1..Len(SubSeq(listing, a, b)) : SubSeq(listing, a, b)[i] = listing[a + i - 1]
    BY <1>2, <2>1, <2>2
  <2>3. \A i \in Nat : Offset + 1 + i - 1 = Offset + i
    BY <1>2
  <2> HIDE DEF end
  <2> QED
    BY <1>2, <2>1, <2>2, <2>3
<1> HIDE DEF rows
<1>4. DOMAIN rows = 1..Len(rows) /\ Len(rows) \in Nat
  BY <1>3
<1>16. /\ \A i \in 1..Len(rows) : Offset + i \in DOMAIN listing /\ Offset < Offset + i /\ Offset + i <= Offset + PageRows
       /\ \A n \in DOMAIN listing : Offset < n /\ n <= Offset + PageRows => n - Offset \in 1..Len(rows)
  <2>1. CASE Offset + PageRows < Len(listing)
    BY <1>2, <1>3, <2>1
  <2>2. CASE Offset + PageRows >= Len(listing) /\ Offset < Len(listing)
    <3>3. Offset \in Nat /\ PageRows \in Nat /\ Len(listing) \in Nat
      BY <1>2
    <3>4. ~(Offset + PageRows < Len(listing)) /\ Len(listing) >= Offset + 1
      BY <2>2, <3>3
    <3>1. end = Len(listing) /\ end >= Offset + 1
      BY <3>4
    <3>2. Len(rows) = Len(listing) - Offset
      BY <1>3, <3>1
    <3> HIDE DEF end
    <3> QED
      BY <1>2, <2>2, <3>2
  <2>3. CASE Offset >= Len(listing)
    <3>1. Offset \in Nat /\ PageRows \in Nat /\ Len(listing) \in Nat
      BY <1>2
    <3>2. end = Len(listing) /\ ~(end >= Offset + 1) /\ \A n \in 1..Len(listing) : ~(Offset < n)
      BY <2>3, <3>1
    <3>3. Len(rows) = 0
      BY <1>3, <3>2
    <3> HIDE DEF end
    <3> QED
      BY <1>2, <3>2, <3>3
  <2> QED
    BY <1>2, <2>1, <2>2, <2>3
<1>17. \A m, n \in DOMAIN listing : /\ listing[m] = listing[n] => m = n
                                    /\ m < n => listing[m] < listing[n]
                                    /\ listing[m] \in Int
  <2>1. \A m \in DOMAIN listing : listing[m] \in Int
    BY <1>1 DEF ExportTyped
  <2>2. \A m, n \in DOMAIN listing : m < n => listing[m] < listing[n]
    BY <1>1 DEF InOrder
  <2> QED
    BY <1>2, <2>1, <2>2
<1>5. \A n \in DOMAIN listing : listing[n] \in ToSet(rows) <=> Offset < n /\ n <= Offset + PageRows
  <2> SUFFICES ASSUME NEW n \in DOMAIN listing
        PROVE  listing[n] \in ToSet(rows) <=> Offset < n /\ n <= Offset + PageRows
    OBVIOUS
  <2>1. ASSUME listing[n] \in ToSet(rows) PROVE Offset < n /\ n <= Offset + PageRows
    <3>1. PICK i \in 1..Len(rows) : listing[n] = listing[Offset + i]
      BY <1>3, <1>4, <2>1 DEF ToSet
    <3>2. n = Offset + i
      BY <1>16, <1>17, <3>1
    <3> QED
      BY <1>16, <3>2
  <2>2. ASSUME Offset < n, n <= Offset + PageRows PROVE listing[n] \in ToSet(rows)
    <3>1. n - Offset \in 1..Len(rows) /\ Offset + (n - Offset) = n
      BY <1>2, <1>16, <2>2
    <3> QED
      BY <1>3, <1>4, <3>1 DEF ToSet
  <2> QED
    BY <2>1, <2>2
<1>6. ToSet(rows) \subseteq ToSet(listing)
  BY <1>3, <1>4, <1>16 DEF ToSet
<1>7. InOrder(rows)
  <2>1. ASSUME NEW m \in 1..Len(rows), NEW n \in 1..Len(rows), m < n PROVE rows[m] < rows[n]
    <3>1. Offset + m < Offset + n
      BY <1>2, <2>1
    <3> QED
      BY <1>3, <1>16, <1>17, <3>1
  <2> QED
    BY <1>4, <2>1 DEF InOrder
<1>8. \A r : Times(r)' = Times(r) /\ Times(r) \in Nat
  BY <1>1, TimesNat DEF Times
<1>9. \A r : Sees(r) = Times(r) /\ Sees(r)' = Times(r) + IF r \in ToSet(rows) THEN 1 ELSE 0
  BY <1>1, <1>8 DEF Sees, ToSet
<1>10. Cut = Offset /\ Cut' = Offset + PageRows /\ ~Ends /\ (Ends' <=> Len(listing) <= Offset + PageRows)
  BY <1>1, <1>2, <1>18 DEF Cut, Ends, IsLast, Offset
<1>11. ExportTyped'
  <2>1. batch' = [batch EXCEPT !.rows = rows, !.total = Len(listing)]
    BY DEF FetchPage, rows
  <2>2. batch' \in [page : Nat, rows : Seq(Int), total : Nat \cup {-1}]
    BY <1>1, <1>2, <1>3, <2>1 DEF ExportTyped
  <2>3. batch'.page > 0 /\ batch'.total # -1
    BY <1>1, <1>2
  <2> QED
    BY <1>1, <2>2, <2>3 DEF ExportTyped
<1>12. Known'
  BY <1>1, <1>6 DEF Known, ToSet
<1>13. \A n \in DOMAIN listing : \A r : r = listing[n] =>
         Sees(r)' = Times(r) + IF Offset < n /\ n <= Offset + PageRows THEN 1 ELSE 0
  BY <1>5, <1>9
<1>14. SeenOften'
  <2>1. \A n \in DOMAIN listing : \A r : r = listing[n] => Times(r) <= added + IF n <= Offset THEN 1 ELSE 0
    BY <1>1, <1>9, <1>10 DEF SeenOften
  <2>2. ASSUME NEW n \in DOMAIN listing, NEW r, r = listing[n]
        PROVE  Sees(r)' <= added + (IF n <= Offset + PageRows THEN 1 ELSE 0) /\ Sees(r)' <= 1 + added
    <3>1. Sees(r)' = Times(r) + IF Offset < n /\ n <= Offset + PageRows THEN 1 ELSE 0
      BY <1>13, <2>2
    <3>2. Times(r) <= added + IF n <= Offset THEN 1 ELSE 0
      BY <2>1, <2>2
    <3>3. Times(r) \in Nat /\ added \in Nat /\ n \in Nat
      BY <1>1, <1>2, <1>8 DEF ExportTyped
    <3> HIDE DEF rows
    <3> QED
      BY <1>2, <3>1, <3>2, <3>3
  <2>3. \A r \in Int : Sees(r)' <= 1 + added
    <3> SUFFICES ASSUME NEW r \in Int PROVE Sees(r)' <= 1 + added
      OBVIOUS
    <3>1. CASE r \in ToSet(rows)
      <4>1. PICK n \in DOMAIN listing : r = listing[n]
        BY <1>6, <3>1 DEF ToSet
      <4> QED
        BY <2>2, <4>1
    <3>2. CASE r \notin ToSet(rows)
      <4>1. Sees(r)' = Times(r) /\ Sees(r) = Times(r)
        BY <1>8, <1>9, <3>2
      <4> QED
        BY <1>1, <4>1 DEF SeenOften
    <3> QED
      BY <3>1, <3>2
  <2>4. \A n \in DOMAIN listing' : Sees(listing[n])' <= added' + IF batch'.page = 0 \/ n <= Cut' THEN 1 ELSE 0
    BY <1>1, <1>10, <2>2
  <2> QED
    BY <1>1, <2>3, <2>4 DEF SeenOften
<1>15. Missed' \subseteq Missed
  <2> SUFFICES ASSUME NEW r \in ToSet(listing), r > 0, Sees(r)' = 0, NEW n \in DOMAIN listing, listing[n] = r, Passed(n)'
        PROVE  r \in Missed
    BY <1>1 DEF Missed
  <2>1. ~(Offset < n /\ n <= Offset + PageRows) /\ Times(r) = 0
    BY <1>8, <1>13
  <2>2. n <= Offset
    BY <1>2, <1>10, <2>1 DEF Passed
  <2> QED
    BY <1>9, <1>10, <2>1, <2>2 DEF Missed, Passed
<1> QED
  BY <1>1, <1>7, <1>11, <1>12, <1>14, <1>15, FewerMissed DEF ExportInv, ExportTyped

LEMMA SetOfBoth ==
  ASSUME NEW S, NEW s \in Seq(S), NEW t \in Seq(S)
  PROVE  ToSet(s \o t) = ToSet(s) \cup ToSet(t)
<1>1. /\ DOMAIN (s \o t) = 1..(Len(s) + Len(t)) /\ Len(s) \in Nat /\ Len(t) \in Nat
      /\ DOMAIN s = 1..Len(s) /\ DOMAIN t = 1..Len(t)
  OBVIOUS
<1>2. \A n \in DOMAIN s : n \in DOMAIN (s \o t) /\ (s \o t)[n] = s[n]
  BY <1>1
<1>3. \A n \in DOMAIN t : Len(s) + n \in DOMAIN (s \o t) /\ (s \o t)[Len(s) + n] = t[n]
  BY <1>1
<1>4. \A n \in DOMAIN (s \o t) : n \in DOMAIN s \/ (n - Len(s) \in DOMAIN t /\ n = Len(s) + (n - Len(s)))
  BY <1>1
<1>5. \A r : r \in ToSet(s) \cup ToSet(t) => r \in ToSet(s \o t)
  BY <1>2, <1>3 DEF ToSet
<1>6. \A r \in ToSet(s \o t) : r \in ToSet(s) \cup ToSet(t)
  <2> SUFFICES ASSUME NEW n \in DOMAIN (s \o t) PROVE (s \o t)[n] \in ToSet(s) \cup ToSet(t)
    BY DEF ToSet
  <2>1. CASE n \in DOMAIN s
    BY <1>2, <2>1 DEF ToSet
  <2>2. CASE n - Len(s) \in DOMAIN t /\ n = Len(s) + (n - Len(s))
    <3>1. PICK m \in DOMAIN t : n = Len(s) + m
      BY <2>2
    <3>2. (s \o t)[n] = t[m]
      BY <1>3, <3>1
    <3> QED
      BY <3>2 DEF ToSet
  <2> QED
    BY <1>4, <2>1, <2>2
<1> QED
  BY <1>5, <1>6

LEMMA PullKeeps == CsvAssumption /\ ExportInv /\ Pull => ExportInv'
<1> SUFFICES ASSUME CsvAssumption, ExportInv, Pull PROVE ExportInv'
  OBVIOUS
<1>1. /\ ExportTyped /\ InOrder(listing) /\ InOrder(batch.rows) /\ Known /\ SeenOften /\ FewMissed
      /\ batch.page > 0 /\ batch.total # -1
      /\ listing' = listing /\ sent' = sent \o batch.rows /\ lost' = lost /\ added' = added
      /\ batch'.page = (IF IsLast THEN 0 ELSE batch.page + 1) /\ batch'.total = -1 /\ batch'.rows = <<>>
  BY DEF ExportInv, ExportTyped, Pull, Unread
<1>2. batch.rows \in Seq(Int) /\ sent \in Seq(Int) /\ batch.page \in Nat
  BY <1>1 DEF ExportTyped
<1>3. ExportTyped'
  <2>1. batch' \in [page : Nat, rows : Seq(Int), total : Nat \cup {-1}]
    <3>1. batch' = [page |-> IF IsLast THEN 0 ELSE batch.page + 1, rows |-> <<>>, total |-> -1]
      BY DEF Pull, Unread
    <3>2. (IF IsLast THEN 0 ELSE batch.page + 1) \in Nat /\ <<>> \in Seq(Int) /\ -1 \in Nat \cup {-1}
      BY <1>2
    <3> QED
      BY <3>1, <3>2
  <2> QED
    BY <1>1, <1>2, <2>1 DEF ExportTyped
<1>4. ToSet(sent') = ToSet(sent) \cup ToSet(batch.rows)
  BY <1>1, <1>2, SetOfBoth
<1>5. \A r : Sees(r)' = Sees(r)
  <2> TAKE r
  <2>1. Times(r) = Counted(sent, r) /\ Times(r)' = Counted(sent', r)
    BY DEF Times, Counted
  <2>2. Times(r)' = Times(r) + IF r \in ToSet(batch.rows) THEN 1 ELSE 0
    BY <1>1, <1>2, <2>1, CountedMore
  <2>3. Times(r) \in Nat /\ r \notin ToSet(batch'.rows)
    BY <1>1, TimesNat DEF ToSet
  <2> QED
    BY <2>2, <2>3 DEF Sees
<1>6. /\ Offset \in Int /\ batch.page * PageRows = Offset + PageRows /\ PageRows \in Nat
      /\ batch.page + 1 - 1 = batch.page
  BY <1>1, <1>2, PageEnd
<1>7. Ends' <=> Ends
  BY <1>1, <1>2 DEF Ends
<1>8. ~Ends => Cut' = Cut
  <2> SUFFICES ASSUME ~Ends PROVE Cut' = Cut
    OBVIOUS
  <2>1. batch'.page = batch.page + 1 /\ batch'.total = -1
    BY <1>1 DEF Ends
  <2>2. Cut' = (batch'.page - 1) * PageRows /\ Cut = Offset + PageRows
    BY <1>1, <2>1 DEF Cut, Offset
  <2>3. batch'.page - 1 = batch.page
    BY <1>2, <2>1
  <2> QED
    BY <1>6, <2>2, <2>3
<1>9. Missed' \subseteq Missed
  BY <1>1, <1>5, <1>7, <1>8 DEF Missed, Passed
<1>10. Known' /\ InOrder(batch'.rows)
  <2>1. batch'.rows = <<>> /\ DOMAIN batch'.rows = {}
    BY <1>1
  <2>2. ToSet(batch'.rows) = {} /\ InOrder(batch'.rows)
    BY <2>1 DEF InOrder, ToSet
  <2>3. ToSet(listing)' \cup ToSet(sent)' \cup ToSet(batch.rows)' = ToSet(listing) \cup ToSet(sent) \cup ToSet(batch.rows)
    BY <1>1, <1>4, <2>2
  <2> QED
    BY <1>1, <2>2, <2>3 DEF Known
<1>11. SeenOften'
  <2>1. \A r \in Int : Sees(r)' <= 1 + added
    BY <1>1, <1>5 DEF SeenOften
  <2>2. DOMAIN listing = 1..Len(listing) /\ \A n \in DOMAIN listing : listing[n] \in Int
    BY <1>1 DEF ExportTyped
  <2>3. \A n \in DOMAIN listing : \A r : r = listing[n] => Sees(r)' <= added + IF batch'.page = 0 \/ n <= Cut' THEN 1 ELSE 0
    <3> SUFFICES ASSUME NEW n \in DOMAIN listing, NEW r, r = listing[n]
          PROVE  Sees(r)' <= added + IF batch'.page = 0 \/ n <= Cut' THEN 1 ELSE 0
      OBVIOUS
    <3>1. CASE batch'.page = 0
      BY <1>1, <2>1, <2>2, <3>1 DEF ExportTyped
    <3>2. CASE batch'.page # 0
      <4>1. Cut' = Cut
        BY <1>1, <1>7, <1>8, <3>2 DEF Ends
      <4> QED
        BY <1>1, <1>5, <3>2, <4>1 DEF SeenOften
    <3> QED
      BY <3>1, <3>2
  <2>4. \A n \in DOMAIN listing' : Sees(listing[n])' <= added' + IF batch'.page = 0 \/ n <= Cut' THEN 1 ELSE 0
    BY <1>1, <2>3
  <2> QED
    BY <1>1, <2>1, <2>4 DEF SeenOften
<1> QED
  BY <1>1, <1>3, <1>9, <1>10, <1>11, FewerMissed DEF ExportInv, ExportTyped

(* One that is created comes first of all. *)
LEMMA CreateMeanwhileKeeps == CsvAssumption /\ ExportInv /\ CreateMeanwhile => ExportInv'
<1> SUFFICES ASSUME CsvAssumption, ExportInv, CreateMeanwhile PROVE ExportInv'
  OBVIOUS
<1>1. /\ ExportTyped /\ InOrder(listing) /\ InOrder(batch.rows) /\ Known /\ SeenOften /\ FewMissed
      /\ batch.page > 0
      /\ listing' = <<0 - added>> \o listing /\ added' = added + 1 /\ batch' = batch /\ sent' = sent /\ lost' = lost
  BY DEF ExportInv, CreateMeanwhile
<1>2. /\ listing \in Seq(Int) /\ Len(listing) \in Nat /\ DOMAIN listing = 1..Len(listing) /\ added \in Nat
      /\ \A n \in DOMAIN listing : listing[n] \in Int
  BY <1>1 DEF ExportTyped
<1>3. /\ listing' \in Seq(Int) /\ DOMAIN listing' = 1..(Len(listing) + 1)
      /\ listing'[1] = 0 - added /\ \A n \in 2..(Len(listing) + 1) : listing'[n] = listing[n - 1]
  BY <1>1, <1>2
<1>4. \A n \in 2..(Len(listing) + 1) : n - 1 \in DOMAIN listing
  BY <1>2
<1>5. ToSet(listing') \subseteq ToSet(listing) \cup {0 - added}
  <2>1. \A n \in 1..(Len(listing) + 1) : n = 1 \/ n \in 2..(Len(listing) + 1)
    BY <1>2
  <2> QED
    BY <1>3, <1>4, <2>1 DEF ToSet
<1>6. \A n \in DOMAIN listing : listing[n] > 0 - added
  BY <1>1 DEF Known, ToSet
<1>7. InOrder(listing')
  <2> SUFFICES ASSUME NEW m \in 1..(Len(listing) + 1), NEW n \in 1..(Len(listing) + 1), m < n
        PROVE  listing'[m] < listing'[n]
    BY <1>3 DEF InOrder
  <2>1. n \in 2..(Len(listing) + 1) /\ n - 1 \in DOMAIN listing /\ listing'[n] = listing[n - 1]
    BY <1>2, <1>3, <1>4
  <2>2. CASE m = 1
    BY <1>3, <1>6, <2>1, <2>2
  <2>3. CASE m # 1
    <3>1. m \in 2..(Len(listing) + 1) /\ m - 1 \in DOMAIN listing /\ listing'[m] = listing[m - 1] /\ m - 1 < n - 1
      BY <1>2, <1>3, <1>4, <2>3
    <3> QED
      BY <1>1, <2>1, <3>1 DEF InOrder
  <2> QED
    BY <2>2, <2>3
<1>8. \A r : Sees(r)' = Sees(r)
  BY <1>1 DEF Sees, Times
<1>9. Cut' = Cut /\ (Ends' <=> Ends) /\ Cut \in Int
  BY <1>1, PageEnd DEF Cut, Ends, IsLast, Offset
<1>10. ExportTyped'
  BY <1>1, <1>2, <1>3 DEF ExportTyped
<1>11. \A r \in ToSet(listing) \cup ToSet(sent) \cup ToSet(batch.rows) : r \in Int
  <2>1. sent \in Seq(Int) /\ batch.rows \in Seq(Int)
    BY <1>1 DEF ExportTyped
  <2> QED
    BY <1>2, <2>1 DEF ToSet
<1>12. Known'
  <2> SUFFICES ASSUME NEW r \in ToSet(listing') \cup ToSet(sent) \cup ToSet(batch.rows) PROVE r > 0 - (added + 1)
    BY <1>1 DEF Known
  <2>1. CASE r = 0 - added
    BY <1>2, <2>1
  <2>2. CASE r \in ToSet(listing) \cup ToSet(sent) \cup ToSet(batch.rows)
    <3>1. r \in Int /\ r > 0 - added
      BY <1>1, <1>11, <2>2 DEF Known
    <3> QED
      BY <1>2, <3>1
  <2> QED
    BY <1>5, <2>1, <2>2
<1>13. Sees(0 - added) = 0
  <2>1. 0 - added \notin ToSet(sent) /\ 0 - added \notin ToSet(batch.rows)
    BY <1>1, <1>2 DEF Known
  <2> QED
    BY <1>1, <2>1, TimesNone DEF Sees
<1>14. SeenOften'
  <2>1. \A r : Sees(r) \in Nat
    BY <1>1, TimesNat DEF Sees
  <2>2. \A r \in Int : Sees(r)' <= 1 + added'
    BY <1>1, <1>2, <1>8, <2>1 DEF SeenOften
  <2>3. \A n \in DOMAIN listing' : \A r : r = listing'[n] => Sees(r)' <= added' + IF batch'.page = 0 \/ n <= Cut' THEN 1 ELSE 0
    <3> SUFFICES ASSUME NEW n \in 1..(Len(listing) + 1), NEW r, r = listing'[n]
          PROVE  Sees(r) <= added + 1 + IF batch.page = 0 \/ n <= Cut THEN 1 ELSE 0
      BY <1>1, <1>3, <1>8, <1>9
    <3>1. CASE n = 1
      BY <1>2, <1>3, <1>13, <3>1
    <3>2. CASE n # 1
      <4>1. n \in 2..(Len(listing) + 1) /\ n - 1 \in DOMAIN listing /\ r = listing[n - 1]
        BY <1>2, <1>3, <1>4, <3>2
      <4>2. Sees(r) <= added + 1
        BY <1>1, <1>2, <4>1 DEF SeenOften
      <4> QED
        BY <1>1, <1>2, <2>1, <4>2
    <3> QED
      BY <3>1, <3>2
  <2>4. \A n \in DOMAIN listing' : Sees(listing[n])' <= added' + IF batch'.page = 0 \/ n <= Cut' THEN 1 ELSE 0
    BY <2>3
  <2> QED
    BY <2>2, <2>4 DEF SeenOften
<1>15. Missed' \subseteq Missed
  <2> SUFFICES ASSUME NEW r \in ToSet(listing'), r > 0, Sees(r) = 0,
                      NEW n \in 1..(Len(listing) + 1), listing'[n] = r, Ends \/ n <= Cut
        PROVE  r \in Missed
    BY <1>3, <1>8, <1>9 DEF Missed, Passed
  <2>1. n # 1
    BY <1>2, <1>3
  <2>2. n \in 2..(Len(listing) + 1) /\ n - 1 \in DOMAIN listing /\ r = listing[n - 1]
    BY <1>2, <1>3, <1>4, <2>1
  <2>3. Ends \/ n - 1 <= Cut
    BY <1>9, <2>2
  <2> QED
    BY <2>2, <2>3 DEF Missed, Passed, ToSet
<1> QED
  BY <1>1, <1>7, <1>10, <1>12, <1>14, <1>15, FewerMissed DEF ExportInv, ExportTyped

LEMMA SubSeqIs ==
  ASSUME NEW s \in Seq(Int), NEW a \in Int, NEW b \in Int, a >= 1, b <= Len(s)
  PROVE  /\ SubSeq(s, a, b) \in Seq(Int)
         /\ Len(SubSeq(s, a, b)) = IF b >= a THEN b - a + 1 ELSE 0
         /\ \A i \in 1..Len(SubSeq(s, a, b)) : SubSeq(s, a, b)[i] = s[a + i - 1]
OBVIOUS

LEMMA ConcatIs ==
  ASSUME NEW s \in Seq(Int), NEW t \in Seq(Int)
  PROVE  /\ s \o t \in Seq(Int) /\ Len(s \o t) = Len(s) + Len(t)
         /\ \A n \in 1..Len(s) : (s \o t)[n] = s[n]
         /\ \A n \in 1..Len(t) : (s \o t)[Len(s) + n] = t[n]
OBVIOUS

LEMMA RemoveAtIs ==
  ASSUME NEW s \in Seq(Int), NEW d \in 1..Len(s)
  PROVE  /\ RemoveAt(s, d) \in Seq(Int) /\ DOMAIN RemoveAt(s, d) = 1..(Len(s) - 1)
         /\ \A n \in 1..(Len(s) - 1) : RemoveAt(s, d)[n] = s[IF n < d THEN n ELSE n + 1]
<1> DEFINE a == SubSeq(s, 1, d - 1)
           b == SubSeq(s, d + 1, Len(s))
<1>1. Len(s) \in Nat /\ d \in Int /\ 1 <= d /\ d <= Len(s)
  OBVIOUS
<1>2. a \in Seq(Int) /\ Len(a) = d - 1 /\ \A i \in 1..(d - 1) : a[i] = s[i]
  <2>1. \A i \in Int : 1 + i - 1 = i
    OBVIOUS
  <2>2. d - 1 \in Int /\ d - 1 <= Len(s) /\ (IF d - 1 >= 1 THEN d - 1 - 1 + 1 ELSE 0) = d - 1 /\ 1 \in Int
    BY <1>1
  <2>3. a \in Seq(Int) /\ Len(a) = d - 1 /\ \A i \in 1..Len(a) : a[i] = s[1 + i - 1]
    BY <2>2, SubSeqIs
  <2>4. \A i \in 1..(d - 1) : a[i] = s[1 + i - 1] /\ i \in Int
    BY <2>3
  <2> HIDE DEF a
  <2> QED
    BY <2>1, <2>3, <2>4
<1>3. b \in Seq(Int) /\ Len(b) = Len(s) - d /\ \A i \in 1..(Len(s) - d) : b[i] = s[d + i]
  <2>1. \A i \in Int : d + 1 + i - 1 = d + i
    BY <1>1
  <2>2. /\ d + 1 \in Int /\ d + 1 >= 1 /\ Len(s) \in Int /\ Len(s) <= Len(s)
        /\ (IF Len(s) >= d + 1 THEN Len(s) - (d + 1) + 1 ELSE 0) = Len(s) - d
    BY <1>1
  <2>3. /\ b \in Seq(Int) /\ Len(b) = (IF Len(s) >= d + 1 THEN Len(s) - (d + 1) + 1 ELSE 0)
        /\ \A i \in 1..Len(b) : b[i] = s[d + 1 + i - 1]
    BY <2>2, SubSeqIs
  <2> HIDE DEF b
  <2>4. Len(b) = Len(s) - d
    <3>1. \A l, x, y : l = x /\ x = y => l = y
      OBVIOUS
    <3> QED
      BY <2>2, <2>3, <3>1
  <2>5. \A i \in 1..(Len(s) - d) : b[i] = s[d + 1 + i - 1]
    BY <2>3, <2>4, Zenon
  <2>6. \A i \in 1..(Len(s) - d) : i \in Int
    OBVIOUS
  <2>7. \A i \in 1..(Len(s) - d) : b[i] = s[d + i]
    BY <2>1, <2>5, <2>6, Zenon
  <2> QED
    BY <2>3, <2>4, <2>7, Zenon
<1>4. RemoveAt(s, d) = a \o b
  BY DEF RemoveAt
<1> HIDE DEF a, b
<1>5. a \o b \in Seq(Int) /\ DOMAIN (a \o b) = 1..(Len(s) - 1)
  <2>1. a \o b \in Seq(Int) /\ Len(a \o b) = (d - 1) + (Len(s) - d)
    <3>1. a \o b \in Seq(Int) /\ Len(a \o b) = Len(a) + Len(b)
      BY <1>2, <1>3, ConcatIs, Zenon
    <3> QED
      BY <1>2, <1>3, <3>1, Zenon
  <2>2. (d - 1) + (Len(s) - d) = Len(s) - 1
    BY <1>1
  <2>3. DOMAIN (a \o b) = 1..Len(a \o b)
    BY <2>1
  <2> QED
    BY <2>1, <2>2, <2>3
<1>6. ASSUME NEW n \in 1..(Len(s) - 1) PROVE (a \o b)[n] = s[IF n < d THEN n ELSE n + 1]
  <2>1. CASE n < d
    <3>1. n \in 1..(d - 1) /\ n \in 1..Len(a)
      BY <1>1, <1>2, <2>1
    <3>2. (a \o b)[n] = a[n]
      BY <1>2, <1>3, <3>1, ConcatIs, Zenon
    <3>3. (a \o b)[n] = s[n]
      BY <1>2, <3>1, <3>2, Zenon
    <3> QED
      BY <2>1, <3>3, Zenon
  <2>2. CASE n >= d
    <3>1. n - (d - 1) \in 1..(Len(s) - d) /\ d + (n - (d - 1)) = n + 1 /\ (d - 1) + (n - (d - 1)) = n /\ ~(n < d)
      BY <1>1, <2>2
    <3>2. (a \o b)[Len(a) + (n - (d - 1))] = b[n - (d - 1)]
      <4>1. \A m \in 1..Len(b) : (a \o b)[Len(a) + m] = b[m]
        BY <1>2, <1>3, ConcatIs, Zenon
      <4>2. n - (d - 1) \in 1..Len(b)
        BY <1>3, <3>1, Zenon
      <4> QED
        BY <4>1, <4>2, Zenon
    <3> QED
      BY <1>2, <1>3, <3>1, <3>2
  <2>3. n < d \/ n >= d
    <3>1. n \in Int
      BY <1>1
    <3> QED
      BY <1>1, <3>1
  <2> QED
    BY <2>1, <2>2, <2>3
<1> QED
  BY <1>4, <1>5, <1>6

(* When one before the end of what was read is deleted, the one after it is passed by.         *)
LEMMA DeleteMeanwhileKeeps == CsvAssumption /\ ExportInv /\ DeleteMeanwhile => ExportInv'
<1> SUFFICES ASSUME CsvAssumption, ExportInv, DeleteMeanwhile PROVE ExportInv'
  OBVIOUS
<1>1. /\ ExportTyped /\ InOrder(listing) /\ InOrder(batch.rows) /\ Known /\ SeenOften /\ FewMissed
      /\ batch.page > 0 /\ added' = added /\ batch' = batch /\ sent' = sent /\ lost' = lost + 1
  BY DEF ExportInv, DeleteMeanwhile
<1>2. PICK d \in DOMAIN listing : listing' = RemoveAt(listing, d)
  BY DEF DeleteMeanwhile
<1>3. /\ listing \in Seq(Int) /\ Len(listing) \in Nat /\ DOMAIN listing = 1..Len(listing) /\ added \in Nat
      /\ \A n \in DOMAIN listing : listing[n] \in Int
  BY <1>1 DEF ExportTyped
<1> DEFINE Old(n) == IF n < d THEN n ELSE n + 1
<1>4. /\ listing' \in Seq(Int) /\ DOMAIN listing' = 1..(Len(listing) - 1)
      /\ \A n \in 1..(Len(listing) - 1) : listing'[n] = listing[Old(n)]
  BY <1>2, <1>3, RemoveAtIs
<1>5. \A n \in 1..(Len(listing) - 1) : Old(n) \in DOMAIN listing /\ Old(n) >= n /\ Old(n) <= n + 1 /\ n \in Nat
  BY <1>3
<1>6. \A m, n \in 1..(Len(listing) - 1) : m < n => Old(m) < Old(n)
  BY <1>3
<1> HIDE DEF Old
<1>7. ToSet(listing') \subseteq ToSet(listing)
  BY <1>4, <1>5 DEF ToSet
<1>8. InOrder(listing')
  BY <1>1, <1>4, <1>5, <1>6 DEF InOrder
<1>9. \A r : Sees(r)' = Sees(r)
  BY <1>1 DEF Sees, Times
<1>10. Cut' = Cut /\ (Ends' <=> Ends) /\ Cut \in Int
  BY <1>1, <1>4, PageEnd DEF Cut, Ends, IsLast, Offset
<1>11. ExportTyped' /\ Known'
  BY <1>1, <1>3, <1>4, <1>7 DEF ExportTyped, Known
<1>12. SeenOften'
  <2>1. \A r : Sees(r) \in Nat
    BY <1>1, TimesNat DEF Sees
  <2>2. \A n \in DOMAIN listing' : \A r : r = listing'[n] => Sees(r)' <= added' + IF batch'.page = 0 \/ n <= Cut' THEN 1 ELSE 0
    <3> SUFFICES ASSUME NEW n \in 1..(Len(listing) - 1), NEW r, r = listing[Old(n)]
          PROVE  Sees(r) <= added + IF batch.page = 0 \/ n <= Cut THEN 1 ELSE 0
      BY <1>1, <1>4, <1>9, <1>10
    <3>1. Sees(r) <= added + IF batch.page = 0 \/ Old(n) <= Cut THEN 1 ELSE 0
      BY <1>1, <1>5 DEF SeenOften
    <3>2. Old(n) <= Cut => n <= Cut
      BY <1>3, <1>5, <1>10
    <3> QED
      BY <1>3, <2>1, <3>1, <3>2
  <2>3. \A n \in DOMAIN listing' : Sees(listing[n])' <= added' + IF batch'.page = 0 \/ n <= Cut' THEN 1 ELSE 0
    BY <2>2
  <2> QED
    BY <1>1, <1>9, <2>3 DEF SeenOften
<1>13. \A r \in Missed' : r \in Missed \/ r = listing[Cut + 1]
  <2> SUFFICES ASSUME NEW r \in ToSet(listing'), r > 0, Sees(r) = 0,
                      NEW n \in 1..(Len(listing) - 1), listing[Old(n)] = r, Ends \/ n <= Cut, r # listing[Cut + 1]
        PROVE  r \in Missed
    BY <1>4, <1>9, <1>10 DEF Missed, Passed
  <2>1. Ends \/ Old(n) <= Cut
    <3>1. Old(n) # Cut + 1
      OBVIOUS
    <3> QED
      BY <1>3, <1>5, <1>10, <3>1
  <2> QED
    BY <1>5, <1>7, <2>1 DEF Missed, Passed
<1>14. FewMissed'
  <2>1. IsFiniteSet(Missed) /\ Cardinality(Missed) \in Nat /\ Cardinality(Missed) <= lost /\ lost \in Nat
    BY <1>1, FS_CardinalityType DEF FewMissed, ExportTyped
  <2>2. IsFiniteSet(Missed \cup {listing[Cut + 1]}) /\ Cardinality(Missed \cup {listing[Cut + 1]}) <= Cardinality(Missed) + 1
    <3>1. CASE listing[Cut + 1] \in Missed
      <4>1. Missed \cup {listing[Cut + 1]} = Missed
        BY <3>1
      <4> QED
        BY <2>1, <4>1
    <3>2. CASE listing[Cut + 1] \notin Missed
      BY <2>1, <3>2, FS_AddElement
    <3> QED
      BY <3>1, <3>2
  <2>3. Missed' \subseteq Missed \cup {listing[Cut + 1]}
    BY <1>13
  <2>4. IsFiniteSet(Missed') /\ Cardinality(Missed') <= Cardinality(Missed \cup {listing[Cut + 1]})
    BY <2>2, <2>3, FS_Subset
  <2>5. Cardinality(Missed') \in Nat /\ Cardinality(Missed \cup {listing[Cut + 1]}) \in Nat
    BY <2>2, <2>4, FS_CardinalityType
  <2>6. ASSUME NEW a \in Nat, NEW b \in Nat, NEW m \in Nat, NEW l \in Nat, a <= b, b <= m + 1, m <= l PROVE a <= l + 1
    BY <2>6
  <2>7. lost \in Nat /\ lost' = lost + 1 /\ Cardinality(Missed) \in Nat /\ Cardinality(Missed) <= lost
    BY <1>1, <2>1 DEF FewMissed, ExportTyped
  <2>8. Cardinality(Missed') <= lost + 1
    BY <2>2, <2>4, <2>5, <2>6, <2>7, Zenon
  <2> QED
    BY <2>4, <2>7, <2>8 DEF FewMissed
<1>15. InOrder(batch'.rows)
  BY <1>1, Zenon
<1> QED
  BY <1>8, <1>11, <1>12, <1>14, <1>15 DEF ExportInv

LEMMA ExportedAlways == CsvSpec => []ExportInv
<1>1. CsvInit /\ ExportInit => ExportInv
  BY ExportFirst, CsvAssumption
<1>2. ExportInv /\ [(CsvNext /\ UNCHANGED exportVars) \/ (ExportNext /\ UNCHANGED csvVars)]_<<csvVars, exportVars>> => ExportInv'
  <2>1. ExportInv /\ UNCHANGED exportVars => ExportInv'
    <3> SUFFICES ASSUME ExportInv, UNCHANGED exportVars PROVE ExportInv'
      OBVIOUS
    <3>1. UNCHANGED <<listing, batch, sent, lost, added>>
      BY DEF exportVars
    <3>2. Ends' = Ends /\ Cut' = Cut /\ ExportTyped' = ExportTyped /\ Known' = Known
      BY <3>1 DEF Ends, IsLast, Cut, Offset, ExportTyped, Known
    <3>3. \A r : Sees(r)' = Sees(r)
      BY <3>1 DEF Sees, Times
    <3>4. Missed' = Missed
      BY <3>1, <3>2, <3>3 DEF Missed, Passed
    <3>5. FewMissed'
      BY <3>1, <3>4 DEF ExportInv, FewMissed
    <3>6. SeenOften'
      BY <3>1, <3>2, <3>3 DEF ExportInv, SeenOften
    <3> QED
      BY <3>1, <3>2, <3>5, <3>6 DEF ExportInv, InOrder
  <2>2. ExportInv /\ ExportNext => ExportInv'
    BY CsvAssumption, FetchKeeps, PullKeeps, CreateMeanwhileKeeps, DeleteMeanwhileKeeps DEF ExportNext
  <2> QED
    BY <2>1, <2>2 DEF exportVars
<1> QED
  BY <1>1, <1>2, PTL DEF CsvSpec

LEMMA ExportTells == ExportInv => ExportsEach
<1> SUFFICES ASSUME ExportInv PROVE ExportsEach
  OBVIOUS
<1>1. ExportTyped /\ SeenOften /\ FewMissed
  BY DEF ExportInv
<1>2. \A r : Times(r) \in Nat
  BY <1>1, TimesNat
<1>3. \A r \in ToSet(sent) : Times(r) <= 1 + added
  <2>1. \A r \in ToSet(sent) : r \in Int
    BY <1>1 DEF ToSet, ExportTyped
  <2> SUFFICES ASSUME NEW r \in ToSet(sent) PROVE Times(r) <= 1 + added
    OBVIOUS
  <2>2. Sees(r) <= 1 + added
    BY <1>1, <2>1 DEF SeenOften
  <2>3. Times(r) \in Nat /\ added \in Nat /\ (Sees(r) = Times(r) \/ Sees(r) = Times(r) + 1)
    BY <1>1, <1>2 DEF Sees, ExportTyped
  <2> QED
    BY <2>2, <2>3
<1>4. batch.page = 0 => Missed = {r \in ToSet(listing) : r > 0 /\ Times(r) = 0}
  <2> SUFFICES ASSUME batch.page = 0 PROVE Missed = {r \in ToSet(listing) : r > 0 /\ Times(r) = 0}
    OBVIOUS
  <2>1. batch.rows = <<>> /\ Ends
    BY <1>1 DEF ExportTyped, Ends
  <2>2. \A r : Sees(r) = Times(r)
    BY <1>2, <2>1 DEF Sees, ToSet
  <2> QED
    BY <2>1, <2>2 DEF Missed, Passed, ToSet
<1>5. batch.page = 0 => Cardinality({r \in ToSet(listing) : r > 0 /\ Times(r) = 0}) <= lost
  BY <1>1, <1>4 DEF FewMissed
<1>6. ASSUME batch.page = 0, lost = 0, NEW r \in ToSet(listing), r > 0 PROVE Times(r) >= 1
  <2>1. Missed = {}
    BY <1>1, <1>6, FS_CardinalityType, FS_EmptySet DEF FewMissed
  <2>2. Times(r) # 0
    BY <1>4, <1>6, <2>1
  <2> QED
    BY <1>2, <2>2
<1> QED
  BY <1>3, <1>5, <1>6 DEF ExportsEach

(* What is exported reads back as what it was, of a file of any rows and with any characters,  *)
(* and an export of any length sends the records that stay once, whatever comes or goes.       *)
THEOREM FilesReadBack == CsvSpec => []CsvFaithful
<1>1. CsvInit => CsvInv
  BY CsvBegins
<1>2. CsvInv /\ [(CsvNext /\ UNCHANGED exportVars) \/ (ExportNext /\ UNCHANGED csvVars)]_<<csvVars, exportVars>> => CsvInv'
  BY CsvKeeps, Zenon
<1>3. CsvInv => RoundTrips
  BY ReadBack
<1>4. CsvSpec => []ExportInv
  BY ExportedAlways
<1>5. ExportInv => ExportsEach
  BY ExportTells
<1>6. RoundTrips /\ ExportsEach => CsvFaithful
  BY DEF CsvFaithful
<1> QED
  BY <1>1, <1>2, <1>3, <1>4, <1>5, <1>6, PTL DEF CsvSpec
=============================================================================
