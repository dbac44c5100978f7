----------------------------- MODULE RecordsProofs -----------------------------
(***************************************************************************)
(* Theorems about Records, for every graph of records and any number of    *)
(* overlapping requests: type correctness, and, when relations form no     *)
(* cycle, that no delete leaves a reference to a record that is gone or    *)
(* removes a restricted one, and that If-Match keeps what was not seen.    *)
(***************************************************************************)
EXTENDS Records, SequenceTheorems, TLAPS

(* A relation leads from a record of higher rank to one of lower rank.     *)
Acyclic(rank) ==
  \A r, x \in Record, f \in Relation :
    From[f] = Coll[x] /\ To[f] = Coll[r] => rank[r] < rank[x]

-----------------------------------------------------------------------------
(* The inductive invariant. Below, s is a stack of calls, v the records    *)
(* its request has visited, and R the rows.                                *)

Refer(R, f, r) == {x \in Record : R[x].live /\ R[x].refs[f] = r}

(* A call deletes a record that refers to its caller's. *)
Deeper(rank, s) ==
  /\ \A i, j \in 1 .. Len(s) : i < j => rank[s[i].rec] < rank[s[j].rec]
  /\ \A i \in 1 .. Len(s) : \A x \in s[i].kids : rank[s[i].rec] < rank[x]

(* Only the innermost call may not have begun. *)
Opened(s) ==
  \A i \in 1 .. Len(s) : s[i].pc = "refs" \/ (i = Len(s) /\ s[i].kids = {})

(* What refers to a record by a relation that its call is done with has    *)
(* been selected, or is the record of the next call.                       *)
Handled(s, R) ==
  \A i \in 1 .. Len(s) : s[i].pc = "refs" =>
    \A f \in Incoming(s[i].rec) \ s[i].todo : \A x \in Refer(R, f, s[i].rec) :
      x \in s[i].kids \/ (i < Len(s) /\ x = s[i + 1].rec)

(* A visited record is gone, or its call has not returned. *)
Visits(s, v, R) ==
  \A x \in v : R[x].live => \E i \in 1 .. Len(s) : s[i].rec = x /\ s[i].pc = "refs"

Sound(rank, s, v, R) ==
  Deeper(rank, s) /\ Opened(s) /\ Handled(s, R) /\ Visits(s, v, R)

(* A relation holds a record of the collection it is declared for. *)
Typed ==
  \A r \in Record, f \in Relation : rows[r].refs[f] # NoRecord =>
    From[f] = Coll[r] /\ To[f] = Coll[rows[r].refs[f]]

Inductive(rank) ==
  /\ TypeOK /\ Typed /\ NoDangling
  /\ \A d \in Delete : Sound(rank, deletes[d].calls, deletes[d].visited, rows)

-----------------------------------------------------------------------------
(* The stack of calls *)

(* A stack without its innermost call. *)
LEMMA Shortened ==
  ASSUME NEW s \in Seq(Frame), s # <<>>
  PROVE  /\ Len(s) \in Nat \ {0} /\ \A i \in 1 .. Len(s) : s[i] \in Frame
         /\ SubSeq(s, 1, Len(s) - 1) \in Seq(Frame)
         /\ Len(SubSeq(s, 1, Len(s) - 1)) = Len(s) - 1
         /\ \A i \in 1 .. Len(s) - 1 : SubSeq(s, 1, Len(s) - 1)[i] = s[i]
<1>1. Len(s) \in Nat \ {0} /\ \A i \in 1 .. Len(s) : s[i] \in Frame
  BY EmptySeq, ElementOfSeq
<1>2. PICK n \in Nat : n = Len(s) - 1
  BY <1>1
<1>3. SubSeq(s, 1, n) \in Seq(Frame) /\ Len(SubSeq(s, 1, n)) = n
  BY <1>2
<1>4. \A i \in 1 .. n : SubSeq(s, 1, n)[i] = s[i]
  BY <1>2
<1> QED
  BY <1>1, <1>2, <1>3, <1>4

(* One with another innermost call. *)
LEMMA Replaced ==
  ASSUME NEW s \in Seq(Frame), s # <<>>, NEW x \in Frame,
         NEW t, t = Append(SubSeq(s, 1, Len(s) - 1), x)
  PROVE  /\ t \in Seq(Frame) /\ Len(t) = Len(s) /\ t[Len(s)] = x
         /\ \A i \in 1 .. Len(s) - 1 : t[i] = s[i]
<1> DEFINE o == SubSeq(s, 1, Len(s) - 1)
<1>1. /\ Len(s) \in Nat \ {0} /\ o \in Seq(Frame) /\ Len(o) = Len(s) - 1
      /\ \A i \in 1 .. Len(s) - 1 : o[i] = s[i]
  BY Shortened
<1>2. t = Append(o, x)
  OBVIOUS
<1> HIDE DEF o
<1> QED
  BY <1>1, <1>2, AppendProperties

(* One whose innermost call makes another. *)
LEMMA Pushed ==
  ASSUME NEW s \in Seq(Frame), s # <<>>, NEW x \in Frame, NEW y \in Frame,
         NEW t, t = Append(Append(SubSeq(s, 1, Len(s) - 1), x), y)
  PROVE  /\ t \in Seq(Frame) /\ Len(t) = Len(s) + 1
         /\ t[Len(s)] = x /\ t[Len(s) + 1] = y
         /\ \A i \in 1 .. Len(s) - 1 : t[i] = s[i]
<1> DEFINE u == Append(SubSeq(s, 1, Len(s) - 1), x)
<1>1. /\ Len(s) \in Nat \ {0} /\ u \in Seq(Frame) /\ Len(u) = Len(s) /\ u[Len(s)] = x
      /\ \A i \in 1 .. Len(s) - 1 : u[i] = s[i]
  BY Shortened, Replaced
<1>2. t = Append(u, y)
  OBVIOUS
<1> HIDE DEF u
<1> QED
  BY <1>1, <1>2, AppendProperties

-----------------------------------------------------------------------------
(* The invariant of one request, call by call *)

(* Rows that are only deleted or lose references do no harm.               *)
LEMMA RowsShrink ==
  ASSUME NEW rank, NEW s, \A i \in 1 .. Len(s) : s[i] \in Frame, NEW v \in SUBSET Record,
         NEW R, NEW T, Sound(rank, s, v, R),
         \A x \in Record : T[x].live => R[x].live,
         \A x, r \in Record, f \in Relation :
           T[x].live /\ T[x].refs[f] = r => R[x].refs[f] = r
  PROVE  Sound(rank, s, v, T)
<1>1. \A f \in Relation, r \in Record : Refer(T, f, r) \subseteq Refer(R, f, r)
  BY DEF Refer
<1>2. \A i \in 1 .. Len(s) : s[i].rec \in Record /\ Incoming(s[i].rec) \subseteq Relation
  BY DEF Frame, Incoming
<1>3. Handled(s, T)
  BY <1>1, <1>2 DEF Sound, Handled
<1>4. Visits(s, v, T)
  BY DEF Sound, Visits
<1> QED
  BY <1>3, <1>4 DEF Sound

(* A request without a call, or whose only call has not begun. *)
LEMMA Begins ==
  ASSUME NEW rank, NEW R, NEW r \in Record, NEW v, Sound(rank, <<>>, v, R)
  PROVE  Sound(rank, <<Call(r)>>, v, R)
<1>1. /\ Len(<<Call(r)>>) = 1 /\ <<Call(r)>>[1] = Call(r)
      /\ Call(r).pc = "enter" /\ Call(r).kids = {}
  BY DEF Call
<1>2. \A x \in v : ~ R[x].live
  BY DEF Sound, Visits
<1>3. \A i \in 1 .. 1 : i = 1
  OBVIOUS
<1> QED
  BY <1>1, <1>2, <1>3 DEF Sound, Deeper, Opened, Handled, Visits

LEMMA Idles == \A rank, R : Sound(rank, <<>>, {}, R)
BY EmptySeq DEF Sound, Deeper, Opened, Handled, Visits

(* The innermost call enters its cascades or gets on with them.            *)
LEMMA Proceeds ==
  ASSUME NEW rank, NEW n \in Nat \ {0}, NEW s, Len(s) = n, NEW v, NEW R, Sound(rank, s, v, R),
         NEW g \in Frame, g.rec = s[n].rec, g.pc = "refs",
         \A x \in g.kids : rank[g.rec] < rank[x],
         \A f \in Incoming(g.rec) \ g.todo : Refer(R, f, g.rec) \subseteq g.kids,
         NEW t, Len(t) = n, t[n] = g, \A i \in 1 .. n - 1 : t[i] = s[i],
         NEW w, w \subseteq v \cup {g.rec}
  PROVE  Sound(rank, t, w, R)
<1>1. \A i \in 1 .. n : t[i].rec = s[i].rec /\ (i # n => t[i] = s[i])
  OBVIOUS
<1>2. Deeper(rank, t)
  BY <1>1 DEF Sound, Deeper
<1>3. Opened(t)
  BY <1>1 DEF Sound, Opened
<1>4. Handled(t, R)
  <2>1. ASSUME NEW i \in 1 .. n, i # n
        PROVE  t[i] = s[i] /\ i < n /\ t[i + 1].rec = s[i + 1].rec
    BY <1>1, <2>1
  <2>2. ASSUME NEW i \in 1 .. Len(t), t[i].pc = "refs",
               NEW f \in Incoming(t[i].rec) \ t[i].todo, NEW x \in Refer(R, f, t[i].rec)
        PROVE  x \in t[i].kids \/ (i < Len(t) /\ x = t[i + 1].rec)
    <3>1. CASE i = n
      BY <2>2, <3>1
    <3>2. CASE i # n
      BY <2>1, <2>2, <3>2 DEF Sound, Handled
    <3> QED
      BY <3>1, <3>2
  <2> QED
    BY <2>2 DEF Handled
<1>5. Visits(t, w, R)
  <2>1. ASSUME NEW x \in w, R[x].live
        PROVE  \E i \in 1 .. Len(t) : t[i].rec = x /\ t[i].pc = "refs"
    <3>1. CASE x = g.rec
      BY <3>1
    <3>2. CASE x \in v
      <4>1. PICK i \in 1 .. n : s[i].rec = x /\ s[i].pc = "refs"
        BY <2>1, <3>2 DEF Sound, Visits
      <4> QED
        BY <1>1, <4>1
    <3> QED
      BY <3>1, <3>2
  <2> QED
    BY <2>1 DEF Visits
<1> QED
  BY <1>2, <1>3, <1>4, <1>5 DEF Sound

(* The innermost call deletes one of the referrers it has selected.        *)
LEMMA Calls ==
  ASSUME NEW rank \in [Record -> Nat], NEW n \in Nat \ {0}, NEW s, Len(s) = n,
         \A i \in 1 .. n : s[i] \in Frame, NEW v, NEW R, Sound(rank, s, v, R),
         NEW x \in s[n].kids, x \in Record,
         NEW t, Len(t) = n + 1, \A i \in 1 .. n - 1 : t[i] = s[i],
         t[n].rec = s[n].rec, t[n].pc = s[n].pc, t[n].todo = s[n].todo,
         t[n].kids = s[n].kids \ {x},
         t[n + 1].rec = x, t[n + 1].pc = "enter", t[n + 1].kids = {}
  PROVE  Sound(rank, t, v, R)
<1>1. s[n].pc = "refs"
  BY DEF Sound, Opened
<1>2. \A i \in 1 .. n : /\ t[i].rec = s[i].rec /\ t[i].pc = s[i].pc /\ t[i].todo = s[i].todo
                       /\ \A y \in t[i].kids : y \in s[i].kids
  <2>1. \A i \in 1 .. n : i = n \/ i \in 1 .. n - 1
    OBVIOUS
  <2> QED
    BY <2>1
<1>3. \A i \in 1 .. Len(t) : i = n + 1 \/ i \in 1 .. n
  OBVIOUS
<1>4. Deeper(rank, t)
  <2>1. \A i \in 1 .. n : rank[s[i].rec] < rank[x]
    <3>1. rank[s[n].rec] < rank[x]
      BY DEF Sound, Deeper
    <3>2. \A i \in 1 .. n : rank[s[i].rec] \in Nat /\ rank[x] \in Nat
      BY DEF Frame
    <3>3. \A i \in 1 .. n : i < n => rank[s[i].rec] < rank[s[n].rec]
      BY DEF Sound, Deeper
    <3>4. ASSUME NEW i \in 1 .. n
          PROVE  rank[s[i].rec] < rank[x]
      <4>1. CASE i = n
        BY <3>1, <4>1
      <4>2. CASE i < n
        <5>1. rank[s[i].rec] < rank[s[n].rec]
          BY <3>3, <4>2
        <5> QED
          BY <3>1, <3>2, <5>1
      <4> QED
        BY <4>1, <4>2
    <3> QED
      BY <3>4
  <2>2. ASSUME NEW i \in 1 .. Len(t), NEW j \in 1 .. Len(t), i < j
        PROVE  rank[t[i].rec] < rank[t[j].rec]
    <3>1. CASE j = n + 1
      <4>1. i \in 1 .. n
        BY <2>2, <3>1
      <4>2. rank[s[i].rec] < rank[x]
        BY <2>1, <4>1
      <4> QED
        BY <1>2, <3>1, <4>1, <4>2
    <3>2. CASE j # n + 1
      <4>1. i \in 1 .. n /\ j \in 1 .. n
        BY <2>2, <3>2
      <4>2. rank[s[i].rec] < rank[s[j].rec]
        BY <2>2, <4>1 DEF Sound, Deeper
      <4> QED
        BY <1>2, <4>1, <4>2
    <3> QED
      BY <3>1, <3>2
  <2>3. ASSUME NEW i \in 1 .. Len(t), NEW y \in t[i].kids
        PROVE  rank[t[i].rec] < rank[y]
    <3>1. i \in 1 .. n
      BY <1>3, <2>3
    <3>2. y \in s[i].kids /\ t[i].rec = s[i].rec
      BY <1>2, <3>1
    <3> QED
      BY <3>1, <3>2 DEF Sound, Deeper
  <2> QED
    BY <2>2, <2>3 DEF Deeper
<1>5. Opened(t)
  <2>1. \A i \in 1 .. n : s[i].pc = "refs"
    BY <1>1 DEF Sound, Opened
  <2>2. ASSUME NEW i \in 1 .. Len(t)
        PROVE  t[i].pc = "refs" \/ (i = Len(t) /\ t[i].kids = {})
    <3>1. CASE i = n + 1
      BY <3>1
    <3>2. CASE i \in 1 .. n
      BY <1>2, <2>1, <3>2
    <3> QED
      BY <1>3, <3>1, <3>2
  <2> QED
    BY <2>2 DEF Opened
<1>6. Handled(t, R)
  <2>1. ASSUME NEW i \in 1 .. Len(t), t[i].pc = "refs",
               NEW f \in Incoming(t[i].rec) \ t[i].todo, NEW y \in Refer(R, f, t[i].rec)
        PROVE  y \in t[i].kids \/ (i < Len(t) /\ y = t[i + 1].rec)
    <3>1. i \in 1 .. n
      <4>1. i # n + 1
        BY <2>1
      <4> QED
        BY <1>3, <4>1
    <3>2. /\ s[i].pc = "refs" /\ f \in Incoming(s[i].rec) \ s[i].todo
          /\ y \in Refer(R, f, s[i].rec)
      BY <1>2, <2>1, <3>1
    <3>3. y \in s[i].kids \/ (i < n /\ y = s[i + 1].rec)
      BY <3>1, <3>2 DEF Sound, Handled
    <3>4. CASE i = n
      BY <3>3, <3>4
    <3>5. CASE i # n
      <4>1. i \in 1 .. n - 1 /\ i + 1 \in 1 .. n /\ i < Len(t)
        BY <3>1, <3>5
      <4>2. t[i] = s[i] /\ t[i + 1].rec = s[i + 1].rec
        BY <1>2, <4>1
      <4> QED
        BY <3>3, <4>1, <4>2
    <3> QED
      BY <3>4, <3>5
  <2> QED
    BY <2>1 DEF Handled
<1>7. Visits(t, v, R)
  <2>1. ASSUME NEW y \in v, R[y].live
        PROVE  \E i \in 1 .. Len(t) : t[i].rec = y /\ t[i].pc = "refs"
    <3>1. PICK i \in 1 .. n : s[i].rec = y /\ s[i].pc = "refs"
      BY <2>1 DEF Sound, Visits
    <3>2. i \in 1 .. Len(t)
      OBVIOUS
    <3> QED
      BY <1>2, <3>1, <3>2
  <2> QED
    BY <2>1 DEF Visits
<1> QED
  BY <1>4, <1>5, <1>6, <1>7 DEF Sound

(* The innermost call returns, its record gone.                            *)
LEMMA Returns ==
  ASSUME NEW rank, NEW n \in Nat \ {0}, NEW s, Len(s) = n, NEW v, NEW R, Sound(rank, s, v, R),
         ~ R[s[n].rec].live,
         NEW t, Len(t) = n - 1, \A i \in 1 .. n - 1 : t[i] = s[i]
  PROVE  Sound(rank, t, v, R)
<1>1. \A i \in 1 .. Len(t) : i \in 1 .. n /\ i < n /\ i # n /\ t[i] = s[i]
  OBVIOUS
<1>2. Deeper(rank, t) /\ Opened(t)
  BY <1>1 DEF Sound, Deeper, Opened
<1>3. Handled(t, R)
  <2>1. ASSUME NEW i \in 1 .. Len(t), t[i].pc = "refs",
               NEW f \in Incoming(t[i].rec) \ t[i].todo, NEW x \in Refer(R, f, t[i].rec)
        PROVE  x \in t[i].kids \/ (i < Len(t) /\ x = t[i + 1].rec)
    <3>1. x \in s[i].kids \/ x = s[i + 1].rec
      BY <1>1, <2>1 DEF Sound, Handled
    <3>2. CASE i = Len(t)
      <4>1. i + 1 = n /\ R[x].live
        BY <2>1, <3>2 DEF Refer
      <4> QED
        BY <1>1, <3>1, <4>1
    <3>3. CASE i # Len(t)
      <4>1. i < Len(t) /\ i + 1 \in 1 .. Len(t)
        BY <3>3
      <4> QED
        BY <1>1, <3>1, <4>1
    <3> QED
      BY <3>2, <3>3
  <2> QED
    BY <2>1 DEF Handled
<1>4. Visits(t, v, R)
  <2>1. ASSUME NEW x \in v, R[x].live
        PROVE  \E i \in 1 .. Len(t) : t[i].rec = x /\ t[i].pc = "refs"
    <3>1. PICK i \in 1 .. n : s[i].rec = x /\ s[i].pc = "refs"
      BY <2>1 DEF Sound, Visits
    <3>2. i # n
      BY <2>1, <3>1
    <3>3. i \in 1 .. Len(t)
      BY <3>2
    <3> QED
      BY <1>1, <3>1, <3>3
  <2> QED
    BY <2>1 DEF Visits
<1> QED
  BY <1>2, <1>3, <1>4 DEF Sound

-----------------------------------------------------------------------------
(* Type correctness *)

LEMMA TypeInit == Init => TypeOK
<1> SUFFICES ASSUME Init
             PROVE  TypeOK
  OBVIOUS
<1> USE RecordsAssumption
<1>1. PICK l \in Links :
        rows = [r \in Record |-> [live |-> TRUE, version |-> 1, updated |-> 0, refs |-> l[r]]]
  BY DEF Init
<1>2. \A r \in Record : l[r] \in [Relation -> Record \cup {NoRecord}]
  OBVIOUS
<1>3. rows \in [Record -> Row]
  BY <1>1, <1>2 DEF Row
<1> QED
  BY <1>3 DEF Init, TypeOK, IdlePatch, IdleDelete, PatchState, DeleteState

(* A write leaves the record in its table and its relations as they are,   *)
(* or sets one of them to null.                                            *)
LEMMA RowWrites ==
  ASSUME TypeOK, NEW r \in Record, CanWrite(r), NEW now \in Nat,
         NEW row, row = Written(rows[r], now)
  PROVE  /\ row \in Row /\ row.live = rows[r].live /\ row.refs = rows[r].refs
         /\ row.updated = now
<1>1. rows[r] \in Row /\ rows[r].version \in 1 .. MaxVersion /\ rows[r].version < MaxVersion
  BY DEF TypeOK, Row, CanWrite
<1>2. rows[r].version + 1 \in 1 .. MaxVersion
  BY <1>1, RecordsAssumption
<1> QED
  BY <1>1, <1>2 DEF Row, Written

(* What readers can have got is typed if the tables are. *)
LEMMA Served ==
  ASSUME TypeOK, rows' \in [Record -> Row], NEW S \in SUBSET Record, Serve(S)
  PROVE  seen' \subseteq Record \X Nat \X (1 .. MaxVersion)
<1>1. \A r \in Record : rows'[r].updated \in Nat /\ rows'[r].version \in 1 .. MaxVersion
  BY DEF Row
<1> QED
  BY <1>1 DEF TypeOK, Serve

(* The stack of a request that is at work. *)
LEMMA AtWork ==
  ASSUME TypeOK, NEW d \in Delete, Busy(d)
  PROVE  /\ deletes[d].calls \in Seq(Frame) /\ deletes[d].calls # <<>>
         /\ deletes[d].visited \in SUBSET Record
         /\ Top(d) \in Frame /\ Top(d).rec \in Record /\ Outer(d) \in Seq(Frame)
         /\ Top(d).todo \in SUBSET Relation /\ Top(d).kids \in SUBSET Record
<1>1. deletes[d].calls \in Seq(Frame) /\ deletes[d].visited \in SUBSET Record
  BY DEF TypeOK, DeleteState
<1>2. deletes[d].calls # <<>>
  BY DEF Busy
<1>3. Top(d) \in Frame /\ Outer(d) \in Seq(Frame)
  BY <1>1, <1>2, Shortened DEF Top, Outer
<1> QED
  BY <1>1, <1>2, <1>3 DEF Frame

(* The next state of its requests. *)
LEMMA RequestChanged ==
  ASSUME TypeOK, NEW d \in Delete, NEW s \in DeleteState,
         deletes' = [deletes EXCEPT ![d] = s]
  PROVE  /\ deletes' \in [Delete -> DeleteState] /\ deletes'[d] = s
         /\ \A e \in Delete \ {d} : deletes'[e] = deletes[e]
BY DEF TypeOK

LEMMA FrameSet ==
  ASSUME TypeOK, NEW d \in Delete, Busy(d), NEW g \in Frame, SetTop(d, g)
  PROVE  /\ deletes' \in [Delete -> DeleteState]
         /\ deletes'[d].calls = Append(Outer(d), g) /\ deletes'[d].visited = deletes[d].visited
         /\ \A e \in Delete \ {d} : deletes'[e] = deletes[e]
<1> DEFINE s == [deletes[d] EXCEPT !.calls = Append(Outer(d), g)]
<1>1. Append(Outer(d), g) \in Seq(Frame)
  BY AtWork, AppendProperties
<1>2. /\ s \in DeleteState /\ s.calls = Append(Outer(d), g)
      /\ s.visited = deletes[d].visited
  BY <1>1 DEF TypeOK, DeleteState
<1>3. deletes' = [deletes EXCEPT ![d] = s]
  BY DEF SetTop
<1> HIDE DEF s
<1> QED
  BY <1>2, <1>3, RequestChanged

LEMMA IdleTyped == IdleDelete \in DeleteState /\ IdleDelete.calls = <<>> /\ IdleDelete.visited = {}
BY EmptySeq DEF IdleDelete, DeleteState

LEMMA Ended ==
  ASSUME TypeOK, NEW d \in Delete, End(d)
  PROVE  /\ deletes' \in [Delete -> DeleteState] /\ deletes'[d] = IdleDelete
         /\ \A e \in Delete \ {d} : deletes'[e] = deletes[e]
BY IdleTyped, RequestChanged DEF End

LEMMA Returned ==
  ASSUME TypeOK, NEW d \in Delete, Busy(d), Return(d)
  PROVE  /\ deletes' \in [Delete -> DeleteState]
         /\ \/ deletes'[d] = IdleDelete
            \/ deletes'[d].calls = Outer(d) /\ deletes'[d].visited = deletes[d].visited
         /\ \A e \in Delete \ {d} : deletes'[e] = deletes[e]
<1> DEFINE s == [deletes[d] EXCEPT !.calls = Outer(d)]
<1>1. s \in DeleteState /\ s.calls = Outer(d) /\ s.visited = deletes[d].visited
  BY AtWork DEF TypeOK, DeleteState
<1>2. deletes' = [deletes EXCEPT ![d] = IdleDelete] \/ deletes' = [deletes EXCEPT ![d] = s]
  BY DEF Return
<1> HIDE DEF s
<1> QED
  BY <1>1, <1>2, IdleTyped, RequestChanged

(* No step but the last of a delete removes a record, and none adds a      *)
(* reference.                                                              *)
Narrowed ==
  /\ \A x \in Record : rows'[x].live => rows[x].live
  /\ \A x \in Record, f \in Relation :
       rows'[x].refs[f] \in {rows[x].refs[f], NoRecord}

Narrowing == TypeOK' /\ Narrowed

LEMMA SetNullNarrows ==
  ASSUME TypeOK, NEW d \in Delete, NEW f \in Relation, SetNull(d, f)
  PROVE  /\ Narrowing
         /\ \A x \in Record : rows'[x].live = rows[x].live
         /\ Refer(rows', f, Top(d).rec) = {}
         /\ deletes'[d].calls = Append(Outer(d), WithoutRelation(d, f))
         /\ deletes'[d].visited = deletes[d].visited
         /\ \A e \in Delete \ {d} : deletes'[e] = deletes[e]
<1> DEFINE affected == Referrers(f, Top(d).rec)
           Null(x) == [Written(rows[x], clock) EXCEPT !.refs[f] = NoRecord]
<1>1. /\ Busy(d) /\ affected \in SUBSET Record /\ clock \in Nat
      /\ \A x \in affected : CanWrite(x)
      /\ rows' = [x \in Record |-> IF x \in affected THEN Null(x) ELSE rows[x]]
      /\ Serve(affected) /\ SetTop(d, WithoutRelation(d, f))
      /\ UNCHANGED <<clock, patches, crashes>>
  BY RecordsAssumption DEF SetNull, AtRelation, Referrers, TypeOK
<1>2. ASSUME NEW x \in affected
      PROVE  /\ Null(x) \in Row /\ Null(x).live = rows[x].live
             /\ \A g \in Relation : Null(x).refs[g] = IF g = f THEN NoRecord ELSE rows[x].refs[g]
  <2> DEFINE row == Written(rows[x], clock)
  <2>1. row \in Row /\ row.live = rows[x].live /\ row.refs = rows[x].refs
    BY <1>1, RowWrites
  <2> HIDE DEF row
  <2>2. /\ [row EXCEPT !.refs[f] = NoRecord] \in Row
        /\ [row EXCEPT !.refs[f] = NoRecord].live = row.live
        /\ \A g \in Relation : [row EXCEPT !.refs[f] = NoRecord].refs[g] =
             IF g = f THEN NoRecord ELSE row.refs[g]
    BY <2>1 DEF Row
  <2> QED
    BY <2>1, <2>2 DEF row
<1> HIDE DEF Null
<1>3. \A x \in Record : rows'[x] = IF x \in affected THEN Null(x) ELSE rows[x]
  BY <1>1
<1>4. rows' \in [Record -> Row]
  <2>1. \A x \in Record : rows'[x] \in Row
    BY <1>2, <1>3 DEF TypeOK
  <2> QED
    BY <1>1, <2>1
<1>5. \A x \in Record : /\ rows'[x].live = rows[x].live
                        /\ \A g \in Relation : rows'[x].refs[g] \in {rows[x].refs[g], NoRecord}
  BY <1>2, <1>3
<1>6. Refer(rows', f, Top(d).rec) = {}
  <2>1. Top(d).rec \in Record
    BY <1>1, AtWork
  <2>2. ASSUME NEW x \in Record, rows'[x].live, rows'[x].refs[f] = Top(d).rec
        PROVE  FALSE
    <3>1. CASE x \in affected
      BY <1>2, <1>3, <2>1, <2>2, <3>1, RecordsAssumption
    <3>2. CASE x \notin affected
      BY <1>3, <2>2, <3>2 DEF Referrers
    <3> QED
      BY <3>1, <3>2
  <2> QED
    BY <2>2 DEF Refer
<1>7. WithoutRelation(d, f) \in Frame
  BY <1>1, AtWork DEF WithoutRelation, Frame
<1>8. /\ deletes' \in [Delete -> DeleteState]
      /\ deletes'[d].calls = Append(Outer(d), WithoutRelation(d, f))
      /\ deletes'[d].visited = deletes[d].visited
      /\ \A e \in Delete \ {d} : deletes'[e] = deletes[e]
  BY <1>1, <1>7, FrameSet
<1>9. seen' \subseteq Record \X Nat \X (1 .. MaxVersion)
  BY <1>1, <1>4, Served
<1> QED
  BY <1>1, <1>4, <1>5, <1>6, <1>8, <1>9 DEF Narrowing, Narrowed, TypeOK

LEMMA DeleteRowNarrows ==
  ASSUME TypeOK, NEW d \in Delete, DeleteRow(d)
  PROVE  /\ Narrowing
         /\ ~ rows'[Top(d).rec].live
         /\ \A x \in Record : x # Top(d).rec => rows'[x] = rows[x]
         /\ \/ deletes'[d] = IdleDelete
            \/ deletes'[d].calls = Outer(d) /\ deletes'[d].visited = deletes[d].visited
         /\ \A e \in Delete \ {d} : deletes'[e] = deletes[e]
<1>1. /\ Busy(d) /\ Return(d) /\ UNCHANGED <<clock, patches, seen, crashes>>
      /\ rows' = [rows EXCEPT ![Top(d).rec] = Gone]
  BY DEF DeleteRow, Cleared
<1>2. Top(d).rec \in Record
  BY <1>1, AtWork
<1>3. /\ Gone \in Row /\ ~ Gone.live /\ \A f \in Relation : Gone.refs[f] = NoRecord
  BY RecordsAssumption DEF Gone, Row
<1>4. /\ rows' \in [Record -> Row] /\ rows'[Top(d).rec] = Gone
      /\ \A x \in Record : x # Top(d).rec => rows'[x] = rows[x]
  BY <1>1, <1>2, <1>3 DEF TypeOK
<1>5. Narrowed
  BY <1>3, <1>4 DEF Narrowed
<1> QED
  BY <1>1, <1>3, <1>4, <1>5, Returned DEF Narrowing, TypeOK

(* The other steps of a delete touch no row. *)
LEMMA RowsKept ==
  ASSUME TypeOK, UNCHANGED <<rows, clock, patches, seen, crashes>>,
         deletes' \in [Delete -> DeleteState]
  PROVE  Narrowing
BY DEF Narrowing, Narrowed, TypeOK

LEMMA StartNarrows ==
  ASSUME TypeOK, NEW d \in Delete, NEW r \in Record, StartDelete(d, r)
  PROVE  /\ Narrowing
         /\ deletes[d].calls = <<>> /\ deletes'[d].calls = <<Call(r)>>
         /\ deletes'[d].visited = deletes[d].visited
         /\ \A e \in Delete \ {d} : deletes'[e] = deletes[e]
<1> DEFINE calls == <<Call(r)>>
           s == [deletes[d] EXCEPT !.calls = calls]
<1>1. Call(r) \in Frame
  BY DEF Call, Frame
<1>2. calls \in Seq(Frame)
  BY <1>1
<1> HIDE DEF calls
<1>3. /\ s \in DeleteState /\ s.calls = calls /\ s.visited = deletes[d].visited
  BY <1>2 DEF TypeOK, DeleteState
<1>4. deletes' = [deletes EXCEPT ![d] = s]
  BY DEF StartDelete, calls
<1> HIDE DEF s
<1> QED
  BY <1>3, <1>4, RequestChanged, RowsKept DEF StartDelete, Busy, calls

LEMMA EnterNarrows ==
  ASSUME TypeOK, NEW d \in Delete, EnterDelete(d)
  PROVE  /\ Narrowing /\ rows' = rows
         /\ \/ /\ ~ rows[Top(d).rec].live
               /\ \/ deletes'[d] = IdleDelete
                  \/ deletes'[d].calls = Outer(d) /\ deletes'[d].visited = deletes[d].visited
            \/ /\ rows[Top(d).rec].live
               /\ \E g \in Frame :
                    /\ g.rec = Top(d).rec /\ g.pc = "refs" /\ g.kids = Top(d).kids
                    /\ g.todo = IF g.rec \in deletes[d].visited THEN {} ELSE Incoming(g.rec)
                    /\ deletes'[d].calls = Append(Outer(d), g)
                    /\ deletes'[d].visited = deletes[d].visited \cup {g.rec}
         /\ \A e \in Delete \ {d} : deletes'[e] = deletes[e]
<1> DEFINE r == Top(d).rec
           todo == IF r \in deletes[d].visited THEN {} ELSE Incoming(r)
           g == [Top(d) EXCEPT !.pc = "refs", !.todo = todo]
           s == [deletes[d] EXCEPT !.calls = Append(Outer(d), g), !.visited = @ \cup {r}]
<1>1. /\ Busy(d) /\ UNCHANGED <<rows, clock, patches, seen, crashes>>
      /\ IF ~ rows[r].live THEN Return(d)
         ELSE deletes' = [deletes EXCEPT
                ![d].calls = Append(Outer(d), [Top(d) EXCEPT !.pc = "refs", !.todo = todo]),
                ![d].visited = @ \cup {r}]
  BY DEF EnterDelete
<1>2. CASE ~ rows[r].live
  BY <1>1, <1>2, Returned, RowsKept
<1>3. CASE rows[r].live
  <2>1. /\ g \in Frame /\ g.rec = r /\ g.pc = "refs" /\ g.kids = Top(d).kids /\ g.todo = todo
    BY <1>1, AtWork DEF Frame, Incoming
  <2>2. Append(Outer(d), g) \in Seq(Frame) /\ r \in Record
    BY <1>1, <2>1, AtWork, AppendProperties
  <2>3. deletes' = [deletes EXCEPT ![d] = s]
    BY <1>1, <1>3 DEF TypeOK, DeleteState
  <2> HIDE DEF g
  <2>4. /\ s \in DeleteState /\ s.calls = Append(Outer(d), g)
        /\ s.visited = deletes[d].visited \cup {r}
    BY <2>2 DEF TypeOK, DeleteState
  <2> HIDE DEF s
  <2>5. /\ deletes' \in [Delete -> DeleteState] /\ deletes'[d] = s
        /\ \A e \in Delete \ {d} : deletes'[e] = deletes[e]
    BY <2>3, <2>4, RequestChanged
  <2>6. Narrowing
    BY <1>1, <2>5, RowsKept
  <2> QED
    BY <1>1, <1>3, <2>1, <2>4, <2>5, <2>6
<1> QED
  BY <1>2, <1>3

(* CheckRestrict, and Cascade: the innermost call gets on, or the request  *)
(* ends.                                                                   *)
LEMMA RelationNarrows ==
  ASSUME TypeOK, NEW d \in Delete, NEW f \in Relation, CheckRestrict(d, f) \/ Cascade(d, f)
  PROVE  /\ Narrowing /\ rows' = rows
         /\ \/ deletes'[d] = IdleDelete
            \/ \E g \in Frame :
                 /\ g.rec = Top(d).rec /\ g.pc = Top(d).pc /\ g.todo = Top(d).todo \ {f}
                 /\ g.kids \in {Top(d).kids, Referrers(f, g.rec)}
                 /\ Referrers(f, g.rec) \subseteq g.kids
                 /\ deletes'[d].calls = Append(Outer(d), g)
                 /\ deletes'[d].visited = deletes[d].visited
         /\ \A e \in Delete \ {d} : deletes'[e] = deletes[e]
<1>1. Busy(d) /\ UNCHANGED <<rows, clock, patches, seen, crashes>>
  BY DEF CheckRestrict, Restricted, Cascade, AtRelation
<1>2. ASSUME End(d)
      PROVE  /\ Narrowing /\ deletes'[d] = IdleDelete
             /\ \A e \in Delete \ {d} : deletes'[e] = deletes[e]
  BY <1>1, <1>2, Ended, RowsKept
<1>3. ASSUME NEW kids, kids \in {Top(d).kids, Referrers(f, Top(d).rec)},
             Referrers(f, Top(d).rec) \subseteq kids,
             SetTop(d, [WithoutRelation(d, f) EXCEPT !.kids = kids])
      PROVE  /\ Narrowing
             /\ \E g \in Frame :
                 /\ g.rec = Top(d).rec /\ g.pc = Top(d).pc /\ g.todo = Top(d).todo \ {f}
                 /\ g.kids \in {Top(d).kids, Referrers(f, g.rec)}
                 /\ Referrers(f, g.rec) \subseteq g.kids
                 /\ deletes'[d].calls = Append(Outer(d), g)
                 /\ deletes'[d].visited = deletes[d].visited
             /\ \A e \in Delete \ {d} : deletes'[e] = deletes[e]
  <2> DEFINE g == [WithoutRelation(d, f) EXCEPT !.kids = kids]
  <2>1. Referrers(f, Top(d).rec) \in SUBSET Record
    BY DEF Referrers
  <2>2. /\ g \in Frame /\ g.rec = Top(d).rec /\ g.pc = Top(d).pc
        /\ g.todo = Top(d).todo \ {f} /\ g.kids = kids
    BY <1>1, <1>3, <2>1, AtWork DEF WithoutRelation, Frame
  <2>3. SetTop(d, g)
    BY <1>3
  <2> HIDE DEF g
  <2>4. /\ deletes' \in [Delete -> DeleteState]
        /\ deletes'[d].calls = Append(Outer(d), g) /\ deletes'[d].visited = deletes[d].visited
        /\ \A e \in Delete \ {d} : deletes'[e] = deletes[e]
    BY <1>1, <2>2, <2>3, FrameSet
  <2>5. Narrowing
    BY <1>1, <2>4, RowsKept
  <2> QED
    BY <1>3, <2>2, <2>4, <2>5
<1>4. CASE Cascade(d, f)
  <2>1. SetTop(d, [WithoutRelation(d, f) EXCEPT !.kids = Referrers(f, Top(d).rec)])
    BY <1>4 DEF Cascade, Affected
  <2> QED
    BY <1>1, <1>3, <2>1
<1>5. CASE CheckRestrict(d, f)
  <2>1. CASE Referrers(f, Top(d).rec) # {}
    BY <1>1, <1>2, <1>5, <2>1 DEF CheckRestrict, Restricted
  <2>2. CASE Referrers(f, Top(d).rec) = {}
    <3>1. [WithoutRelation(d, f) EXCEPT !.kids = Top(d).kids] = WithoutRelation(d, f)
      BY <1>1, AtWork DEF WithoutRelation, Frame
    <3>2. SetTop(d, [WithoutRelation(d, f) EXCEPT !.kids = Top(d).kids])
      BY <1>5, <2>2, <3>1 DEF CheckRestrict, Restricted
    <3> QED
      BY <1>1, <1>3, <2>2, <3>2
  <2> QED
    BY <2>1, <2>2
<1> QED
  BY <1>4, <1>5

LEMMA KidNarrows ==
  ASSUME TypeOK, NEW d \in Delete, DeleteKid(d)
  PROVE  /\ Narrowing /\ rows' = rows
         /\ \E x \in Top(d).kids, g \in Frame :
              /\ g.rec = Top(d).rec /\ g.pc = Top(d).pc /\ g.todo = Top(d).todo
              /\ g.kids = Top(d).kids \ {x}
              /\ deletes'[d].calls = Append(Append(Outer(d), g), Call(x))
              /\ deletes'[d].visited = deletes[d].visited
         /\ \A e \in Delete \ {d} : deletes'[e] = deletes[e]
<1>1. Busy(d) /\ UNCHANGED <<rows, clock, patches, seen, crashes>>
  BY DEF DeleteKid
<1>2. PICK x \in Top(d).kids :
        deletes' = [deletes EXCEPT ![d].calls =
          Append(Append(Outer(d), [Top(d) EXCEPT !.kids = @ \ {x}]), Call(x))]
  BY DEF DeleteKid
<1> DEFINE g == [Top(d) EXCEPT !.kids = @ \ {x}]
           calls == Append(Append(Outer(d), g), Call(x))
           s == [deletes[d] EXCEPT !.calls = calls]
<1>3. /\ g \in Frame /\ g.rec = Top(d).rec /\ g.pc = Top(d).pc /\ g.todo = Top(d).todo
      /\ g.kids = Top(d).kids \ {x}
  BY <1>1, AtWork DEF Frame
<1>4. Call(x) \in Frame
  BY <1>1, AtWork DEF Call, Frame
<1> HIDE DEF g
<1>5. Append(Outer(d), g) \in Seq(Frame)
  BY <1>1, <1>3, AtWork, AppendProperties
<1>6. calls \in Seq(Frame)
  BY <1>4, <1>5, AppendProperties
<1>7. deletes' = [deletes EXCEPT ![d] = s]
  BY <1>2 DEF g
<1> HIDE DEF calls
<1>8. /\ s \in DeleteState /\ s.calls = calls /\ s.visited = deletes[d].visited
  BY <1>6 DEF TypeOK, DeleteState
<1> HIDE DEF s
<1>9. /\ deletes' \in [Delete -> DeleteState] /\ deletes'[d] = s
      /\ \A e \in Delete \ {d} : deletes'[e] = deletes[e]
  BY <1>7, <1>8, RequestChanged
<1>10. Narrowing
  BY <1>1, <1>9, RowsKept
<1> QED
  BY <1>1, <1>3, <1>8, <1>9, <1>10 DEF calls

LEMMA ThrowNarrows ==
  ASSUME TypeOK, NEW d \in Delete, HookThrows(d)
  PROVE  /\ Narrowing /\ rows' = rows /\ deletes'[d] = IdleDelete
         /\ \A e \in Delete \ {d} : deletes'[e] = deletes[e]
BY Ended, RowsKept DEF HookThrows

LEMMA PatchNarrows ==
  ASSUME TypeOK, NEW w \in Patch, PatchStep(w)
  PROVE  /\ Narrowing /\ deletes' = deletes
         /\ \A x \in Record : rows'[x].live = rows[x].live
<1> USE RecordsAssumption
<1>1. IdlePatch \in PatchState
  BY DEF IdlePatch, PatchState
<1>2. clock \in Nat /\ patches \in [Patch -> PatchState] /\ patches[w] \in PatchState
  BY DEF TypeOK
<1>3. ASSUME NEW p \in PatchState, patches' = [patches EXCEPT ![w] = p],
             UNCHANGED <<rows, clock, deletes, seen, crashes>>
      PROVE  Narrowing
  BY <1>3 DEF Narrowing, Narrowed, TypeOK
<1>4. ASSUME NEW r \in Patched, NEW tag \in {s[2] : s \in seen} \cup {NoTag}, StartPatch(w, r, tag)
      PROVE  Narrowing
  <2>1. tag \in Nat \cup {NoTag}
    BY <1>4 DEF TypeOK
  <2>2. [pc |-> "load", rec |-> r, tag |-> tag, prev |-> 0] \in PatchState
    BY <2>1 DEF PatchState
  <2> QED
    BY <1>3, <1>4, <2>2 DEF StartPatch
<1>5. ASSUME patches[w].pc # "idle"
      PROVE  /\ patches[w] \in [pc : {"load", "stamp", "write"}, rec : Record,
                               tag : Nat \cup {NoTag}, prev : Nat]
             /\ patches[w].rec \in Record /\ rows[patches[w].rec] \in Row
  BY <1>2, <1>5 DEF PatchState, IdlePatch, TypeOK
<1>6. ASSUME LoadPatch(w)
      PROVE  Narrowing
  <2> DEFINE r == patches[w].rec
             p == [patches[w] EXCEPT !.pc = "stamp", !.prev = rows[r].updated]
  <2>1. rows[r].updated \in Nat
    BY <1>5, <1>6 DEF LoadPatch, Row
  <2>2. p \in PatchState
    BY <1>5, <1>6, <2>1 DEF LoadPatch, PatchState
  <2>3. /\ patches' = [patches EXCEPT ![w] = p] \/ patches' = [patches EXCEPT ![w] = IdlePatch]
        /\ UNCHANGED <<rows, clock, deletes, seen, crashes>>
    BY <1>6 DEF LoadPatch
  <2> HIDE DEF p
  <2> QED
    BY <1>1, <1>3, <2>2, <2>3
<1>7. ASSUME AbandonPatch(w)
      PROVE  Narrowing
  BY <1>1, <1>3, <1>7 DEF AbandonPatch
<1>8. ASSUME StampPatch(w)
      PROVE  Narrowing
  <2> DEFINE p == [patches[w] EXCEPT !.pc = "write", !.prev = Stamp(clock, @)]
  <2>1. Stamp(clock, patches[w].prev) \in Nat
    BY <1>2, <1>5, <1>8 DEF StampPatch, Stamp
  <2>2. p \in PatchState
    BY <1>5, <1>8, <2>1 DEF StampPatch, PatchState
  <2>3. /\ patches' = [patches EXCEPT ![w] = p]
        /\ UNCHANGED <<rows, clock, deletes, seen, crashes>>
    BY <1>8 DEF StampPatch, TypeOK
  <2> HIDE DEF p
  <2> QED
    BY <1>3, <2>2, <2>3
<1>9. ASSUME WritePatch(w)
      PROVE  Narrowing /\ \A x \in Record : rows'[x].live = rows[x].live
  <2> DEFINE r == patches[w].rec
             row == Written(rows[r], patches[w].prev)
  <2>1. /\ r \in Record /\ patches[w].prev \in Nat
        /\ patches' = [patches EXCEPT ![w] = IdlePatch] /\ UNCHANGED <<clock, deletes, crashes>>
    BY <1>5, <1>9 DEF WritePatch
  <2>2. CASE ~ rows[r].live
    <3>1. UNCHANGED <<rows, seen>>
      BY <1>9, <2>2 DEF WritePatch
    <3> QED
      BY <1>1, <1>3, <2>1, <3>1
  <2>3. CASE rows[r].live
    <3>1. CanWrite(r) /\ rows' = [rows EXCEPT ![r] = row] /\ Serve({r})
      BY <1>9, <2>3 DEF WritePatch
    <3>2. row \in Row /\ row.live = rows[r].live /\ row.refs = rows[r].refs
      BY <2>1, <3>1, RowWrites
    <3> HIDE DEF row
    <3>3. /\ rows' \in [Record -> Row]
          /\ \A x \in Record : rows'[x].live = rows[x].live /\ rows'[x].refs = rows[x].refs
      BY <2>1, <3>1, <3>2 DEF TypeOK
    <3>4. seen' \subseteq Record \X Nat \X (1 .. MaxVersion)
      BY <2>1, <3>1, <3>3, Served
    <3> QED
      BY <1>1, <2>1, <3>3, <3>4 DEF Narrowing, Narrowed, TypeOK
  <2> QED
    BY <2>2, <2>3
<1>10. ASSUME ~ WritePatch(w)
       PROVE  rows' = rows
  BY <1>10 DEF PatchStep, StartPatch, LoadPatch, AbandonPatch, StampPatch
<1>11. deletes' = deletes
  BY DEF PatchStep, StartPatch, LoadPatch, AbandonPatch, StampPatch, WritePatch
<1> QED
  BY <1>4, <1>6, <1>7, <1>8, <1>9, <1>10, <1>11 DEF PatchStep

(* Every step keeps the types and only narrows the rows. *)
LEMMA StepNarrows ==
  ASSUME TypeOK, [Next]_vars
  PROVE  Narrowing
<1>1. ASSUME NEW w \in Patch, PatchStep(w)
      PROVE  Narrowing
  BY <1>1, PatchNarrows
<1>2. ASSUME NEW d \in Delete, DeleteStep(d)
      PROVE  Narrowing
  BY <1>2, SetNullNarrows, DeleteRowNarrows, StartNarrows, EnterNarrows, RelationNarrows,
     KidNarrows, ThrowNarrows
  DEF DeleteStep
<1>3. CASE Tick
  BY <1>3, RecordsAssumption DEF Tick, Narrowing, Narrowed, TypeOK
<1>4. CASE Crash
  <2>1. IdlePatch \in PatchState
    BY DEF PatchState
  <2> QED
    BY <1>4, <2>1, IdleTyped, RecordsAssumption DEF Crash, Narrowing, Narrowed, TypeOK
<1>5. CASE UNCHANGED vars
  BY <1>5 DEF vars, Narrowing, Narrowed, TypeOK
<1> QED
  BY <1>1, <1>2, <1>3, <1>4, <1>5 DEF Next

(* The state of the model always has its type: no request ever works on a  *)
(* record it has not got, and what it writes fits its column.              *)
THEOREM RecordsTypeCorrect == Spec => []TypeOK
<1>1. TypeOK /\ [Next]_vars => TypeOK'
  BY StepNarrows DEF Narrowing
<1> QED
  BY <1>1, TypeInit, PTL DEF Spec

-----------------------------------------------------------------------------
(* The steps of a delete preserve its invariant. R is the rows after the   *)
(* step, for which the invariant of the old stack already holds.           *)

LEMMA Kept ==
  ASSUME NEW rank, Inductive(rank), Narrowed, NEW d \in Delete
  PROVE  Sound(rank, deletes[d].calls, deletes[d].visited, rows')
<1> DEFINE s == deletes[d].calls
           v == deletes[d].visited
<1>1. s \in Seq(Frame) /\ v \in SUBSET Record /\ Sound(rank, s, v, rows)
  BY DEF Inductive, TypeOK, DeleteState
<1>2. \A i \in 1 .. Len(s) : s[i] \in Frame
  BY <1>1, ElementOfSeq
<1>3. /\ \A x \in Record : rows'[x].live => rows[x].live
      /\ \A x, r \in Record, f \in Relation :
           rows'[x].live /\ rows'[x].refs[f] = r => rows[x].refs[f] = r
  BY RecordsAssumption DEF Narrowed
<1> HIDE DEF s, v
<1>4. Sound(rank, s, v, rows')
  BY <1>1, <1>2, <1>3, RowsShrink
<1> QED
  BY <1>4 DEF s, v

LEMMA SoundFrame ==
  ASSUME TypeOK, NEW d \in Delete, Busy(d), NEW rank, NEW R,
         Sound(rank, deletes[d].calls, deletes[d].visited, R),
         NEW g \in Frame, g.rec = Top(d).rec, g.pc = "refs",
         \A x \in g.kids : rank[g.rec] < rank[x],
         \A f \in Incoming(g.rec) \ g.todo : Refer(R, f, g.rec) \subseteq g.kids,
         NEW v, v \subseteq deletes[d].visited \cup {g.rec}
  PROVE  Sound(rank, Append(Outer(d), g), v, R)
<1> DEFINE s == deletes[d].calls
           t == Append(Outer(d), g)
<1>1. s \in Seq(Frame) /\ s # <<>>
  BY AtWork
<1>2. PICK n \in Nat \ {0} : Len(s) = n
  BY <1>1, Shortened
<1>3. t = Append(SubSeq(s, 1, Len(s) - 1), g)
  BY <1>2 DEF Outer
<1>4. g.rec = s[n].rec
  BY <1>2 DEF Top
<1> HIDE DEF s, t
<1>5. Len(t) = n /\ t[n] = g /\ \A i \in 1 .. n - 1 : t[i] = s[i]
  BY <1>1, <1>2, <1>3, Replaced
<1>6. Sound(rank, s, deletes[d].visited, R)
  BY DEF s
<1>7. Sound(rank, t, v, R)
  BY <1>2, <1>4, <1>5, <1>6, Proceeds
<1> QED
  BY <1>7 DEF t

LEMMA SoundKid ==
  ASSUME TypeOK, NEW d \in Delete, Busy(d), NEW rank \in [Record -> Nat], NEW R,
         Sound(rank, deletes[d].calls, deletes[d].visited, R),
         NEW g \in Frame, NEW x \in Top(d).kids, g.rec = Top(d).rec, g.pc = Top(d).pc,
         g.todo = Top(d).todo, g.kids = Top(d).kids \ {x}
  PROVE  Sound(rank, Append(Append(Outer(d), g), Call(x)), deletes[d].visited, R)
<1> DEFINE s == deletes[d].calls
           t == Append(Append(Outer(d), g), Call(x))
<1>1. s \in Seq(Frame) /\ s # <<>> /\ x \in Record
  BY AtWork
<1>2. PICK n \in Nat \ {0} : Len(s) = n
  BY <1>1, Shortened
<1>3. t = Append(Append(SubSeq(s, 1, Len(s) - 1), g), Call(x))
  BY <1>2 DEF Outer
<1>4. /\ x \in s[n].kids /\ g.rec = s[n].rec /\ g.pc = s[n].pc /\ g.todo = s[n].todo
      /\ g.kids = s[n].kids \ {x}
  BY <1>2 DEF Top
<1>5. /\ Call(x) \in Frame /\ Call(x).rec = x /\ Call(x).pc = "enter" /\ Call(x).kids = {}
  BY <1>1 DEF Call, Frame
<1> HIDE DEF s, t
<1>6. /\ Len(t) = n + 1 /\ t[n] = g /\ t[n + 1] = Call(x)
      /\ \A i \in 1 .. n - 1 : t[i] = s[i]
  BY <1>1, <1>2, <1>3, <1>5, Pushed
<1>7. \A i \in 1 .. n : s[i] \in Frame
  BY <1>1, <1>2, ElementOfSeq
<1>8. Sound(rank, s, deletes[d].visited, R)
  BY DEF s
<1>9. /\ t[n].rec = s[n].rec /\ t[n].pc = s[n].pc /\ t[n].todo = s[n].todo
      /\ t[n].kids = s[n].kids \ {x}
  BY <1>4, <1>6
<1>10. t[n + 1].rec = x /\ t[n + 1].pc = "enter" /\ t[n + 1].kids = {}
  BY <1>5, <1>6
<1>11. Sound(rank, t, deletes[d].visited, R)
  <2>1. x \in Record /\ n \in Nat \ {0} /\ Len(s) = n /\ x \in s[n].kids
    BY <1>1, <1>2, <1>4
  <2>2. Len(t) = n + 1 /\ \A i \in 1 .. n - 1 : t[i] = s[i]
    BY <1>6
  <2> QED
    BY <1>7, <1>8, <1>9, <1>10, <2>1, <2>2, Calls
<1> QED
  BY <1>11 DEF t

LEMMA SoundReturn ==
  ASSUME TypeOK, NEW d \in Delete, Busy(d), NEW rank, NEW R,
         Sound(rank, deletes[d].calls, deletes[d].visited, R), ~ R[Top(d).rec].live
  PROVE  Sound(rank, Outer(d), deletes[d].visited, R)
<1> DEFINE s == deletes[d].calls
           t == Outer(d)
<1>1. s \in Seq(Frame) /\ s # <<>>
  BY AtWork
<1>2. PICK n \in Nat \ {0} : n = Len(s)
  BY <1>1, Shortened
<1>3. t = SubSeq(s, 1, Len(s) - 1) /\ Top(d) = s[n]
  BY <1>2 DEF Outer, Top
<1> HIDE DEF s, t
<1>4. Len(t) = n - 1 /\ \A i \in 1 .. n - 1 : t[i] = s[i]
  BY <1>1, <1>2, <1>3, Shortened
<1>5. Sound(rank, s, deletes[d].visited, R)
  BY DEF s
<1>6. Sound(rank, t, deletes[d].visited, R)
  BY <1>2, <1>3, <1>4, <1>5, Returns
<1> QED
  BY <1>6 DEF t

(* What the invariant says of the innermost call. *)
LEMMA SoundTop ==
  ASSUME TypeOK, NEW d \in Delete, Busy(d), NEW rank \in [Record -> Nat],
         Sound(rank, deletes[d].calls, deletes[d].visited, rows)
  PROVE  /\ \A x \in Top(d).kids : rank[Top(d).rec] < rank[x]
         /\ Top(d).pc = "enter" => Top(d).kids = {}
         /\ Top(d).pc = "refs" => \A f \in Incoming(Top(d).rec) \ Top(d).todo :
              Referrers(f, Top(d).rec) \subseteq Top(d).kids
         /\ Top(d).pc = "enter" /\ rows[Top(d).rec].live => Top(d).rec \notin deletes[d].visited
<1> DEFINE s == deletes[d].calls
           v == deletes[d].visited
<1>1. s \in Seq(Frame) /\ s # <<>>
  BY AtWork
<1>2. PICK n \in Nat \ {0} : n = Len(s)
  BY <1>1, Shortened
<1>3. Top(d) = s[n] /\ Sound(rank, s, v, rows)
  BY <1>2 DEF Top
<1>4. \A f \in Relation : Refer(rows, f, Top(d).rec) = Referrers(f, Top(d).rec)
  BY DEF Refer, Referrers
<1>5. Incoming(Top(d).rec) \subseteq Relation
  BY DEF Incoming
<1>6. \A i \in 1 .. n : s[i] \in Frame /\ rank[s[i].rec] \in Nat
  <2>1. \A i \in 1 .. n : s[i] \in Frame
    BY <1>1, <1>2, ElementOfSeq
  <2> QED
    BY <2>1 DEF Frame
<1> HIDE DEF s, v
<1>7. \A x \in s[n].kids : rank[s[n].rec] < rank[x]
  BY <1>2, <1>3 DEF Sound, Deeper
<1>8. s[n].pc = "enter" => s[n].kids = {}
  BY <1>2, <1>3 DEF Sound, Opened
<1>9. ASSUME s[n].pc = "refs", NEW f \in Incoming(s[n].rec) \ s[n].todo
      PROVE  Referrers(f, s[n].rec) \subseteq s[n].kids
  BY <1>2, <1>3, <1>4, <1>5, <1>9 DEF Sound, Handled
<1>10. ASSUME s[n].pc = "enter", rows[s[n].rec].live, s[n].rec \in v
       PROVE  FALSE
  <2>1. PICK i \in 1 .. n : s[i].rec = s[n].rec /\ s[i].pc = "refs"
    BY <1>2, <1>3, <1>10 DEF Sound, Visits
  <2>2. i < n
    BY <1>10, <2>1
  <2>3. rank[s[i].rec] < rank[s[n].rec]
    BY <1>2, <1>3, <2>2 DEF Sound, Deeper
  <2>4. rank[s[n].rec] \in Nat
    BY <1>6
  <2> QED
    BY <2>1, <2>3, <2>4
<1> QED
  BY <1>3, <1>7, <1>8, <1>9, <1>10 DEF v

-----------------------------------------------------------------------------
(* No dangling references *)

LEMMA InductiveInit ==
  ASSUME NEW rank, Init
  PROVE  Inductive(rank)
<1>1. PICK l \in Links :
        rows = [r \in Record |-> [live |-> TRUE, version |-> 1, updated |-> 0, refs |-> l[r]]]
  BY DEF Init
<1>2. \A r \in Record : rows[r].live /\ rows[r].refs = l[r]
  BY <1>1
<1>3. Typed
  BY <1>2, RecordsAssumption DEF Typed
<1>4. NoDangling
  <2>1. \A r \in Record, f \in Relation : l[r][f] \in Record \cup {NoRecord}
    BY RecordsAssumption
  <2> QED
    BY <1>2, <2>1 DEF NoDangling
<1>5. \A d \in Delete : Sound(rank, deletes[d].calls, deletes[d].visited, rows)
  BY Idles, IdleTyped DEF Init
<1> QED
  BY <1>3, <1>4, <1>5, TypeInit DEF Inductive

(* Where no record is removed, no reference comes to dangle. *)
LEMMA LiveKept ==
  ASSUME TypeOK, NoDangling, Narrowing, \A x \in Record : rows'[x].live = rows[x].live
  PROVE  NoDangling'
<1>1. \A r \in Record, f \in Relation : rows[r].refs[f] \in Record \cup {NoRecord}
  BY DEF TypeOK, Row
<1>2. \A r \in Record, f \in Relation :
        rows'[r].refs[f] \in {rows[r].refs[f], NoRecord}
  BY DEF Narrowing, Narrowed
<1> QED
  BY <1>1, <1>2 DEF NoDangling

(* When a delete removes a record, its relations have been handled.        *)
LEMMA Unreferred ==
  ASSUME NEW rank \in [Record -> Nat], Inductive(rank), NEW d \in Delete, DeleteRow(d)
  PROVE  \A x \in Record, f \in Relation : rows[x].live => rows[x].refs[f] # Top(d).rec
<1> DEFINE r == Top(d).rec
<1>1. Busy(d) /\ Top(d).pc = "refs" /\ Top(d).kids = {} /\ Top(d).todo = {}
  BY DEF DeleteRow, Cleared
<1>2. r \in Record /\ TypeOK /\ Sound(rank, deletes[d].calls, deletes[d].visited, rows)
  BY <1>1, AtWork DEF Inductive
<1>3. \A f \in Incoming(r) : Referrers(f, r) = {}
  BY <1>1, <1>2, SoundTop
<1> SUFFICES ASSUME NEW x \in Record, NEW f \in Relation, rows[x].live, rows[x].refs[f] = r
             PROVE  FALSE
  OBVIOUS
<1>4. f \in Incoming(r)
  BY <1>2, RecordsAssumption DEF Inductive, Typed, Incoming
<1>5. x \in Referrers(f, r)
  BY DEF Referrers
<1> QED
  BY <1>3, <1>4, <1>5

(* So no reference comes to dangle then either.                            *)
LEMMA RemovedUnreferred ==
  ASSUME NEW rank \in [Record -> Nat], Inductive(rank), NEW d \in Delete, DeleteRow(d)
  PROVE  NoDangling'
<1> DEFINE r == Top(d).rec
<1>1. TypeOK /\ NoDangling /\ Busy(d)
  BY DEF Inductive, DeleteRow, Cleared
<1>2. \A x \in Record, f \in Relation : rows[x].live => rows[x].refs[f] # r
  BY Unreferred
<1>3. ~ rows'[r].live /\ \A x \in Record : x # r => rows'[x] = rows[x]
  BY <1>1, DeleteRowNarrows
<1>4. \A x \in Record, f \in Relation : rows[x].refs[f] \in Record \cup {NoRecord}
  BY <1>1 DEF TypeOK, Row
<1> HIDE DEF r
<1> QED
  BY <1>1, <1>2, <1>3, <1>4 DEF NoDangling

LEMMA DeleteSound ==
  ASSUME NEW rank \in [Record -> Nat], Acyclic(rank), Inductive(rank),
         NEW d \in Delete, DeleteStep(d)
  PROVE  /\ Sound(rank, deletes'[d].calls, deletes'[d].visited, rows')
         /\ \A e \in Delete \ {d} : deletes'[e] = deletes[e]
<1> DEFINE After == /\ Sound(rank, deletes'[d].calls, deletes'[d].visited, rows')
                    /\ \A e \in Delete \ {d} : deletes'[e] = deletes[e]
<1>1. /\ TypeOK /\ Narrowed
      /\ Sound(rank, deletes[d].calls, deletes[d].visited, rows)
      /\ Sound(rank, deletes[d].calls, deletes[d].visited, rows')
  <2>1. [Next]_vars
    BY DEF Next
  <2>2. TypeOK /\ Narrowed
    BY <2>1, StepNarrows DEF Inductive, Narrowing
  <2> QED
    BY <2>2, Kept DEF Inductive
<1>2. ASSUME deletes'[d] = IdleDelete
      PROVE  Sound(rank, deletes'[d].calls, deletes'[d].visited, rows')
  BY <1>2, Idles, IdleTyped
<1>3. \A f \in Relation : Refer(rows, f, Top(d).rec) = Referrers(f, Top(d).rec)
  BY DEF Refer, Referrers
<1>4. ASSUME NEW r \in Record, StartDelete(d, r)
      PROVE  After
  <2>1. /\ deletes[d].calls = <<>> /\ deletes'[d].calls = <<Call(r)>>
        /\ deletes'[d].visited = deletes[d].visited
        /\ \A e \in Delete \ {d} : deletes'[e] = deletes[e]
    BY <1>1, <1>4, StartNarrows
  <2>2. Sound(rank, <<Call(r)>>, deletes[d].visited, rows')
    BY <1>1, <2>1, Begins
  <2> QED
    BY <2>1, <2>2
<1>5. ASSUME EnterDelete(d)
      PROVE  After
  <2>1. Busy(d) /\ Top(d).pc = "enter" /\ rows' = rows
    BY <1>5 DEF EnterDelete
  <2>2. CASE ~ rows[Top(d).rec].live
    <3>1. Sound(rank, Outer(d), deletes[d].visited, rows')
      BY <1>1, <2>1, <2>2, SoundReturn
    <3> QED
      BY <1>1, <1>2, <1>5, <2>2, <3>1, EnterNarrows
  <2>3. CASE rows[Top(d).rec].live
    <3>1. PICK g \in Frame :
            /\ g.rec = Top(d).rec /\ g.pc = "refs" /\ g.kids = Top(d).kids
            /\ g.todo = IF g.rec \in deletes[d].visited THEN {} ELSE Incoming(g.rec)
            /\ deletes'[d].calls = Append(Outer(d), g)
            /\ deletes'[d].visited = deletes[d].visited \cup {g.rec}
      BY <1>1, <1>5, <2>3, EnterNarrows
    <3>2. g.rec \notin deletes[d].visited /\ g.kids = {}
      BY <1>1, <2>1, <2>3, <3>1, SoundTop
    <3>3. g.todo = Incoming(g.rec)
      BY <3>1, <3>2
    <3>4. Sound(rank, Append(Outer(d), g), deletes[d].visited \cup {g.rec}, rows')
      BY <1>1, <2>1, <3>1, <3>2, <3>3, SoundFrame
    <3> QED
      BY <1>1, <1>5, <3>1, <3>4, EnterNarrows
  <2> QED
    BY <2>2, <2>3
<1>6. ASSUME NEW f \in Relation, CheckRestrict(d, f) \/ Cascade(d, f)
      PROVE  After
  <2>1. Busy(d) /\ Top(d).pc = "refs" /\ Top(d).kids = {} /\ rows' = rows /\ f \in Top(d).todo
    BY <1>6 DEF CheckRestrict, Restricted, Cascade, AtRelation
  <2>2. CASE deletes'[d] = IdleDelete
    BY <1>1, <1>2, <1>6, <2>2, RelationNarrows
  <2>3. ASSUME NEW g \in Frame,
               /\ g.rec = Top(d).rec /\ g.pc = Top(d).pc /\ g.todo = Top(d).todo \ {f}
               /\ g.kids \in {Top(d).kids, Referrers(f, g.rec)}
               /\ Referrers(f, g.rec) \subseteq g.kids
               /\ deletes'[d].calls = Append(Outer(d), g)
               /\ deletes'[d].visited = deletes[d].visited
        PROVE  Sound(rank, deletes'[d].calls, deletes'[d].visited, rows')
    <3>1. \A x \in g.kids : rank[g.rec] < rank[x]
      <4>1. ASSUME NEW x \in Referrers(f, Top(d).rec)
            PROVE  rank[Top(d).rec] < rank[x]
        <5>1. x \in Record /\ rows[x].refs[f] = Top(d).rec /\ Top(d).rec \in Record
          BY <1>1, <2>1, AtWork DEF Referrers
        <5>2. From[f] = Coll[x] /\ To[f] = Coll[Top(d).rec]
          BY <5>1, RecordsAssumption DEF Inductive, Typed
        <5> QED
          BY <5>1, <5>2 DEF Acyclic
      <4> QED
        BY <2>1, <2>3, <4>1
    <3>2. ASSUME NEW h \in Incoming(g.rec) \ g.todo
          PROVE  Refer(rows', h, g.rec) \subseteq g.kids
      <4>1. h \in Relation
        BY DEF Incoming
      <4>2. CASE h = f
        BY <1>3, <2>1, <2>3, <4>2
      <4>3. CASE h # f
        <5>1. h \in Incoming(Top(d).rec) \ Top(d).todo
          BY <2>3, <3>2, <4>3
        <5>2. Referrers(h, Top(d).rec) \subseteq {}
          BY <1>1, <2>1, <5>1, SoundTop
        <5> QED
          BY <1>3, <2>1, <2>3, <4>1, <5>2
      <4> QED
        BY <4>2, <4>3
    <3>3. deletes[d].visited \subseteq deletes[d].visited \cup {g.rec}
      OBVIOUS
    <3>4. g.rec = Top(d).rec /\ g.pc = "refs"
      BY <2>1, <2>3
    <3>5. Sound(rank, Append(Outer(d), g), deletes[d].visited, rows')
      BY <1>1, <2>1, <3>1, <3>2, <3>3, <3>4, SoundFrame
    <3> QED
      BY <2>3, <3>5
  <2> QED
    BY <1>1, <1>6, <2>2, <2>3, RelationNarrows
<1>7. ASSUME NEW f \in Relation, SetNull(d, f)
      PROVE  After
  <2> DEFINE g == WithoutRelation(d, f)
  <2>1. Busy(d) /\ Top(d).pc = "refs" /\ Top(d).kids = {} /\ f \in Top(d).todo
    BY <1>7 DEF SetNull, AtRelation
  <2>2. g \in Frame /\ g.rec = Top(d).rec /\ g.pc = "refs" /\ g.kids = {}
        /\ g.todo = Top(d).todo \ {f}
    BY <1>1, <2>1, AtWork DEF WithoutRelation, Frame
  <2>3. /\ Refer(rows', f, Top(d).rec) = {}
        /\ deletes'[d].calls = Append(Outer(d), g)
        /\ deletes'[d].visited = deletes[d].visited
        /\ \A e \in Delete \ {d} : deletes'[e] = deletes[e]
    BY <1>1, <1>7, SetNullNarrows
  <2> HIDE DEF g
  <2>4. ASSUME NEW h \in Incoming(g.rec) \ g.todo
        PROVE  Refer(rows', h, g.rec) \subseteq g.kids
    <3>1. CASE h = f
      BY <2>2, <2>3, <3>1
    <3>2. CASE h # f
      <4>1. h \in Incoming(Top(d).rec) \ Top(d).todo /\ h \in Relation
        BY <2>2, <2>4, <3>2 DEF Incoming
      <4>2. Referrers(h, Top(d).rec) \subseteq {}
        BY <1>1, <2>1, <4>1, SoundTop
      <4>3. Refer(rows', h, Top(d).rec) \subseteq Refer(rows, h, Top(d).rec)
        BY <1>1, <2>1, <4>1, AtWork, RecordsAssumption DEF Narrowed, Refer
      <4> QED
        BY <1>3, <2>2, <4>1, <4>2, <4>3
    <3> QED
      BY <3>1, <3>2
  <2>5. \A x \in g.kids : rank[g.rec] < rank[x]
    BY <2>2
  <2>6. deletes[d].visited \subseteq deletes[d].visited \cup {g.rec}
    OBVIOUS
  <2>7. Sound(rank, Append(Outer(d), g), deletes[d].visited, rows')
    BY <1>1, <2>1, <2>2, <2>4, <2>5, <2>6, SoundFrame
  <2> QED
    BY <2>3, <2>7
<1>8. ASSUME DeleteKid(d)
      PROVE  After
  <2>1. Busy(d)
    BY <1>8 DEF DeleteKid
  <2>2. PICK x \in Top(d).kids, g \in Frame :
          /\ g.rec = Top(d).rec /\ g.pc = Top(d).pc /\ g.todo = Top(d).todo
          /\ g.kids = Top(d).kids \ {x}
          /\ deletes'[d].calls = Append(Append(Outer(d), g), Call(x))
          /\ deletes'[d].visited = deletes[d].visited
    BY <1>1, <1>8, KidNarrows
  <2>3. Sound(rank, Append(Append(Outer(d), g), Call(x)), deletes[d].visited, rows')
    BY <1>1, <2>1, <2>2, SoundKid
  <2> QED
    BY <1>1, <1>8, <2>2, <2>3, KidNarrows
<1>9. ASSUME HookThrows(d)
      PROVE  After
  BY <1>1, <1>2, <1>9, ThrowNarrows
<1>10. ASSUME DeleteRow(d)
       PROVE  After
  <2>1. Busy(d)
    BY <1>10 DEF DeleteRow, Cleared
  <2>2. ~ rows'[Top(d).rec].live
    BY <1>1, <1>10, DeleteRowNarrows
  <2>3. Sound(rank, Outer(d), deletes[d].visited, rows')
    BY <1>1, <2>1, <2>2, SoundReturn
  <2> QED
    BY <1>1, <1>2, <1>10, <2>3, DeleteRowNarrows
<1> QED
  BY <1>4, <1>5, <1>6, <1>7, <1>8, <1>9, <1>10 DEF DeleteStep

LEMMA InductiveStep ==
  ASSUME NEW rank \in [Record -> Nat], Acyclic(rank), Inductive(rank), [Next]_vars
  PROVE  Inductive(rank)'
<1>1. TypeOK /\ NoDangling /\ Narrowing
  BY StepNarrows DEF Inductive
<1>2. TypeOK' /\ Narrowed
  BY <1>1 DEF Narrowing
<1>3. Typed'
  BY <1>2 DEF Inductive, Typed, Narrowed
<1>4. ASSUME NEW e \in Delete, deletes'[e] = deletes[e]
      PROVE  Sound(rank, deletes'[e].calls, deletes'[e].visited, rows')
  BY <1>2, <1>4, Kept
<1>5. NoDangling'
  <2>1. ASSUME NEW d \in Delete, DeleteRow(d)
        PROVE  NoDangling'
    BY <2>1, RemovedUnreferred
  <2>2. ASSUME \A d \in Delete : ~ DeleteRow(d)
        PROVE  \A x \in Record : rows'[x].live = rows[x].live
    BY <1>1, <2>2, PatchNarrows, SetNullNarrows
    DEF Next, DeleteStep, StartDelete, EnterDelete, CheckRestrict, Restricted, Cascade, DeleteKid, HookThrows,
        Tick, Crash, vars
  <2> QED
    BY <1>1, <2>1, <2>2, LiveKept
<1>6. \A d \in Delete : Sound(rank, deletes'[d].calls, deletes'[d].visited, rows')
  <2>1. ASSUME NEW d \in Delete, DeleteStep(d)
        PROVE  \A e \in Delete : Sound(rank, deletes'[e].calls, deletes'[e].visited, rows')
    BY <1>4, <2>1, DeleteSound
  <2>2. ASSUME deletes' = deletes
        PROVE  \A e \in Delete : Sound(rank, deletes'[e].calls, deletes'[e].visited, rows')
    BY <1>4, <2>2
  <2>3. CASE Crash
    BY <2>3, Idles, IdleTyped DEF Crash
  <2> QED
    BY <1>1, <2>1, <2>2, <2>3, PatchNarrows DEF Next, Tick, vars
<1> QED
  BY <1>2, <1>3, <1>5, <1>6 DEF Inductive

(* When the relations form no cycle, no delete, however many overlap and   *)
(* wherever they stop, leaves a live record that refers to a deleted one.  *)
THEOREM NoDanglingReference ==
  ASSUME NEW CONSTANT rank \in [Record -> Nat], Acyclic(rank)
  PROVE  Spec => []NoDangling
<1>1. Init => Inductive(rank)
  BY InductiveInit
<1>2. Inductive(rank) /\ [Next]_vars => Inductive(rank)'
  BY InductiveStep
<1>3. Inductive(rank) => NoDangling
  BY DEF Inductive
<1> QED
  BY <1>1, <1>2, <1>3, PTL DEF Spec

-----------------------------------------------------------------------------
(* What requests set against each other                                    *)

(* PATCHes do not overlap.                                                 *)
OnePatch == \A v, w \in Patch : v = w

(* No delete sets a relation of the record to null.                        *)
Steady(r) == \A f \in Relation : From[f] = Coll[r] => Mode[f] # "setNull"

(* A tag that readers can have got is no later than the record's, and the  *)
(* same one is of its version.                                             *)
Tagged(r) ==
  \A t \in Nat, v \in 1 .. MaxVersion : <<r, t, v>> \in seen =>
    t <= rows[r].updated /\ (t = rows[r].updated => v = rows[r].version)

(* Nothing has been written to the record since the PATCH began, and what  *)
(* it is about to write is later.                                          *)
UpToDate(p) ==
  p.pc # "idle" /\ Steady(p.rec) /\ rows[p.rec].live =>
    /\ p.tag \in {NoTag, rows[p.rec].updated}
    /\ p.pc = "stamp" => p.prev = rows[p.rec].updated
    /\ p.pc = "write" => p.prev > rows[p.rec].updated

TagsInv ==
  /\ TypeOK /\ Typed
  /\ \A r \in Record : Steady(r) /\ rows[r].live => Tagged(r)
  /\ \A w \in Patch : UpToDate(patches[w])

(* A steady record is written by PATCHes only, until it is deleted.        *)
Unwritten ==
  \A r \in Record : Steady(r) /\ rows'[r].live =>
    rows'[r] = rows[r] /\ \A t, v : <<r, t, v>> \in seen' => <<r, t, v>> \in seen

LEMMA TagsInit == Init => TagsInv
<1> SUFFICES ASSUME Init
             PROVE  TagsInv
  OBVIOUS
<1>1. TypeOK
  BY TypeInit
<1>2. PICK l \in Links : rows = [r \in Record |-> [live |-> TRUE, version |-> 1, updated |-> 0, refs |-> l[r]]]
  BY DEF Init
<1>3. Typed
  BY <1>2, RecordsAssumption DEF Typed
<1>4. \A r \in Record : rows[r].updated = 0 /\ rows[r].version = 1
  BY <1>2
<1>5. \A r \in Record : Tagged(r)
  BY <1>4 DEF Init, Tagged
<1>6. \A w \in Patch : UpToDate(patches[w])
  BY DEF Init, UpToDate, IdlePatch
<1> QED
  BY <1>1, <1>3, <1>5, <1>6 DEF TagsInv

LEMMA DeleteLeavesSteady ==
  ASSUME TypeOK, Typed, NEW d \in Delete, DeleteStep(d)
  PROVE  Unwritten /\ patches' = patches
<1>1. ASSUME NEW f \in Relation, SetNull(d, f)
      PROVE  Unwritten /\ patches' = patches
  <2> DEFINE affected == Referrers(f, Top(d).rec)
  <2>1. /\ Busy(d) /\ Mode[f] = "setNull" /\ patches' = patches
        /\ \A x \in Record \ affected : rows'[x] = rows[x]
        /\ seen' = seen \cup {<<r, rows'[r].updated, rows'[r].version>> : r \in affected}
    BY <1>1 DEF SetNull, AtRelation, Serve
  <2>2. Top(d).rec # NoRecord
    BY <2>1, AtWork, RecordsAssumption
  <2>3. \A x \in affected : x \in Record /\ ~ Steady(x)
    BY <2>1, <2>2 DEF Referrers, Typed, Steady
  <2> HIDE DEF affected
  <2> QED
    BY <2>1, <2>3 DEF Unwritten
<1>2. ASSUME DeleteRow(d)
      PROVE  Unwritten /\ patches' = patches
  <2>1. ~ rows'[Top(d).rec].live /\ \A x \in Record : x # Top(d).rec => rows'[x] = rows[x]
    BY <1>2, DeleteRowNarrows
  <2>2. seen' = seen /\ patches' = patches
    BY <1>2 DEF DeleteRow
  <2> QED
    BY <2>1, <2>2 DEF Unwritten
<1>3. ASSUME UNCHANGED <<rows, seen, patches>>
      PROVE  Unwritten /\ patches' = patches
  BY <1>3 DEF Unwritten
<1> QED
  BY <1>1, <1>2, <1>3
  DEF DeleteStep, StartDelete, CheckRestrict, Restricted, Cascade, EnterDelete, DeleteKid, HookThrows

(* What holds of a PATCH and of a record's tags survives the others' steps. *)
LEMMA UnwrittenKeeps ==
  ASSUME TagsInv, TypeOK', Narrowed, Unwritten
  PROVE  /\ Typed'
         /\ \A r \in Record : Steady(r) /\ rows'[r].live => Tagged(r)'
         /\ \A w \in Patch : patches'[w] = patches[w] => UpToDate(patches[w])'
<1>1. Typed'
  BY DEF TagsInv, Typed, Narrowed
<1>2. ASSUME NEW r \in Record, Steady(r), rows'[r].live
      PROVE  Tagged(r)'
  <2>1. rows'[r] = rows[r] /\ rows[r].live /\ \A t, v : <<r, t, v>> \in seen' => <<r, t, v>> \in seen
    BY <1>2 DEF Unwritten, Narrowed
  <2>2. Tagged(r)
    BY <1>2, <2>1 DEF TagsInv
  <2> QED
    BY <2>1, <2>2 DEF Tagged
<1>3. ASSUME NEW w \in Patch, patches'[w] = patches[w]
      PROVE  UpToDate(patches[w])'
  <2>1. PICK p \in PatchState : p = patches[w] /\ p = patches'[w]
    BY <1>3 DEF TagsInv, TypeOK
  <2>2. UpToDate(p)
    BY <2>1 DEF TagsInv
  <2>3. ASSUME p.pc # "idle", Steady(p.rec), rows'[p.rec].live
        PROVE  rows'[p.rec] = rows[p.rec] /\ rows[p.rec].live
    <3>1. p.rec \in Record
      BY <2>3 DEF PatchState, IdlePatch
    <3> QED
      BY <2>3, <3>1 DEF Unwritten, Narrowed
  <2> QED
    BY <2>1, <2>2, <2>3 DEF UpToDate
<1> QED
  BY <1>1, <1>2, <1>3

LEMMA PatchKeepsTags ==
  ASSUME OnePatch, TagsInv, NEW w \in Patch, PatchStep(w)
  PROVE  TagsInv'
<1>1. TypeOK /\ TypeOK' /\ Narrowed
  BY PatchNarrows DEF TagsInv, Narrowing
<1>2. patches \in [Patch -> PatchState] /\ \A v \in Patch : v = w
  BY <1>1 DEF TypeOK, OnePatch
<1>3. PICK p \in PatchState : p = patches[w]
  BY <1>2
<1>4. UpToDate(p)
  BY <1>3 DEF TagsInv
<1>5. ASSUME UNCHANGED <<rows, seen>>, UpToDate(patches'[w])
      PROVE  TagsInv'
  <2>1. Unwritten
    BY <1>5 DEF Unwritten
  <2>2. \A v \in Patch : UpToDate(patches[v])'
    BY <1>2, <1>5 DEF UpToDate
  <2> QED
    BY <1>1, <2>1, <2>2, UnwrittenKeeps DEF TagsInv
<1>6. CASE \E r \in Patched, tag \in {s[2] : s \in seen} \cup {NoTag} : StartPatch(w, r, tag)
  <2>1. PICK r \in Patched, tag \in {s[2] : s \in seen} \cup {NoTag} : StartPatch(w, r, tag)
    BY <1>6
  <2>2. /\ patches'[w] = [pc |-> "load", rec |-> r, tag |-> tag, prev |-> 0]
        /\ tag \in {NoTag, rows[r].updated} /\ UNCHANGED <<rows, seen>>
    BY <1>2, <2>1 DEF StartPatch, IfMatch
  <2> QED
    BY <1>5, <2>2 DEF UpToDate
<1>7. ASSUME p.pc # "idle"
      PROVE  /\ p = [pc |-> p.pc, rec |-> p.rec, tag |-> p.tag, prev |-> p.prev]
             /\ p.rec \in Record /\ p.prev \in Nat /\ rows[p.rec] \in Row
  BY <1>1, <1>7 DEF PatchState, IdlePatch, TypeOK
<1>8. ASSUME patches'[w] = IdlePatch, UNCHANGED <<rows, seen>>
      PROVE  TagsInv'
  BY <1>5, <1>8 DEF UpToDate, IdlePatch
<1>9. CASE LoadPatch(w)
  <2>1. p.pc = "load" /\ UNCHANGED <<rows, seen>>
    BY <1>3, <1>9 DEF LoadPatch
  <2>2. CASE rows[p.rec].live
    <3>1. patches'[w] = [pc |-> "stamp", rec |-> p.rec, tag |-> p.tag, prev |-> rows[p.rec].updated]
      BY <1>2, <1>3, <1>7, <1>9, <2>1, <2>2 DEF LoadPatch
    <3> QED
      BY <1>4, <1>5, <2>1, <3>1 DEF UpToDate
  <2>3. CASE ~ rows[p.rec].live
    <3>1. patches'[w] = IdlePatch
      BY <1>2, <1>3, <1>9, <2>3 DEF LoadPatch
    <3> QED
      BY <1>8, <2>1, <3>1
  <2> QED
    BY <2>2, <2>3
<1>10. CASE AbandonPatch(w)
  BY <1>2, <1>8, <1>10 DEF AbandonPatch
<1>11. CASE StampPatch(w)
  <2>1. p.pc = "stamp" /\ UNCHANGED <<rows, seen>>
    BY <1>3, <1>11 DEF StampPatch
  <2>2. PICK n \in Nat : n = Stamp(clock, p.prev) /\ n > p.prev
    BY <1>1, <1>7, <2>1 DEF Stamp, TypeOK
  <2>3. patches'[w] = [pc |-> "write", rec |-> p.rec, tag |-> p.tag, prev |-> n]
    BY <1>2, <1>3, <1>7, <1>11, <2>1, <2>2 DEF StampPatch
  <2> QED
    BY <1>4, <1>5, <2>1, <2>2, <2>3 DEF UpToDate
<1>12. CASE WritePatch(w)
  <2>1. p.pc = "write" /\ patches'[w] = IdlePatch
    BY <1>2, <1>3, <1>12 DEF WritePatch
  <2>2. CASE ~ rows[p.rec].live
    BY <1>3, <1>8, <1>12, <2>1, <2>2 DEF WritePatch
  <2>3. CASE rows[p.rec].live
    <3>1. PICK r \in Record : r = p.rec
      BY <1>7, <2>1
    <3>2. PICK n \in Nat : n = p.prev
      BY <1>7, <2>1
    <3>3. CanWrite(r) /\ rows' = [rows EXCEPT ![r] = Written(rows[r], n)] /\ Serve({r})
      BY <1>3, <1>12, <2>3, <3>1, <3>2 DEF WritePatch
    <3>4. PICK row : row = Written(rows[r], n)
      OBVIOUS
    <3>5. row \in Row /\ row.live = rows[r].live /\ row.refs = rows[r].refs /\ row.updated = n
      BY <1>1, <3>3, <3>4, RowWrites
    <3>6. rows'[r] = row /\ \A x \in Record \ {r} : rows'[x] = rows[x]
      BY <1>1, <3>3, <3>4 DEF TypeOK
    <3>7. seen' = seen \cup {<<r, n, row.version>>}
      BY <3>3, <3>5, <3>6 DEF Serve
    <3>8. Typed'
      BY <1>1 DEF TagsInv, Typed, Narrowed
    <3>9. ASSUME NEW x \in Record, Steady(x), rows'[x].live
          PROVE  Tagged(x)'
      <4>1. Tagged(x)
        BY <1>1, <3>9 DEF TagsInv, Narrowed
      <4>2. CASE x # r
        BY <3>6, <3>7, <4>1, <4>2 DEF Tagged
      <4>3. CASE x = r
        <5>1. n > rows[r].updated /\ rows[r].updated \in Nat
          BY <1>4, <2>1, <2>3, <3>1, <3>2, <3>9, <4>3, <1>7 DEF UpToDate, Row
        <5>2. \A t \in Nat, v \in 1 .. MaxVersion : <<r, t, v>> \in seen' =>
                t < n \/ (t = n /\ v = row.version)
          BY <3>7, <4>1, <4>3, <5>1 DEF Tagged
        <5>3. \A t \in Nat, v \in 1 .. MaxVersion : <<x, t, v>> \in seen' =>
                t <= rows'[x].updated /\ (t = rows'[x].updated => v = rows'[x].version)
          BY <3>5, <3>6, <4>3, <5>2
        <5> QED
          BY <5>3 DEF Tagged
      <4> QED
        BY <4>2, <4>3
    <3>10. \A v \in Patch : UpToDate(patches[v])'
      BY <1>2, <2>1 DEF UpToDate, IdlePatch
    <3> QED
      BY <1>1, <3>8, <3>9, <3>10 DEF TagsInv
  <2> QED
    BY <2>2, <2>3
<1> QED
  BY <1>6, <1>9, <1>10, <1>11, <1>12 DEF PatchStep

LEMMA TagsStep ==
  ASSUME OnePatch, TagsInv, [Next]_vars
  PROVE  TagsInv'
<1>1. TypeOK /\ Typed /\ TypeOK' /\ Narrowed
  BY StepNarrows DEF TagsInv, Narrowing
<1>2. ASSUME Unwritten, \A w \in Patch : patches'[w] = patches[w] \/ patches'[w] = IdlePatch
      PROVE  TagsInv'
  <2>1. \A w \in Patch : patches'[w] = IdlePatch => UpToDate(patches[w])'
    BY DEF UpToDate, IdlePatch
  <2> QED
    BY <1>1, <1>2, <2>1, UnwrittenKeeps DEF TagsInv
<1>3. CASE \E w \in Patch : PatchStep(w)
  BY <1>3, PatchKeepsTags
<1>4. CASE \E d \in Delete : DeleteStep(d)
  BY <1>1, <1>2, <1>4, DeleteLeavesSteady
<1>5. CASE Tick \/ Crash \/ UNCHANGED vars
  BY <1>2, <1>5 DEF Tick, Crash, vars, Unwritten
<1> QED
  BY <1>3, <1>4, <1>5 DEF Next

Overwrites(w) ==
  LET p == patches[w]
  IN  /\ p.pc = "write" /\ patches'[w].pc = "idle" /\ p.tag # NoTag
      /\ rows'[p.rec].version # rows[p.rec].version
      /\ \A f \in Relation : From[f] = Coll[p.rec] => Mode[f] # "setNull"
OverwritesSeen(w) ==
  \A v \in 1 .. MaxVersion :
    <<patches[w].rec, patches[w].tag, v>> \in seen => v = rows[patches[w].rec].version

LEMMA NothingUnseen ==
  ASSUME OnePatch, TagsInv, [Next]_vars, NEW w \in Patch, Overwrites(w)
  PROVE  OverwritesSeen(w)
<1>1. patches \in [Patch -> PatchState] /\ \A v \in Patch : v = w
  BY DEF TagsInv, TypeOK, OnePatch
<1>2. PICK p \in PatchState : p = patches[w]
  BY <1>1
<1>3. p.pc = "write" /\ patches'[w].pc = "idle" /\ p.tag # NoTag /\ Steady(p.rec)
      /\ rows'[p.rec] # rows[p.rec]
  BY <1>2 DEF Overwrites, Steady
<1>4. PICK r \in Record : r = p.rec
  BY <1>3 DEF PatchState, IdlePatch
<1>5. WritePatch(w)
  <2>1. rows' # rows /\ patches' # patches
    BY <1>2, <1>3
  <2>2. ~ \E d \in Delete : DeleteStep(d)
    BY <2>1, DeleteLeavesSteady DEF TagsInv
  <2>3. PatchStep(w)
    BY <1>1, <2>1, <2>2 DEF Next, Tick, Crash, vars
  <2> QED
    BY <2>1, <2>3 DEF PatchStep, StartPatch, LoadPatch, AbandonPatch, StampPatch
<1>6. rows[r].live
  BY <1>2, <1>3, <1>4, <1>5 DEF WritePatch
<1>7. UpToDate(p) /\ Tagged(r)
  BY <1>2, <1>3, <1>4, <1>6 DEF TagsInv
<1>8. p.tag = rows[r].updated /\ rows[r].updated \in Nat
  BY <1>3, <1>4, <1>6, <1>7 DEF UpToDate, TagsInv, TypeOK, Row
<1> QED
  BY <1>2, <1>4, <1>7, <1>8 DEF OverwritesSeen, Tagged

LEMMA NothingRestricted ==
  ASSUME NEW rank \in [Record -> Nat], Acyclic(rank), Inductive(rank), [Next]_vars,
         NEW r \in Record, rows[r].live, ~ rows'[r].live, NEW f \in Relation
  PROVE  Referrers(f, r) = {}
<1>1. PICK d \in Delete : DeleteRow(d)
  <2>1. TypeOK
    BY DEF Inductive
  <2> QED
    BY <2>1, PatchNarrows, SetNullNarrows
    DEF Next, DeleteStep, StartDelete, EnterDelete, CheckRestrict, Restricted, Cascade, DeleteKid, HookThrows,
        Tick, Crash, vars
<1>2. r = Top(d).rec
  BY <1>1, DeleteRowNarrows DEF Inductive
<1> QED
  BY <1>1, <1>2, Unreferred DEF Referrers

(* When PATCHes do not overlap and the relations form no cycle: a PATCH    *)
(* with If-Match overwrites nothing but the version its tag stood for, and *)
(* no delete removes what a restricting relation refers to, however many   *)
(* overlap.                                                                *)
THEOREM GuardsAlwaysHold ==
  ASSUME NEW CONSTANT rank \in [Record -> Nat], Acyclic(rank), OnePatch
  PROVE  Spec => GuardsHold
<1>1. Init => TagsInv /\ Inductive(rank)
  BY TagsInit, InductiveInit
<1>2. TagsInv /\ [Next]_vars => TagsInv'
  BY TagsStep
<1>3. Inductive(rank) /\ [Next]_vars => Inductive(rank)'
  BY InductiveStep
<1>4. TagsInv /\ [Next]_vars =>
        [\A w \in Patch :
           LET p == patches[w]
           IN  /\ p.pc = "write" /\ patches'[w].pc = "idle" /\ p.tag # NoTag
               /\ rows'[p.rec].version # rows[p.rec].version
               /\ \A f \in Relation : From[f] = Coll[p.rec] => Mode[f] # "setNull"
               => \A v \in 1 .. MaxVersion :
                    <<p.rec, p.tag, v>> \in seen => v = rows[p.rec].version]_vars
  BY NothingUnseen DEF Overwrites, OverwritesSeen
<1>5. Inductive(rank) /\ [Next]_vars =>
        [\A r \in Record : rows[r].live /\ ~ rows'[r].live =>
           \A f \in Relation : Mode[f] = "restrict" => Referrers(f, r) = {}]_vars
  BY NothingRestricted
<1>6. Spec => NoLostUpdate
  BY <1>1, <1>2, <1>4, PTL DEF Spec, NoLostUpdate
<1>7. Spec => RestrictBlocks
  BY <1>1, <1>3, <1>5, PTL DEF Spec, RestrictBlocks
<1> QED
  BY <1>6, <1>7 DEF GuardsHold

=============================================================================
