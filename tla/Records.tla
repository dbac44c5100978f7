-------------------------------- MODULE Records --------------------------------
(***************************************************************************)
(* Updates and deletes of records: PATCH and DELETE of src/api/records.ts  *)
(* over updateRecord and deleteRecord of src/core/records.ts.              *)
(*                                                                         *)
(* Requests interleave at their awaits (hooks, validation, encryption, and *)
(* in a cluster every statement); between them a step is atomic. A delete  *)
(* first applies the cascades of the relations that point at the record,   *)
(* which may delete further records, depth first, without a transaction.   *)
(*                                                                         *)
(* A record's fields are a version, new with every write, and the targets  *)
(* of its single-valued relations. updated_at is the ETag. Which relations *)
(* exist is fixed; the order in which listCollections and the field lists  *)
(* bring them up is left open.                                             *)
(***************************************************************************)
EXTENDS Integers, Sequences

CONSTANTS
  Record, NoRecord,   \* record ids, and a relation that is null
  Coll,               \* Coll[r]: the collection of record r
  Relation,           \* the relation fields of all collections
  From, To,           \* From[f], To[f]: the collection that has f, and its target
  Mode,               \* Mode[f]: its `cascade` option
  Links,              \* the relation values the records may start with
  Patch,              \* PATCH requests that may be in flight at once
  Patched,            \* bound: the records they are sent for
  Delete,             \* DELETE requests that may be in flight at once
  NoTag,              \* no If-Match header, or `*`
  MaxTime,            \* bound on the clock, in seconds
  MaxVersion,         \* bound on the writes to one record
  MaxCrash            \* bound on crashes of the process

ASSUME RecordsAssumption ==
  /\ NoRecord \notin Record
  /\ From \in [Relation -> {Coll[r] : r \in Record}]
  /\ To \in [Relation -> {Coll[r] : r \in Record}]
  /\ Mode \in [Relation -> {"setNull", "cascade", "restrict"}]
  /\ Links \subseteq [Record -> [Relation -> Record \cup {NoRecord}]]
  /\ \A l \in Links : \A r \in Record, f \in Relation :
       l[r][f] # NoRecord => From[f] = Coll[r] /\ To[f] = Coll[l[r][f]]
  /\ Patched \subseteq Record
  /\ NoTag \notin Nat
  /\ MaxTime \in Nat /\ MaxVersion \in Nat \ {0} /\ MaxCrash \in Nat

VARIABLES
  rows,         \* the collections' tables, record by record
  clock,        \* wall clock in whole seconds
  patches,      \* patches[w]: where PATCH request w is, and what it has read
  deletes,      \* deletes[d]: the calls of deleteRecordInternal DELETE d is in
  seen,         \* history: <<record, ETag, version>> that readers can have got
  crashes       \* history: how many crashes so far

vars == <<rows, clock, patches, deletes, seen, crashes>>

Row == [live : BOOLEAN, version : 1 .. MaxVersion, updated : Nat,
        refs : [Relation -> Record \cup {NoRecord}]]

IdlePatch == [pc |-> "idle", rec |-> NoRecord, tag |-> NoTag, prev |-> 0]

PatchState == {IdlePatch} \cup
  [pc : {"load", "stamp", "write"}, rec : Record, tag : Nat \cup {NoTag}, prev : Nat]

(* todo: relations still to be dealt with; kids: referrers the cascade in  *)
(* hand has selected and not yet deleted.                                  *)
Frame == [rec : Record, pc : {"enter", "refs"}, todo : SUBSET Relation, kids : SUBSET Record]

(* calls: outermost first; visited: records whose cascades were taken on.  *)
DeleteState == [calls : Seq(Frame), visited : SUBSET Record]

(* Every table and local holds what its column or type allows.             *)
TypeOK ==
  /\ rows \in [Record -> Row]
  /\ clock \in 0 .. MaxTime
  /\ patches \in [Patch -> PatchState]
  /\ deletes \in [Delete -> DeleteState]
  /\ seen \subseteq Record \X Nat \X (1 .. MaxVersion)
  /\ crashes \in 0 .. MaxCrash

(* A record that has been deleted has no row. *)
Gone == [live |-> FALSE, version |-> 1, updated |-> 0, refs |-> [f \in Relation |-> NoRecord]]

IdleDelete == [calls |-> <<>>, visited |-> {}]

Init ==
  /\ \E l \in Links :
       rows = [r \in Record |-> [live |-> TRUE, version |-> 1, updated |-> 0, refs |-> l[r]]]
  /\ clock = 0
  /\ patches = [w \in Patch |-> IdlePatch]
  /\ deletes = [d \in Delete |-> IdleDelete]
  /\ seen = {<<r, 0, 1>> : r \in Record}
  /\ crashes = 0

-----------------------------------------------------------------------------
(* Writes. What has been written can be read, with its tag, at once.       *)

(* The row after a write, which gives it a version of its own. *)
Written(row, now) == [row EXCEPT !.version = @ + 1, !.updated = now]

(* Records whose rows a statement wrote. *)
Serve(S) == seen' = seen \cup {<<r, rows'[r].updated, rows'[r].version>> : r \in S}

CanWrite(r) == rows[r].version < MaxVersion

-----------------------------------------------------------------------------
(* PATCH: the handler reads the record for If-Match, updateRecord reads it *)
(* again, and writes after the hooks, the validation and the encoding.     *)

(* The record exists and ifMatchFails finds nothing to object to. *)
IfMatch(r, tag) == rows[r].live /\ tag \in {NoTag, rows[r].updated}

StartPatch(w, r, tag) ==
  /\ patches[w].pc = "idle" /\ IfMatch(r, tag)
  /\ patches' = [patches EXCEPT ![w] = [pc |-> "load", rec |-> r, tag |-> tag, prev |-> 0]]
  /\ UNCHANGED <<rows, clock, deletes, seen, crashes>>

LoadPatch(w) ==
  LET r == patches[w].rec
  IN  /\ patches[w].pc = "load"
      /\ patches' = [patches EXCEPT ![w] =
           IF rows[r].live THEN [@ EXCEPT !.pc = "stamp", !.prev = rows[r].updated]
           ELSE IdlePatch]
      /\ UNCHANGED <<rows, clock, deletes, seen, crashes>>

(* A hook or the validation throws, or the patch sets no column. *)
AbandonPatch(w) ==
  /\ patches[w].pc = "stamp"
  /\ patches' = [patches EXCEPT ![w] = IdlePatch]
  /\ UNCHANGED <<rows, clock, deletes, seen, crashes>>

(* Mutant: the wall clock alone is written. *)
WallClock(nowSec, prev) == IF nowSec >= prev THEN nowSec ELSE prev

(* Mutant: the bump goes the wrong way. *)
BumpedBack(nowSec, prev) == IF nowSec > prev THEN nowSec ELSE prev - 1

(* The updated_at a patch writes: later than the one it has read. *)
Stamp(nowSec, prev) == IF nowSec > prev THEN nowSec ELSE prev + 1

StampPatch(w) ==
  /\ patches[w].pc = "stamp"
  /\ patches' = [patches EXCEPT ![w].pc = "write", ![w].prev = Stamp(clock, @)]
  /\ UNCHANGED <<rows, clock, deletes, seen, crashes>>

(* The UPDATE, by id alone. If the record is gone it matches no row, and   *)
(* rendering the missing row throws.                                       *)
WritePatch(w) ==
  LET r == patches[w].rec
  IN  /\ patches[w].pc = "write"
      /\ IF rows[r].live
         THEN /\ CanWrite(r)
              /\ rows' = [rows EXCEPT ![r] = Written(@, patches[w].prev)]
              /\ Serve({r})
         ELSE UNCHANGED <<rows, seen>>
      /\ patches' = [patches EXCEPT ![w] = IdlePatch]
      /\ UNCHANGED <<clock, deletes, crashes>>

-----------------------------------------------------------------------------
(* DELETE *)

Call(r) == [rec |-> r, pc |-> "enter", todo |-> {}, kids |-> {}]

Busy(d) == deletes[d].calls # <<>>

Top(d) == deletes[d].calls[Len(deletes[d].calls)]

Outer(d) == SubSeq(deletes[d].calls, 1, Len(deletes[d].calls) - 1)

(* The innermost call has become `frame`. *)
SetTop(d, frame) == deletes' = [deletes EXCEPT ![d].calls = Append(Outer(d), frame)]

(* The innermost call has returned. *)
Return(d) ==
  deletes' = [deletes EXCEPT ![d] =
                IF Len(@.calls) = 1 THEN IdleDelete ELSE [@ EXCEPT !.calls = Outer(d)]]

(* The request has failed or is over. *)
End(d) == deletes' = [deletes EXCEPT ![d] = IdleDelete]

(* findIncomingRefs() *)
Incoming(r) == {f \in Relation : To[f] = Coll[r]}

Referrers(f, r) == {x \in Record : rows[x].live /\ rows[x].refs[f] = r}

(* The handler's checks; If-Match is compared here and never again. *)
StartDelete(d, r) ==
  /\ ~ Busy(d) /\ rows[r].live
  /\ deletes' = [deletes EXCEPT ![d].calls = <<Call(r)>>]
  /\ UNCHANGED <<rows, clock, patches, seen, crashes>>

(* deleteRecordInternal reads the record; applyCascades collects the       *)
(* relations at it, unless this request has done so before.                *)
EnterDelete(d) ==
  /\ Busy(d) /\ Top(d).pc = "enter"
  /\ LET r == Top(d).rec
         todo == IF r \in deletes[d].visited THEN {} ELSE Incoming(r)
     IN  IF ~ rows[r].live THEN Return(d)
         ELSE deletes' = [deletes EXCEPT
                ![d].calls = Append(Outer(d), [Top(d) EXCEPT !.pc = "refs", !.todo = todo]),
                ![d].visited = @ \cup {r}]
  /\ UNCHANGED <<rows, clock, patches, seen, crashes>>

(* The innermost call of d turns to relation f next. *)
AtRelation(d, f, mode) ==
  /\ Busy(d) /\ Top(d).pc = "refs" /\ Top(d).kids = {}
  /\ f \in Top(d).todo /\ Mode[f] = mode

WithoutRelation(d, f) == [Top(d) EXCEPT !.todo = @ \ {f}]

(* Mutant: only the record of the request is protected. *)
RestrictedAtTop(d, f) == Referrers(f, Top(d).rec) # {} /\ Len(deletes[d].calls) = 1

(* A referrer makes the whole request fail, whatever it has done already. *)
Restricted(d, f) == Referrers(f, Top(d).rec) # {}

CheckRestrict(d, f) ==
  /\ AtRelation(d, f, "restrict")
  /\ IF Restricted(d, f)
     THEN End(d)
     ELSE SetTop(d, WithoutRelation(d, f))
  /\ UNCHANGED <<rows, clock, patches, seen, crashes>>

SetNull(d, f) ==
  LET affected == Referrers(f, Top(d).rec)
  IN  /\ AtRelation(d, f, "setNull")
      /\ \A x \in affected : CanWrite(x)
      /\ rows' = [x \in Record |->
           IF x \in affected THEN [Written(rows[x], clock) EXCEPT !.refs[f] = NoRecord]
           ELSE rows[x]]
      /\ Serve(affected)
      /\ SetTop(d, WithoutRelation(d, f))
      /\ UNCHANGED <<clock, patches, crashes>>

(* Mutant: the first referrer only, as in the restrict branch. *)
FirstReferrer(S) == IF S = {} THEN {} ELSE {CHOOSE x \in S : TRUE}

(* The referrers a cascade goes through: all rows of its SELECT. *)
Affected(S) == S

Cascade(d, f) ==
  /\ AtRelation(d, f, "cascade")
  /\ SetTop(d, [WithoutRelation(d, f) EXCEPT !.kids = Affected(Referrers(f, Top(d).rec))])
  /\ UNCHANGED <<rows, clock, patches, seen, crashes>>

DeleteKid(d) ==
  /\ Busy(d) /\ Top(d).kids # {}
  /\ \E x \in Top(d).kids :
       deletes' = [deletes EXCEPT ![d].calls =
         Append(Append(Outer(d), [Top(d) EXCEPT !.kids = @ \ {x}]), Call(x))]
  /\ UNCHANGED <<rows, clock, patches, seen, crashes>>

Cleared(d) ==
  Busy(d) /\ Top(d).pc = "refs" /\ Top(d).kids = {} /\ Top(d).todo = {}

(* A beforeDelete hook throws: the whole request fails. *)
HookThrows(d) ==
  /\ Cleared(d)
  /\ End(d)
  /\ UNCHANGED <<rows, clock, patches, seen, crashes>>

(* The DELETE, by id. *)
DeleteRow(d) ==
  /\ Cleared(d)
  /\ rows' = [rows EXCEPT ![Top(d).rec] = Gone]
  /\ Return(d)
  /\ UNCHANGED <<clock, patches, seen, crashes>>

-----------------------------------------------------------------------------
(* The environment *)

Tick ==
  /\ clock < MaxTime
  /\ clock' = clock + 1
  /\ UNCHANGED <<rows, patches, deletes, seen, crashes>>

(* The process dies with its requests; what they wrote stays. *)
Crash ==
  /\ crashes < MaxCrash
  /\ crashes' = crashes + 1
  /\ patches' = [w \in Patch |-> IdlePatch]
  /\ deletes' = [d \in Delete |-> IdleDelete]
  /\ UNCHANGED <<rows, clock, seen>>

-----------------------------------------------------------------------------
PatchStep(w) ==
  \/ \E r \in Patched, tag \in {s[2] : s \in seen} \cup {NoTag} : StartPatch(w, r, tag)
  \/ LoadPatch(w) \/ AbandonPatch(w) \/ StampPatch(w) \/ WritePatch(w)

DeleteStep(d) ==
  \/ \E r \in Record : StartDelete(d, r)
  \/ \E f \in Relation : CheckRestrict(d, f) \/ SetNull(d, f) \/ Cascade(d, f)
  \/ EnterDelete(d) \/ DeleteKid(d) \/ HookThrows(d) \/ DeleteRow(d)

Next ==
  \/ \E w \in Patch : PatchStep(w)
  \/ \E d \in Delete : DeleteStep(d)
  \/ Tick \/ Crash

Spec == Init /\ [][Next]_vars

-----------------------------------------------------------------------------
(* Properties *)

(* No record refers to one that is gone. Cascades run before the DELETE    *)
(* and nothing is written twice, so this survives overlapping deletes, a   *)
(* restrict or a hook that throws in the middle, and crashes. It needs     *)
(* relations that form no cycle, and that nobody links to a record while   *)
(* it is being deleted, which the model leaves out.                        *)
NoDangling ==
  \A r \in Record, f \in Relation :
    rows[r].live /\ rows[r].refs[f] # NoRecord => rows[rows[r].refs[f]].live

(* A PATCH with If-Match overwrites the version that its tag stood for,    *)
(* and no other: the tag never stood for two. It needs PATCHes that do not *)
(* overlap, and records whose relations no delete sets to null.            *)
NoLostUpdate ==
  [][\A w \in Patch :
       LET p == patches[w]
       IN  /\ p.pc = "write" /\ patches'[w].pc = "idle" /\ p.tag # NoTag
           /\ rows'[p.rec].version # rows[p.rec].version
           /\ \A f \in Relation : From[f] = Coll[p.rec] => Mode[f] # "setNull"
           => \A v \in 1 .. MaxVersion :
                <<p.rec, p.tag, v>> \in seen => v = rows[p.rec].version]_vars

(* "`updated` is strictly monotonic, so two writes in the same second      *)
(* still get distinct tags" (rest-api.md).                                 *)
StrictlyMonotonic ==
  [][\A r \in Record :
       rows'[r].live /\ rows'[r].version # rows[r].version
         => rows'[r].updated > rows[r].updated]_vars

(* "`restrict` (block delete, 409)" (data-model.md): no record is deleted  *)
(* while another refers to it by a relation of that mode, by a request of  *)
(* its own or by a cascade, whatever other deletes do meanwhile.  It needs *)
(* relations without a cycle.                                              *)
RestrictBlocks ==
  [][\A r \in Record : rows[r].live /\ ~ rows'[r].live =>
       \A f \in Relation : Mode[f] = "restrict" => Referrers(f, r) = {}]_vars

(* What a request sets against others that overlap it holds: the tag of a  *)
(* PATCH against changes it has not seen, and a restricting relation       *)
(* against deletes.                                                        *)
GuardsHold == NoLostUpdate /\ RestrictBlocks

=============================================================================
