------------------------------- MODULE Snapshots -------------------------------
(***************************************************************************)
(* Schema snapshots: src/src/core/migrations.ts and                        *)
(* src/src/api/migrations.ts.  The definitions of all collections are       *)
(* downloaded from one server; on another the changes are previewed and    *)
(* then applied, entry by entry, while collections may be edited there, in *)
(* the process that applies them: what another worker edits, the           *)
(* application may not see at all, for it reads through a cache.  A        *)
(* collection is its definition here; its row and its table are in Schema, *)
(* where an entry is applied as one more request.                          *)
(***************************************************************************)
EXTENDS Schema, Sequences

CONSTANTS CollNames, Types,     \* of "base", "auth" and "view"
          Fields, Rules,    \* values of a definition's fields, and of its five rules together
          Given             \* snapshots written by hand

ASSUME SnapshotsAssumption ==
  /\ Types \subseteq {"base", "auth", "view"} /\ IsFiniteSet(CollNames)
  /\ Given \subseteq Seq([name : CollNames, def : [type : Types, fields : Fields, whole : BOOLEAN, rule : Rules]])
  /\ \A s \in Given : \A i, j \in DOMAIN s : s[i].name = s[j].name => i = j

VARIABLES local,      \* the collections here: each name's definition, or Gone
          snap,       \* the snapshot at hand
          preview,    \* the last answer to it of the diff, or Gone
          applying,   \* the application under way
          quiet       \* history: since the preview one application and nothing else

snapVars == <<local, snap, preview, applying, quiet>>

\* A definition is whole when its fields include those the type brings: email and verified
\* of an auth collection, the columns of a view's query.
Def(t, f, w, r) == [type |-> t, fields |-> f, whole |-> w, rule |-> r]
Whole(d) == [d EXCEPT !.whole = TRUE]
Defs == [type : Types, fields : Fields, whole : {TRUE}, rule : Rules]
Gone == [type |-> "none"]
Resting == [at |-> 0]
NoReport == [created |-> {}, updated |-> {}, unchanged |-> {}, skipped |-> {}, errors |-> {}]

Here == {n \in CollNames : local[n] # Gone}

SnapshotsInit ==
  /\ local \in [CollNames -> {Gone} \cup Defs]
  /\ snap \in Given /\ preview = Gone /\ applying = Resting /\ quiet = FALSE

----------------------------------------------------------------------------
\* GET /admin/migrations/snapshot: the collections in some order.
TakeSnapshot ==
  /\ applying.at = 0 /\ applying' = Resting
  /\ \E order \in [1..Cardinality(Here) -> Here] :
       /\ {order[i] : i \in DOMAIN order} = Here
       /\ snap' = [i \in DOMAIN order |-> [name |-> order[i], def |-> local[order[i]]]]
  /\ preview' = Gone /\ quiet' = FALSE /\ local' = local

\* isCollectionInSync
InSync(d, e) == d = e

\* computeSnapshotDiff: what an application would do.
NamesOf(s) == {s[i].name : i \in DOMAIN s}
Diff ==
  LET of(Test(_)) == {s.name : s \in {x \in {snap[i] : i \in DOMAIN snap} : Test(x)}} IN
  [added     |-> of(LAMBDA x : local[x.name] = Gone),
   unchanged |-> of(LAMBDA x : local[x.name] # Gone /\ InSync(local[x.name], x.def)),
   modified  |-> of(LAMBDA x : local[x.name] # Gone /\ ~InSync(local[x.name], x.def)),
   removed   |-> Here \ NamesOf(snap)]

Preview ==
  /\ applying.at = 0 /\ applying' = Resting
  /\ preview' = Diff /\ quiet' = TRUE
  /\ UNCHANGED <<local, snap>>

----------------------------------------------------------------------------
\* applySnapshot: the entries in turn; the collection is read, then written.
Apply(mode) ==
  /\ applying.at = 0 /\ snap # <<>>
  /\ applying' = [at |-> 1, mode |-> mode, step |-> "read", found |-> Gone, report |-> NoReport]
  /\ quiet' = (quiet /\ applying = Resting)
  /\ UNCHANGED <<local, snap, preview>>

Entry == snap[applying.at]
Goes(report) ==
  applying' = IF applying.at < Len(snap)
              THEN [applying EXCEPT !.at = @ + 1, !.step = "read", !.report = report]
              ELSE [at |-> 0, mode |-> applying.mode, report |-> report]
Told(kind) == Goes([applying.report EXCEPT ![kind] = @ \cup {Entry.name}])

\* In additive mode a collection that is there is left alone, and in either one that is in
\* sync or of another type.
Read ==
  /\ applying.at # 0 /\ applying.step = "read"
  /\ LET d == local[Entry.name] IN
     IF d # Gone /\ InSync(d, Entry.def) THEN Told("unchanged")
     ELSE IF d # Gone /\ applying.mode = "additive" THEN Told("skipped")
     ELSE IF d # Gone /\ d.type # Entry.def.type THEN Told("errors")
     ELSE applying' = [applying EXCEPT !.step = "write", !.found = d]
  /\ UNCHANGED <<local, snap, preview, quiet>>

\* createCollection: refused before its row is stored, or when there is one of the name by
\* now; or the row is stored and the table or the view fails.
Create ==
  /\ applying.at # 0 /\ applying.step = "write" /\ applying.found = Gone
  /\ LET n == Entry.name  d == Whole(Entry.def) IN
     \/ local[n] = Gone /\ local' = [local EXCEPT ![n] = d] /\ (Told("created") \/ Told("errors"))
     \/ local' = local /\ Told("errors")
  /\ UNCHANGED <<snap, preview, quiet>>

\* updateCollection: the table or view is altered, then the row written; it is gone, or the
\* altering fails.  The fields a type brings are added for auth collections alone.
Update ==
  /\ applying.at # 0 /\ applying.step = "write" /\ applying.found # Gone
  /\ LET n == Entry.name  d == IF Entry.def.type = "auth" THEN Whole(Entry.def) ELSE Entry.def IN
     \/ /\ local[n] # Gone /\ local' = [local EXCEPT ![n] = [d EXCEPT !.type = local[n].type]]
        /\ Told("updated")
     \/ local' = local /\ Told("errors")
  /\ UNCHANGED <<snap, preview, quiet>>

\* Meanwhile an administrator creates, changes or deletes a collection.
EditCollection(n) ==
  /\ local' \in {[local EXCEPT ![n] = d] : d \in {Gone} \cup Defs} /\ local' # local
  /\ quiet' = FALSE /\ UNCHANGED <<snap, preview, applying>>

SnapshotsNext ==
  \/ TakeSnapshot \/ Preview \/ Read \/ Create \/ Update
  \/ \E mode \in {"additive", "sync"} : Apply(mode)
  \/ \E n \in CollNames : EditCollection(n)

SnapshotsSpec == SnapshotsInit /\ [][SnapshotsNext]_snapVars

----------------------------------------------------------------------------
\* "a preview of what `apply` would do" (core/migrations.ts): when no one else changes
\* collections after it, and it was taken of the collections as they were before, each entry
\* is reported where the preview put it, or among the errors; and what would be removed is
\* still there.
Ended == applying.at = 0 /\ applying # Resting
Previewed ==
  Ended /\ quiet =>
    LET r == applying.report IN
    /\ r.unchanged = preview.unchanged /\ r.created \subseteq preview.added
    /\ r.updated \cup r.skipped \subseteq preview.modified
    /\ preview.added \cup preview.modified = r.created \cup r.updated \cup r.skipped \cup r.errors
    /\ applying.mode = "additive" => r.errors \subseteq preview.added /\ r.updated = {}
    /\ preview.removed \subseteq Here

\* "re-applying the same snapshot is a no-op": when it was applied to the end and nothing
\* went wrong, each collection is defined as its entry says, if that names the fields its type
\* brings.
Lands ==
  Ended /\ quiet =>
    \A i \in DOMAIN snap :
      LET n == snap[i].name  e == snap[i].def IN
      /\ n \in applying.report.created \cup applying.report.updated \cup applying.report.unchanged /\ e.whole
           => local[n] = e
      /\ applying.report.errors = {} /\ applying.mode = "sync" /\ e.whole => n \notin Diff.added \cup Diff.modified

\* Before and after, a snapshot does what it tells.
SnapshotsTell == Previewed /\ Lands

\* What is told of collections is so: their tables are what their fields say, and a
\* snapshot does what its preview and its report say.
SchemaTold == TableFits /\ SnapshotsTell
=============================================================================
