-------------------------------- MODULE Schema --------------------------------
(***************************************************************************)
(* Collections and their tables: src/src/core/collections.ts, with the     *)
(* search index of src/src/core/fts.ts and the snapshots of                *)
(* src/src/core/migrations.ts.  A collection is a row, with its fields, and *)
(* a table (or a view) named after it, with their columns.  The row and    *)
(* the table are changed one after the other and not in one transaction:   *)
(* requests interleave between them, fail between them, and the process    *)
(* may end between them.                                                   *)
(* A field is absent, a number, a text, a text marked searchable or a text *)
(* marked unique.  A view's query is the columns it names, of tables that  *)
(* stay as they are; what they hold has no type.                           *)
(***************************************************************************)
EXTENDS Integers, FiniteSets

CONSTANTS Collections, TableNames, NoName, Columns, Schemas,     \* Schemas: fields of a collection
          Queries,      \* the columns that a view's query may name
          SchemaRequests

ASSUME SchemaAssumption ==
  /\ NoName \notin TableNames
  /\ Queries \subseteq SUBSET Columns
  /\ Schemas \subseteq [Columns -> {"no", "number", "text", "searchable", "unique"}]

VARIABLES coll,       \* cogworks_collections, by id
          tables,     \* the tables and views of the database, by collection name
          index,      \* the search index of each name: the columns it covers
          changing,   \* the requests under way
          spoilt      \* history: names whose table a request left half changed

schemaVars == <<coll, tables, index, changing, spoilt>>

\* A row also has a view's query, and keeps (history) whether its fields were given by a
\* caller, as all but a view's are.
Nothing == [x \in Columns |-> "no"]
BaseRow(n, f) == [name |-> n, type |-> "base", fields |-> f, query |-> {}, given |-> TRUE]
NoColl == BaseRow(NoName, Nothing)
NoTable == [is |-> "nothing", cols |-> Nothing]
SchemaIdle == [pc |-> "idle", id |-> {}, old |-> NoColl, new |-> NoColl]

SchemaInit ==
  /\ coll = [c \in Collections |-> NoColl]
  /\ tables = [n \in TableNames |-> NoTable] /\ index = [n \in TableNames |-> {}]
  /\ changing = [r \in SchemaRequests |-> SchemaIdle]
  /\ spoilt = {}

----------------------------------------------------------------------------
\* colSqlType and colDefSql: a column is of one of three kinds.
Storage(k) == IF k = "searchable" THEN "text" ELSE k
Column(f) == [x \in Columns |-> Storage(f[x])]
Typed(k) == IF k \in {"text", "searchable", "unique"} THEN "text" ELSE k
Made(new) ==
  [is |-> new.type, cols |-> IF new.type = "base" THEN Column(new.fields)
                             ELSE [x \in Columns |-> IF x \in new.query THEN "any" ELSE "no"]]

\* inferViewFields: a field for each column, of a type read off a row, which nothing rests on.
Inferred(q) == [x \in Columns |-> IF x \in q THEN "text" ELSE "no"]
Named(f) == {x \in Columns : f[x] # "no"}
GivenView(n, f, q) == [name |-> n, type |-> "view", fields |-> f, query |-> q, given |-> TRUE]
InferredView(n, q) == [name |-> n, type |-> "view", fields |-> Inferred(q), query |-> q, given |-> FALSE]

\* searchableFields
Searchable(f) == {x \in Columns : f[x] = "searchable"}

Taken(n) == \E c \in Collections : coll[c].name = n
BusyWith(c, n) == \E r \in SchemaRequests :
  changing[r].pc # "idle" /\ (c \in changing[r].id \/ n \in {changing[r].old.name, changing[r].new.name})
Done(r) == changing' = [changing EXCEPT ![r] = SchemaIdle]
Step(r, pc, c, old, new) ==
  changing' = [changing EXCEPT ![r] = [pc |-> pc, id |-> {c}, old |-> old, new |-> new]]
Of(r) == CHOOSE c \in changing[r].id : TRUE

\* createCollection: a view's fields are inferred when none are sent, and when some are they
\* are not compared with its query.  The row first.
NewRows(n) ==
  {BaseRow(n, f) : f \in Schemas}
  \cup {GivenView(n, f, q) : f \in Schemas \ {Nothing}, q \in Queries}
  \cup {InferredView(n, q) : q \in Queries}

InsertCollection(r, c, new) ==
  /\ changing[r].pc = "idle" /\ coll[c] = NoColl /\ ~Taken(new.name)
  /\ coll' = [coll EXCEPT ![c] = new]
  /\ Step(r, "create", c, NoColl, new)
  /\ spoilt' = IF BusyWith(c, new.name) THEN spoilt \cup {new.name} ELSE spoilt
  /\ UNCHANGED <<tables, index>>

\* createUserTable, createUserView, syncFts: CREATE ... IF NOT EXISTS takes a table that is
\* there.  An invalid name or query throws and leaves the row.
CreateTable(r) ==
  LET n == changing[r].new.name  f == changing[r].new.fields IN
  /\ changing[r].pc = "create"
  /\ \/ /\ tables' = IF tables[n] # NoTable THEN tables ELSE [tables EXCEPT ![n] = Made(changing[r].new)]
        /\ index' = [index EXCEPT ![n] = IF changing[r].new.type = "view" THEN {} ELSE Searchable(f)]
        /\ spoilt' = spoilt
     \/ tables' = tables /\ index' = index /\ spoilt' = spoilt \cup {n}
  /\ Done(r) /\ coll' = coll

\* updateCollection: the row is read, the table altered by what was read, the row written.
\* A view is made anew when its query changes, and only then, with fields inferred when none
\* are sent; other fields of a view go into the row as they are.
Rewritten(old) ==
  IF old.type = "base" THEN {BaseRow(n, f) : n \in TableNames, f \in Schemas \cup {old.fields}}
  ELSE {GivenView(n, f, q) : n \in TableNames, f \in Schemas, q \in Queries \cup {old.query}}
       \cup {InferredView(n, q) : n \in TableNames, q \in Queries \ {old.query}}
       \cup {[old EXCEPT !.name = n] : n \in TableNames}

ReadCollection(r, c, new) ==
  LET old == coll[c]
      alters == IF old.type = "base" THEN new.fields # old.fields ELSE new.query # old.query IN
  /\ changing[r].pc = "idle" /\ old # NoColl /\ new # old
  /\ Step(r, IF alters THEN "alter" ELSE "save", c, old, new)
  /\ spoilt' = IF BusyWith(c, old.name) \/ BusyWith(c, new.name)
               THEN spoilt \cup {old.name, new.name} ELSE spoilt
  /\ UNCHANGED <<coll, tables, index>>

\* alterUserTable: columns are dropped, then added, one statement each, in the order of
\* the fields; SQLite neither drops nor adds a unique column; last, a change of type is
\* refused.
Dropped(f, g) == {x \in Columns : f[x] # "no" /\ g[x] = "no"}
Added(f, g) == {x \in Columns : f[x] = "no" /\ g[x] # "no"}
Undroppable(n, f, g) == {x \in Dropped(f, g) : tables[n].cols[x] \in {"unique", "no"}}
Unaddable(n, f, g) == {x \in Added(f, g) : g[x] = "unique" \/ tables[n].cols[x] # "no"}
Retyped(f, g) == {x \in Columns : "no" \notin {f[x], g[x]} /\ Typed(f[x]) # Typed(g[x])}

With(cols, off, on, g) ==
  [x \in Columns |-> IF x \in off THEN "no" ELSE IF x \in on THEN Storage(g[x]) ELSE cols[x]]

AddsOnly(cols, f, g) == With(cols, {}, Added(f, g), g)     \* mutant
Altered(cols, f, g) == With(cols, Dropped(f, g), Added(f, g), g)

AlterTable(r) ==
  LET n == changing[r].old.name  f == changing[r].old.fields  g == changing[r].new.fields
      Set(cols) == tables' = [tables EXCEPT ![n].cols = cols]
      refuses == Undroppable(n, f, g) \cup Unaddable(n, f, g) \cup Retyped(f, g) IN
  /\ changing[r].pc = "alter" /\ changing[r].old.type = "base"
  /\ \/ /\ tables[n].is = "base" /\ refuses = {}
        /\ Set(Altered(tables[n].cols, f, g))
        /\ index' = [index EXCEPT ![n] = Searchable(g)]
        /\ Step(r, "save", Of(r), changing[r].old, changing[r].new)
        /\ spoilt' = spoilt
     \/ \* a statement fails: the index is gone, and what came before is done
        /\ tables[n].is = "base" /\ refuses # {}
        /\ \/ \E off \in SUBSET (Dropped(f, g) \ Undroppable(n, f, g)) :
                /\ Undroppable(n, f, g) # {} /\ Set(With(tables[n].cols, off, {}, g))
           \/ \E on \in SUBSET (Added(f, g) \ Unaddable(n, f, g)) :
                /\ Undroppable(n, f, g) = {} /\ (Unaddable(n, f, g) = {} => on = Added(f, g))
                /\ Set(With(tables[n].cols, Dropped(f, g), on, g))
        /\ index' = [index EXCEPT ![n] = {}]
        /\ spoilt' = spoilt \cup {n} /\ Done(r)
     \/ \* there is no such table
        /\ tables[n].is # "base" /\ tables' = tables
        /\ index' = [index EXCEPT ![n] = {}]
        /\ spoilt' = spoilt \cup {n} /\ Done(r)
  /\ coll' = coll

\* dropUserView, createUserView: the new query's columns.
AlterView(r) ==
  LET n == changing[r].old.name
      gone == [tables EXCEPT ![n] = NoTable]
      made == [tables EXCEPT ![n] = Made(changing[r].new)] IN
  /\ changing[r].pc = "alter" /\ changing[r].old.type = "view"
  /\ \/ /\ tables[n].is # "base" /\ tables' = made
        /\ Step(r, "save", Of(r), changing[r].old, changing[r].new)
        /\ spoilt' = spoilt
     \/ \* the new query is refused when the old view is gone, or cannot be read when it is made
        /\ tables[n].is # "base" /\ tables' \in {gone, made}
        /\ spoilt' = spoilt \cup {n} /\ Done(r)
     \/ \* a table has the name
        /\ tables[n].is = "base" /\ tables' = tables
        /\ spoilt' = spoilt \cup {n} /\ Done(r)
  /\ UNCHANGED <<coll, index>>

\* The row: refused when another collection has the name.  The table keeps its own.
SaveCollection(r) ==
  LET old == changing[r].old  new == changing[r].new IN
  /\ changing[r].pc = "save"
  /\ IF coll[Of(r)] = NoColl \/ new.name \in {coll[c].name : c \in Collections \ {Of(r)}}
     THEN coll' = coll /\ spoilt' = spoilt \cup {old.name}
     ELSE /\ coll' = [coll EXCEPT ![Of(r)].name = IF new.name = old.name THEN @ ELSE new.name,
                                  ![Of(r)].fields = IF new.fields = old.fields THEN @ ELSE new.fields,
                                  ![Of(r)].query = IF new.query = old.query THEN @ ELSE new.query,
                                  ![Of(r)].given = IF new.given = old.given THEN @ ELSE new.given]
          /\ spoilt' = IF new.name = old.name THEN spoilt ELSE spoilt \cup {old.name, new.name}
  /\ Done(r)
  /\ UNCHANGED <<tables, index>>

\* deleteCollection: the table and its index, then the row.
DropTable(r, c) ==
  LET n == coll[c].name IN
  /\ changing[r].pc = "idle" /\ coll[c] # NoColl /\ tables[n].is \in {"nothing", coll[c].type}
  /\ tables' = [tables EXCEPT ![n] = NoTable] /\ index' = [index EXCEPT ![n] = {}]
  /\ Step(r, "forget", c, coll[c], NoColl)
  /\ spoilt' = IF BusyWith(c, n) THEN spoilt \cup {n} ELSE spoilt
  /\ coll' = coll

ForgetCollection(r) ==
  /\ changing[r].pc = "forget"
  /\ coll' = [coll EXCEPT ![Of(r)] = NoColl]
  /\ Done(r)
  /\ UNCHANGED <<tables, index, spoilt>>

\* The process ends between two steps.
SchemaCrash ==
  /\ spoilt' = spoilt \cup UNION {{changing[r].old.name, changing[r].new.name} \ {NoName} :
                                    r \in {q \in SchemaRequests : changing[q].pc # "idle"}}
  /\ changing' = [r \in SchemaRequests |-> SchemaIdle]
  /\ UNCHANGED <<coll, tables, index>>

\* applySnapshot, an entry at a time: what is missing is created, in either mode; in sync
\* mode the fields of what differs are replaced, and a view's query with them.
ApplyEntry(r, n) ==
  \/ \E c \in Collections, new \in NewRows(n) : InsertCollection(r, c, new)
  \/ \E c \in Collections : \E new \in Rewritten(coll[c]) :
       coll[c].name = n /\ new.name = n /\ new.given /\ ReadCollection(r, c, new)

SchemaNext ==
  \/ SchemaCrash
  \/ \E r \in SchemaRequests : CreateTable(r) \/ AlterTable(r) \/ AlterView(r)
                               \/ SaveCollection(r) \/ ForgetCollection(r)
  \/ \E r \in SchemaRequests, n \in TableNames : ApplyEntry(r, n)
  \/ \E r \in SchemaRequests, c \in Collections :
       DropTable(r, c) \/ \E new \in Rewritten(coll[c]) : ReadCollection(r, c, new)

SchemaSpec == SchemaInit /\ [][SchemaNext]_schemaVars

----------------------------------------------------------------------------
\* Through any sequence of creations, changes, deletions and snapshots a collection that no
\* request is at work on has a table with the columns of its fields and no others, and an
\* index of its searchable fields, or a view with the columns of its query and, unless a
\* caller gave its fields, fields of just those; but where a request on that name failed
\* half-way or was cut off, two of them overlapped, or the collection was renamed, which
\* leaves the table behind.
BaseFits(row, table, covered) ==
  /\ \A x \in Columns : Typed(table.cols[x]) = Typed(row.fields[x])
  /\ covered = Searchable(row.fields)
ViewFits(row, table) ==
  Named(table.cols) = row.query /\ (row.given \/ Named(row.fields) = row.query)
TableFits ==
  \A c \in Collections :
    LET row == coll[c]  n == row.name IN
    row # NoColl /\ n \notin spoilt /\ ~BusyWith(c, n) =>
      /\ tables[n].is = row.type
      /\ IF row.type = "base" THEN BaseFits(row, tables[n], index[n]) ELSE ViewFits(row, tables[n])

\* "Update a collection: rename, ..." (admin-write-tools.ts): its records are still there.
RenameKeepsRecords ==
  [][\A c \in Collections : coll[c] # NoColl /\ coll'[c] # NoColl /\ coll'[c].name # coll[c].name
       => tables'[coll'[c].name] = tables[coll[c].name]]_schemaVars
=============================================================================
