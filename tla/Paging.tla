-------------------------------- MODULE Paging --------------------------------
(***************************************************************************)
(* Keyset paging: GET /:collection?cursor= , listRecords of                *)
(* src/src/core/records.ts.  A client reads a collection page after page   *)
(* by one sort column, with the id as tiebreaker; each page starts behind  *)
(* the last record of the page before.  Records come, go and change in     *)
(* between.                                                                *)
(***************************************************************************)
EXTENDS Integers, FiniteSets

CONSTANTS Ids,          \* record ids, numbers: their order is the ids' order
          Values,       \* values of the sort column, numbers above 0
          PerPage

ASSUME PagingAssumption == /\ Ids \subseteq Nat /\ IsFiniteSet(Ids) /\ Values \subseteq Nat \ {0}
                           /\ PerPage \in Nat \ {0}

VARIABLES column,     \* the sort column of each record: a value, null or absent
          desc,       \* the direction of the sort
          cursor,     \* where the next page begins
          given,      \* how often each record was on a page
          steady,     \* records present since the first page, with their value unchanged
          blank       \* has a page but the last ended with a record without a value

pageVars == <<column, desc, cursor, given, steady, blank>>

NoValue == 0      \* NULL, which SQLite sorts before every value
Absent == -1
Present == {i \in Ids : column[i] # Absent}

First == [at |-> "first", v |-> 0, id |-> 0]
NoMore == [at |-> "end", v |-> 0, id |-> 0]
After(i) == [at |-> "after", v |-> column[i], id |-> i]

PagingInit ==
  /\ column \in [Ids -> Values \cup {NoValue, Absent}]
  /\ desc \in BOOLEAN
  /\ cursor = First
  /\ given = [i \in Ids |-> 0] /\ steady = Present
  /\ blank = FALSE

\* ORDER BY column, id, both in the direction of the sort.
Before(v, i, w, j) == IF desc THEN v > w \/ (v = w /\ i > j) ELSE v < w \/ (v = w /\ i < j)

\* The seek: (column > v OR (column = v AND id > i)), unknown when one of them is null.
SeekByValue(i) == column[i] # cursor.v /\ Before(cursor.v, 0, column[i], 0)     \* mutant
Seek(i) == Before(cursor.v, cursor.id, column[i], i)
Past(i) == cursor.at = "first" \/ (cursor.v # NoValue /\ column[i] # NoValue /\ Seek(i))
Rest == {i \in Present : Past(i)}

\* PerPage + 1 rows are read: one more than the page says that there is a next one.
Page == {i \in Rest : Cardinality({j \in Rest : Before(column[j], j, column[i], i)}) < PerPage}
LastOf(S) == CHOOSE i \in S : \A j \in S \ {i} : Before(column[j], j, column[i], i)

NextPage ==
  /\ cursor # NoMore
  /\ cursor' = IF Page = Rest THEN NoMore ELSE After(LastOf(Page))
  /\ given' = [i \in Ids |-> IF i \in Page THEN given[i] + 1 ELSE given[i]]
  /\ blank' = (blank \/ (Page # Rest /\ column[LastOf(Page)] = NoValue))
  /\ UNCHANGED <<column, desc, steady>>

\* createRecord, deleteRecord, updateRecord of others, while the client reads.
Changes(i, v) ==
  /\ cursor \notin {First, NoMore} /\ column[i] # v
  /\ column' = [column EXCEPT ![i] = v]
  /\ steady' = steady \ {i}
  /\ UNCHANGED <<desc, cursor, given, blank>>

PagingNext ==
  \/ NextPage
  \/ \E i \in Ids, v \in Values \cup {NoValue, Absent} : Changes(i, v)

PagingSpec == PagingInit /\ [][PagingNext]_pageVars

----------------------------------------------------------------------------
\* However the collection changes while a client pages through it, no record that was
\* there all the while with one value is on two pages, and by the end each has been on
\* one, unless it has no value or a page ended with a record that had none: behind that
\* one the seek finds nothing.
EachOnce ==
  \A i \in steady :
    /\ given[i] <= 1
    /\ cursor = NoMore /\ column[i] # NoValue /\ ~blank => given[i] = 1

\* "strictly past (v, id) in the sort direction" (records.ts): nothing is passed over.
NonePassedOver == cursor = NoMore => \A i \in steady : given[i] = 1
=============================================================================
