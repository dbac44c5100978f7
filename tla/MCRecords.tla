-------------------------------- MODULE MCRecords --------------------------------
(* Schemas and records for TLC. *)
EXTENDS Records, TLC

CONSTANTS a1, p1, p2, n1, postAuthor, notePost, noteAuthor, parent

(* Authors, their posts, and notes on both. *)
Home == (a1 :> "authors") @@ (p1 :> "posts") @@ (p2 :> "posts") @@ (n1 :> "notes")

BlogFrom == (postAuthor :> "posts") @@ (notePost :> "notes") @@ (noteAuthor :> "notes")
BlogTo == (postAuthor :> "authors") @@ (notePost :> "posts") @@ (noteAuthor :> "authors")
BlogMode == (postAuthor :> "cascade") @@ (notePost :> "restrict") @@ (noteAuthor :> "setNull")

(* Every way the records may refer to each other. *)
AllLinks ==
  LET Fits(r) == {l \in [Relation -> Record \cup {NoRecord}] : \A f \in Relation :
                    l[f] # NoRecord => From[f] = Coll[r] /\ To[f] = Coll[l[f]]}
  IN  {l \in [Record -> UNION {Fits(r) : r \in Record}] : \A r \in Record : l[r] \in Fits(r)}

(* A schema without relations. *)
NoRelation == [f \in Relation |-> NoRecord]

DeleteSymmetry == Permutations(Delete)

(* Posts in a tree or a cycle, with notes that forbid deleting a post. *)
TreeFrom == (parent :> "posts") @@ (notePost :> "notes")
TreeTo == (parent :> "posts") @@ (notePost :> "posts")
TreeMode == (parent :> "cascade") @@ (notePost :> "restrict")

=============================================================================
