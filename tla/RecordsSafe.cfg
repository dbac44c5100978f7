\* two overlapping deletes, one patch at a time, relations without a cycle
SPECIFICATION Spec
CONSTANTS
  a1 = a1
  p1 = p1
  p2 = p2
  n1 = n1
  postAuthor = postAuthor
  notePost = notePost
  noteAuthor = noteAuthor
  parent = parent
  Record = {a1, p1, p2, n1}
  NoRecord = NoRecord
  Coll <- Home
  Relation = {postAuthor, notePost, noteAuthor}
  From <- BlogFrom
  To <- BlogTo
  Mode <- BlogMode
  Links <- AllLinks
  Patch = {w1}
  Patched = {p1}
  Delete = {d1, d2}
  NoTag = NoTag
  MaxTime = 1
  MaxVersion = 3
  MaxCrash = 1
INVARIANTS
  NoDangling
PROPERTIES
  GuardsHold
CHECK_DEADLOCK FALSE
SYMMETRY DeleteSymmetry
