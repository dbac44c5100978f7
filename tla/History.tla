-------------------------------- MODULE History --------------------------------
(***************************************************************************)
(* The history of one record, src/src/core/record-history.ts, with the     *)
(* writes of src/src/core/records.ts that leave a row in it and the        *)
(* restore of src/src/api/records.ts.  A write and its row are two steps:  *)
(* between them the snapshot is encrypted.  A row is stamped in seconds,   *)
(* when it is inserted.  A state is a number, its delete is Gone.          *)
(***************************************************************************)
EXTENDS Naturals, Sequences, FiniteSets

CONSTANTS Gone,                   \* the record does not exist
          MaxWrites, MaxSeconds, MaxLosses     \* bounds of the model

VARIABLES live,       \* the record
          states,     \* its states, each with the second it began in
          log,        \* cogworks_record_history
          logging,    \* writes whose rows are yet to be inserted
          deleting,   \* deletes that have read the record and run beforeDelete
          second,
          losses,     \* writes without a row: a crash, or a set-null cascade
          restored    \* the last restore: the time asked for and the state it wrote

histVars == <<live, states, log, logging, deleting, second, losses, restored>>

Nothing == [at |-> 0, val |-> 0]

HistInit ==
  /\ live = Gone /\ states = <<>> /\ log = <<>> /\ logging = {} /\ deleting = {}
  /\ second = 1 /\ losses = 0 /\ restored = Nothing

Becomes(val) ==
  /\ Len(states) < MaxWrites
  /\ live' = val /\ states' = Append(states, [val |-> val, from |-> second])
Owed(op, val) == [op |-> op, val |-> val, nth |-> Len(states) + 1]

\* createRecord and updateRecord: the snapshot is what the statement wrote.
Put(val) ==
  /\ Becomes(val)
  /\ logging' = logging \cup {Owed(IF live = Gone THEN "create" ELSE "update", val)}
Save ==
  /\ live # Gone \/ states = <<>>
  /\ Put(Len(states) + 1)
  /\ UNCHANGED <<log, deleting, second, losses, restored>>

\* deleteRecord: the snapshot is what it read before its cascades and hooks.
StartDelete ==
  /\ live # Gone /\ deleting = {}
  /\ deleting' = {live}
  /\ UNCHANGED <<live, states, log, logging, second, losses, restored>>
EndDelete(val) ==
  /\ deleting' = deleting \ {val}
  /\ Becomes(Gone)
  /\ logging' = logging \cup {Owed("delete", val)}
  /\ UNCHANGED <<log, second, losses, restored>>

\* maybeRecordHistory, after the encryption.
LogIt(w) ==
  /\ logging' = logging \ {w}
  /\ log' = Append(log, [op |-> w.op, val |-> w.val, at |-> second])
  /\ UNCHANGED <<live, states, deleting, second, losses, restored>>

\* The process dies with the rows it owes.
LoseRows ==
  /\ losses < MaxLosses /\ (logging # {} \/ deleting # {})
  /\ logging' = {} /\ deleting' = {} /\ losses' = losses + 1
  /\ UNCHANGED <<live, states, log, second, restored>>

\* applyCascades, setNull: the reference goes with an UPDATE that leaves no row.
SetNull ==
  /\ live # Gone /\ losses < MaxLosses
  /\ Becomes(Len(states) + 1) /\ losses' = losses + 1
  /\ UNCHANGED <<log, logging, deleting, second, restored>>

----------------------------------------------------------------------------
\* getHistoryAt: ORDER BY at DESC LIMIT 1, any of those with the same second.
Before(t) == {n \in DOMAIN log : log[n].at < t}     \* mutant
UpTo(t) == {n \in DOMAIN log : log[n].at <= t}
LatestAt(t) == {n \in UpTo(t) : \A m \in UpTo(t) : log[m].at <= log[n].at}

\* POST /:collection/:id/restore?at=t: an update with the snapshot, of a record that is there.
Restore(t) ==
  /\ live # Gone
  /\ \E n \in LatestAt(t) :
       /\ Put(log[n].val)
       /\ restored' = [at |-> t, val |-> log[n].val]
  /\ UNCHANGED <<log, deleting, second, losses>>

NextSecond ==
  /\ second < MaxSeconds /\ second' = second + 1
  /\ UNCHANGED <<live, states, log, logging, deleting, losses, restored>>

HistNext ==
  \/ Save \/ StartDelete \/ LoseRows \/ SetNull \/ NextSecond
  \/ \E val \in deleting : EndDelete(val)
  \/ \E w \in logging : LogIt(w)
  \/ \E t \in 1..second : Restore(t)

HistSpec == HistInit /\ [][HistNext]_histVars

----------------------------------------------------------------------------
HistTypeOK ==
  /\ live \in 1..MaxWrites \cup {Gone} /\ second \in 1..MaxSeconds /\ losses \in 0..MaxLosses
  /\ \A n \in DOMAIN log : log[n].val \in 1..MaxWrites /\ log[n].at \in 1..second

\* The state the record had at the end of second t.
StateAt(t) ==
  LET past == {n \in DOMAIN states : states[n].from <= t} IN
  states[Cardinality(past)].val

\* No two writes fell in one second, and each has its row of that second.
Apart ==
  /\ \A m, n \in DOMAIN states : states[m].from = states[n].from => m = n
  /\ Len(log) = Len(states)
  /\ \A n \in DOMAIN log : log[n].at = states[n].from

\* With writes a second apart that each got its row at once, the entry at or before t is
\* the state of that time, whatever deletes and restores lie between; for a time when
\* the record was gone it is the last state before, also when an update ran between the
\* delete's reading and its end.
TellsState ==
  Apart => \A t \in 1..second : \A n \in LatestAt(t) :
             IF StateAt(t) = Gone THEN log[n].op = "delete" ELSE log[n].val = StateAt(t)

\* "Get the snapshot active at-or-before `atUnixSec`" (record-history.ts): of any past
\* second, once every write has its row.
TellsAlways ==
  logging = {} /\ losses = 0 =>
    \A t \in 1..second : \A n \in LatestAt(t) : log[n].op = "delete" \/ log[n].val = StateAt(t)
=============================================================================
