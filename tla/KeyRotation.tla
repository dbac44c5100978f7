------------------------------ MODULE KeyRotation ------------------------------
(***************************************************************************)
(* Encryption at rest and the rotation of its key:                         *)
(* src/src/core/encryption.ts, src/src/core/key-rotation.ts, the settings  *)
(* of src/src/api/settings.ts, encrypted fields of src/src/core/records.ts *)
(* and history snapshots.  A stored value is known by the key it was       *)
(* encrypted under: keys are numbered in the order they were made.         *)
(***************************************************************************)
EXTENDS Naturals, FiniteSets

CONSTANTS Fields, Settings,   \* places: an encrypted field of a row, a secret setting
          Plain,              \* stored as it is
          Blank,              \* what a setting that cannot be decrypted reads as, saved
          MaxKeys             \* bound of the model

VARIABLES stored,     \* per place: Plain, Blank or the key of its value
          flagged,    \* fields whose options say `encrypted`
          history,    \* keys of the snapshots in the history
          primary,    \* COGWORKS_ENCRYPTION_KEY, 0 when it is not set
          old,        \* COGWORKS_ENCRYPTION_KEY_OLD
          next_key,   \* the env of the operator's shell: the key set for the next start
          rotated,    \* has rotate-key ended under the primary key
          rotating,   \* the fields rotate-key has listed, before its transaction
          skipped     \* fields a rotation passed over because they were not flagged

keyVars == <<stored, flagged, history, primary, old, next_key, rotated, rotating, skipped>>
Places == Fields \cup Settings
NotRotating == [on |-> FALSE, fields |-> {}]

KeyInit ==
  /\ stored = [x \in Places |-> Plain]
  /\ flagged \in SUBSET Fields
  /\ history = {} /\ primary = 0 /\ old = {} /\ next_key = 0
  /\ rotated = FALSE /\ rotating = NotRotating /\ skipped = {}

Keys == IF primary = 0 THEN {} ELSE {primary} \cup old
Opens(x) == stored[x] \in {Plain, Blank} \/ stored[x] \in Keys

----------------------------------------------------------------------------
\* encodeForStorage: a value of a flagged field needs the key.
SaveField(f) ==
  /\ f \in flagged => primary # 0
  /\ stored' = [stored EXCEPT ![f] = IF f \in flagged THEN primary ELSE Plain]
  /\ skipped' = skipped \ {f}
  /\ UNCHANGED <<flagged, history, primary, old, next_key, rotated, rotating>>

\* maybeRecordHistory: the snapshot is encrypted again, or its value is dropped.
Snapshot(f) ==
  /\ f \in flagged /\ primary # 0 /\ Opens(f)
  /\ history' = history \cup {primary}
  /\ UNCHANGED <<stored, flagged, primary, old, next_key, rotated, rotating, skipped>>

\* setSetting; the admin UI sends back what it was shown, and of a setting that cannot be
\* decrypted that is the empty string.
SaveSetting(s) ==
  /\ stored' = [stored EXCEPT ![s] = IF ~Opens(s) THEN Blank
                                     ELSE IF primary = 0 THEN Plain ELSE primary]
  /\ UNCHANGED <<flagged, history, primary, old, next_key, rotated, rotating, skipped>>

\* PATCH of a collection: the option changes, the rows do not.
Toggle(f) ==
  /\ flagged' = IF f \in flagged THEN flagged \ {f} ELSE flagged \cup {f}
  /\ UNCHANGED <<stored, history, primary, old, next_key, rotated, rotating, skipped>>

----------------------------------------------------------------------------
\* The server and all its workers start with a new key, the previous ones kept as old.
SwapKey ==
  /\ ~rotating.on /\ next_key < MaxKeys
  /\ next_key' = next_key + 1 /\ primary' = next_key + 1
  /\ old' = IF primary = 0 THEN {} ELSE old \cup {primary}
  /\ rotated' = FALSE
  /\ UNCHANGED <<stored, flagged, history, rotating, skipped>>

\* rotate-key lists the collections, then re-encrypts within one transaction; an interrupt
\* before its end leaves everything as it was.
StartRotation ==
  /\ primary # 0 /\ ~rotating.on
  /\ rotating' = [on |-> TRUE, fields |-> flagged]
  /\ UNCHANGED <<stored, flagged, history, primary, old, next_key, rotated, skipped>>

FieldsOnly == rotating.fields     \* mutant: the settings are left out
Rewritten == rotating.fields \cup Settings
Encrypted(x) == stored[x] \in 1..MaxKeys
RotateAll ==
  /\ rotating.on
  /\ \A x \in Rewritten : Opens(x)
  /\ stored' = [x \in Places |-> IF x \in Rewritten /\ Encrypted(x) THEN primary ELSE stored[x]]
  /\ skipped' = skipped \cup {f \in Fields \ rotating.fields : Encrypted(f)}
  /\ rotated' = TRUE /\ rotating' = NotRotating
  /\ UNCHANGED <<flagged, history, primary, old, next_key>>
Interrupted ==
  /\ rotating.on /\ rotating' = NotRotating
  /\ UNCHANGED <<stored, flagged, history, primary, old, next_key, rotated, skipped>>

\* The old keys are dropped once a rotation has ended and history no longer needs them.
PruneHistory ==
  /\ history # {} /\ history' = {}
  /\ UNCHANGED <<stored, flagged, primary, old, next_key, rotated, rotating, skipped>>
DropOld ==
  /\ rotated /\ ~rotating.on /\ old # {} /\ history \subseteq {primary}
  /\ old' = {}
  /\ UNCHANGED <<stored, flagged, history, primary, next_key, rotated, rotating, skipped>>

KeyNext ==
  \/ \E f \in Fields : SaveField(f) \/ Snapshot(f) \/ Toggle(f)
  \/ \E s \in Settings : SaveSetting(s)
  \/ SwapKey \/ StartRotation \/ RotateAll \/ Interrupted \/ PruneHistory \/ DropOld

KeySpec == KeyInit /\ [][KeyNext]_keyVars

----------------------------------------------------------------------------
KeyTypeOK ==
  /\ stored \in [Places -> {Plain, Blank} \cup 1..MaxKeys]
  /\ flagged \subseteq Fields /\ history \subseteq 1..MaxKeys /\ old \subseteq 1..MaxKeys
  /\ primary \in 0..MaxKeys /\ next_key \in 0..MaxKeys

\* Through any number of rotations, interrupted or run again, with requests served all the
\* while, and with the old keys dropped when the documentation says they may be: every
\* secret opens, no setting is blanked, and the history opens.  The exception is a field
\* whose encryption was off while a rotation ran, and its value written before.
StillOpens ==
  /\ \A x \in Places \ skipped : Opens(x) /\ stored[x] # Blank
  /\ history \subseteq Keys

\* "re-encrypt every stored encrypted value" (encryption.ts), so that the old key can go.
AllRotated == \A x \in Places : Opens(x)
=============================================================================
