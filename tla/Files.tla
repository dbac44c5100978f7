-------------------------------- MODULE Files --------------------------------
(***************************************************************************)
(* Uploaded files: src/src/api/files.ts over src/src/core/storage.ts.  An  *)
(* upload stores an object and then inserts its row; a delete removes the  *)
(* object, its thumbnails and the row, file by file; a download looks at   *)
(* the object, the row, the token and the rules one after the other.       *)
(* Requests interleave at their awaits.  A file's name is new with every   *)
(* upload.  The files belong to one field, whose tokens are for one use.   *)
(***************************************************************************)
EXTENDS Integers, FiniteSets

CONSTANTS Files, FileTokens, FileRequests,
          Windows,         \* settings of the tokens' life (auth.file.window_seconds)
          Day,             \* how long a use is remembered, in units of the clock
          MaxHours         \* bound on the clock

ASSUME FilesAssumption == Windows \subseteq Nat /\ Day \in Nat /\ MaxHours \in Nat

VARIABLES object,     \* the files whose object is in storage
          fileRow,    \* the files that have a row
          thumbs,     \* the files of which a thumbnail is cached
          minted,     \* tokens: the file and the expiry of each, or Unminted
          uses,       \* cogworks_file_token_uses: when each token was used, or Never
          serving,    \* the requests under way
          hours, window,
          removed,    \* history: files whose delete was answered
          torn,       \* history: files whose delete was cut off by a crash
          takes       \* history: how often each token let a download through

fileTables == <<object, fileRow, thumbs, minted, uses, window>>
fileHistory == <<removed, torn, takes>>
fileVars == <<fileTables, serving, hours, fileHistory>>

Unminted == [file |-> {}, exp |-> -1]
Never == -1

\* who: an admin, a member (whom the rules let read and write), another.  What a request
\* carries is chosen where the code first looks at it.
FileIdle == [pc |-> "idle", file |-> {}, who |-> "other", late |-> FALSE]

FilesInit ==
  /\ object = {} /\ fileRow = {} /\ thumbs = {}
  /\ minted = [t \in FileTokens |-> Unminted] /\ uses = [t \in FileTokens |-> Never]
  /\ serving = [r \in FileRequests |-> FileIdle]
  /\ hours = 0 /\ window \in Windows
  /\ removed = {} /\ torn = {} /\ takes = [t \in FileTokens |-> 0]

Goto(r, pc) == serving' = [serving EXCEPT ![r].pc = pc]
Answered(r) == serving' = [serving EXCEPT ![r] = FileIdle]
Forgetting == {r \in FileRequests : serving[r].pc = "forget"}
FreeFor(r) == serving[r].pc = "idle"
FileOf(r) == CHOOSE f \in serving[r].file : TRUE
May(w) == w \in {"admin", "member"}     \* evaluateFileAccess, evaluateRule

----------------------------------------------------------------------------
\* POST: the object is written, and the row inserted behind it.
Upload(r, f) ==
  /\ FreeFor(r) /\ f \notin object \cup fileRow \cup removed
  /\ object' = object \cup {f}
  /\ serving' = [serving EXCEPT ![r] = [FileIdle EXCEPT !.pc = "insert", !.file = {f}]]
  /\ UNCHANGED <<fileRow, thumbs, minted, uses, window, hours, fileHistory>>

InsertRow(r) ==
  /\ serving[r].pc = "insert"
  /\ fileRow' = fileRow \cup serving[r].file
  /\ Answered(r)
  /\ UNCHANGED <<object, thumbs, minted, uses, window, hours, fileHistory>>

----------------------------------------------------------------------------
\* DELETE of a field's files, or of one of them: the rows are read first.
DeleteFiles(r, S) ==
  /\ FreeFor(r) /\ S # {} /\ S \subseteq fileRow
  /\ serving' = [serving EXCEPT ![r] = [FileIdle EXCEPT !.pc = "remove", !.file = S]]
  /\ UNCHANGED <<fileTables, hours, fileHistory>>

\* deleteFile, which swallows the storage's errors, and deleteThumbsFor.
RemoveObject(r) ==
  /\ serving[r].pc = "remove"
  /\ object' \in {object, object \ {FileOf(r)}}
  /\ thumbs' = thumbs \ {FileOf(r)}
  /\ Goto(r, "forget")
  /\ UNCHANGED <<fileRow, minted, uses, window, hours, fileHistory>>

\* The row of the file in hand; then the next file, or the answer.
ForgetFile(r) ==
  /\ serving[r].pc = "forget"
  /\ fileRow' = fileRow \ {FileOf(r)} /\ removed' = removed \cup {FileOf(r)}
  /\ IF serving[r].file = {FileOf(r)} THEN Answered(r)
     ELSE serving' = [serving EXCEPT ![r].pc = "remove", ![r].file = @ \ {FileOf(r)}]
  /\ UNCHANGED <<object, thumbs, minted, uses, window, hours, torn, takes>>

----------------------------------------------------------------------------
\* POST .../token: the file's row and the rules, then a signature.
Mint(t, f) ==
  /\ minted[t] = Unminted /\ f \in fileRow
  /\ minted' = [minted EXCEPT ![t] = [file |-> {f}, exp |-> hours + window]]
  /\ UNCHANGED <<object, fileRow, thumbs, uses, window, serving, hours, fileHistory>>

\* GET: the object must exist.
Download(r, f) ==
  /\ FreeFor(r) /\ f \in object
  /\ serving' = [serving EXCEPT ![r] = [FileIdle EXCEPT !.pc = "row", !.file = {f},
                                                         !.late = f \in removed]]
  /\ UNCHANGED <<fileTables, hours, fileHistory>>

\* fileMetaOf: a file without a row is for admins.
OrphanOpen(w) == TRUE     \* mutant
OrphanFor(w) == w = "admin"

Outcome(r, w, yes) ==
  serving' = [serving EXCEPT ![r] = IF yes THEN [@ EXCEPT !.pc = "send", !.who = w] ELSE FileIdle]

ReadRow(r, w) ==
  /\ serving[r].pc = "row"
  /\ IF FileOf(r) \in fileRow THEN Goto(r, "check") ELSE Outcome(r, w, OrphanFor(w))
  /\ UNCHANGED <<fileTables, hours, fileHistory>>

\* verifyFileTokenClaims.
Verified(r, t) == minted[t].file = serving[r].file /\ hours < minted[t].exp

\* claimOneTimeToken: insert, or fail on the primary key.
Forgetful(t) == takes[t] < 2     \* mutant: a replay is let through once
Unused(t) == uses[t] = Never

ByToken(r, t) ==
  /\ serving[r].pc = "check" /\ Verified(r, t)
  /\ IF Unused(t)
     THEN uses' = [uses EXCEPT ![t] = hours] /\ takes' = [takes EXCEPT ![t] = @ + 1]
     ELSE uses' = uses /\ takes' = takes
  /\ Outcome(r, "other", Unused(t))
  /\ UNCHANGED <<object, fileRow, thumbs, minted, window, hours, removed, torn>>

\* Without a token, or with one that does not verify, the rules decide.
ByRules(r, w) ==
  /\ serving[r].pc = "check"
  /\ Outcome(r, w, May(w))
  /\ UNCHANGED <<fileTables, hours, fileHistory>>

\* The object's bytes, or a thumbnail: from the cache, or made of the object, if both are
\* still there.
Send(r) ==
  /\ serving[r].pc = "send"
  /\ \/ Answered(r)
     \/ FileOf(r) \in object \ thumbs /\ Goto(r, "thumb")
  /\ UNCHANGED <<fileTables, hours, fileHistory>>

CacheThumb(r) ==
  /\ serving[r].pc = "thumb"
  /\ thumbs' = thumbs \cup serving[r].file
  /\ Answered(r)
  /\ UNCHANGED <<object, fileRow, minted, uses, window, hours, fileHistory>>

----------------------------------------------------------------------------
\* pruneFileTokenUses, every hour.
PruneUses ==
  /\ uses' = [t \in FileTokens |-> IF uses[t] < hours - Day THEN Never ELSE uses[t]]
  /\ UNCHANGED <<object, fileRow, thumbs, minted, window, serving, hours, fileHistory>>

FilesTick ==
  /\ hours < MaxHours /\ hours' = hours + 1
  /\ UNCHANGED <<fileTables, serving, fileHistory>>

\* The process ends: what is stored stays as it is.
FilesCrash ==
  /\ torn' = torn \cup {FileOf(r) : r \in Forgetting}
  /\ serving' = [r \in FileRequests |-> FileIdle]
  /\ UNCHANGED <<fileTables, hours, removed, takes>>

FilesNext ==
  \/ \E r \in FileRequests : 
       InsertRow(r) \/ RemoveObject(r) \/ ForgetFile(r) \/ Send(r) \/ CacheThumb(r)
  \/ \E r \in FileRequests, f \in Files : Upload(r, f) \/ Download(r, f)
  \/ \E r \in FileRequests, S \in SUBSET Files : DeleteFiles(r, S)
  \/ \E t \in FileTokens, f \in Files : Mint(t, f)
  \/ \E r \in FileRequests, w \in {"admin", "member", "other"} : ReadRow(r, w) \/ ByRules(r, w)
  \/ \E r \in FileRequests, t \in FileTokens : ByToken(r, t)
  \/ PruneUses \/ FilesTick \/ FilesCrash

FilesSpec == FilesInit /\ [][FilesNext]_fileVars

----------------------------------------------------------------------------
\* "one-time": a token lets one download through, however many requests carry it at the
\* same time, as long as tokens end before their use is forgotten.
OneUse == window < Day => \A t \in FileTokens : takes[t] <= 1

\* A row has its object, unless a delete is between the two or was cut off there; and once
\* a file's delete is answered no request that comes afterwards is served it, except an
\* admin's, whatever storage kept and whatever thumbnail a request in flight left behind.
RowHasObject == fileRow \ object \subseteq torn \cup {FileOf(r) : r \in Forgetting}
DeletedGone ==
  \A r \in FileRequests :
    serving[r].late /\ serving[r].pc \in {"send", "thumb"} => serving[r].who = "admin"
FilesConsistent == RowHasObject /\ DeletedGone

\* Files are whole while they are there, gone when deleted, and handed out once where a
\* one-time token says so.
FilesGuarded == OneUse /\ FilesConsistent
=============================================================================
