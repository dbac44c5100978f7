-------------------------------- MODULE Upgrade --------------------------------
(***************************************************************************)
(* The two halves of an upgrade.  First the binary of a server through     *)
(* `cogworks update` (src/src/scripts/update.ts), and the banner that      *)
(* tells administrators of new releases (src/src/core/update-check.ts):    *)
(* updates run beside the server, each a process of the binary it is to    *)
(* replace; they overlap, fail and are killed.  Then the database through  *)
(* upgrades, restarts and restores: runMigrations of                       *)
(* src/src/db/migrate.ts, which every start runs in one transaction, and   *)
(* the backup of src/src/api/backup.ts.  Before v0.11 the users of every   *)
(* auth collection were in one shared table; a start moves them to the     *)
(* tables of their collections and drops the shared one when all have      *)
(* arrived.                                                                *)
(***************************************************************************)
EXTENDS FiniteSets, Integers

CONSTANTS Updaters,
          Releases,     \* versions there may be, as <<number, pre-release>>; <<n, 0>> is the final one
          First         \* the version installed

ASSUME SelfUpdateAssumption == Releases \subseteq Nat \X Nat /\ First \in Releases

VARIABLES latest,     \* what GitHub calls the latest release
          binary,     \* the file at execPath: its version, whole or not, who writes into it
          updater,    \* the updates under way
          running,    \* the version of the server's process
          known,      \* update_check.latest_version, of the settings
          newest,     \* history: the highest number installed
          cut,        \* history: a copy was cut off, or two were made into one file
          rash        \* history: a downgrade was allowed, or two updates overlapped

updateVars == <<latest, binary, updater, running, known, newest, cut, rash>>

Ready == [at |-> "none"]
Busy == {u \in Updaters : updater[u] # Ready}
Higher(v) == IF v[1] > newest THEN v[1] ELSE newest
File(v, whole, writers) == [version |-> v, whole |-> whole, writers |-> writers]

SelfUpdateInit ==
  /\ latest = First /\ binary = File(First, TRUE, {}) /\ running = First /\ known = First
  /\ updater = [u \in Updaters |-> Ready]
  /\ newest = First[1] /\ cut = FALSE /\ rash = FALSE

----------------------------------------------------------------------------
\* compareVersion: number by number; of a pre-release the last number is one more.
Older(a, b) == a[1] < b[1] \/ (a[1] = b[1] /\ a[2] < b[2])

\* compareVersions, for the banner: what follows the first dash is not looked at.
Newer(a, b) == a[1] > b[1]

\* A release is published and becomes the latest: only final ones do.
Publish(v) ==
  /\ v[2] = 0 /\ Older(latest, v) /\ latest' = v
  /\ UNCHANGED <<binary, updater, running, known, newest, cut, rash>>

\* runUpdateCheck: the tag is kept; an error leaves the one before.
UpdateCheck ==
  /\ known' = latest
  /\ UNCHANGED <<latest, binary, updater, running, newest, cut, rash>>

\* The server is restarted, of what is at execPath.
Exec == binary.whole /\ binary.writers = {}
RestartServer ==
  /\ Exec /\ running' = binary.version
  /\ UNCHANGED <<latest, binary, updater, known, newest, cut, rash>>

----------------------------------------------------------------------------
Comes(u, step) == updater' = [updater EXCEPT ![u].at = step]
Ends(u) == updater' = [updater EXCEPT ![u] = Ready]

\* runUpdate, up to the release that is asked for: a version, or the latest.
Update(u, wanted, down) ==
  /\ updater[u] = Ready /\ Exec
  /\ updater' = [updater EXCEPT ![u] = [at |-> "asks", own |-> binary.version, wanted |-> wanted, down |-> down]]
  /\ rash' = (rash \/ down \/ Busy # {})
  /\ UNCHANGED <<latest, binary, running, known, newest, cut>>

\* fetchRelease, compareVersion: the same version, an older one or a refusal end it.
Asked(u) == IF updater[u].wanted = {} THEN {latest} ELSE updater[u].wanted
FetchRelease(u) ==
  /\ updater[u].at = "asks"
  /\ \/ \E v \in Asked(u) :
          /\ Older(updater[u].own, v) \/ (updater[u].down /\ v # updater[u].own)
          /\ updater' = [updater EXCEPT ![u] = [at |-> "downloads", target |-> v]]
     \/ Ends(u)
  /\ UNCHANGED <<latest, binary, running, known, newest, cut, rash>>

\* downloadTo: the binary arrives, whole or cut short, or an error does.
DownloadTo(u) ==
  /\ updater[u].at = "downloads"
  /\ \/ \E whole \in BOOLEAN :
          updater' = [updater EXCEPT ![u] = [at |-> "verifies", target |-> updater[u].target, whole |-> whole]]
     \/ Ends(u)
  /\ UNCHANGED <<latest, binary, running, known, newest, cut, rash>>

\* sha256OfFile against the sums, and cosign where it is installed, which may refuse.
Verified(u) == updater[u].whole
Verify(u) ==
  /\ updater[u].at = "verifies"
  /\ (Verified(u) /\ Comes(u, "installs")) \/ Ends(u)
  /\ UNCHANGED <<latest, binary, running, known, newest, cut, rash>>

\* renameSync puts a new file in the old one's place.  Across devices copyFileSync writes into
\* the one that is there, if the system lets it while the file is running.
Replace(u) ==
  /\ updater[u].at = "installs" /\ Ends(u)
  /\ binary' = File(updater[u].target, updater[u].whole, {}) /\ newest' = Higher(updater[u].target)
  /\ UNCHANGED <<latest, running, known, cut, rash>>

StartCopy(u) ==
  /\ updater[u].at = "installs"
  /\ \/ Comes(u, "copies") /\ binary' = File(updater[u].target, FALSE, binary.writers \cup {u})
        /\ newest' = Higher(updater[u].target) /\ cut' = (cut \/ binary.writers # {})
     \/ Ends(u) /\ UNCHANGED <<binary, newest, cut>>
  /\ UNCHANGED <<latest, running, known, rash>>

CopyDone(u) ==
  /\ updater[u].at = "copies" /\ Ends(u)
  /\ binary' = IF u \notin binary.writers THEN binary
               ELSE File(updater[u].target, ~cut /\ updater[u].whole, binary.writers \ {u})
  /\ UNCHANGED <<latest, running, known, newest, cut, rash>>

\* The update is killed, or the disk is full.
Killed(u) ==
  /\ updater[u] # Ready /\ Ends(u)
  /\ binary' = [binary EXCEPT !.writers = @ \ {u}] /\ cut' = (cut \/ u \in binary.writers)
  /\ UNCHANGED <<latest, running, known, newest, rash>>

SelfUpdateNext ==
  \/ UpdateCheck \/ RestartServer
  \/ \E v \in Releases : Publish(v)
  \/ \E u \in Updaters :
       \/ FetchRelease(u) \/ DownloadTo(u) \/ Verify(u) \/ Replace(u) \/ StartCopy(u) \/ CopyDone(u) \/ Killed(u)
       \/ \E down \in BOOLEAN, wanted \in {{}} \cup {{v} : v \in Releases} : Update(u, wanted, down)

SelfUpdateSpec == SelfUpdateInit /\ [][SelfUpdateNext]_updateVars

----------------------------------------------------------------------------
\* Whatever is downloaded, killed or renamed over, the server can be started again, unless a
\* copy across devices was cut off or two of them met in one file.
Startable == cut \/ binary.writers # {} \/ binary.whole

\* "permit moving to an older version": without that permission, and one update at a time,
\* the binary never goes back to a lower number.
Forward == ~rash => binary.version[1] = newest

\* When the banner of a server that was restarted since the last update tells of a new
\* version, `cogworks update` finds one.
BannerHolds == running = binary.version /\ Newer(known, running) => Older(running, latest)

UpdatesWell == Startable /\ Forward /\ BannerHolds

----------------------------------------------------------------------------
\* The database.
CONSTANTS AuthColls, Accounts, Addresses,
          NoColl,        \* of an account: no collection has it
          NoBackup

ASSUME UpgradeAssumption == NoColl \notin AuthColls /\ IsFiniteSet(Accounts)

VARIABLES db,         \* the database file
          serving,    \* the process has started, and answers
          migrated,   \* history: this database has been migrated before
          backup      \* a snapshot of the database

upVars == <<db, serving, migrated, backup>>

(***************************************************************************)
(* A database:                                                             *)
(*   brand   the names of its tables: those of Vaultbase or of Cogworks    *)
(*   shared  the rows of the shared users table, empty when it is dropped  *)
(*   bears   auth collections whose table bears their name                 *)
(*   moved   auth collections renamed: their table kept its name           *)
(*   rows    the rows of each table                                        *)
(*   mailed  tables that have an email column                              *)
(*   unique  tables with the unique index on it                            *)
(*   home    history: the collection of each account that exists           *)
(***************************************************************************)
User(u, e) == [id |-> u, email |-> e]
IdsOf(rows) == {r.id : r \in rows}
Mails(rows) == {r.email : r \in rows}
Distinct(rows) == Cardinality(Mails(rows)) = Cardinality(rows)

\* What earlier versions left: the shared table of v0.10, or tables of their own since v0.11,
\* where addresses are unique.
V10(brand, at, mail, mailed) ==
  [brand |-> brand, shared |-> {[id |-> u, coll |-> at[u], email |-> mail[u]] : u \in {x \in Accounts : at[x] # NoColl}},
   bears |-> AuthColls, moved |-> {}, rows |-> [c \in AuthColls |-> {}],
   mailed |-> mailed, unique |-> {}, home |-> at]
V11(brand, at, mail) ==
  [V10(brand, at, mail, AuthColls) EXCEPT !.shared = {}, !.unique = AuthColls,
     !.rows = [c \in AuthColls |-> {User(u, mail[u]) : u \in {x \in Accounts : at[x] = c}}]]

UpInit ==
  /\ \E brand \in {"vaultbase", "cogworks"}, at \in [Accounts -> AuthColls \cup {NoColl}],
        mail \in [Accounts -> Addresses] :
       \/ \E mailed \in SUBSET AuthColls : db = V10(brand, at, mail, mailed)
       \/ db = V11(brand, at, mail) /\ \A c \in AuthColls : Distinct(db.rows[c])
  /\ serving = FALSE /\ migrated = FALSE /\ backup = NoBackup

----------------------------------------------------------------------------
\* migrateBrandRename: tables get their new names, and every auth table that is there its
\* unique index: an error when it has no email column, or an address twice.
Renamed(d) == [d EXCEPT !.brand = "cogworks", !.unique = @ \cup d.bears]
Indexable(d) == \A c \in d.bears : c \in d.mailed /\ (c \in d.unique \/ Distinct(d.rows[c]))

\* v0_11PrepAuthTables: the columns, an error when there is no table of that name; then the
\* rows, but for ids and addresses that are there, and none when one row's data cannot be
\* read; then the index, if it can be made.
Prepared(d) == d.moved = {}
Waiting(d, c) == {s \in d.shared : s.coll = c /\ s.id \notin IdsOf(d.rows[c])
                                  /\ (c \in d.unique => s.email \notin Mails(d.rows[c]))}
Fits(d, c, in) == c \in d.unique => /\ Distinct(in)
                                    /\ \A s \in Waiting(d, c) : s.email \in Mails(in)
Copies(d) ==
  {in \in [AuthColls -> SUBSET d.shared] :
     \A c \in AuthColls : \/ in[c] = {}
                          \/ c \in d.bears /\ in[c] \subseteq Waiting(d, c) /\ Fits(d, c, in[c])
                             /\ (c \notin d.unique => in[c] = Waiting(d, c))}
Copied(d, in) ==
  LET rows == [c \in AuthColls |-> d.rows[c] \cup {User(s.id, s.email) : s \in in[c]}] IN
  [d EXCEPT !.rows = rows, !.unique = @ \cup {c \in d.bears : Distinct(rows[c])}]

\* v0_11FinalizeAuthMigration: the shared table is dropped when as many of its rows have
\* their id in the table of their collection as there are.
CountsTables(d) == UNION {{r.id : r \in d.rows[c]} : c \in d.bears}       \* mutant: counts the tables' rows
Mirrored(d) == {s.id : s \in {x \in d.shared : x.coll \in d.bears /\ x.id \in IdsOf(d.rows[x.coll])}}
Finalized(d) == IF Cardinality(Mirrored(d)) >= Cardinality(d.shared) THEN [d EXCEPT !.shared = {}] ELSE d

\* runMigrations: what it may leave; nothing when it throws and is rolled back.
Migrated(d) ==
  IF Indexable(d) /\ Prepared(d) THEN {Finalized(Copied(Renamed(d), in)) : in \in Copies(Renamed(d))}
  ELSE {}

\* runDoctor: the auth collections for which it finds that the next start would fail or leave
\* accounts behind.  It knows tables by their new names only.
Twice(d) == {c \in d.bears \cup d.moved :
               \E s, t \in d.shared : s # t /\ s.coll = c /\ t.coll = c /\ s.email = t.email}
Stranded(d) == {c \in d.bears : d.rows[c] # {} /\ c \notin d.mailed}
Blocked(d) == IF d.brand = "cogworks" THEN Twice(d) \cup Stranded(d) ELSE {}

\* The process starts, or does not.
Boot ==
  /\ ~serving /\ db' \in Migrated(db)
  /\ serving' = TRUE /\ migrated' = TRUE /\ backup' = backup

Stop == serving /\ serving' = FALSE /\ UNCHANGED <<db, migrated, backup>>

----------------------------------------------------------------------------
\* Meanwhile: insertUser, updateUserById and deleteUserById, on the collection's table only.
SignUp(u, c, e) ==
  /\ serving /\ c \in db.bears /\ db.home[u] = NoColl
  /\ u \notin {s.id : s \in db.shared} \cup UNION {IdsOf(db.rows[d]) : d \in AuthColls}
  /\ e \notin Mails(db.rows[c])
  /\ db' = [db EXCEPT !.rows[c] = @ \cup {User(u, e)}, !.home[u] = c]
  /\ UNCHANGED <<serving, migrated, backup>>

NewAddress(u, c, e) ==
  /\ serving /\ c \in db.bears /\ u \in IdsOf(db.rows[c]) /\ e \notin Mails(db.rows[c])
  /\ db' = [db EXCEPT !.rows[c] = {r \in @ : r.id # u} \cup {User(u, e)}]
  /\ UNCHANGED <<serving, migrated, backup>>

DeleteUser(u, c) ==
  /\ serving /\ c \in db.bears /\ u \in IdsOf(db.rows[c])
  /\ db' = [db EXCEPT !.rows[c] = {r \in @ : r.id # u}, !.home[u] = NoColl]
  /\ UNCHANGED <<serving, migrated, backup>>

\* updateCollection: the row is renamed, its table is not; and back.
Rename(c) ==
  /\ serving
  /\ \/ c \in db.bears /\ db' = [db EXCEPT !.bears = @ \ {c}, !.moved = @ \cup {c}]
     \/ c \in db.moved /\ db' = [db EXCEPT !.bears = @ \cup {c}, !.moved = @ \ {c}]
  /\ UNCHANGED <<serving, migrated, backup>>

\* deleteCollection: its table is dropped; of the shared table nothing is.
DropCollection(c) ==
  /\ serving /\ c \in db.bears \cup db.moved
  /\ db' = [db EXCEPT !.bears = @ \ {c}, !.moved = @ \ {c}, !.rows[c] = IF c \in db.bears THEN {} ELSE @,
                      !.home = [u \in Accounts |-> IF db.home[u] = c THEN NoColl ELSE db.home[u]]]
  /\ UNCHANGED <<serving, migrated, backup>>

\* GET /admin/backup: what is committed.
Snapshot ==
  /\ serving /\ backup = NoBackup /\ backup' = <<db>>
  /\ UNCHANGED <<db, serving, migrated>>

\* POST /admin/restore: the file takes the database's place and is migrated; when that
\* throws the request fails, and the process goes on with the file as it is.
Restore ==
  /\ serving /\ backup # NoBackup
  /\ IF Migrated(backup[1]) = {} THEN db' = backup[1] ELSE db' \in Migrated(backup[1])
  /\ UNCHANGED <<serving, migrated, backup>>

UpNext ==
  \/ Boot \/ Stop \/ Snapshot \/ Restore
  \/ \E c \in AuthColls : Rename(c) \/ DropCollection(c)
  \/ \E u \in Accounts, c \in AuthColls :
       DeleteUser(u, c) \/ \E e \in Addresses : SignUp(u, c, e) \/ NewAddress(u, c, e)

UpSpec == UpInit /\ [][UpNext]_upVars

----------------------------------------------------------------------------
\* Through any upgrades, restarts, restores and changes in between, every account that
\* exists is in the table of its collection or still in the shared one, and none is dropped
\* with the shared table because other rows were counted for it.
NobodyLost ==
  \A u \in Accounts : db.home[u] # NoColl =>
    \/ u \in IdsOf(db.rows[db.home[u]])
    \/ \E s \in db.shared : s.id = u /\ s.coll = db.home[u]

\* And a database that was migrated once is taken by every later start, whatever was copied,
\* passed over or signed up; but not while an auth collection bears another name than its
\* table.
StartsAgain == migrated /\ db.moved = {} => Migrated(db) # {}

\* The doctor's word on a database that no start has migrated, whose tables have an email
\* column and their new names: when it finds nothing, a start moves every account and drops
\* the shared table, if it can read their rows; and when it finds something no start does.
DoctorTells ==
  ~migrated /\ db.brand = "cogworks" /\ db.mailed = AuthColls =>
    (Blocked(db) = {} <=> \E d \in Migrated(db) : d.shared = {})

\* No start loses an account, none is the last, and the doctor's word holds.
UpgradesSafely == NobodyLost /\ StartsAgain /\ DoctorTells

\* Upgrades lose nothing and leave nothing that does not start: of the database, and of the
\* binary.
Upgraded == UpgradesSafely /\ UpdatesWell
=============================================================================
