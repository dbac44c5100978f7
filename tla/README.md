# TLA+ models of Cogworks

Cogworks is a single-binary backend: Bun, SQLite, an admin UI and a REST and
realtime API, run as one process (`cogworks serve`) or as a supervisor with
several worker processes over one database file (`cogworks cluster`). This
directory holds TLA+ modules of its stateful core, TLC configurations that check
them on small instances, and proofs for TLAPS. Source paths below are those of
the repository (`src/core/queues.ts` and so on).

Where the interesting behaviour comes from:

- JavaScript is single-threaded inside a process. Code between two `await`s is
  atomic there, and so is every SQL statement, for all processes. The models
  therefore split each operation at its `await`s and, between processes, at its
  statements, and nowhere else.
- Processes share only the database file. Caches, timers, subscriptions and
  rate-limit counters are per process.
- A worker may die at any moment and is started again by the supervisor.

## 1. Inventory

| Component | State | Operations | Hard behaviour | What makes it correct | Here |
|---|---|---|---|---|---|
| Job queue (`core/queues.ts`) | `cogworks_jobs_log`, cache of compiled workers, `lastReapAt` | enqueue, tick (reap, count, select, claim), runJob, retry, retry all dead, discard | ticks of several processes, runs that outlive the visibility timeout, lost processes, reaps and claims from old SELECTs | each run owns its row; keys unique among unfinished jobs; retry budget; concurrency cap; every job settles | `JobQueue` |
| Durable workflows (`core/workflows.ts`) | `cogworks_workflow_runs` | start, tick, deliver event, advance | overlapping ticks, replay from the memo, stranded runs, slow steps | one advancement at a time; a memoized step is not repeated; every run rests in the end | `Workflows` |
| Realtime fan-out (`realtime/manager.ts`, `cluster-bus.ts`) | shared log `cogworks_realtime_events`, tail cursors, subscriptions, filters, Last-Event-ID | broadcast, tail poll, subscribe, SSE resume, prune | order of log and live delivery, resume on another worker, paging, pruning | each event once, none missed, all of them in the end | `Realtime` |
| Realtime presence (`realtime/presence.ts`) | `cogworks_presence` rows, local sockets | join, leave, heartbeat, reap, boot purge | crash of a worker that holds members, reaper against heartbeat | a row has its connection, observers believe the rows, the gone are culled | `Presence` |
| Cluster supervisor (`cluster.ts`) | children, restart counters | spawn, respawn, drain | back-off, shutdown deadline | a worker that died comes back; shutdown ends and leaves at most one orphan | `Supervisor`; crash and respawn are actions of the other modules too |
| Cron jobs (`core/jobs.ts`) | `cogworks_jobs` | schedule tick, run now | a job longer than the tick, a one-off made recurring while it runs | a one-off job runs once, a recurring one keeps running | `Cron` |
| Webhooks (`core/webhooks.ts`) | deliveries table | enqueue delivery, dispatch, retry | receivers slower than the tick, late outcomes | the status is what the receiver said, and every delivery ends | `Webhooks` |
| Mail and notifications (`core/notifications.ts`, `core/mail-queue.ts`) | inbox, device registry, provider settings, jobs of the queue | dispatch, register, enqueue, send, disable a device | answers about a token that was replaced meanwhile, retries of half-sent jobs, a provider switched off in mid-flight | a job that ends well reached every device, and no device of someone else | `Notifications` |
| Records (`core/records.ts`, `core/validate.ts`, `api/records.ts`) | one table per collection | create, update with If-Match, delete with cascades, keyset pages | check then act across awaits, cascades that stop halfway or come round, hooks that change the data, pages of a table that changes | no lost update under If-Match, no relation left dangling, what is stored is valid, and unique where the column has its constraint, a page shows a record once | `Records`, `Writes`, `Paging` |
| Batches and history (`api/batch.ts`, `record-history.ts`) | the connection's transaction, history table | batch in a transaction, versions of a record, restore | one connection for all transactions, second-resolution timestamps | a batch is all or nothing, history tells the state of a time | `Batch`, `History` |
| Collections, schema (`core/collections.ts`, `core/fts.ts`) and snapshots (`core/migrations.ts`) | `cogworks_collections`, the tables, search indexes, per-process cache | create, alter, drop; download, preview and apply a snapshot | a row and its table changed one after the other, edits amid an application, stale caches | a table is what its fields say, a view what its query says; a snapshot does what its preview and report say | `Schema`, `Snapshots`, `Caches` |
| Start-up migration (`db/migrate.ts`), backup and restore (`api/backup.ts`), doctor | the database file | rename the tables, move the shared users, swap the file | an interrupted upgrade, an old file restored under a new version | users are neither lost nor doubled, and the server starts | `Upgrade` |
| API tokens (`core/api-tokens.ts`, `core/sec.ts`) | rows, revocation list, use counts per process | mint, verify, revoke, prune, count | reads of several statements while a token is revoked and its minter removed | admitted only while alive, and refused only for a cause; each use a built-in route answers is counted once | `Tokens` |
| Accounts (`api/auth.ts`, `api/admins.ts`, `core/sec.ts`, `core/security.ts`) | users, admins, lockouts, tickets, sessions | setup, login, second step, mailed tickets, reset, refresh, management | single use under concurrency, hashes awaited between check and write | setup happens once, a ticket works once, old sessions end, an owner remains | `EventLoop`, `Accounts`, `Admins` |
| OAuth2, WebAuthn, TOTP | challenge tables | protocol flows | formats and cryptography | what they do to accounts | in `Accounts` |
| Rules and filters (`core/rules.ts`, `core/filter.ts`) | parse cache | evaluate in memory, compile to SQL | null, arrays, an absent caller read by two evaluators | a rule means the same in memory and in SQL | `Rules` |
| Feature flags (`core/flags.ts`) | flags, segments, cache with a time to live | upsert, delete, evaluate, load, invalidate | prerequisites of prerequisites up to a depth, several workers | a flag is what its first fitting rule says; a change is seen within the time to live | `Flags`, `Caches` |
| Settings, encryption, key rotation | settings, encrypted columns, keyring | save, rotate, drop old keys | requests while rotating, interrupted rotations | every value opens | `KeyRotation` |
| Files (`api/files.ts`, `core/storage.ts`) | objects, rows, thumbnails, used one-time tokens | upload, delete, mint, download, prune | two stores without a transaction, downloads amid a delete | a row has its object, what is deleted is not served, a token is for one download | `Files` |
| Hooks and routes of operators (`core/hooks.ts`) | rows, compiled code per process | run before and after a write, invalidate | hooks that throw, hang or are switched off in a request | each announced write was stored, each stored one announced once | `Writes`, `Caches` |
| MCP server (`mcp/*`, `api/mcp.ts`, `scripts/mcp.ts`) | registry, rate log, sessions | connect, call a tool | names that hide one another, limits by name, a long-lived session | a call does what its token may do, within its limits | `Tools` |
| SQL console (`core/sql-sandbox.ts`, `sql-runner.ts`, `sql-queries.ts`) | a private copy per administrator and process, saved queries | copy, run, reset, sweep, save, run saved | a copy made table by table, sweeps and resets meanwhile | a copy in use is kept, its tables are rows of some moment | `Sandbox` |
| Logs and rates (`core/file-logger.ts`, `core/perf-metrics.ts`) | buffer, day files, ring of seconds | enqueue, flush, read, exit, count | joined flushes, midnight, exit in a flush | each line once, each request counted once | `Logs` |
| CSV (`api/csv.ts`, `core/csv.ts`) | none | export by pages, parse, import | records that move between pages, quotes and breaks | what is exported reads back | `Csv`, `Writes` |
| Updates of the binary (`scripts/update.ts`, `core/update-check.ts`) | binary, its backup, latest release known | check, update, replace | overlapping updates, failures, pre-releases | a binary that is there runs, and is not older unless asked for | `Upgrade` |
| Image operations, OpenAPI and SDK text, admin UI, other scripts | files | text and I/O | none of their own that a model would settle | - | not modelled |
| HTTP server and rate limits (`server.ts`, `api/ratelimit.ts`) | buckets per process, timers | admit or refuse, sweep, reconfigure, starting the loops | rules read anew, buckets swept | no more than the limit from any moment on | `RateLimit`; the loops for fairness |

Interactions: the HTTP server starts in each worker one queue tick, one workflow
tick, one realtime tail and, in one worker only, the cron and webhook loops. Record
writes call `broadcast`, webhook dispatch, queue `enqueue` and
`deliverWorkflowEvent`. Mail and notifications are jobs of the queue. Every
component reads collections and settings through per-process caches. The
hazards of the code, each at its line, and the properties that look at them are
listed in `PROJECT.json`.

## 2. Modules

| Module | Models | Kind |
|---|---|---|
| `JobLifecycle` | what the queue promises about one job | abstract specification |
| `JobQueue` | `core/queues.ts` over its table | detailed specification, refines `JobLifecycle` |
| `OperationsProofs` | of `JobQueue`: `TypeCorrect`, `RetryBudgetHolds`, `RunningStaysCapped`, `ExclusiveRuns`, `QueueImplementsLifecycle`, `LimitsAlwaysKept`; of others: `BurstsBounded`, `ConsolesKept`, `UpgradesHold`, `TokensStayHonest`, `RequestsAccounted` | proofs for any jobs and keys, the first two for any processes, the last three of the queue for one with kept timeouts; any rules and principals; any tables and administrators; any accounts, releases and updaters; any tokens and bearers; any requests and spans |
| `DurableWorkflow` | what a workflow run promises | abstract specification |
| `Workflows` | `core/workflows.ts` over its table | detailed specification, refines `DurableWorkflow` |
| `MCWorkflows` | programs, homes, keys | instance |
| `WorkflowsProofs` | `RunsTyped`, `RunsAdvanceDurably` | proofs for any runs, processes and programs |
| `Realtime` | `realtime/manager.ts` and `cluster-bus.ts` | specification |
| `MCRealtime` | event kinds, rules | instance |
| `RealtimeProofs` | `RealtimeTyped`, `DeliversOnce`, `ClusterDeliversOnce` | proofs for any clients, topics and events |
| `Records` | update and delete of `core/records.ts` and their handlers | specification |
| `MCRecords` | schemas, graphs of records | instance |
| `RecordsProofs` | `RecordsTypeCorrect`, `NoDanglingReference`, `GuardsAlwaysHold` | proofs for any schema, records and requests |
| `EventLoop` | how one process interleaves its handlers: statements, awaits, crashes | used by the next two |
| `Accounts` | user handlers of `api/auth.ts`, `core/sec.ts`, provider and passkey sign-in | specification |
| `Admins` | setup, lockout, sessions and management of admins | specification |
| `MCAccess` | the two, one family of handlers at a time | instance |
| `AccessProofs` | of `Admins`: `OwnerAlwaysKept`, `EntryAlwaysGuarded`; of `Accounts`: `NothingEverRevives`, `EmailsStayUnique`; of both: `AccountsAlwaysGuarded` | proofs for any admins, users, requests, times and crashes |
| `Cron` | `core/jobs.ts` and its endpoints | specification |
| `Webhooks` | `core/webhooks.ts` and its endpoints | specification |
| `Presence` | `realtime/presence.ts` over a tailed log | specification |
| `Supervisor` | `cluster.ts` | specification |
| `Batch` | `api/batch.ts` and the requests served meanwhile | specification |
| `History` | `core/record-history.ts` and restore | specification |
| `KeyRotation` | `core/encryption.ts`, `core/key-rotation.ts`, secret settings | specification |
| `Caches` | the in-memory copies of flags, settings, routes, workers, hooks, jobs | specification |
| `MCServices` | the eight above, one at a time | instance |
| `ServicesProofs` | `BatchesWhole`, `AtMostOneOrphan`, `SecretsStayOpen`, `CopiesStayFresh`, `DeliveriesHonest`, `ViewsFollowRows`, `OneOffsFireOnce`, `HistoryTells` | proofs for any number of requests, workers, keys, processes, deliveries, members, jobs, writes |
| `Upgrade` | `db/migrate.ts`, `api/backup.ts`, the doctor; `scripts/update.ts`, `core/update-check.ts` | specification, of the database and of the binary |
| `Logs` | `core/file-logger.ts`, `core/perf-metrics.ts` | specification |
| `RateLimit` | `api/ratelimit.ts` | specification |
| `Tokens` | `core/api-tokens.ts` and what verifies them | specification |
| `Writes` | create, update, import with hooks, validation, history | specification |
| `ContentProofs` | `RequestsWriteSoundly`, `FilesHandedOutRight`, `NoticesReach`, `AgentsHeld`, `PagesGiveOnce`, `CollectionsTold`, `FlagsConsistent`, `FilesReadBack` | proofs for any requests, hooks and rows; files and tokens; notices and devices; tools and sessions; records and page sizes; collections, fields and snapshots; flags, rules and depth; characters, CSV rows and exports |
| `Csv` | `core/csv.ts`, `api/csv.ts` | specification |
| `Sandbox` | `core/sql-sandbox.ts`, `sql-runner.ts`, `sql-queries.ts` | specification |
| `MCOperations` | the queue of one process and the seven above, one at a time | instance |
| `Rules` | `core/rules.ts` and `core/filter.ts` | both meanings of a rule, side by side |
| `Paging` | keyset paging of `listRecords` | specification |
| `Files` | `api/files.ts`, `core/storage.ts` | specification |
| `Schema` | `core/collections.ts`, `core/fts.ts`, `applySnapshot` | specification |
| `Snapshots` | `core/migrations.ts`, `api/migrations.ts` | specification |
| `Flags` | `core/flags.ts` | specification, and a reference meaning of a flag |
| `Notifications` | `core/notifications.ts`, `core/mail-queue.ts` | specification |
| `Tools` | `mcp/`, `api/mcp.ts`, `scripts/mcp.ts` | specification |
| `MCContent` | the eight above, one at a time | instance |

### JobQueue

State: `jobs` is the table, `tick[p]` the scheduler tick of process `p` with what it
read so far, `tasks` the `runJob` calls in flight with the copy of the row each was
handed, `checked` the enqueue calls between their dedup SELECT and their INSERT.
`revived` and `crashes` are history that bounds the operators and the crashes.

| Code | Actions |
|---|---|
| `enqueue` | `EnqueueCheck`, `EnqueueInsert`, `EnqueueNoKey` |
| `reapStuckJobs` | `ReapSelect`, `ReapRow` |
| `countRunning` and the slot computation in `tick` | `CountRunning` |
| `claimAndRun` | `ClaimSelect`, `Claim` |
| `runJob` | `RunSucceeds`, `RunFails` |
| `retryJob`, `retryDeadJobs`, `discardJob` | `RetryJob`, `RetryDeadJobs`, `DiscardJob` |
| clocks | `ScheduleArrives`, `VisibilityPasses` |
| death and respawn of a process | `Crash` |

Abstractions. One queue (queues share nothing but the reaper, which treats rows
alike). Time is what the code compares: `due` and `late`; a row scheduled for now is
inserted with `due` FALSE and becomes due by `ScheduleArrives`. Which due rows
`ORDER BY scheduled_at` puts first is left open, and so is whether a tick finds
`REAP_INTERVAL_SEC` elapsed. The SQLite driver is synchronous, so the awaits of a tick
are over before the next timer fires, and ticks of one process do not overlap: one
tick per process. That other tasks may step between its statements is kept, as it
costs nothing. A worker function is its outcome; what a function
that timed out does afterwards is not modelled. The status `failed` is in the type
but never written, so it has no counterpart. The cache of compiled workers is not
modelled.

`Timely` states an assumption on operators' code: a run settles before the visibility
timeout of its row. It holds when `timeout_ms` of a worker is below its visibility
timeout. It is a constant so that runs can be made with and without it.

### Workflows

State: `runs` is the table, `calls` the calls in flight with the rows they selected and
the memo they loaded. A workflow function is a fixed sequence of steps with distinct
names, so the memo map is the number of steps done; two steps awaited concurrently
by one function are not modelled, nor is a run whose definition is not registered.

| Code | Actions |
|---|---|
| `startWorkflow` | `Start` and the advancement |
| `tickWorkflows` | `TickSelect`, `TickClaim` and the advancement |
| `deliverWorkflowEvent` | `Deliver`, `DeliverClaim` and the advancement |
| `advanceWorkflow` | `ReadRun`, `StepRuns`, `StepThrows`, `StepSleeps`, `TakeEvent`, `WaitForEvent`, `Complete` |
| clock, death of a process | `Clock`, `Crash` |

Time is relative: `wake` counts down, `age` is how long ago `updated_at` was written and
stops at `MaxAge`, beyond which it compares alike with every cutoff. `TickLength`
bounds how long after it began a tick may still be at work, and `Timely` says that an
advancement touches its row before the row is stale. Ticks of one process overlap:
`setInterval` does not wait for the last one.

### Realtime

State: `log` is the shared event table by sequence number, `workers` the tail cursors,
`clients` each connection with the server's side (subscriptions, `replaySince`) and the
client's (Last-Event-ID, what it received, wants and is owed). Every function of the
two files runs without awaiting, so each is one step.

| Code | Actions |
|---|---|
| `broadcast`, `broadcastSystem`, `recordEventTargets`, `deliverLocal` | `Broadcast` |
| `startRealtimeTail`'s poll | `PollTail` |
| `subscribe`, `unsubscribe` | `WsSubscribe` |
| `setSSESubscriptions`, `replayToClient`, `readEventsSince` | `SetTopics` |
| opening and closing connections | `Connect`, `Disconnect` |
| `pruneRealtimeEvents` | `Prune` |
| death and start of a worker | `Crash`, `Boot` |

An event is its kind: its topics, its view rule and what a filter says of it are
functions of the kind. A stream that resumes sends the topics it had, as the client
library does. `Prompt` says that tails poll and streams resume within the retention
time. Not modelled: changing a connection's credentials, an append that fails, a
socket whose send fails. Presence is left to its own module.

### Records

State: `rows` is the tables, `patches` and `deletes` the requests in flight. A delete is a
stack of calls of `deleteRecordInternal`: each has its record, the relations it has still
to look at (`todo`) and the referrers a cascade has selected and not yet deleted
(`kids`). `visited` is the set the code passes down. `seen` is history: which tag a
reader may hold for which version.

| Code | Actions |
|---|---|
| `patch` handler, `ifMatchFails` | `StartPatch` |
| `updateRecord` | `LoadPatch`, `AbandonPatch`, `StampPatch`, `WritePatch` |
| `delete` handler | `StartDelete`, and the requests that end in an error |
| `deleteRecordInternal` | `EnterDelete`, `HookThrows`, `DeleteRow` |
| `applyCascades` | `CheckRestrict`, `SetNull`, `Cascade`, `DeleteKid` |
| clock, death of the process | `Tick`, `Crash` |

Abstractions. A record's fields are a version that every write changes, and its
relations, single-valued. Relations are set at the start and only deletes change them:
creating records and relinking them is not part of this module, and is the one way left to
dangle that the hazards list (a target that is deleted between the validation and the
write). The order in which collections and their fields come up is left open, since
`listCollections` states none. History, realtime events, webhooks and after-hooks
follow a write and change nothing here. `If-Match` on a DELETE is compared in the
handler and never again, so it restricts nothing that happens later.

`NoDangling` and `RestrictBlocks` need relations that form no cycle: with one, a cascade
comes round to a record whose delete is under way and removes it at once.
`NoLostUpdate` needs PATCHes of which no two are in flight together, and is stated for
records no `setNull` relation can touch: overlapping ones share a tag, and a `setNull`
writes the wall clock, which may be behind the tag.

### EventLoop, Accounts, Admins

`bun:sqlite` is synchronous, so the statements a handler issues between two real awaits
(hashing, signing, a provider's answer) run without another handler of the same process.
`EventLoop` says this once: `todo[r]` is what a handler has still to do, statement by
statement, with `Await` between; `turn[p]` is the handler whose statements process `p` is
running. Handlers of another process run between any two statements, and a crash drops
a process's handlers where they are. A handler is thus one action, which reads, decides
and queues its statements; `Running` executes them. Where a handler reads again after an
await, that is a statement of its own which decides the rest.

| Code | Actions |
|---|---|
| login, registration, promotion | `Password`, `SignUp` |
| verification, reset and one-time-code mails and their confirmation | `Mail`, `Mailed` |
| second step: code, recovery code, enrolment | `Factor` |
| OAuth2 callback, merge and unlink | `Provider` |
| passkey registration, sign-in | `Key` |
| refresh, logout, password change | `Session`, `Credentials` |
| first admin: HTTP and command line | `Setup`, `CommandLine` |
| admin login under lockout | `SignIns`, `AdminLogin` |
| create, patch and delete admins | `Management` |

Abstractions. A password, an address, a provider's identity, a code are members of
small sets; hashes and signatures are right or wrong. Tickets of all kinds share a shape:
kind, user, uses, the second they end in. Rate limits, mail delivery and API tokens have
modules of their own. Times are in seconds, as in the code: the properties that compare
them name the second in which both may happen.

Exceptions the properties name, each a behaviour of the code: a reset that began before
another and ends after it sets `password_reset_at` back (`LateReset`); a PATCH of an
admin that waits for a hash guards the last owner with the role it read before.

### Cron, Webhooks

| Code | Actions |
|---|---|
| `scheduleTick`, `runJob` | `CronTick`, `RunEnds` |
| run now, create, patch, delete | `RunNow`, `CreateJob`, `PatchSchedule`, `PatchJob`, `DeleteJob` |
| `dispatchEvent`, test endpoint | `Dispatch`, `TestHook` |
| the dispatcher's tick, `deliverOne` | `HookTick`, `Blocked`, `Succeeds`, `Fails` |
| clocks, the leader's death | `Elapses`, `BackoffEnds`, `LeaderDies`, `DispatcherDies` and their starts |

Both loops select, start without a mark and write when done. `next_run_at` is null, later or
due. `Prompt` says that a job's run ends before the next tick, which the default limit of
its code allows; without it the code starts a job again at every tick. A webhook is
enabled or not and subscribed or not; the body of an event is left out.

### Presence, Supervisor

| Code | Actions |
|---|---|
| track, untrack, close | `Track`, `Untrack`, `Close` |
| presence-state | `Observe` |
| tail of the log | `TailPresence` |
| `reapStalePresence` | `ReapSelect`, `ReapDelete`, `ReapTell` |
| `clearWorkerPresence` at boot | `WorkerBoots` |
| the supervisor's `onExit`, respawn, `shutdown` | `ProcDies`, `Respawn`, `Shutdown`, `Come`, `Waited`, `ParentExits` |

Presence abstracts the channel (one), the state a member shows, and the heartbeat: the
rows of a worker that runs are fresh, three heartbeats to a time to live, so a row grows
stale only while its worker is down. A connection is used once.

### Batch, History

| Code | Actions |
|---|---|
| `BEGIN`, each operation, `COMMIT`, `ROLLBACK` | `BeginBatch`, `OpWrites`, `OpNoWrite`, `OpThrows`, `CommitBatch` |
| another request | `SingleWrites`, `SingleAnswers` |
| create, update, delete and the row each leaves | `Save`, `StartDelete`, `EndDelete`, `LogIt` |
| a cascade's `setNull`, a crash | `SetNull`, `LoseRows` |
| `getHistoryAt`, restore | `LatestAt`, `Restore` |

A write is known by its request and its place in it; a state of a record is a number.

### KeyRotation, Caches

| Code | Actions |
|---|---|
| `encodeForStorage`, snapshots, `setSetting` | `SaveField`, `Snapshot`, `SaveSetting` |
| a new key in the environment, `rotate-key` | `SwapKey`, `StartRotation`, `RotateAll`, `Interrupted` |
| the operator drops the old keys | `DropOld` |
| load on use, edit and invalidate | `Use`, `Edit`, `CacheRestart` |

A ciphertext is the key it was made with. `Caches` is one module for the three shapes the
code's caches have: with a time to live, a list until invalidated, and code compiled once
per row; one behaviour is about one kind.

### Writes

State: `writer` the create, patch and import requests in flight, each with its rows, the
data its hooks have made of the row in hand, the place it is at and how many rows it has
stored and announced; `recs` the table; `after` the after-hooks still to run.
`uniqueness` is what keeps the values of the unique field apart, and never changes in a
behaviour: the `UNIQUE` constraint, which `colDefSql` emits when the column is
created, with `checkUnique`; `checkUnique` alone, for a field that was made unique later,
which `alterUserTable` gives no constraint; or neither, for a field that is encrypted too, as
both compare ciphertexts that each have an IV of their own. `unseen` and `overlaps` are
history: whose record was stored behind whose validation.

| Code | Actions |
|---|---|
| `createRecord`, `updateRecord` up to the hooks | `Begin`, `LookUp` |
| `runBeforeHook` | `BeforeHook`, `HookThrows` |
| `validateRecord` | `Validate` |
| INSERT, UPDATE, and what SQLite refuses | `Store` |
| `maybeRecordHistory` | `Record`, `HistoryFails` |
| realtime event, webhook, after-hooks | `Tell`, `AfterHook` |
| switching hooks, deletes, death | `Toggle`, `Deleted`, `Die` |

A record is its unique field; what else validation asks is membership of `Valid`. An
import is rows in turn, each like a create. A patch is of the one record that is there at the
start. `TableSound` names who may share a value (`Excused`): anyone if the
field is encrypted, and without a constraint two records of which one was stored between
the other's validation and its INSERT or UPDATE; no other two.

### Paging, Rules

| Code | Actions |
|---|---|
| `listRecords` with `cursor` | `NextPage` |
| other requests | `Changes` |
| a rule, evaluated for one record and as a filter of a list | operators `Allowed` and `Listed`, over every rule of a small grammar |
| the record's fields, the caller, the query change | `SaveColumn`, `CallAs`, `CallWith` |

A page is one SQL statement. `EachOnce` leaves out records whose sort value is null:
the seek compares with it, which is unknown to SQL. In `Rules` a behaviour is one rule
with changing operands; SQL's third truth value is written out. Numbers have two
texts, `String(n)` in memory (`Includes`) and what SQLite makes of a REAL (`Like`): "1" and
"1.0". `Agree` names the differences the code has (see the divergences).

### Files

| Code | Actions |
|---|---|
| POST | `Upload`, `InsertRow` |
| DELETE of a field's files | `DeleteFiles`, `RemoveObject`, `ForgetFile` |
| POST of a token | `Mint` |
| GET, `fileMetaOf`, `verifyFileTokenClaims`, `claimOneTimeToken` | `Download`, `ReadRow`, `ByToken`, `ByRules`, `Send`, `CacheThumb` |
| `pruneFileTokenUses`, clock, death | `PruneUses`, `FilesTick`, `FilesCrash` |

Storage errors are swallowed, as the code does. A token works once where the field says
so, and no longer than the time its use is remembered (`Day`).

### Schema, Snapshots

| Code | Actions |
|---|---|
| `createCollection` | `ApplyEntry` and `ReadCollection` as callers, `CreateTable` |
| what a request may ask for, `inferViewFields` | operators `NewRows`, `Rewritten`, `Inferred` |
| `updateCollection`, `alterUserTable` | `AlterTable`, `AlterView`, `SaveCollection` |
| `deleteCollection` | `DropTable`, `ForgetCollection` |
| GET of a snapshot, `computeSnapshotDiff` | `TakeSnapshot`, `Preview` |
| `applySnapshot` | `Apply`, `Read`, `Create`, `Update` |
| other administrators, death | `EditCollection`, `SchemaCrash` |

In `Schema` a field is of one of three kinds of column, and a request works through its
statements. A view's query is the columns it names; they have no type. Its fields are
inferred when a caller sends none, and stored as they are sent otherwise, compared with
nothing; the view is made anew when its query changes and only then. So `TableFits`
asks of a view that its columns are those its query names and, if its fields were
inferred (`given` is FALSE), that these are the same; of fields that a caller gave it says
nothing (see the divergences). `spoilt` records the names on which a request failed half-way, was cut off
or overlapped with another, which `TableFits` excepts: nothing in the code repairs
them. In `Snapshots` a definition is its type, its fields and its rules, and whether
the fields its type brings are named; each collection is one variable there, while an
entry's statements are `ApplyEntry` of `Schema`.

### Flags

`Evaluate` is the code's evaluation with its depth; `Consistent` compares it, in every
state, with what the first fitting rule makes of the prerequisites' own values, unless
some chain of prerequisites is longer than the depth allows (`Deep`), as one that
closes on itself is.
The actions are `UpsertFlag`, `DeleteFlag`, `UpsertSegment`, `DeleteSegment`; evaluation
changes no state.

### Notifications

| Code | Actions |
|---|---|
| settings of providers, `bootstrapNotificationCollections` | `Enable`, `Disable`, `Bootstrap` |
| device endpoints | `Register`, `Unregister` |
| `dispatchNotification`, `enqueueEmail` | `Dispatch`, `Enqueue`, `EnqueueEmail` |
| `notifyWorker`, `mailWorker`, `sendFcm`, `sendOneSignal`, `sendMail` | `Start`, `Accepted`, `NotNow`, `Rejected`, `UnknownTo`, `Condemned`, `JobEnds` |
| the world, death | `Uninstall`, `NotifyCrash` |

A job's tries are those of the queue: `MaxTries`, and a lost process gives its jobs back.
`UnknownTo` is the answer about a token that is gone. `Condemned` is one that
`sendFcm` takes for the same (INVALID_ARGUMENT, SENDER_ID_MISMATCH, NOT_FOUND) about a
device that is there, say because of the payload: the job ends well and switches the
device off. `mistaken` is history: devices that are off though they were good. `Reached` does not
ask for the notice that was so answered, nor for later ones until the device registers anew.

### Tools

| Code | Actions |
|---|---|
| `runMcpCli`, the token check of POST `/mcp` | `Connect`, `Post` |
| a line of a session | `Line` |
| `ToolRegistry.call`: which tool, scope, budget | `Dispatched` |
| the handler | `Handled` |
| clock | `Instant` |

A tool is what a call of it does (read, write, SQL, collections) and the scope it asks
for; the names that matter are those a collection can hide.

### Upgrade

| Code | Actions |
|---|---|
| `runMigrations` (one transaction) | `Boot`, and in `Restore` |
| `insertUser`, `updateUserById`, `deleteUserById` | `SignUp`, `NewAddress`, `DeleteUser` |
| `updateCollection`, `deleteCollection` of auth collections | `Rename`, `DropCollection` |
| backup and restore endpoints, stop | `Snapshot`, `Restore`, `Stop` |
| `runDoctor` | operator `Blocked` |
| `cogworks update` | `Update`, `FetchRelease`, `DownloadTo`, `Verify`, `Replace`, `StartCopy`, `CopyDone`, `Killed` |
| releases, `update-check`, restart | `Publish`, `UpdateCheck`, `RestartServer` |

The migration being one transaction, it happens or does not. Databases of v0.10 and
v0.11, under both brands and with or without email columns, are initial states. A
version is a number and whether it is final; a copy across devices is two steps.

### Logs, RateLimit

| Code | Actions |
|---|---|
| `insertLog`, `BufferedLogWriter` | `Serve`, `Enqueue`, `TimerFires`, `Drain`, `WriteDay` |
| `readLogs`, `process.exit`, kill | `Read`, `Exit`, `Kill` |
| `RpsTracker` | `Finish`, `ReadRate`, `Second` |
| `rateLimitMiddleware`, sweep, settings, clock | `Request`, `Sweep`, `Configure`, `TimePasses` |

Tokens of a bucket are in `Unit`ths, so that refilling is exact on the clock used.

### Tokens

| Code | Actions |
|---|---|
| `mintApiToken`, `revokeApiToken`, `pruneExpiredApiTokens` | `Mint`, `RevokeBegins`, `RevokeMarks`, `RevokeLists`, `PruneTokens` |
| removal and new passwords of the minter | `DeleteMinter`, `ResetMinters` |
| `verifyAuthToken` | `Present`, `ChecksList`, `ChecksRow`, `ChecksMinter` |
| `recordApiTokenUsage`, behind built-in routes | `Counts`, `FlushUsage`, `FlushRow` |
| `tryDispatchCustom`, before them | `CustomAnswers` |
| clock, death | `DayPasses`, `RevokeDies`, `UsageCrash` |

A request asks for an audience (`AskedFor`): the tokens' own or any ("api": records, MCP);
another ("admin"), as all endpoints behind `getAdmin` and `requireAdmin`, which refuse
every API token, yet are counted; or a route of the operator's ("custom"), which takes no API
token and returns before the use is recorded. `uses` counts what built-in routes answered.
WebSocket upgrades are not counted either and are left out.

### Csv, Sandbox

| Code | Actions |
|---|---|
| `parseCsv` | `ReadQuoted`, `OpenQuote`, `EndField`, `EndLine`, `ReadPlain`, `EndText` |
| export | `FetchPage`, `Pull`, `CreateMeanwhile`, `DeleteMeanwhile` |
| the copy of a database | `BeginCopy`, `CopyTable`, `CopyEnds`, `ResetFails`, `DropSandbox`, `Prune` |
| a run, other processes, restart | `RunSql`, `Commit`, `Restart`, `HourPasses` |
| saved queries | `CreateQuery`, `InsertQuery`, `Asks`, `UpdateQuery`, `DeleteQuery`, `RunQuery`, `FindAgain`, `RecordRun` |

The CSV text is the one place where characters are modelled, since the property is
about quoting; a file has a header and `CsvRows` rows.

## 3. Runs

Runs marked * are expected to end in a violation: each checks one sentence that the
repository's comments state and the code does not keep. `PROJECT.json` quotes the
sentence and describes the behaviour under `findings`. Where a run has *families*, its
first state picks one, the others' variables stay as they are, and the states add up:
one TLC run, several small questions.

| Run | Instance | Question | States |
|---|---|---|---|
| `Operations` | families: the queue (one process, three jobs, one key, one keyed caller, two attempts, concurrency 2, one crash, every job may be revived once, timeouts kept); upgrade, log, meter, limits, tokens, writes, csv, export, copies, saved, updates, at the bounds below | does each queue run own its row, do keys stay unique, is the cap exact, do rows live the promised life; and the properties of the eight modules | 1,033,735 |
| `JobQueueCluster` | two processes, one job that may be retried, three runs of it that may outlive the timeout, two crashes | do the retry budget and settling survive every race | 143,343 |
| `JobQueueReclaim` * | two processes, timeouts kept, one crash | can two runs of one job be in flight | |
| `WorkflowsDurable` | two runs, two processes, two ticks and a caller, program run, sleep, wait, run, two crashes, timely | is a run advanced by one call at a time, step after step, and does it come to rest | 229,033 |
| `WorkflowsWake` * | two ticks in one process, a program of two sleeps | is a sleeping run woken only when due | |
| `RealtimeCluster` | families: two workers and a WebSocket client with a tail page of one event; one process and SSE streams; three events, one crash | is every event received once and none skipped, across reconnections, and does every event arrive | 864,054 |
| `RecordsSafe` | an author, two posts, a note, relations of all three modes in every graph, two deletes, one patch at a time, one crash | does no delete leave a relation dangling or remove a restricted record, does If-Match overwrite only what was seen | 2,655,618 |
| `Content` | families: rules, paging, files, tokens (of files), schema, flags, push, mail, agents, snapshots | the properties of the eight modules | 1,145,090 |
| `Access` | two processes, three requests, three users, three admins, two addresses, passwords and codes, two tickets, one crash; one of eight families of handlers per behaviour | are addresses unique, setup done once, attempts bounded, tickets dead after use, refused tokens refused for good, is there always an owner | 1,956,182 |
| `AccessRefresh` * | the same | is a token the server signs accepted at first | |
| `Services` | families: one cron job; two webhooks, one delivery, two POSTs of it at a time; two members and an observer on two workers; three workers and their parent; two batches of three operations and two single writes; three writes of a record; two fields, a setting and three keys; a cache in two processes | the properties of those modules | 232,550 |
| `BatchLoses` * | the same | is an answered write kept | |

Some properties are conjunctions, each conjunct stated and explained in its module:

| Property | Conjuncts |
|---|---|
| `LimitsKept` | `UniqueLive`, `RunningCapped` |
| `AdvancesDurably` | `ImplementsDurable`, `AdvancesAlone` at every step |
| `DeliveredOnce` | `ReceivedOnce`, `NothingSkipped` |
| `GuardsHold` | `NoLostUpdate`, `RestrictBlocks` |
| `AccountsGuarded` | `EmailUnique`, `EntryGuarded` |
| `NothingRevives` | `NoReplay`, `RefusedStays` |
| `FilesGuarded` | `OneUse`, `FilesConsistent` |
| `SchemaTold` | `TableFits`, `SnapshotsTell` |
| `Upgraded` | `UpgradesSafely` (`NobodyLost`, `StartsAgain`, `DoctorTells`), `UpdatesWell` (`Startable`, `Forward`, `BannerHolds`) |
| `Accounted` | `LoggedOnce`, `RateCounts` |
| `TokensHonest` | `AdmitsLive`, `CountsUses` |
| `WrittenSound` | `TableSound`, `AnsweredTruly` |
| `CsvFaithful` | `RoundTrips`, `ExportsEach` |
| `SandboxKept` | `CopiesKept`, `QueriesKept` |
| `ToolsGuarded` | `Permitted`, `Budgeted` |

Why the bounds are enough for what they show. In the queue, a race needs a row, a copy
of it that has become old and a second run: one job, three runs and two processes give
every such race, three jobs with concurrency two let the cap be the limit, and
`RetryMax` 2 has a first and a last attempt. In workflows, two ticks and a caller are
every pair of overlapping calls with a third in between, the four-step program has each
kind of step with one before and one after it, and a `StaleSec` of 2 leaves room between
fresh and stale. In realtime, three events make a full page, one after it and one before
the cursor; both modes of subscription, an event on two topics and one that a client may
not see occur. In records, a chain of three collections gives a cascade under a
cascade, the second post a cascade with two referrers, and two deletes may meet in one
record at every depth; three versions and two seconds let a tag repeat if it can. In
`Access`, two requests of one family are every pair of overlapping handlers, a third is
there where a limit is counted (lockout) or a second process matters (setup); two
tickets let one be used while its twin is. In `Services`, two POSTs of one delivery and
two runs of one job are the overlap, three workers have one before and one behind the
one that exhausts the deadline, two batches and two single writes give each position
of a foreign write, three keys let a value be two rotations old.

In `Content`, four ids on pages of two are a first, a middle and a last page with two
values that tie; two requests on two files are every overlap of an upload, a delete and
a download, and the windows of one and three hours are one below and one above the time
a use is remembered; two requests on two collections that may take each other's name
are what an alteration races with, queries of one column and of two give a view a column more
or less, with one set of fields that a caller may send; three flags with a depth of two have a chain within
and one beyond the limit; two devices of which one changes hands, and two tries, are a
stale answer and its retry, a second notice is another job's answer about the same device,
and a refused message switches a good one off for it; three seats are two clients and a session, and four calls
exceed each budget. In `Operations`, two accounts in two collections with two addresses
have every duplicate the copy can meet, with one backup; three lines and a buffer of
two are a full buffer and a rest behind a flush; two rules that overlap, and a clock of
six, are a window over, one under way and one beyond the time a bucket is kept; two
revokers and a minter's removal are what a verification races with; two writers, one of
which may import two rows, want the same unique value, under each kind of uniqueness; cells of up to two characters
have a quote beside a separator and a quote beside a quote, two rows a row amid the file
and one at its end, and up to five records in pages of two a page that ends short; two tables are copied
around one foreign commit; two updaters and three releases, one a pre-release, are an
update amid an update and both orders of a version and its pre-release.

The named bounds are the constants `MaxSeq`, `MaxCrash`, `Task`, `Revivable`,
`TickLength`, `MaxVersion`, `MaxTime`, `Patched`, the sets of requests, `MaxTickets`,
`MaxTokens`, `MaxSessions`, `MaxCrashes`, `MaxFlight`, `MaxExtra`, `MaxFires`,
`MaxDeliveries`, `MaxPosts`, `MaxDeaths`, `MaxFeed`, `MaxExits`, `MaxOps`, `MaxWrites`,
`MaxSeconds`, `MaxLosses`, `MaxKeys`, `MaxEdits`, `MaxBeats`, `MaxHours`, `MaxReinstalls`,
`MaxInstant`, `MaxCalls`, `MaxBuffered`, `MaxSecond`, `MaxHits`, `MaxClock`,
`MaxAdmitted`, `MaxDay`, `MaxUses`, `MaxFlushes`, `MaxRows`, `MaxLength`,
`CsvRows`, `MaxListed`, `MaxChanges`,
`MaxHour`, `MaxCommits`, `MaxStatements`, `MaxVisits`; and, in the MC modules, `MCFiles`,
`MCSchema`, `MCNotify`, `MCAgents`, `MCSnapshots`, `MCUpgrade`, `MCLog`, `MCMeter`,
`MCWrites`, `MCCopies` and `MCUpdates`, which narrow a family's next steps, each with a
comment that says to what. Of these three stop a behaviour where its property can
show nothing more: `MCSchema` when every table is spoilt, `MCMeter` when the rate has
gone astray, `MCUpdates` when a copy was cut off. `MaxAge` is a saturation and loses
nothing.

`UniqueLive` is checked with a single keyed caller at a time. With two, the SELECT and
the INSERT of `enqueue` are separate statements and the table has no unique index on
`unique_key`, so two processes may both insert; nothing in the repository promises
otherwise, and it is listed as a hazard.

The deadlock check is on for the queue's and the workflows' own runs
(`JobQueueCluster`, `WorkflowsDurable` and their starred ones). All others switch it
off: when the events of the bound have been broadcast and pruned, the records are
deleted or at their last version, the tickets are used up, a file is parsed or a parent
has exited, nothing need happen.

### Fairness

- `JobQueue`: weak fairness of each tick's steps and strong fairness of `ReapSelect`,
  because `setInterval` keeps ticking and a tick reaps whenever the reap interval has
  elapsed; of each run's end, because `runWithTimeout` bounds it; of the clocks.
- `Workflows`: weak fairness of each tick (its start and its steps), of the steps of a
  call, and of time. It includes that step functions settle: `advanceWorkflow` has no
  time limit of its own.
- `Realtime`: weak fairness of each worker's poll. Nothing else.
- `Cron`: the tick, the end of a run (its time limit), the passing of time, and the
  respawn of the leader.
- `Webhooks`: the tick, the end of a POST (it is aborted in the end), back-off, respawn.
- `Presence`: staleness, tails, the reaper of each worker. No worker need come back.
- `Supervisor`: the deadline, the loop over the workers, and respawn timers; no worker need
  end its drain.

In `MCServices` and `MCRealtime` each is taken for the behaviours of its own family. The
other modules state no fairness: their properties are all safety.

Callers, operators, crashes, connections and pruning are never obliged to happen.

### Known divergences without a run of their own

Definitions of their modules, or properties without an exception they name, that TLC refutes with
the constants given; none of the
runs above depends on one.

- `NeverRepeatsCompleted` (`Workflows`, `Timely` FALSE, two ticks and a crash): ticks that take
  longer than the staleness limit start a completed step again.
- `StrictlyMonotonic` (`Records`, two patches of one record): "`updated_at` is strictly monotonic"
  (`rest-api.md:64`) fails for overlapping PATCHes.
- `RestrictBlocks` and `NoDangling` (`Records`, two posts that may be each other's parent): `restrict`
  "blocks the delete" (`data-model.md:95`) fails when a cascade comes round.
- `ReceivedOnce` (`Realtime`, two workers, a stream that resumes): `manager.ts:376-377` holds in
  one process only.
- `LeaveEmitted` (`Presence`): rows purged at a boot go without a `leave` (`presence.ts:17-18`).
- `TellsAlways` (`History`): two writes within a second, or a slow encryption
  (`record-history.ts:206-209`).
- `AllRotated` (`KeyRotation`): a field that is not flagged while a rotation runs is passed over
  (`encryption.ts:16`).
- `LiveEverywhere` (`Caches`): an edit is live in the worker that served it
  (`mcp/admin-write-tools.ts:342`).
- `NonePassedOver` (`Paging`): "strictly past (v, id)" (`records.ts:448`) fails behind a record
  whose sort value is null: the pages end there.
- `AdmitsLive` without its first exception (`Tokens`): an API token that stands is refused by every
  admin endpoint, as `getAdmin` asks for the audience `admin` (`sec.ts:207-222`, whose comment
  lets API-token principals through; `api-tokens.ts:47` has a scope `admin`, "full admin
  equivalent").
- `TableSound` without `Excused` (`Writes`): "`UNIQUE` constraint + runtime uniqueness check"
  (`site/src/content/docs/data-model.md:91`) is neither for an encrypted field, and the check
  alone for a field made unique later, which two overlapping writes pass.
- `Reached` without `mistaken` (`Notifications`): the errors that disable "dead tokens"
  (`notifications.ts:18-20`, UNREGISTERED) include answers about the message; one bad payload
  switches good devices off, and later jobs end well without them.
- `RenameKeepsRecords` (`Schema`): a collection that is renamed keeps its name's table, so its
  records are gone (`mcp/admin-write-tools.ts:106` promises a rename).

Met while reading, each named as an exception by the property next to it:

- Files: the use of a one-time token is forgotten after a day, and tokens of longer
  windows then work again.
- Snapshots: an auth or view entry written by hand, without the fields its type brings,
  is never in sync, so applying it again is not a no-op (`core/migrations.ts:214-223`); a
  creation that failed behind its row is reported as unchanged the next time.
- Collections: `deleteCollection` clears the cache before it deletes the row. A view's fields that
  a caller sends are stored unchecked, at its creation and by an edit, which leaves the view
  itself alone unless `view_query` changes (`collections.ts:662-675`): fields without a column
  and columns without a field.
- API tokens: requests that the operator's own routes answer, and upgrades, are not counted.
- Notifications: a PATCH of a provider that ends in 422 has stored the fields before the
  refused one.
- Flags: a cycle of prerequisites answers by whichever depth it gives up at.
- Rules: null operands, an absent caller in a pattern, `:each` over nulls and whatever a rule
  reads of the request differ between memory and SQL; and `~` on a number, whose column is REAL:
  `count ~ 0` holds in SQL for a 1, which is "1.0" there, and not in memory, where it is "1".
- Migration: a unique index is made at each boot, so duplicates in a table stop the next
  start (`migrate.ts:889` says they are skipped silently); an empty shared table is made
  anew by every start, and one whose auth collection was renamed is not read again.
- Restore: when the migration of the restored file throws, the process goes on with it
  unmigrated.
- Doctor: nothing is found for databases of the former brand.
- Update: a rename across devices is a copy in place, not "atomically"; a pre-release is
  compared as newer than its final version, and `update-check.ts` ignores the suffix.
- Logs: a line that comes while a reader joins a flush may not be in what it reads; after
  a gap longer than the ring, or when read at the turn of a second, the rate is wrong.
- Rate limits: rules read anew keep the buckets they find; limits are per process, as
  documented.
- Writes: when the history row fails, the request answers 500 with the record stored and
  unannounced; a hook that timed out goes on.
- CSV: an empty text reads back as null, a list of relations as a text, a text that reads as
  JSON as what it reads as.
- SQL console: a copy is made table by table without a transaction
  (`sql-runner.ts:12-16` speaks of a snapshot of the file); the time limit cannot end a
  statement; workers have different copies; a failed reset has dropped the old one.
- MCP: a stdio session checks `mcp:read` or `mcp:write` though its comment says any `mcp:*`, and
  never verifies its token again; limits are by tool name and process; a collection's
  tools hide the server's; tools of a collection evaluate no rules.

## 4. Proofs

All theorems are about the modules above without any replacement, for every value of
the constants that the modules' assumptions allow. Of the 40, 32 state a property
that a run checks, four are type invariants, and four (`RunningStaysCapped`,
`ClusterDeliversOnce`, `EntryAlwaysGuarded`, `EmailsStayUnique`) say a part of such a property,
under a weaker hypothesis or of a larger specification. Every
inductive invariant was first checked by TLC on the instance of its family. A theorem with a
hypothesis names it, and each hypothesis is either what the model's `Timely`, `Prompt` and
single-process instances stand for, or that model values are told apart.

- `TypeCorrect` and `RetryBudgetHolds` (`OperationsProofs`), for any number of processes and
  with or without kept timeouts. Attempts are written
  from copies that the table may have left behind, so nothing relates the value written
  to the row it replaces. The argument is that both places that write `n + 1`, the reaper
  and `runJob`, compare that same copied `n` with `RetryMax`, so no stale copy can exceed
  the budget. Type correctness carries the arithmetic; the cardinalities that a tick
  counts need that `Job` is finite.
- `ExclusiveRuns` and `QueueImplementsLifecycle` (`OperationsProofs`), under
  `OneTimelyProcess`: there is one process and runs end before the visibility timeout.
  `ExclusiveRun` alone is not inductive, because a reap or a claim from an old SELECT
  would break it. The inductive invariant, `Ownership`, adds that no run's row is
  late and that the copies are fresh: a row the reaper holds is running and late (so no
  run is left that could change it), a row the claim loop holds is queued or was
  discarded, and both have the attempt that was read. The assumption is needed: the run
  `JobQueueReclaim` shows the property fail with two processes though every timeout is
  kept, and `JobQueueCluster` is checked without `ExclusiveRun` for that reason. The
  refinement follows from the invariant action by action; each step maps to a step of
  `JobLifecycle` or to a stutter.
- `RunningStaysCapped` and `LimitsAlwaysKept` (`OperationsProofs`), the first under
  `OneProcess`, the second under `OneTimelyProcess` and `OneCaller`. A cap on rows is not
  inductive: the tick counts in one statement and claims in later ones. `Room` keeps the
  account between them: after the count, what runs and the free slots are within the
  concurrency; after the selection, what runs and the *distinct* jobs still to claim. It
  needs no kept timeouts, because whatever a second run, a reap or an operator does
  to a row, only the tick makes one run. For the keys, `KeysHeld` says of a caller between
  its dedup SELECT and its INSERT that nothing it found missing has come since, but for
  jobs an operator re-queued, which no run excludes and `UniqueLive` excepts. `OneCaller`
  is needed: the two statements are separate and the table has no unique index.
- `RunsTyped` and `RunsAdvanceDurably` (`WorkflowsProofs`), the second under
  `Punctual`: the model's `Timely` and ticks no longer than `StaleSec`. `AdvancesAlone` says
  one call at a time has a run, from the memo its row has; nothing in it says why a
  tick that takes the row for stranded cannot be wrong. `Alone` adds that no advanced
  row is stale and that a row nobody started is as inserted; a claim from an old
  selection then fails by its `WHERE`, which takes rows that sleep, wait, or run and have
  not been touched for `StaleSec` before the tick began.
  `RunsTyped` has the one fact that is not about types, `Busy`: a call that is past its
  claim names its run. The refinement of `DurableWorkflow` maps each step to a step of one
  run or to a stutter.
- `RecordsTypeCorrect` and `NoDanglingReference` (`RecordsProofs`), for any schema, any graph
  of records and any number of requests; the second under `Acyclic(rank)`, a rank
  of the records that decreases along every relation. `NoDangling` is not inductive: it
  says nothing of the calls that are about to delete. `Inductive` adds, for each
  request (`Sound`), that ranks increase along its stack, that whatever still refers to a
  record by a relation its call is done with is among its `kids` or is the record of the
  next call, and that a visited record that is still there is on the stack. The rank makes
  the last two meet: a call that is about to enter a visited record would be deeper
  than itself. Steps of other requests only remove records and references
  (`Narrowed`), which preserves all of it, so requests need no invariant about each other.
- `GuardsAlwaysHold` (`RecordsProofs`), under `Acyclic(rank)` and `OnePatch`: PATCHes do not
  overlap, as in the run `RecordsSafe`, because the check of `If-Match` and the write are
  separate statements. A tag is a time and a version has no name of its own in the code, so
  the invariant, `TagsInv`, ties them: no tag that readers can have got is later than the
  record's, and an equal one is of its version (`Tagged`); what a PATCH has read is still so,
  and what it is about to write is later (`UpToDate`). Both are about records whose relations no
  delete sets to null (`Steady`), as `NoLostUpdate` says, because such a delete writes without
  a new tag. The restricting relations need no invariant of their own: `Inductive` says
  of a call that deletes that nothing refers to its record any more (`Unreferred`).
- `RealtimeTyped`, `DeliversOnce` and `ClusterDeliversOnce` (`RealtimeProofs`). The
  second is for one process (`OneWorker`) in which tails poll and streams resume within the
  retention time of the log (`Prompt`), along the behaviours in which no stream resumes more than a
  page behind: `ResumesWithinPage` holds in every state of `RealtimeCluster`, whose page
  is as long as its log, and the code's page has 1000 events (`cluster-bus.ts:71`), behind
  which an older absence is cut off. The third is for a cluster of any size and WebSocket
  clients. `Sound` is the invariant of both: tails and connections are in place
  (`Placed`), the server's subscriptions are what the client wants unless it has yet to resume
  (`Agreed`), what a client has is behind its cursor (`Behind`) and what it is owed lies
  ahead of it and is still in the log (`Ahead`). A WebSocket client's cursor is its
  worker's tail, which skips what that worker broadcast itself: that is why local delivery
  and the tail never meet. The lemmas about pages and the log's maximum take the smallest
  number of a set.
- `BatchesWhole` (`ServicesProofs`), under `Distinguished`: requests are told apart and a batch
  has an operation. `BatchWhole` speaks of sets of writes; `Own` says the same of one
  write (`OwnIsWhole` proves them equal) and is inductive together with the types: a
  write enters the transaction only while its own batch runs, because `BEGIN` is
  refused while one is open, so what COMMIT makes durable and ROLLBACK drops is of one
  batch and of single writes.
- `AtMostOneOrphan` (`ServicesProofs`), for any number of workers and exits. `OneOrphan`
  speaks of the end; the invariant, `Left`, says of the loop of `shutdown()` that of the
  workers it has passed at most one still drains, and only when the deadline is over
  and nothing is waited for. `Rest` ties the loop's place to the parent's phase.
- `SecretsStayOpen` (`ServicesProofs`), under `Sealed`: fields and settings are different
  places and stored values are told apart. `StillOpens` says nothing of whether the old
  keys are needed; `Turned` does: once a rotation has ended under the primary key,
  whatever it did not pass over is under that key, and it stays so until the next key.
- `CopiesStayFresh` (`ServicesProofs`). The invariant, `Behind`, says when a copy was loaded:
  before the version it holds ended, and after the last edit of its own process.
- `DeliveriesHonest` (`ServicesProofs`), under `Tried`: `retry_max` is at least one and
  webhooks are finitely many. That a delivery is dead of its failures only after
  `RetryMax` of them does not follow from the rows, since overlapping POSTs write the
  attempt they were started with. `Attempts` says that no attempt, of a row or of a POST
  still out, is more than one ahead of the failures counted.
- `ViewsFollowRows` (`ServicesProofs`), under `Connected`: members and observers are
  different connections. What an observer will believe is its view after the feed, so the
  invariant is about the feed: the last message about a member says what the table says or
  will say once those who owe a leave have told it (`Said`), and an observer is already
  right about members its feed is silent on (`Right`).
- `OneOffsFireOnce` (`ServicesProofs`), under `Prompt`: runs end before the next tick.
  Counting fires is not inductive; `Quota` counts fires had and fires still ahead, the
  one a run under way will set on its end or the one the row is set to, against one and
  one more for each crash and run by hand. It also bounds the scheduler's runs of a job by
  one.
- `HistoryTells` (`ServicesProofs`), under `Absent`: no state is the mark of a
  deleted record. The claim is about a record's whole past, so the invariant is too:
  `Chronicle` says there is a one-to-one map from history rows to states, each to one that
  began no later than the row was stamped, and none to a state whose row is still owed.
  When states are a second apart and no row is missing the map must be the identity
  (`NeverUp`, by the smallest number it moves), and the row in force tells its state.
- `RequestsWriteSoundly` (`ContentProofs`), for any requests, hooks, contents and rows. What
  makes `WrittenSound` inductive is that a request about to store has passed all its
  hooks with valid data (`Vetted`), that its counts agree at every place it may be at
  (`Tallied`), and what it may not know: unless the field is encrypted, a record that has the value
  it is about to store was stored since it validated, and is in `unseen` (`Aware`, `AllAware`).

- `FilesHandedOutRight` (`ContentProofs`). The two stores have no transaction, so the
  invariant says where each request may be: `RowsCovered` gives every row its object unless a
  delete under way has removed it or was cut off there, `UploadsApart` keeps uploads under way away
  from rows and from each other. `CallHonest` says of a download what it has read and
  checked so far, `TokenHonest` of a token that its use is remembered as long as the token lives
  if its window is no longer than the memory of uses.
- `NoticesReach` (`ContentProofs`). `Registered` ties a device to the user who registered it
  last; `Owes` says the devices a notice owes are its addressee's and can be reached;
  `Asks` that a job that has lost nothing has reached, or still waits for, everyone owed. `JobHonest`
  says of the devices a job is about to switch off that they are gone or that it did them wrong
  (`good`). With more than one notice the first form of `Reached` did not survive the proof
  attempt: a device that another job's late answer had switched off was still owed. The history
  `mistaken` now tells such devices, and those whose message was refused; the run has a second notice.
- `AgentsHeld` (`ContentProofs`). A limit on calls in a window says nothing of the log that is
  asked. `LogsInv` does: there is a one-to-one map (`InLog`) from the calls of the last minute to
  entries of the log of their process and name, each no older than its call, so a short log
  means few calls. `SeatsInv` says what a session's token allowed when it was checked.
- `PagesGiveOnce` (`ContentProofs`), for any order of any numbers. `GivenBehind`: a record that
  stayed as it was has been given exactly when the cursor is not before it. A page ends
  at the one of its records that has the most others of the rest before it (`PageEnds`,
  `AheadGrows`), so what a page leaves is what lies behind its end (`PageSplits`).
- `CollectionsTold` (`ContentProofs`), for any number of requests, collections and names, and
  any fields; of snapshots, for any finite set of names and any snapshots at hand that
  name a collection once. A request holds the row it read while others go on, so `TableFits`
  alone is not inductive. `Finds` says what a request will find: its row as it saw it and the table
  as it left it, unless its name is spoilt. `TablesInv` adds that two requests at work on one
  name have spoilt it, and that a name no one works on has its table or none (`AtRest`); a table that
  `CREATE ... IF NOT EXISTS` would take over is thus on a spoilt name. `StepKeeps` says
  once what a step may not disturb, and `AlteringFits` that columns dropped and added give the
  new fields. Of views, `Agreeing` says that fields no caller gave are the query's columns, in the
  rows and in what requests are about to write (`NewRowsFit`, `RewrittenFits`); `MadeFits` that a
  table or view just made suits its row. For snapshots `SoFar` says how much of the preview the report has told: of the entries
  before the one at hand all, and of the others the preview still holds (`StillSo`), since
  a snapshot that is taken has no name twice (`TakeKeeps`).
- `FlagsConsistent` (`ContentProofs`), for any flags, rules, visitors and depth. `Evaluate` is
  a recursive function from the level of a call down to one that is too deep, and the theorem is about
  a flag at level 0 against its prerequisites at level 0, which the code asks at level 1. That
  the levels exist as the code computes them is shown level by level from the deepest up
  (`EvaluatesLevels`, `EvaluateByLevels`). A flag's value depends on those of its prerequisites only
  (`ResultLocal`), so a value that differs between two levels has a prerequisite that differs
  one level further down (`NextCarries`); such a chain ends at the level that is too deep only,
  which makes it the one that `Deep` speaks of.
- `FilesReadBack` (`ContentProofs`), for any characters, lengths, rows, page size and changes. A
  text is a fold of sequences, and a fold is described by its prefixes (`Joins`, `JoinsIs`): where
  each part lies in the whole (`Lays`, `Doubles`, `Layout`). The parser's invariant `CsvInv`
  says which cell of which row `pos` is in and that `field`, `line` and `grid` are what the file
  holds up to there (`InCell`, `OnLine`, `Progress`, `GridIs`); at each stage the next character
  is known, so one action is enabled (`CellStep`, `LineStep`). `ReadsBack` is what a cell decodes to.
  Of an export (`ExportInv`), a record is sent or held to be sent (`Sees`) at most once more
  than records were created since it began, and the records it passed by unsent (`Missed`) are at
  most as many as were deleted.
- `BurstsBounded` (`OperationsProofs`), for any rules, principals, processes and times. The
  property compares requests let through with what time refills; `RateInv` accounts for it: from any
  request on, what a bucket gave and has left is at most what it could hold and was refilled with,
  and a bucket that was swept would be full by now. The second is where windows longer
  than a bucket is kept drop out.
- `ConsolesKept` (`OperationsProofs`), under `AbsentMarks`: the mark of what is not there is no
  copy and no text. Of a copy under way (`Underway`) each table was read between its beginning
  and now; a copy that is kept (`Kept`) has the tables, the runs and the time of use that
  the history notes of it. A saved query's invariant is about the requests in flight:
  whoever found it is the only one who ever gave it (`OneGave`), and runs and records a text
  it was given (`Visiting`).
- `UpgradesHold` (`OperationsProofs`). The shared table is dropped on a count. It counts rows
  one by one (`CountTells`), and an account has one at most (`OneRowEach`), so the count is full only
  when each has arrived; `AllThere` is then kept by what a start copies (`MigratedIs`). What lets every later
  start succeed is `Indexed`: tables have their unique index, so duplicates cannot arise. The doctor
  is right because on an untouched database the rows it compares are the rows that are copied
  (`DoctorOfShared`). Of the binary, `OneAscends` follows the only updater at work from
  the version it compared to the one it installs, and `VerifiedFirst` says what reached the installation
  is whole.
- `TokensStayHonest` (`OperationsProofs`), for any finite set of processes: the property counts what
  each has not written. Two halves that do not meet. Of a request, `Open` says for each of the steps of
  `verifyAuthToken` what it has looked at already and what of its token can only have become worse since,
  because a revoke, an expiry, a deleted minter and a reset are never taken back; and that a request
  is past the first of them only if its endpoint takes API tokens. For the counts,
  the equation `CountsUses` is inductive as it stands, but it is one between sums, which the library
  defines by recursion over sets that are chosen from; `SumIsCount` replaces a sum by the number of pairs
  of an index and a unit, and `SumWithout`, `SumChanged` and `SumRenamed` say what the steps need: one number
  taken out, one changed, a flush removed from the middle of a list.
- `RequestsAccounted` (`OperationsProofs`). `LoggedOnce` says nothing of what a flush carries.
  `DayLines` is, of a day, what is in its file, then in the flush under way, then in the buffer; an
  enqueue appends to it, a flush, a write and the exit leave it as it is (`JoinedSame`), and a failed write
  or a kill takes a part out. `Filed` says of these lists what the property says of the
  files: each line is in one of them or gone, and each is in the order made. `Landed` is why the
  exit loses nothing: it comes when no flush is under way. For the rate, `Ring` says which second each
  bucket counts; the window of the last `Span` seconds maps one to one to the buckets (`ModApart`,
  `ModEvery`), so the sums agree. `MaxHits` is less than `Word`: a second's requests fit in
  a bucket's 32 bits.
- `OwnerAlwaysKept` (`AccessProofs`), under `OneServer`: all requests have one process.
  A role is changed, or an admin deleted, in a statement after the one that counted the
  owners. `Decided` says that what was counted is still so: while such a statement is due,
  there is another owner. It is inductive since no handler of the process runs in
  between; with two processes each may remove the other's owner. `LoopInv` says which
  lists of statements a handler may have left (`Plan`), and that one which is not waiting
  has its process's turn.
- `EntryAlwaysGuarded` (`AccessProofs`), for any number of processes, along the
  behaviours that delete no admin (`Undeleted`): when all are gone another setup may be answered.
  Failures are counted before the password is compared and written after, so `LockInv` adds
  to the failures of the window those still to be written, of the requests in flight.
  `SetupInv` says that once a setup was answered there is an admin whom no racing setup
  will take back (`Settled`).
- `NothingEverRevives` and `EmailsStayUnique` (`AccessProofs`), of `AccountsSpec`: any number of
  processes, with all handlers of the accounts at once. Addresses are looked up before a wait and
  written after, and what keeps them apart is that the statement that writes finds them taken
  (`Refused`); the rest of `AccountsInv` is what lets that statement be followed through the lists
  of the handlers. `Sound` says that a list finds what it needs: it issues, signs and links
  for users whose row is in the table, or whom an earlier statement of the same list inserts. `Apart` says that no
  two requests insert the same account or mint the same code. A provider's answer picks its
  new account when it comes, so `AccountsInv` counts: the requests that will insert
  (`Carriers`) are no more than the users without a row, hence one is free
  (`UnbornThere`). For the replay, `Admits` says that what let a request in is used up
  already, or that the request still holds the statement that uses it up; when its list is empty
  only the first is left. For tokens, `Onward` says what no step takes back: logouts, the
  clock, a deleted row, and the time of the last reset unless an older reset ends late.
- `AccountsAlwaysGuarded` (`AccessProofs`), of `MCSpec`: one family of handlers at a time, for any
  values of its constants. It joins `AccountsInv`, `LockInv` and `SetupInv`; the families
  with setups never delete an admin, and the others answer no setup (`Never`), so `Undeleted` is
  no hypothesis here.

Only model-checked:

- the liveness properties (`EventuallySettles`, `EventuallyRests`, `OwedArrives`,
  `KeepsFiring`, `Ended`, `Culled`, `Supervised`): fairness and ENABLED are beyond the prover;
- `Agree`: `Rules` has no constants, so the run is over everything a theorem would speak of;
- `SignedValid`, which the run `AccessRefresh` refutes.

Facts about numbers that would be proved by induction (a set's smallest number, a page's
end, a flag's levels, a sequence's prefixes, `NeverUp`) are proved by a minimal counterexample from the well-foundedness of `<`
on `Nat`. No module that is proved about has a recursive operator.

## 5. Not modelled, and why

- Relations that are set while their target is deleted (listed as a hazard): a record's
  relations are fixed in `Records`, and `Writes` has one collection without them.
- What text means: the tokenizer and parser of filters, date macros, geo and
  full-text operators, SQL splitting, templates of mail, OpenAPI, SDK and type
  generation, signatures and encodings. They are functions of their input without state,
  and a model would repeat them.
- Cryptography and the wire formats of OAuth2, WebAuthn, SMTP, FCM, OneSignal and S3: a code, a
  signature or an answer is right, wrong or late.
- The admin UI, the landing page, the SDK packages and the documentation site: clients.
- Resources, prompts and event streams of the MCP server; histograms, traces and audit
  listings: read-only.
- `wipe` and `backup` of the command line: they copy or remove files one by one.

What would come next: the composition of `Writes` with `Records`, so that a relation's
validation and a cascade meet.
