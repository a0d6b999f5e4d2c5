# A verification project for the dataforge worker

The worker is a Fastify process that hosts the databases of many projects. It
serves each project's own API from definitions kept in PostgreSQL, runs its cron
jobs and webhooks, broadcasts its changes to WebSocket clients and lets an AI
gateway change all of it. Everything below is written from the code under
`src/backend/src`; paths are relative to that directory.

Contents: 1 inventory, 2 plan, 3 modules, 4 runs and bounds, 5 fairness, 6
theorems, 7 disagreements found, 8 what is left out, 9 how to run it.

## 1. Inventory

One Node process, no worker threads: code between two awaits is atomic, and
everything else interleaves. State lives in PostgreSQL (shared by the process's
components and by clients of the database), in Redis (caches, tokens, counters)
and in maps of long-lived objects (timers, transactions, connections, hooks).

| component | state | operations | hard behaviour | what makes it correct |
|---|---|---|---|---|
| dynamic API and executor (`modules/api-builder/builder.routes.ts`, `executor.ts`) | one shared executor with one mutation hook; rows of the projects | find, create, create_many, update, delete, SQL, and the events of each | the hook is shared by concurrent requests; batches announce rows before COMMIT; answers are lost | an event tells of a committed change, to the project it belongs to |
| endpoint builder and caches (`builder.service.ts`, `builder.routes.ts`, `cache.service.ts`, `cache-invalidation.service.ts`) | `api_endpoints`; the Redis resolve entry; the Redis response entries | create, update, delete, toggle, new version, bulk update; gateway tools, restores, deletion of the project; resolve, serve, store | read, change and clear interleave; handlers fail half way; some writers clear nothing | an entry is behind the table only for named reasons, and not for ever |
| cron scheduler (`modules/cron`) | `cron_jobs`, `cron_job_runs`; a map of timers in each CronService object | create, update, toggle, delete, startAll, project switches, executeJob | several objects schedule the same rows; restarts; failures of the bookkeeping; answers that never end | timers agree with the table; run rows tell the truth |
| gateway transactions (`modules/ai-gateway/txn-manager.ts`) | map of open transactions, their signals and timers; the pool | begin, getTrx, commit, rollback, expiry | timer, calls and statements race; the server ends idle sessions; the pool is small | transactions are atomic, and their connections come back |
| pg_notify listener (`modules/realtime/pg-listener.service.ts`) | one client field, one timer, a schema cache | start, connect, error and end callbacks, notification, stop | callbacks of a dead client arrive when its successor exists; handlers wait for the cache | every notification once, in order; it recovers; stop is final |
| WebSocket service (`modules/realtime/websocket.service.ts`) | channels, connection counts | admission, subscribe, unsubscribe, close, broadcast | sockets close during authentication; repeated subscriptions | counts and subscriptions follow the sockets; projects are isolated |
| schema service and versions (`modules/schema`), TimescaleDB (`modules/timescale`) | the tables, keys, foreign keys, indexes and policies of a project; `schema_versions` | create, alter, drop, truncate, link, index; hypertables and policies; capture, roll back | series of statements outside any transaction; the number of a version is read and then written | a table is whole, a version is numbered once and tells what changed |
| backups (`modules/backups`) | the archive at the control plane | export as a stream or a document, restore | an export reads while others write, and swallows what fails | a restore brings back what was archived |
| data service (`modules/data`) | the projects' rows, `validation_rules`, caches of rules and columns in memory | create, update, bulk, soft delete, restore, import, batch | a check and the write it allows are separate statements | rules hold of what is stored |
| control-plane hooks, API tokens (`modules/internal`, `middleware/node-auth.middleware.ts`, `modules/ai-gateway/ai-auth.middleware.ts`) | `projects`, schemas, `api_tokens_cache`, Redis keys of tokens and switches, two caches of projects | project created, switched, deleted; token synced, revoked, restored, expired | two stores, many statements, swallowed failures, loss of Redis | tokens and projects are as the control plane was told |
| webhooks (`modules/webhooks`) | webhook rows with a migration on first use, log rows, deliveries on their way | add, change, remove, restore from a backup; announce, send with retries, log | retry of what was delivered; the webhook is removed meanwhile | each event delivered an explained number of times, each attempt logged |
| uptime monitors (`modules/plugins/built-in/uptime-ping`) | `uptime_monitors`, timers, checks on their way | add, change, remove, start, check | row and timer are set in two steps; checks outlive their monitor; a removal stops the timer before it knows whose monitor it is | timers and rows agree |
| request analytics (`modules/analytics/request-logger.ts`) | buffers in memory, `api_request_stats`, `api_request_logs` | count, flush, trim | flushes overlap and fail half way | a request is counted once |
| quotas (`api-builder/builder.routes.ts`, `middleware`) | the quota in Redis with its lock, one fetch in flight, the daily counter | serve, fetch, refresh in the background, invalidate | a fetch overtaken by the notice of a change | the quota kept is the control plane's; no more requests than it allows |
| files (`modules/files`) | the disk, `files` | upload, remove | two stores | a file is on the disk exactly when it has its row |
| plugins and AI studio (`modules/plugins/plugin.manager.ts`, `modules/ai-studio`) | `plugin_instances`, the studio's tables, its conversations | enable, disable; talk, forget | read, wait for a provider, write back | no exchange is lost, tables there exactly when enabled |
| player sessions (`modules/plugins/built-in/sbox-auth`, `api-builder/builder.routes.ts`) | the players' table, Redis keys that debounce touches | log in, use, log out, revoke, clean up | select then insert; touches nobody waits for | one row per player; a session in use stays |
| SQL console, heartbeat, dashboards, integrations, proxies | see `PROJECT.json` | | | |

`PROJECT.json` lists every component with its sources, the module that models
it, or the reason why none does. Its `hazards` list the places where this code
is hard to test, each at its line, with the property that watches it.

How they interact:

- A change through a table endpoint is broadcast and dispatched directly, by the
  executor's hook. A change through any other path (custom SQL, the panel, cron,
  `df_emit`) reaches the listener by NOTIFY, and the listener calls
  `broadcastDataChange` and the webhook dispatcher.
- Changes of data through the panel start `onDataChange`, which drops cached
  responses; nobody waits for it.
- The control plane switches projects on and off, and with them their cron jobs,
  through the CronService of `index.ts`; the panel's routes and the AI gateway
  use CronService objects of their own.
- The gateway's transactions, the listener's queries and all requests share
  PostgreSQL; transactions, statements and validations share one pool.
- Creating and deleting a project goes through most components: its schema with
  the tables of the studio and of players, its webhooks, tokens, counters and
  files.
- The panel and the AI gateway change tables and rows through the same services.

## 2. Plan

In this order, the most important behaviour first. Parameters are CONSTANTS with
named assumptions, an action is an operation (or the part of it between two
awaits), no module that is proved about declares a RECURSIVE operator.

1. `DynamicApi` - requests on the shared executor. Done; all its invariants
   proved.
2. `EndpointCache` - definitions, resolve entry, responses. Done; its invariants
   proved.
3. `CronScheduler` - timers, table, executions. Done; all its invariants proved.
4. `AtomicBatches`, `TxnManager` - the abstract promise of a transaction and the
   manager that implements it. Done; all its safety and the refinement proved.
5. `PgListener`, `WebSocket`, composed in `Realtime`. Done; all their invariants
   proved.
6. `ProjectDb` with `SchemaService`, `Timescale`, `Versioning`, `Backups`,
   `DataService`, composed in `ProjectData` - everything that changes one
   project's schema and rows. Done; its invariants and what it says of versions
   and rollbacks are proved, its other two action properties are model-checked.
7. `ControlBase` with `ApiTokens`, `Webhooks`, `UptimeMonitors`, `Analytics`,
   `AiStudio`, `Files`, `Quotas`, `PlayerSessions`, composed in `ControlPlane` -
   the life of a project and what belongs to it. Done; all its invariants
   proved.

Theorems still worth proving about what exists: `UniqueRuleExplained` and
`RestoreFaithful`. What is left of the code for further modules is listed in
section 8.

## 3. Modules

The map from each definition to the lines it stands for is `map` in
`PROJECT.json`. A definition whose comment begins with "Mutant" is a plausible
mistake in the definition that follows it; it is used by no specification.
Variables marked "history" in their declaration are not state of the program:
they record what a property has to refer to.

**DynamicApi.** A request is an HTTP request that reaches `handleDynamicApi`, or
the panel's route that tests an endpoint with an executor of its own. `pc` tells
at which await its handler is suspended. `SetMutationHook` overwrites the slot
of the executor; `Announce` is the continuation after a statement, which reads
the slot as it is then. Between them lie the statements of `executeTable`:
`Create`, `Update`, `ReadExisting` and `Delete` for a DELETE, and `BeginBatch`,
`InsertRow`, `MergeRow`, `SkipRow`, `CommitBatch`, `AbortBatch` for
`create_many`, whose rows live in `pending` (written and locked by an open
transaction) until COMMIT. `CustomSql` inserts rows with the sequence's
identifiers or with ones the SQL names, old ones among them; `named` records the
latter. `FailStatement` and `LoseResult` are an error of the database before and
after its effect. `since` records which projects replaced the hook while a
request was being served.

**EndpointCache.** The rows of one project, method and path (`db`), the resolve
entry and the response entries in Redis, requests (`req`) and the handlers that
change endpoints (`op`). Those of the panel drop the responses (PUT and DELETE),
then write, then clear the resolve entry; toggle, new version and bulk update
each have their own order, and every await is a step. Those in `Tools` serve the
AI gateway, which calls the same `BuilderService` and clears nothing
(`Written`); nor do `RestoreRows` and `DeleteProject`. `late` marks an entry
written by a request that read the table before a clear; `uncleared` tells that
a handler failed between its change and its clear, `untold` that somebody has
changed the rows who does not clear, and no clear has begun since. A bulk update
is one transaction and so one step. `FairSpec` adds the expiry of entries and
the progress of handlers that have begun.

**CronScheduler.** `tasks[s][j]` is the timer of job j in the map of service s,
as the revision of the row it captured. Handlers run the operations of
`cron.service.ts` through the routes' services; `Boot` runs `startAll`; the
control plane switches and purges projects through the main service. An
execution (`exec`, `runRow`) goes through `executeJob` statement by statement.
An HTTP action is a number of attempts (`left`); each waits for the headers of
the answer under a timer, which is cleared before the body is read (`ReadBody`).
`Restart` loses all timers and handlers and keeps both tables.

**AtomicBatches, TxnManager.** `AtomicBatches` says what the tools promise: the
writes of a batch become visible together or not at all. `TxnManager` has the
map (`entry`), the promise the transaction's body waits for (`signal`), the pool
(`held`), the transaction in the server (`pg`), and the statements. The
refinement maps a batch to `writes[t]`, its status to `pg[t]` and what is
visible to `table`. `answers` records what clients were told of each
transaction, also by a rollback of one that has ended, committed or not
(`RollbackEnded`).

**RealtimeBase, PgListener, WebSocket, Realtime.** `PgListener` keeps the client
field (`current`) apart from the clients (`conn`), so that a callback of one may
write over another, as in the code; `Connected` uses the field again after its
await. `WebSocket` counts the subscription objects of a socket in `channels` and
the route's set of names in `clientChannels`. `Realtime` composes the two: a
delivery and its broadcast are one synchronous step.

**ProjectDb, SchemaService, Timescale, Versioning, Backups, DataService,
composed in ProjectData.** `ProjectDb` is the database (`db`: tables with their
columns, key, unique index, trigger, TimescaleDB's facts and rows; foreign keys;
the worker's rows about tables) and runs requests: `jobs[j].todo` is the series
of statements a request has still to send, one step each, and between two of
them any other request may run one. A statement is refused when PostgreSQL would
refuse it or by a fault; `Soft` steps are those whose failure the code catches.
A row has an id and one value `v`, which may be null and may refer to another
table by a key with any rule of ON DELETE (NO ACTION is RESTRICT: no key is
deferred). The columns of `Base` may be dropped like others, and the key with
them. The other modules give each operation of the service its statements
(`CreateSteps` with or without key and trigger, `Change`, `Plan` of a rollback,
`ExportRows`, the restore's `TRANSACTION`, `CheckRecord`, `PartSteps` of a body
that leaves out a column of a rule) and their own state: `versions`, `archive`,
`rulesCache`, `colCache`. `met` notes what others changed while a request was at
work, which the properties need to excuse overlapping requests, and only those.
`Unsaved` names the columns whose record in a version PostgreSQL does not take
back: the type of an array reads ARRAY, and the default of a serial column is of
a sequence that went with it.

**ControlBase, ApiTokens, Webhooks, UptimeMonitors, Analytics, AiStudio, Files,
Quotas, PlayerSessions, composed in ControlPlane.** `ControlBase` has the
handlers that keep two stores in step: `req[h]` tells at which await a request
is, on which objects it works (`on`), and of which it is sure (`sure`) because
no conflicting request overlapped it. `doubt` holds the objects that a failure
or a conflict may have left different in their two stores; every property says
that objects outside it agree. `Conflicts` is the list of pairs of operations
that disturb each other, and so a statement about the code: a pair that is not
in it is claimed to be safe. Each component module has the statements of its
handlers as steps; a project's deletion in `ControlPlane` goes through all of
them in the order of `internal.routes.ts`. A restore of a backup replaces the
webhooks (`ReplaceHooks`), and with them their logs. `halted` records monitors
whose timer was stopped by a removal sent through another project
(`StopElsewhere`). `Restart` ends requests, timers, deliveries, flushes and
touches; `RedisLost` empties Redis.

The `MC` modules extend these for TLC with symmetry sets and values of
constants; the `_proofs` modules hold the theorems.

## 4. Runs and bounds

Passing runs check invariants and properties over all reachable states of the
instance; the others show a disagreement of section 7.

| run | what is asked | instance |
|---|---|---|
| `dynamic_api` | Are events misdirected only by an overlapping request? Does success mean that exactly the committed rows were announced? Do announced rows that do not exist come only from batches? Do deleted rows stay deleted? | 2 requests of any operation and executor, 2 projects, 3 rows, batches of 2 |
| `endpoint_cache` | Is the resolve entry behind the table only for one of four reasons? | 2 rows, 2 requests, 2 handlers of which 1 serves gateway tools, 2 operations, 2 revisions |
| `endpoint_cache_fresh` | Do all entries become and stay right once changes stop? | 1 request, 1 handler, 2 operations, 1 change of data |
| `cron` | Are timers without job and jobs without timer explained? Is a recorded success true? Do runs settle? | 3 services, 1 job, 2 handlers and the start-up code, 1 execution of 2 attempts, 2 operations, 1 restart |
| `txn` | Do statements and connections agree? Are transactions atomic batches? Do connections come back? | 3 transactions of which 1 may be rolled back after its end, 2 statements, a pool of 2 |
| `listener` | When are notifications doubled or reordered? Is stop final? Does it listen again? | 3 clients (an ended one stands for a new one), 2 projects, 2 notifications, 1 failure |
| `realtime` | Do counts and subscriptions follow the sockets? Is a socket sent only its project's changes, once each? | 2 clients, 2 sockets, 2 projects, 1 notification, 1 failure, quota 1 |
| `project_data` | Is a table without its key, trigger or policies only where a request asked for that, dropped it or was answered with an error? Are versions numbered and compared rightly, and does a rollback reach its version? Does a restore bring back what was archived? Do rows break a uniqueness rule only by a race or a body that leaves out a column? | 2 tables, 2 rows each, 2 requests, 1 fault, in 15 scenarios |
| `control_plane` | Do the two stores of tokens, projects, files, quotas and webhooks agree? Do monitors' timers? How often is an event delivered? Is a request counted once? Do conversations and sessions survive? | 2 handlers, in 12 scenarios |

The last two start from one of several scenarios (`MCProjectData`,
`MCControlPlane`), each with its first tables, the operations its clients ask
for and how many of them: components that share no state need not be multiplied.
Run `project_data`: tables and alterations (3 requests), creations with and
without key and trigger (2), foreign keys and indexes (2), TimescaleDB (3), keys
that come and go (3), versions of tables that change (4) and of tables that are
made again (3), columns of the key that come and go around a rollback, one of
them unsaved (3), streamed backups (4), these and exported documents (3), an
archive made while columns come and go (4), rules (3), bodies that leave out a
column (2), records (2), batches (2). Run `control_plane`, as requests/failures:
tokens 3/2, projects 3/1, monitors 3/1, the migration of webhooks 3/1,
deliveries 1/2, counters 4/1, plugins 3/1, conversations 3/1, files 3/1, quotas
4/1, players 4/1, and players of a project that is deleted 3/0; with 1 token, 2
webhooks, 1 event and 1 retry, 1 monitor, 2 paths of which one is too long for
its index, 2 flushes, 2 sessions, 2 files, 2 limits and 1 player. A failure is a
statement refused or lost, a stop of the worker, or a loss of Redis.

Why these are enough for what they ask. Each hazard needs the fewest actors that
the code lets meet: a misdirected event two requests of two projects; a stale
entry one reader between the write and the clear of one handler, and two
handlers for the toggles and the uniqueness race, or one that clears nothing; a
timer left behind two services; the races of a transaction one timer, one call
and one statement, with one transaction more than the pool has connections; a
second listener two clients and one failure (the report of the error and that of
the end are two steps); a leaked connection one socket more than the quota; a
torn table, version or restore two requests and one failure; two stores that
disagree two handlers, or one and a failure. The instances allow each of these
and one actor more where the number of states permits.

Bounds, all constants of the modules: `MaxBatch` (rows of a batch); in CustomSql
at most one row comes and one goes per call; `MaxRev`, `MaxVersion`, `MaxData`,
`MaxOps`, `MaxCrashes` (revisions, versions, changes, operations, restarts);
`MaxEvents`, `MaxFailures` (notifications, failures); `MaxRepeats`
(subscriptions to one channel); `calls` and `faults` of a scenario and
`MaxFaults` (requests, failures); `MaxRetries`, `BatchSize`, `RawLimit`,
`MaxKept`, `TokenLimit`, `SessionTtl`, `ActiveTicks` (small values of the code's
own limits); `Attempts` (of an HTTP action, at most ten in the code); `Late`
(the transactions that a client rolls back after their end, one suffices);
`Tools` and `Unsaved` (which handlers are the gateway's, which column is
serial); `RestoreHooks` restores backups of the new layout only.
`MaxConnections` and `MaxChannels` are limits of the code itself (100 and 50
there). The first is small here so that it is reached; the second is not reached
in `realtime`, where a socket has one table to subscribe to: a subscription
beyond it is refused and changes nothing. The theorems of section 6 depend on
none of these values.

Deadlock is checked in the runs of `DynamicApi` (where the end of all requests
is an explicit step) and of `EndpointCache`; it is not in the others, where the
modelled work is finite and the system rests when it is done.

`realtime` uses symmetry of clients and sockets, `dynamic_api` of projects,
requests and rows, `endpoint_cache` of rows, requests and the panel's handlers,
`project_data` of requests, `control_plane` of handlers, flushes and sessions;
no liveness property is checked under symmetry.

## 5. Fairness

- `endpoint_cache_fresh`: Redis drops a key when its TTL runs out (both entries
  are written with `EX`), and a handler that has begun runs on, since every
  await in it is a query or a Redis command that is answered or fails. Requests
  and operations need never arrive.
- `cron`: an execution that has begun goes on (`Execute`): its awaits are
  queries and the headers of an HTTP answer, under a time limit. The body of the
  answer is read without one (`cron.service.ts:385` clears the timer), so
  nothing is assumed of `ReadBody`, and `RunsSettle` says that a run may wait
  there for ever. Handlers, ticks and restarts are not fair.
- `txn`: the expiry timer fires, the pool answers or times out
  (`acquireConnectionTimeout`), the database answers a statement and the end of
  a transaction.
- `listener`: the reconnect timer fires, a connection attempt is answered,
  LISTEN takes effect, the end of a client that was ended is reported. Failures
  are bounded by `MaxFailures`: a connection that breaks for ever is not claimed
  to recover.

All are weak fairness; nothing is assumed of clients, administrators or peers.

## 6. Theorems

Proved with TLAPS for every value of the constants that satisfies the named
assumptions (`ConstantsAssumption`, `TxnAssumption`, `ListenerAssumption`,
`SocketAssumption`, `MessagesAssumption`, and those of the control plane below:
special values are not among the ordinary ones, bounds are natural numbers, sets
that are counted are finite, messages are numbered).

**DynamicApi_proofs.** `TypeCorrect`: `TypeInv` adds to `TypeOK` that a request
suspended in a phase has the operation that leads there and, if it is about to
announce, has a row. `EventsMisdirectedOnlyByOverlap`:
`MisdirectedOnlyByOverlap` is not inductive, since it says nothing of the hook
before an event is sent; `HookInv` says that while a request of the API is
served, the hook holds its own project or one recorded in `since`, and that the
panel's executor has none. `DeletionIsFinal`: `GoneInv` says that a row whose
DELETE has been executed or announced, and whose identifier no SQL has named, is
neither in the table nor in an open batch of its project; it is stable because
the sequence hands nothing out twice and rows of open batches are locked
(`StoreInv`). `SuccessIsAnnounced` and `PhantomsExplained` both follow from
`RecordInv`, which compares what a request has announced (`Said`) with what it
has committed (`Did`): nothing of either before its statement returns; a single
statement is committed and then announced; the rows of an open batch are
announced up to the one whose continuation is still to run (`Coming`), and
committed all at once. The proof needs `HookInv` too: a request of the API
always finds a project in the slot, so it never stays silent.

**Gateways_proofs.** Of `EndpointCache`: `StaleEntriesAreExplained`:
`ResolveInv` adds to `StaleResolveExplained` what a request holds between its
SELECT and its SET: either what the table still holds, or an overtaking clear
has marked it `late`, or a handler has still to clear (or has failed to), or
somebody who does not clear has changed the rows since the last clear
(`untold`). The proof has a step for each action of requests and of
administrators. `CacheTypeCorrect` is more than types: a bulk change writes all
its rows when it commits, and they are still rows only because nobody deletes
what an open transaction has locked (`HeldOK`).

Of `TxnManager`: `TypeCorrect`; `AnswersMatchSignals` from `LifeInv`, which ties
entry, signal, pool and server state together: over any number of calls, also
late ones, "committed" has been answered exactly when the signal was settled so,
and 'already-ended' only of a transaction that has ended for good;
`StatementsRunInside` from `WritesInv` (a statement that succeeded is among the
writes of its own transaction and of no other, and what is visible is what the
committed ones wrote); `NoConnectionIsLost` from `PoolInv` and cardinality of
finite sets; `TransactionsAreAtomicBatches`, the refinement: `StepRefines` shows
that each step is a step of `AtomicBatches` or a stutter.

**CronScheduler_proofs.** `TypeCorrect` from `TypeInv`, which adds what the
program counter of a handler and of an execution says about its other fields.
`RecordedSuccessIsTrue` from `RunInv`: only an execution that has performed its
action is about to record a success, or to read the body of a good answer.
`GhostTasksAreExplained` and `LostJobsAreExplained` from `TimerInv`, a statement
about one job at a time: as long as operations on it have not overlapped and
every change was told to a service, at most one operation touches it, and this
one carries what it has to establish (`OpFits`); unless one is about to apply a
row, the timer of the sole service in use is in step with the table (`Settled`);
and unless one is on its way, an active job has a timer or a recorded reason for
having none (`Served`). The two properties say nothing of operations under way,
so neither is inductive.

**Realtime_proofs.** About the listener: `NothingListensAfterStop` from
`AloneInv`: while no end was reported late, the field holds the only client that
is alive, and none is alive while the reconnect timer is armed or after stop.
`NoDuplicates` and `InCommitOrder` need the notifications on their way, which
`FlowInv` describes under the same condition. At most one client has any; they
are in ascending order, and each is still to be broadcast and later than
everything broadcast so far, except what has waited for the cache (`InboxInv`);
what waits is broadcast by one handler only, and not yet (`OnceInv`).
`ListenerTypes` is the type invariant. About the sockets and both together:
`SocketTypeCorrect`; `SubscriptionsFollowSockets` from `TrackedInv` (a socket is
more than once in a channel only if it repeated its subscription);
`CountFollowsSockets`, which is inductive with the types and uses cardinalities
of finite sets; `SocketsReceiveOwnProjectOnly` from `OwnInv` (the keys a socket
is under carry its own project) and `EventsOK` (every event under way has been
recorded). `SentAtMostOnce` composes the two sides: by `FlowInv` what is
broadcast has not been broadcast before, so that no socket has it; and one
broadcast reaches a socket twice only through two subscriptions to its table,
since none is to `project:<id>` (`SentInv`).

**The control plane.** `Stores_proofs`, `Sessions_proofs` and
`ControlPlane_proofs` build on each other and prove every invariant of
`ControlPlane`. The argument is the same for each component. Its requests are
those of its operations, on its objects (`TypedRequests`), and its invariant
says for each await of each of them how far it has come; a step of any other
component leaves its requests and the doubt about its objects alone (`Aside`,
one lemma per component), so that each component answers for its own steps, for
a project's deletion, for `Restart` and for `RedisLost` only. A request that is
sure of its object is alone with it but for those that do it no harm: this is
where `Conflicts` is used, and it is what the theorems show of that list.

The assumptions: the first state of a scenario is one the code can leave (rows
of webhooks are well formed and have their names in the new layout, files there
are known ones, the plugin is on, off or unknown, the project's row and schema
are there together, the limit is one of `Limits`), bounds are natural numbers,
positive for `MaxKept`, `ActiveTicks` and the limits, `Flushes` is finite, a
scenario with requests about monitors has the start-up that sets their timers
(`index.ts` runs it whenever the worker starts), and `NoReq` is no request.

**Stores_proofs.** `StoresStayInStep` states `StoresAgree`, from one theorem for
each store. `FilesStayTogether`: a file that is in one place only has an upload
about to insert its row, or a removal or deletion that has unlinked it
(`FileKept`); an upload sure of its file is alone with it (`UploadOK`).
`LayoutMovesAsAWhole`: one request at a time moves the layout, and names are
filled in before the old column goes (`LayoutKept`). `QuotaIsFollowed`: what a
request or the background refresh has been answered is the control plane's
limit, unless a notice has come since it asked or is still to come (`Asked`);
nothing held anywhere is above the highest limit; and what a request waits for
is a fetch under way (`QuotaInv`). `ProjectIsAsTold`: by the await of a
creation, a switch or a deletion, which of row, schema and flag are new already
(`ProjectInv`). `TokensAreAsTold`: by the await of a synchronisation, a
revocation or a deletion, which of key and row are new; and for the restore
after a start, which works through the rows it has listed, that each listed row
is what the control plane was told unless a row is missing, that a key about to
be set is, and that a token it has passed has its key (`RestoreOK`).

**Sessions_proofs.** `SessionsAreExplained` states `SessionsExplained`.
`StudioIsAsLeft`: one request at a time switches the plugin, a disabling and a
deletion may meet, and the await says which tables are there (`PluginOK`); a
call that is about to save, its session not in doubt, has found what is still
there, so that what it writes is one exchange more (`TalksOK`).
`PlayersStaySignedIn`: keys of sessions are new each time (`KeysSeen`); a row
whose key is in Redis, or on its way there, has been touched as recently as the
key is old (`ActiveKept`); so the session a player was last given is in the
player's only row unless it has been idle for its time (`Fresh`, `One`).

**ControlPlane_proofs.** `DeliveriesAreExplained` states `DeliveryExplained`,
for any number of webhooks, events and retries. `DeliveryInv` adds what is true
between the steps: by its stage, how many answers a delivery has had
(`StageOK`), that all but the last were final only with an excuse that stays
(`RepeatOK`), and which attempts are logged (`NotedOK`); that a webhook which is
neither there nor gone has no deliveries (`NewHooksOK`), so that a row that
appears owes no log; and that an event has none before its lookup (`EventsOK`).

`MonitorsAreExplained` states `MonitorExplained`, for any number of monitors.
`MonInv` says what is true while requests are at work. A request is trusted with
a monitor (`Trusted`) when no conflicting one has come across it, or the monitor
is not in doubt; then the others at work on it are of the kinds in `Together`,
which is what `Conflicts` leaves (`Apart`, `ConflictTable`), and what it has
done so far is as it left it (`Doing`). A monitor without doubt has the timer
its row asks for unless somebody is about to set or has stopped it, and the
start-up has found the row as it is, or none that a request is still adding; or
it has none, because a removal sent through another project stopped it
(`halted`) (`Settled`). `Never` says that nobody has found a monitor that was
never added.

`RequestsAreCounted` states `FlushExplained`, for any number of paths and of
flushes at once, so that what is in flight is a sum over a set. The sums of the
community modules are folds, defined by recursion: that they do not depend on
what is chosen first, and change by what one element changes, is shown by taking
a set of least size for which it fails (`FiniteLeast`, `SumsAgree`). `StatsInv`
says that a buffer lists the paths it counts, once each (`Lists`), that stored,
buffered and in flight together are no more than was answered (`Accounts`), and
that a flush about to trim has found a cut that leaves the raw log small enough
as long as no other has written since (`TrimFinds`).

`ControlTypeCorrect` states `ControlTypeOK` and combines all these invariants
with two of its own: what is no object is on no request and never in doubt
(`ObjectsKnown`), and a limit that a request, the refresh or Redis holds is one
of the control plane's or none (`LimitsHeld`).

**ProjectData_proofs.** `ProjectTyped` states `DbTypeOK`, for any tables,
records, requests and number of faults. A request is a series of steps of any
length that the sequence operators build, so the proof goes in three layers. A
statement takes a typed database to a typed one, whether it succeeds, fails or
is refused (`SingleOK`); a transaction is a run of them, and the run of typed
statements is typed at every point of it. Each kind of step has the form it
needs and finds the table, version or backup that it names (`StepOK`), and this
stays so while other requests change the database under it, because tables that
are dropped stay known, versions are only added and a backup does not change
(`Fine`). Last, a request has such steps left and what it has read (a schema, a
version's number, rows, links and rules) has the type the later steps take it
for (`JobOK`, `SeenOK`). `TypeInv` is the conjunction; `DbTypeOK` alone is not
inductive, for it says nothing of the steps.

`WholeExplained` states `TableWholeExplained`. What a table may lack is a hole
(`Hole`): its key, its trigger, the policy of its compression, the refresh of
its aggregate. It names the operations that may leave a hole although they
succeed: creations without a key or trigger, the dropping of the key, of its
constraint or of its column, removals of policies, rollbacks and restores.
`SingleHole` reads off the statements which of them open a hole (`Opens`) and
which fill one (`Fills`); `AfterHole` carries this to transactions, where one
that changes a policy first takes it away (`Harmless`). The property says
nothing while a request works on the table, so it is not inductive: `TableInv`
adds that a hole is then explained by the request that is at work, either
because its operation may leave such a hole behind even when it succeeds
(`Ops`), or because what fills the hole is still among its steps (`Closing`) and
an error before that is one of the errors the property names (`Errs`). For this
the steps left have to suit the operation (`SuitSteps`): they open only holes it
answers for, and what opens one is followed by what fills it (`Owed`), also when
that is a read which has yet to find the key. `GoHole` and `RefuseHole` reduce a
step of any request to this, and the rest goes operation by operation; the steps
that have nothing to do with holes are `Light`.

`VersionsAreExplained` and `RollbackIsExplained` state two action properties of
requests that read in one statement and act on it in a later one. Both
invariants say what such a request knows between two of its statements.
`Gathering`: the columns it has read and the tables it has still to read are
those of the database, as long as nobody changed the schema since it began
(`Snap`; a request is told of the others' changes in `met`). `CaptureInv` adds
that the number a capture has read is the greatest, as long as nobody inserted a
version, and is that of the version it will be compared with (`Numbered`);
`DiffIs` says that what `computeDiff` finds leads from the one schema to the
other. `RollbackInv` adds that the statements of the plan that are left are all
that is missing (`Back`): each table and column that differs from the version's
has its statement among them, unless it is a required column and the table has
rows, or a column whose record PostgreSQL does not take back (`Unsaved`; such a
statement is always refused, `RecordedRefused`, and a table with such a column
is not made: then the rollback answers an error). `PlanBack` shows this of the
plan when it is made, `BackExecuted` and `BackPassed` of a statement that is
done or passed over, and `BackKeeps` of what other requests do to the rows. The
property is `BackDone`, with no statement left.

Model-checked only: the liveness properties (`EventuallyFresh`, `RunsSettle`,
`ConnectionsReturn`, `ListensAgain`), which are outside what the prover handles,
and the action properties `RestoreFaithful` and `UniqueRuleExplained`. These two
are within its reach: `ProjectData_proofs` has the lemmas about statements and
series of steps that they need.

## 7. Disagreements between the code and what is said of it

Each is a run that TLC finds violated; `findings` in `PROJECT.json` quotes the
line that says otherwise.

- `dynamic_api_events`: two requests of different projects that overlap send the
  events of one to the other's channels and webhooks, because the hook of the
  shared executor is replaced in between.
- `cron_paused`: pausing a job stops the timer of the service that was called;
  the timer that another service started at boot goes on.
- `realtime_project_channel`: subscribers of `project:<slug>` are put on a
  channel that nothing is broadcast to.

Others are part of what a passing run allows, and show in the excuses its
property makes:

- Clearing the resolve entry does not give "instant fan-out"
  (`builder.routes.ts:22`): a request that read the table before may store the
  old rows afterwards, for the ten seconds of the TTL (`late` in
  `StaleResolveExplained`).
- Nor do all that change endpoints clear it (`builder.routes.ts:23`, "every
  mutation handler also calls clearEndpointResolveCache"): the gateway's tools
  (`ai-gateway.service.ts:1383`), a restore and the deletion of the project do
  not (`untold` there).
- `{committed: true}` is answered before COMMIT is sent, and COMMIT may roll
  back (`txn-manager.ts:92`). A rollback of a transaction that has ended is
  answered `rolled_back: true` even if it was committed (`txn-manager.ts:98`,
  `already_ended` in `AnswerIsTheSignal`).
- `timeout_ms` does not bound an HTTP job: its timer is cleared before the body
  is read (`cron.service.ts:385`), and a peer that stalls there leaves the run
  "running" (`Reading` in `RunsSettle`).
- A removal of a monitor stops its timer before the row is looked for in the
  project of the request (`uptime-ping.routes.ts:233`): sent through another
  project it answers 204, the row stays active and nothing checks it (`halted`
  in `MonitorExplained`).
- "4xx never retries" (`ai-gateway.service.ts:1023`), and neither does what was
  delivered, but when the log of the attempt cannot be written the dispatcher
  takes that for a failure to send (`dispatcher.ts:47`, 53) and sends again,
  whatever the answer was (`SentAgainUnlogged` in `DeliveryExplained`).
- "turn off without deleting settings/data" (`ai-gateway.service.ts:986`): the
  settings stay, but disabling the AI studio, by the panel or by
  `disable_plugin`, drops its tables with all endpoints, logs and conversations
  (`plugin.manager.ts:273`). `StudioTablesKept` states it, and
  `ConversationsKept` speaks of conversations since the tables were last made.
- A rollback to a version answers success without columns that it could not add:
  arrays, whose type is recorded as ARRAY, and columns whose default is of a
  sequence that is gone (`versioning.service.ts:137`; `Unsaved` in
  `RollbackExplained`); a table with such a column is refused with an error.
- PUT and POST check a `unique_combo` rule against the body alone
  (`validation.service.ts:134`): a body that leaves out a column of the rule
  passes without a race, and with what is stored, or its default, breaks the
  rule (`Partial` in `UniqueRuleExplained`).
- A restore of a document into tables that a key with ON DELETE CASCADE or SET
  NULL refers to, made since the archive, empties or nulls rows it has just
  filled, and answers success (`backup-export.routes.ts:615`; the condition on
  `rule` in `RestoreFaithful`).
- Two captures at once take the same version number (`met` in
  `VersionsExplained`); two writes at once pass a uniqueness rule
  (`UniqueRuleExplained`).
- An export that is cut off half way is restored and committed like a complete
  one.
- `invalidateProjectCache` (`node-auth.middleware.ts:59`) is called by nobody,
  so that requests of a deleted project are let in for up to five minutes.
- Monitors and their timers survive the deletion of their project, and no route
  can remove them afterwards.
- `max_tokens_per_session` is compared before the provider is asked, so calls of
  one session that overlap pass it together (`ai-studio.service.ts`).
- With `session_ttl_minutes` of five or less, a session in constant use expires,
  because its touches are suppressed for five minutes (`builder.routes.ts:574`).

## 8. What is left out, and why

- Inside the components of plan items 1 to 5: what a row, a response or an event
  holds; a PUT that moves an endpoint to another path or version, and the
  response cache of endpoints with player sessions (their cache keys differ
  between reading and writing, which is a question about the data of the key;
  listed as a hazard); the rate limit of WebSocket messages (a refused message
  changes nothing); sockets that ask for an unknown project; the listener's
  statistics and its calls of webhooks.
- `ProjectData`: renaming and retyping columns, materialized views, computed
  columns, the switching of triggers; chunks, refreshes and jobs of TimescaleDB;
  the quota checks before a creation or an import; writes that are acknowledged
  and lost; validation rules other than `unique_combo`; the hourly clean-up of
  `schema_versions`; ON UPDATE (no operation here changes an id); a NOT NULL
  that a dropped key leaves on the column v; foreign keys dropped by
  `drop_constraint` (they go by `unlink`, the same statement); a column of a
  table's key whose default gives new ids when it is added again, which no
  statement can see. A hard delete instead of a soft one, when the cached
  columns are old, is in the model and no property is about it.
- `ControlPlane`: the restore of webhooks from a backup made before the layout
  changed; the migration of `uptime_logs`, a change of a webhook's tables, the
  order of events between retries (listed as a hazard), the results of checks,
  the quotas of records and storage, the clean-up of `webhook_logs`. The
  concurrency guard (`quota-enforcement.middleware.ts`) is registered before
  authentication, so that it finds no quota and never refuses: there is nothing
  to check. Of player sessions: whether the provider accepts the player (both
  answers are possible; a refusal changes nothing), lists and statistics, a
  time-out of zero. A tick is taken to be longer than a command on its way to
  Redis or the database.
- Components not modelled are listed in `PROJECT.json` with the reason:
  statement builders, formatters, proxies and single-statement CRUD without
  state or interleaving of their own.
- The text analysis of the SQL guard and the evaluation of cron expressions,
  other validation rules and templates are functions of their input; where a
  component asks them, either answer is possible.

## 9. Running

    tlc -workers 2 -config dynamic_api.cfg MCDynamicApi.tla
    tlapm Gateways_proofs.tla

Each `.cfg` belongs to the module named with it under `runs` in `PROJECT.json`.
`control_plane` has about 840,000 distinct states and takes about a minute with
two workers, `project_data` about 1,870,000 in two; `dynamic_api` has 9,370,000
and takes about three.
