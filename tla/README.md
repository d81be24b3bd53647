# funding-bot in TLA+

A verification project for the funding bot: TLA+ modules that model its core
subsystems, TLC configurations that check them on small instances, and proofs
that TLAPS checks for every value of the constants.

- `tlc -config X.cfg M` checks a run; `PROJECT.json` lists the runs with their
  module and configuration.
- `tlapm M.tla` checks the proofs of one of the eight `*Proofs` modules.
- `PROJECT.json` also maps each definition to the source lines it models, lists
  the hazards with the properties that watch over them, and gives for each
  checked property a mutant of the model that breaks it.

## 1. Inventory

The program is a Flask dashboard (`web/app.py`), a command line and Celery
workers (`task_queue.py`), all of them around one class, `FundingBot` in
`funding_bot.py`, and one SQLite file. Each process, and each web request, has a
`FundingBot` and a connection of its own. Nothing is shared between processes
but the database file, the broker and the optional Redis cache; so what
interleaves is SQL statements, commits and cache calls, and within one process
coroutines at their awaits. `_db_lock` is per bot and orders only the coroutines
of one process.

| Component | State | Operations | Hard behaviour | Correctness | Modules |
|---|---|---|---|---|---|
| Queue task runner | `task_runs`, `task_history`, `dead_letter_queue`, the shutdown event of a worker | `execute_queue_task`, `record_task_run`, `request_task_run_shutdown`, `QueueTaskContext` | duplicate requests, retries, signals, kills between two commits | each final row is backed by history; a dead letter is explained by a whole run; workers return | `QueueTask`, abstract `QueueContract`, `QueueTaskProofs` |
| Queue dispatch and schedule | `beat_schedule`, idempotency keys | `dispatch_discovery`, `dispatch_export`, Celery beat | daily occurrences share a key | every occurrence runs | `BeatSchedule` |
| Portal connectors: calls | metrics, circuit breaker, token bucket, TTL cache | `fetch_result_async`, `check_health`, `invalidate_cache` | concurrent calls, late answers, retries | the counters add up; breaker and quota hold; a call is answered | `Connector`, `ConnectorProofs` |
| Portal connectors: searches | rows, pages, keywords, cached answers | `search` and `search_async` of the API, Grants, NGO, CSR and HTML connectors | the service changes between pages, fails on a later one, answers oddly | a remote answer is whole; links are unique; a fetch ends | `PortalFetch`, `ConnectorProofs` |
| Discovery | `connector_result_cache`, `opportunities` | `submit_many`, `run_discovery_async`, `deduplicate_async` | concurrent runs, partial failure, the write lock held across awaits, commits of progress and of a shutdown signal | an INSERT collides only after a signal's commit; nothing found is lost; no connector drops out; it ends | `Discovery`, `DiscoveryProofs` |
| Donors and outreach | `donors`, `consent_records`, `communications` | `upsert_donor`, `record_consent`, `set_donor_opt_out`, `gdpr_delete`, `send_outreach` | multi-commit operations of several processes, erasure in between | requests stick; mail has a consent on file; weekly throttle | `DonorOutreach`, `OutreachProofs` |
| Applications | `applications`, `opportunities.status`, `submission_attempts`, the portal | `submit_application`, `..._via_browser`, `update_...`, `poll_...` | external call between two looks at the table, retries | both tables agree; a submission that called the portal is recorded; decisions stand | `Applications`, `RetentionProofs` |
| Data retention | the archive, the aged tables, document files | `enforce_data_retention`, `ArchiveManager`, `generate_document`, engagement events | six SELECTs, the archive file, one transaction and the unlinks, among everybody else's steps; files named after the second | what is deleted is archived as it was selected; a listed document has its file | `Retention` (extends `Applications`), `RetentionProofs` |
| Task board | `tasks`, `task_comments`, read marks, `task_notifications`, `audit_logs` | `create_task`, `transition_task_status`, `update_task`, `update_task_assignment`, `sync_tasks`, `import_tasks_from_csv`, comments | read-validate-write, one transaction per batch, mail before its record, read marks | batches are whole; the log tells the state; notices to one address are spaced; what was not shown is unread | `TaskBoard`, `TaskBoardProofs` |
| Cache manager | values, tag and scope indexes | `get`, `set`, `invalidate`, `invalidate_tags`, `clear`, `stats`, and the readers and writers of donors and profile | value and indexes written apart, fills that straddle a write, errors swallowed | what is cached keeps up with the table; an invalidation reaches it | `RecordCache`, `CacheProofs` |
| Schema start-up | the schema, `schema_migrations` | `_create_schema`, `_apply_migrations`, `_ensure_tasks_schema`, `ensure_slo_schema` | several processes start at once, a kill between two DDL statements | what is recorded was done; a process that is up finds everything; all come up | `SchemaStartup`, `SchemaProofs` |
| Web dashboard and authentication, database layer, credentials, compliance, reviews, documents and matching, analytics, backups, warehouse export, observability, CLI, deployment | | | | | not modelled, see section 7 |

### Interactions

The web routes and the CLI call `FundingBot` directly or enqueue a Celery task;
a task body runs inside `execute_queue_task`, which gives it a
`QueueTaskContext` for progress and shutdown checks. The task of discovery runs
`run_discovery_async`, whose progress updates go through that context and
**commit on the connection on which deduplication has its transaction open**;
the handler of a shutdown signal (`request_task_run_shutdown`) commits on it too,
at whatever await the run is in. `Discovery` has the constant `FromQueue` for
both. Discovery calls the
connectors through `ConnectorBatchScheduler` and makes opportunities, which
`Applications` submits and `Retention` deletes. Outreach is called by the panel
and by a queue task, both of which may first upsert the donor; every writer of a
donor invalidates the cache after its commit. Every process runs `SchemaStartup`
before anything else.

## 2. Modules and their correspondence to the code

Common to all: the unit of atomicity is SQLite's. A statement that reads is a
step, a statement that writes is a step together with the commit after it, and
a caller with uncommitted writes holds the write lock. An external call (portal,
SMTP, HTTP, Redis) is a step. `Crash` is a killed process: its transaction rolls
back and its local state is gone; giving up after `busy_timeout` has the same
effect. Names starting with `Max` bound the instance and are no part of the
program. Definitions marked *ghost* only observe.

- **QueueTask**: `row`, `history`, `dlq` are the three tables; `pc`, `seen`,
  `base`, `attempt`, `outcome`, `event`, `pending` are the locals of
  `execute_queue_task` and the controller in one worker; `queue` is the broker.
  Actions follow the function: `Lookup`, `PreventDuplicate` or
  `InstallController`, `RecordStart`, `BeginAttempt`, the checkpoints around
  `Work`, `RecordHistory`, `RecordOutcome`, then `Wake`, `DeadLetter` or
  `Finish`. `Upsert` is the `INSERT ... ON CONFLICT` of `record_task_run`, with
  its columns from the SELECT before it (`ReadExisting`). A signal runs between
  any two steps. Celery acknowledges a request before it is run (its default,
  which `create_celery_app` leaves), so a killed worker loses it. The repeated
  progress writes of discovery are one write.
- **QueueContract**: per key one run begins its work, an ended run stays as it
  ended, a dead letter traces a failed run. `QueueTask` with one worker
  implements it (`ContractSpec`, phase <- status, runs <- `ran`,
  deadLetters <- `dlq`); with two it does not (section 6).
- **BeatSchedule** extends QueueTask with beat's days and the users' dispatches;
  a key is the pair of task name and payload, as `generate_idempotency_key`
  hashes it.
- **Connector**: `conn` is the attributes and metrics of one
  `_BasePortalConnector`, `req` the coroutines in `fetch_result_async`. Between
  awaits a coroutine is one step (`Begin`, `MorePages`, `LastPage`,
  `Malformed`, `TransientFailure`, `FinalFailure`, `Retry`). `config` is chosen
  once: with or without per-call throttling, burst, refill, retries, threshold.
  With an injected client a throttled call sleeps in the event loop, so it moves
  `now`; without one it sleeps in a worker thread, which blocks no other call and
  is not modelled apart.
- **PortalFetch**: one call of one kind of connector, sync or async: which
  keywords it searches (`TermLimit`, expansion), the request it makes, the pages
  it follows, the rows it keeps after parsing, filtering and removing duplicates,
  and what it caches. The service is external; its catalogue changes between the
  requests for two pages. A page is a set of places of the catalogue, those that
  rank between two bounds among the places a search finds. `Connector` is the
  breaker and the bucket around it; the names of the two modules are apart, so
  that one module can prove about both.
- **Discovery**: a connector's result is the version of its upstream data, 0 for
  the built-in demo data. `Fetch` follows the batches, `StoreRemote`,
  `LoadCached`, `UpgradeRow`, `FallBackAtOnce` and `StoreFallback` the four
  values of `PORTAL_FALLBACK_MODE`. Deduplication is three steps for a
  candidate, `Look` (the write lock and the SELECT), `Insert` or `Collide`
  (IntegrityError), and `Commit` at the end of its session; `Signal` commits
  between `Look` and `Insert`, where alone it matters: elsewhere the run holds
  no answer of a SELECT and the progress callback has just committed. Scores,
  filters by keyword and funnel rows are left out.
- **DonorOutreach**: `donors` and `consent` are the rows and the latest consent
  per channel, `op` the running operation of each process with what it read.
  Foreign keys are on: erasing a donor renames its row, and consent for a row
  that is gone fails (`InsertFails`).
- **Applications**: `opps`, `apps`, `attempts` are the tables, `portal` counts
  what the donor's portal accepted.
- **Retention** extends Applications with mail and its events, done tasks,
  documents and their files, and runs of `enforce_data_retention`. `Enforce` takes
  the run's date; `SelectMails`, `SelectDocs`, `SelectAttempts`, `SelectTasks`,
  `SelectOpps` and `SelectEvents` read table by table, of a document its id and
  path only; `Write` makes the archive file named after the second, over one of
  the same second; `Delete` is the transaction and `DeleteFails` its rollback, by
  the foreign key or a failed archive; `Unlink` removes file by file. Dates are
  told apart by ticks, of which a second has several. The COUNT of events feeds
  only the report and is left out.
- **TaskBoard**: `db` is the committed database, `draft` the view of the
  transaction that holds `lock`; `op` the running request of each web worker.
  Comments and the marks up to which each reader has read them are part of `db`,
  as is when each of the `Recipients` was last sent a notice of a task. `Reread`
  is the `get_task` after a write, whose row the log tells. A batch's items name
  a task by id or by external_id, or name none. `Unique` is the constraint on
  external_id, whose IntegrityError fails a batch; only a tasks table created
  with the column has it, since `_ensure_column` (`funding_bot.py:5574`) adds
  the column to an older one without it. The ghost `spoilt` marks the tasks on
  which two operations have met.
- **RecordCache**: `row` is the table, `cached` and `index` the backend, `op`
  what each caller is doing. Each backend call is a step and may raise; `Fault`
  is the `except` around it, `Restart` the loss of the memory backend. `suspect`
  is a ghost that marks the entries of section 6 which the code cannot keep
  current.
- **SchemaStartup**: `schema` is a set of names of tables, columns and indexes,
  `recorded` the rows of `schema_migrations`. Each DDL statement is a step.
  The script's own indexes are left out: none is on a column that a later release
  added. The class defines `_apply_migrations` and `_ensure_tasks_schema` more than
  once; the last definition is modelled.
- `MC*` modules give constants values that a `.cfg` cannot write.

## 3. Runs, bounds and what they show

| Run | Instance | Shows |
|---|---|---|
| `queue_concurrent` | 2 workers, 1 key, 1 retry, 3 requests, 1 signal, 1 kill | history, rows and dead letters agree under every interleaving; workers return |
| `queue_serial` | 1 worker, 2 keys, 1 retry, 2 requests per key, 2 signals, 1 kill | the contract is implemented; the duplicate counter is exact; no run is left behind without a kill |
| `beat_daily` | 1 worker, 3 entries, 2 days | violation: section 6 |
| `connector` | 3 calls, 4 settings, TTL 1, 2 ticks | ledger, breaker, quota, answers |
| `portal_fetch` | 4 rows, 3 words, pages of 1 (2 at the server), 2 terms, 1 retry, 1 change upstream, 2 fetches, every kind, sync and async | remote answers are whole, links unique, fetches end |
| `discovery` | 2 runs (one from the queue), 3 positions of 2 connectors, 2 modes, an old-schema row, an untrusted source, 1 signal, 1 kill | an INSERT fails only after a signal's commit, completeness, fallback, termination |
| `tasks` | 2 interchangeable web workers, 2 tasks, 2 addresses, one good batch (by id and by external_id), one bad, one with an item without external_id, an empty board and one with a comment, 3 requests, 2 ticks, 1 kill | whole batches, faithful log, transition chain, notice rate, unread comments |
| `outreach` | 2 processes, 1 donor, 2 channels, week of 2 ticks, 3 ticks, 3 operations, 1 kill | requests stick, consent on file, throttle |
| `outreach_optout` | the same with 2 operations | violation: section 6 |
| `applications` | 2 processes, 1 opportunity found up to twice, 1 mail, 1 task, 2 documents, 2 retries, 3 ticks, 2 to a second, 3 operations, 1 kill; callers and documents interchangeable | tables agree, portal calls recorded, decisions stand, archive before delete, documents have files |
| `record_cache` | 2 interchangeable callers, 2 spellings of an address, 1 list, the profile, 4 operations, 3 writes, 1 fault, kill or restart | the cache keeps up, indexes reach the entries |
| `schema_startup` | 2 processes, a new, an older and an old-shape database, 1 kill | recorded is done, ready is complete, the old table is never renamed, all come up |

Why the bounds are enough. Every property is about one key, donor, opportunity,
entry or task, and rows of different keys never meet except through the write
lock; two of them are taken where the lock, a scan over the table or a shared
cache key matters (`queue_serial`, `tasks`, `record_cache`). Two processes give
every pairwise interleaving, and the third operation or request is the one that
comes after a race, so a leftover has someone to be seen by. One retry
distinguishes first, retried and final attempts. One kill at any step is
followed by a live process. The clock reaches at least each time limit. Symmetry
is used only over interchangeable callers and documents, and in no run with
liveness. Deadlock checking is off everywhere, since requests, time and crashes
are bounded and an instance may really be finished; what must go on is stated as
liveness. For the runs with proofs of all their safety properties, section 5
lifts the bounds.

Several properties set apart what the code does not promise: operations that
overlap on the same row (`RequestsStick`, `ThrottleHolds`, `OnlyNewIsSubmitted`,
`TransitionsFormAChain`, `AuditFollowsTasks`, `NoticesAreSpaced`), catalogues
that lose a row and replies that hold no page (`RemoteAnswersAreWhole`),
comments written between a list and its mark (`UnreadUntilShown`), INSERTs after
a signal's commit (`CollisionsNeedASignal`), suspect entries (`CacheKeepsUp`,
`IndexesReachEntries`). `DeletedIsArchived` sets three apart: events recorded
after their SELECT, an opportunity deleted and found again between a run's
SELECT and its DELETE, and a run whose file another of the same second replaced.
Each exception is a ghost that the actions set exactly where the code lets go,
and section 6 lists what happens there.

## 4. Fairness

Only where a run checks liveness. `QueueTask`: weak fairness of each worker's
step (a live Celery process goes on; a writer polls for the lock). `Connector`:
weak fairness of each call (the event loop runs what is ready, HTTP clients
time out) and of the clock. `PortalFetch`: weak fairness of the service's
answer, a failure being one, or the retry. `Discovery`: weak fairness of each
run. `SchemaStartup`: weak fairness of each process's next step, the supervisor's
new start included. Nothing is assumed of signals, crashes, new requests or
upstream data. `RequestsAnswered` and `FetchesEnd` rely on the service
announcing finitely many pages: the code's loop has no bound of its own.

## 5. Proofs

Every safety property of the passing runs, invariant or action property, is
proved for every value of the constants. Assumptions are the named `ASSUME`s of
the modules, which TLC evaluates in every run.

**QueueTaskProofs** (any workers, keys, retry limit and bounds).
`TypeCorrect` is proved from `IndType`, the type invariant with what ties
`attempt` to the retry limit while a retry is pending (`AttemptInv`): without it
`Wake` would leave the range of attempts. `FinalRowsAreBacked` and
`DeadLettersAreExplained` come from `RunInv`. The two properties are not
inductive: between `RecordHistory` and `RecordOutcome` the evidence is in the
worker's own transaction, so `WorkerInv` says for each place in the code which
history rows of the current run are committed or pending. The lemma
`OthersKeep` shows that a worker's part survives any step that leaves its
locals alone and only adds history, so each action's case is about one worker.
`HistoriesAreRuns` adds `HistInv`, the attempts of a run among the committed
rows and its own pending ones.

Its second part is about one worker, with any keys, signals and crashes. `SerialInv`
says that what the worker has read is still in the table (`Settled`), that no
run is lost while nothing has crashed (`NoneLost`), and where the request in
hand stands in the count (`Hand`). From it: `DuplicatesAreCounted`,
`NothingStaysBehind`, and `OneWorkerImplementsContract`, the refinement: the
initial states of `QueueTask` are those of `QueueContract` under the mapping and
each step is one of its steps or a stutter.

**DiscoveryProofs** (any connectors, order, batch size, modes, runs).
`TypeCorrect`; `CollisionsFollowSignals` and `FoundIsStored` from `StoreInv`,
which has three parts. `Exclusive`: a row of an open transaction is in no other
one and not in the table. `InHand`, between SELECT and INSERT: a signature that
was found is still there, and one that was missing stays missing while the run
holds the write lock, which only a signal takes from it. `Found`: the candidates
a run has gone through are in the table or in its own open transaction. It holds
because no step removes an opportunity. The assumption `"free" \notin Runs`
keeps the lock's free value apart from a run. `NoneDropsOut` and `RemoteIsLive`
need `ResultInv`: what each run has counted of its batch (`Counted`) and that a
version in hand or in the table was published upstream (`Published`).

**ConnectorProofs** (any requests, settings, TTL). The invariant `Local` is
stated of the attributes alone, with the number of calls in flight and begun as
parameters: one lemma per function of the attributes carries it over, and the
lemmas of the actions chain them as the code does. From it `LedgerBalances`,
`QuotaHolds`, `CircuitIsConsistent` and the action property `BreakerKeepsOut`.

Its second part is about PortalFetch (any setups, catalogues, page sizes, terms,
retries and changes upstream). `RemoteIsWhole` speaks of results alone; what
makes it hold while pages are fetched is `AllAwaited`: each row that was listed
when the call began is still listed, has a copy if an earlier term finds it, and
if the present term finds it either has a copy or ranks behind the pages already
read. A row that the service lists meanwhile pushes others back and never ahead
(`ListingKeeps`, an injection between the places up to a row before and after),
reading a page leaves a copy of each of its rows or of one with its link
(`PageCovers`, by the first such place), and a search ends after a page only
when nothing is behind it (`NothingBehind`: in each announcing style; an empty
page of the NGO search by `RankReached`, since ranks have no gap). The lemma
`First`, that a bounded set of numbers has a least one, is proved from the
well-foundedness of the subsets of a finite set. `LinksStayUnique` needs only
that the copies of the running call and the cached results have one link each.

**OutreachProofs** (any callers, donors, channels, throttle). The core is the
types, what each operation is doing (`OpOK`), which operations overlap (`Apart`)
and what one that nothing overlaps may rely on (`View`); on it rest
`TypeCorrect`, and `MailHasConsent`, `RequestsStand` and `ThrottleKept`, each
with its own last strengthening.

**RetentionProofs** (any rows, statuses, policy, retries). The same core for
Applications and Retention together. `Filed`: a listed document, or one being
drawn, has its file, and the files a run is to unlink are of documents that are
gone (`Doomed`). `Kept`: a run that is past the SELECT of a table has read each
row of it that it will delete (`KeptBy`, table by table). `Written`: between
`Write` and `Delete` the archive file holds what the run has read, unless another
run of that second has replaced it. Seven theorems: `CallsAreRecorded` is about
`PortalCallsAreRecorded`, two others are about action properties of Applications
and one about what is archived, and one is about the types of what a retention
run handles.

**CacheProofs** (any callers, addresses, spellings, lists). Call an entry good
when it is held and not suspect. Only `Set` makes an entry good, and only when
nobody tidies and what it read is current; so what a sweep, a clear or a prune
has learnt of the good entries stays true until it is through (`Knows`). An
index that misses a good entry is still to be written by the caller that stored
it (`Reached`), nobody indexes a good entry while another tidies
(`NoneIndexed`), and a row newer than a good entry belongs to an update that is
still to reach it (`Fresh`). `OpStep` says what any other step must respect, the
lemma `Keeps` that this is enough, and one lemma per action that it does. The
assumption `CacheAssumption` keeps the names of addresses, lists and profile
apart, as the code's key formats and regions do.

**TaskBoardProofs** (any callers, tasks, batches, comments and bounds).
`BatchesStayWhole` speaks of the committed database alone and is not inductive:
`IInv` adds `Transaction`, what the open transaction holds in its draft. All rows
of the log but its own batch's are explained there, no two tasks share an
external_id, and the draft extends a database nobody else writes to while the
lock is held (`Longer`, `SameComments`). `UnshownStaysUnread` needs `CommentOp`:
between a list and its mark all comments of the task have been shown to the
reader, those that came meanwhile by the ghost. `StepKeeps` names what a step of
one caller owes (`OwnStep`) and leaves alone (`OthersKeep`); each action has a
lemma of its own.

The other three are about tasks that are not `spoilt`. They rest on
`OverlapInv`: operations that meet on a task have spoilt it, so what one of them
has read of a task that is not stays so while it runs. `NoticesSpaced` adds
`NoticeInv`, what an operation knows of the notices to its address between its
check and its record, and `RestInv`: a batch's draft has the notices, comments
and removals of the database. `AuditFollows` and `TransitionsChain` come from
`AuditInv`. An operation writes the task first and the log rows after, one by
one; so the log tells all of a task (`Sound`) only while no operation is amid
writing it, and at each place between, `Owed` says which rows tell what they
should and what the next one has to tell, out of the row that was read again.
`SoundBoard` says it of a batch's draft, `ItemSeen` of an item read and not yet
written; `RowTellsStatus`, `RowTellsAssignee` and `OtherRow` say what one more
row tells. That a comment is gone exactly when a row tells it is `RemovalInv`.

`DatabasesAssumption` says what the callers find at first: no half of a batch,
no comment that has been read, a log that tells the tasks and the removals, and
old notices apart.

**SchemaProofs** (any processes and databases). `Progress` says of each process
what its phase shows it has seen in the database; nothing is ever dropped, so no
other process can take it away.

Only model-checked: the liveness properties `WorkersReturn`, `RequestsAnswered`,
`FetchesEnd`, `DiscoveriesEnd` and `EventuallyReady`, since fairness and ENABLED
are beyond the prover. What a recursive definition computes is not proved either
(`Expand` of `PortalFetch`: the proofs hold for whatever words it gives).

## 6. What the work found

Two runs end in a violation, each of one documented promise:

- `beat_daily`: daily tasks have one key for all days, so from the second day
  they are answered as duplicates (`docs/ENV_VARS.md:54`, `:62`).
- `outreach_optout`: a request with a locale and no template upserts the donor
  first, which clears `opted_out` (`README.md:1350`).

Met while modelling; the properties set these apart or do not speak of them.

*Queue.* Two workers look the same new key up before either inserts it, and both
execute it (`docs/DEPLOYMENT.md:160` says otherwise). A duplicate request writes
the stale row it read over a final one (`README.md:785`). A killed worker's row
stays `running`, and later requests of the key are answered as duplicates. The
shutdown flag of a run is lost when it is set between a SELECT and its upsert.

*Connectors.* A request pays one token for all its pages and retries, and a
throttled call sleeps for a token that it does not take (with an injected client
it does so in the event loop and holds up every other call). Connectors are built
anew for each run, so breaker state is not shared. `validate_connectivity` can
report ok from the cache. The asynchronous Grants and CSR connectors do not
query the live sources that the docstring at `funding_bot.py:4581` names, and
Grants asks for a credential only there; both fetch only the first page; NGO
searches three terms at most, and a reply that is no object ends a term without a word;
`_expand_keywords` expands in one direction.

*Discovery.* In a queued run a shutdown signal's commit between the SELECT and
the INSERT of a candidate releases the write lock; when another discovery
inserts the same signature first, the INSERT raises IntegrityError and the run
ends with an error, having lost nothing it went through. A fallback read before
and stored after another discovery's newer row overwrites it; a demo fallback is
later reported as cached; a dry-run discovery still writes
`connector_result_cache`.

*Donors.* The consent that a first outreach captures by itself can undo an
opt-out that overlaps it. Overlapping sends both pass the throttle. The panel's
preview records a communication and last contact. A second erasure of a donor
that was stored again breaks the primary key.

*Applications and retention.* A portal can be given one submission twice, by
overlap (`README.md:9`) or by a retry after an ambiguous error. When every
attempt ends in such an error the application is `pending` without a reference
though the portal took it. A poll reply that brings only a next action writes
back the status read before the request. A second run of retention within the
same second replaces the archive file, and may do so with fewer rows before the
first run deletes; events recorded after their SELECT are in no file
(`docs/ENV_VARS.md:65`), a document is in it by id and path only, and the
comments of a deleted task are not. A kill before the unlink leaves files that
no run removes, and two documents drawn in one second share a path.

*Tasks.* Two transitions validated against the same status: the second leaves
`done` (`docs/COLLABORATION.md:37`). `PUT /tasks/<id>` with a status skips the
transition check. A CSV without a status column resets existing tasks to `todo`.
`update_task` undoes an assignment stored in between, and the log does not tell.
A comment written between a list and its mark is read unseen.

*Cache.* A fill that began before a write can store the old row after the
invalidation, where it stays until it expires (`README.md:173`). The key of the
cache is the address in lower case while the table tells spellings apart.

*Start-up.* On a database with the old tasks table the first migration raises
`no such column: assignee` before the conversion is reached (`README.md:359`);
had it run, foreign keys would follow the renamed table. Two processes that both
find a migration missing: the second INSERT ends that start with an
IntegrityError, and the next start succeeds.

## 7. Not modelled

- Web dashboard and authentication: routes are modelled where they enter a
  modelled operation. The lockout counter and the backup codes are one row,
  read and written back; the lost update there is listed as a hazard.
- Database layer: transactions and the write lock are part of the modules that
  use them; pools and query counters only measure.
- OAuth tokens: checked and used by one call with no await in between.
- Compliance reports, analytics, daily summary, matching, scoring, templates,
  translation and partner reviews: computations on text and numbers, or rows
  with a status written in one transaction.
- Backups: scripts that copy files under SQLite's own lock. Warehouse export:
  pure I/O. Metrics, SLO events, probes: read by nothing in the program.
- CLI parsing, manifests, dashboards, vendored `node_modules`.
- Within modelled components: field-by-field payload parsing, the report of
  `validate_connectivity`, funnel events, attribution, the retention mode that
  archives nothing and its dry run, audit rows (which go like attempts), hit and
  miss counts. The 5 s `busy_timeout` appears only as the possibility of a crash.
  `DonorOutreach` reads the table and `RecordCache` shows what `get_donor`
  returns from the cache in front of it; they are not composed.

## 8. Plan

Done: the queue runner with its contract; connector, search and discovery;
donors, applications, retention, tasks with comments; the cache; start-up; and
the proofs of section 5. What is left, most important first:

1. `DiscoveryQueue`: Discovery run as the work of QueueTask, with its progress
   updates, signals and retries, in place of the constant `FromQueue`.
2. DonorOutreach over RecordCache, for callers that decide on a cached donor.
3. `AuthSecurity` (lockout, MFA, backup codes), should a second writer of its
   row appear.
