# Verification of the inventory platform

TLA+ models of the platform, the instances TLC checks, and the theorems TLAPS
proves about them.  Paths such as `sync.py:121` are relative to `src/app/`
unless they say otherwise; "the code" is the commit this directory stands
beside.

## 1. The system

| Component | Code | State it keeps | Operations |
| --- | --- | --- | --- |
| Upload route | `routes/integrations.py`, `services/sync.py` (`start_sync`), `integrations/file_storage.py` | the stored file, the `sync_logs` row, the queued message | validate, save, commit, enqueue; poll the status |
| Celery task | `tasks/sync.py`, `celery_app.py` | the delivery in hand, `self.request.retries` | run, retry with countdown, give up and delete the upload |
| Sync service | `services/sync.py` (`process_sync`) | one session and its transaction | mark RUNNING, import row by row, score, COMPLETED or FAILED, delete the file |
| Normalizer | `integrations/normalizer.py`, `models/*` | product and location caches; the inventory tables | upsert products and batches, look up or insert locations and transactions |
| Connector | `integrations/csv_connector.py`, `factory.py` | none (a generator over the file) | read rows, map columns, convert values |
| Tenant context | `database.py`, `dependencies/auth.py`, the migrations' policies | pooled connections and their `app.current_tenant_id` | set, reset, compare in the policies |
| Authentication | `services/auth.py`, `routes/auth.py`, `security.py` | accounts (PostgreSQL), refresh tokens (Redis), cookies | log in, refresh, log out, create a viewer |
| Marg hook | `src/integrations/marg_hook/` | a token, the converted files and a job id in a client process | log in, convert, upload in dependency order, poll |
| AutoRLS, migrations | `rls.py`, `src/alembic/` | none at run time | generate and reverse policy statements |
| Wiring | `main.py`, `config.py`, `routes/health.py`, `schemas/` | none | settings, routers, health probe |

How they interact:

- The upload route writes to three stores in order: a file on a volume, a
  committed `sync_logs` row (PENDING), a message in Redis.  Nothing makes the
  three atomic.
- A worker process takes a message (`acks_late`: it is acknowledged when the
  task has ended), opens a session of its own, commits RUNNING in a first
  transaction and everything else in a second.  An exception is rolled back,
  recorded as FAILED and raised; the task publishes the retry before the
  delivery in hand is acknowledged.
- Imports of one tenant meet in the inventory tables, at READ COMMITTED.
- API requests and worker tasks take connections from a pool and find on them
  whatever setting the last committed transaction left.
- The Marg hook is a client of the login, upload and status routes: it sees of a
  job what the status route shows at the moments it asks.
- Auth requests are coroutines that meet in the `users` table and in Redis.

What is hard about it: the order of the three writes and of retry and
acknowledgement; crashes and repeated deliveries between any two of those
steps; a database error inside a transaction whose loop goes on; a JSONB list
mutated in place; check-then-insert without a unique key; row locks held for a
whole file; a tenant that lives on a connection rather than in a transaction;
GETDEL before the rest of a refresh; a client that waits for one job before it
uploads the next, and may stop waiting; four conversions that each guess at the
type of a cell.  `PROJECT.json` lists each under
"hazards", at its line, with the properties that watch it.

## 2. The modules

    ImportJob                 what an upload is promised (abstract)
      ^ implemented by
    SyncLifecycle             file, row, message, workers, faults
      <- MCSyncLifecycle, SyncLifecycle_proofs <- SyncLifecycle_refinement
      ^ extended by
    MargHook                  the client beside the jobs it uploads
      <- MargHook_proofs
    Conversions               a row of a Marg export, from the hook to the tables
    MargExport                both: what the imports of a run make of its rows
      <- MCMargHook, MargExport_proofs
    SyncRows                  one import, row by row; takes the steps of ImportJob
      <- MCSyncRows, SyncRows_proofs
    Inventory                 concurrent imports, statement by statement; takes the
                              steps of ImportJob
      <- MCInventory, Inventory_proofs
    TenantContext             pools, sessions, the tenant setting
      <- MCTenantContext, TenantContext_proofs
    Accounts                  accounts and refresh tokens
      <- MCAccounts, Accounts_proofs

The views of an import share their boundaries.  `SyncLifecycle` takes an
attempt as one step that commits some rows or none; `SyncRows` opens that step
and shows what one session makes of each kind of row, and is proved to take
nothing but the steps `ImportJob` allows one job; `Inventory` opens the
storing of a row, shows what several such transactions make of the tables, and
is proved to take nothing but the steps `ImportJob` allows each of several jobs.
`Conversions` opens the row itself, which the other two classify by what becomes
of it.  `MargHook` composes a client with `SyncLifecycle`: every step of a job is
a step of that module.  `MargExport` puts the two together: which imports are
committed, and how often, from the one, what each makes of a row from the other.

In each module an operator whose comment begins with "Bug:" is a wrong variant
of the definition after it.  No specification uses them: each stands for a
plausible mistake that a named property must notice (`PROJECT.json`,
"mutants").

### SyncLifecycle

`upload[j]` is where the request of job `j` is, `file[j]` and `log[j]` the
upload on the volume and the committed `sync_logs` row, `queue` the deliveries
the broker owes, `pc[w]`, `task[w]`, `seen[w]` a worker process, its message and
the row as its session last loaded it.

| Actions | Code |
| --- | --- |
| RejectUpload, SaveFile, CommitLog, Enqueue, AbortUpload | `upload_file`, `LocalFileStorage.save`, `start_sync` |
| Receive, Acknowledge | Celery with `acks_late`, prefetch 1 |
| Load, MarkRunning | `sync.py:77-87`, the first transaction, and the reading of the file |
| Complete, LoseCommit, Fatal | the try block `sync.py:91-119` from then on |
| MarkFailed, LoseConnection | the except branch `sync.py:121-132` |
| DeleteFile, DeleteFails | the finally block `sync.py:133-136` |
| GiveUp, PublishRetry and their failures | `tasks/sync.py:48-65` |
| KillWorker, CrashHost, Redeliver | a process that dies, the container, the visibility timeout |

`Flush` is the ORM's UPDATE: it names only the columns that differ from what
the session loaded, so two sessions on one row overwrite each other column by
column.  The connector reads the whole file before its first row, so the reading
goes with the commit of RUNNING: a session that has read the file may commit
although another has deleted it by then, and a deletion between the commit and
the reading is one of the reasons of `Fatal`.  A retry's countdown is any delay.
The status and template routes only
read; the hook is who calls the former.

Two history variables say how well the environment has behaved: `once` (no
delivery was repeated so far) and `calm` (nor was the answer of a commit lost,
nor did a delete raise).  Properties that need it are stated until the fault, in
runs that inject it.

### MargHook

A job is a run and an entity.  `phase[r]` is where `main` is in run `r`,
`polled[r]` and `selected[r]` what its command line and the exports it found
say, `sent[r]` the entities it has requested an upload for, `polls[r]` the
answers it has had for the last one.  `catalogue[e]` is history: whose import of
`e` was committed last.

| Actions | Code |
| --- | --- |
| StartFails, Start | `main` up to the first upload: credentials, login, conversion, selection |
| UploadAnswered | `upload_csv` returns; `poll_status` or the next entity |
| PollAgain, PollTimesOut, PollFinished, PollFailed | `poll_status` |
| HttpFails | `_json`: no answer in 45 seconds, an HTTP error, a dead connection |
| Api, Work, Disturb | the steps of `SyncLifecycle` for what was sent |

A run that ends leaves its last request to the API and its jobs to the workers:
`upload` and the queue go on.  Runs follow one another, as
`src/docs/marg-integration.md` supports them (the footer snippet, which may start
overlapping processes, is declared experimental there); their jobs may overlap.
The `status` command only logs in.

### Conversions

A cell is the text of a field, as far as the code tells texts apart: nothing,
blanks, Marg's "-  -", a text pandas reads as missing, a number in thousandths,
"inf", digits in three groups with a separator, a date and time, a word.  The
stages are operators: `HookProduct` and its like (`transform_*_rows`), `Map...`
(the connector) and `Normalize...` (the normalizer).  Each returns
the set of records that come of a row, empty when it is skipped or refused.
`Nearest` leaves open which of two equally near paise a price becomes: the
binary fraction of the text decides that, and Python rounds the fraction.

### SyncRows

The session is modelled by what its calls do to `tx` (open; aborted by a
refused statement; expired by a failed flush), to `obj` (the loaded object) and
to the committed `row`.  Rows are classified by what happens to them, not by
content: good, rejected before any statement, rejected after a SELECT,
ambiguous, refused by the database, or garbled (the connector raises).  An
entry of `errors` is the index of its row.  `AppendError` is
`_append_row_error`: the list is new only if it was empty; otherwise it is
mutated in place, which SQLAlchemy does not write.

### Inventory

Each import is a transaction `tx[i]` over `upserted` (products and batches by
unique key), `places` and `ledger`.  A statement is a step; `Write` waits for a
row lock that another transaction holds, `Abort` is the server's deadlock
victim, and an aborted attempt is retried from an empty cache.  `Refuse` is whatever else rolls an import back: a
refused statement or commit, a lost connection.  Ids are "which import, which
row", so a reference to a row that was rolled back is visible as such.  The
countdown of a retry is any delay: the code's is 30 seconds at least, but a
transaction lasts as long as a file, so an import may lose all its attempts
against a long one and fail.  An execution of a job that was delivered twice is
an import of its own here.

### TenantContext

`setting[c]` is the committed value of `app.current_tenant_id` on connection
`c`, `current[c]` the value the open transaction sees.  `End` commits or rolls
back: a setting made with `is_local = false` survives a commit and reverts in a
rollback.  `pc[s]` walks a session through `get_tenant_db` and `list_products`,
through `process_sync`, or through `delete_upload`; `Raise` is an exception at
any statement, `Replace` is `pool_pre_ping` finding a dead connection.  A
statement on tenant tables adds the tenant it runs for to `scope[s]`.  A
connection that dies under a session makes the statement raise, goes back to the
pool with the rollback, and is replaced before its next use.  The
policies compare with that tenant; where the model says "no tenant" the
database hides every row (a connection that never had one), or refuses the
comparison (an empty setting, left by a rollback).

### Accounts

`stored` are the tokens in Redis, `received` those a client has got; a token is
named by the request that issued it and `root` is the login its session began
with.  `Consume` is GETDEL; `LookUp` and `Issue` are later awaits, and other
requests run between them.  `CheckEmail` and `InsertUser` are the two database
calls of `create_viewer`; the second is refused by the unique index.
Addresses are constants with a function `Lower`.

## 3. What TLC checks

| Run | Instance | Properties |
| --- | --- | --- |
| `lifecycle` | 2 jobs of 1 row, 2 workers, 1 retry, any 2 faults of all 8 kinds, 4 deliveries in all | TypeOK, QueuedIsCommitted, DiscardJustified, NeverOvercounted, SingleDelivery, RetainedForRetry, Accounting, CompletedIsFinal, ImplementsImportJob |
| `lifecycle_redelivery` | 1 job without rows, 2 workers, 1 retry, 2 crashes or timeouts, weak fairness | EventuallyTerminal, EventuallyDiscarded |
| `marg` | 2 runs, 1 worker, 1 retry, 2 polls, any 2 faults of all 8 kinds, 4 deliveries in all; every export row over 4 words, 5 amounts, 12 dates, 2 moments | HookTypeOK, DependencyOrder, OkMeansImported, NeverSetBack, ExportKept |
| `rows` | every file of up to 4 rows of the 6 kinds, 1 retry, 2 refusals | TypeOK, AllOrNothing, ErrorsAreGenuine, ReportedExactly, EntriesKept |
| `inventory` | 3 imports, one of which may be refused, 2 products, 1 location, 2 items, 6 files, 1 retry, weak fairness | TypeOK, SerialInCommitOrder, RepeatedOnlyInOverlap, CreatedTwiceOnlyInOverlap, ReferencesResolve, EveryRowAccountedFor, VictimsOnlyByLockOrder, EveryImportEnds |
| `tenant_context` | 2 requests, 2 imports, 1 cleanup of 2 tenants; 2 API connections and 1 worker connection, 1 replaced | TypeOK, OwnTenantOnly, RequestsHaveTheirTenant, NothingLeftForRequests, UnscopedOnlyAfterReplacement |
| `accounts` | 5 requests, 2 addresses in two spellings | TypeOK, OneLiveToken, LogoutEndsSession, NothingForInactive, OneAccountPerAddress, EveryAccountCanLogIn |

`Accounting` includes the quality score: the one stored is the score of the
counters stored with it, rounded as the code rounds.  `ReportedExactly` says
which rejected rows a completed job lists: those that no flush separates from
the first of them, so never all of a longer file, and after a failed attempt
only that attempt's fatal entry.  `EveryRowAccountedFor` says of every row of a
committed import that it is in the tables, or names a product nobody had stored
before, or was left out at a lookup with two matches.  `VictimsOnlyByLockOrder`
says what it takes for imports to fail each other: files that disagree on the
order of the rows they lock.  `RepeatedOnlyInOverlap` is the project's statement
about importing a file again, by a repeated delivery included: two executions
that overlap may store a transaction twice, two that do not cannot.

Five runs end in a violation of what the documentation or a comment says:

| Run | Statement | What happens |
| --- | --- | --- |
| `lifecycle_marked_failed` | "Fatal failures are marked failed" (`src/docs/architecture.md:54`) | the connection is lost in the except branch of the last attempt: the row stays RUNNING, the file is deleted, nothing is queued |
| `rows_bad_row` | "Never raises on a single bad row" (`sync.py:73`) | a row the database refuses aborts the one transaction of the import; there is no savepoint |
| `rows_errors` | "errors accumulate in SyncLog.errors" (`sync.py:73`) | entries appended after the list was flushed are not written |
| `inventory_dropped` | "persists valid records, and records bounded API-visible errors" (`src/docs/architecture.md:51`) | two overlapping imports insert one location twice; later rows that name it raise, are counted and reported nowhere |
| `accounts_seed` | "After logging in, an owner or admin can provision a viewer" (`src/README.md:99`) | the seed stores the owner's address as typed, login looks for it in lower case |

### Bounds, and why they are enough

- *Two faults.* A double fault is the least that reaches the interesting
  orders (a crash of the redelivery of a crash; a lost commit after a repeated
  delivery).  `MaxFaults` is a constant of the module and not of the code, and
  the theorems of section 4 hold for any value.
- *Deliveries.* Two repeated deliveries may each be retried in turn; `lifecycle`
  and `marg` follow the jobs through four deliveries in all, as many as one job
  has attempts and repetitions (`FewDeliveries`, a constraint).  One job may use
  them all, or two jobs two each, with a fault in either.  What lies beyond is
  left to the theorems, which have no such bound.  `lifecycle_redelivery` has no
  constraint, which could hide an endless run; its file has no rows, because
  what the rows do decides how an attempt ends and either end is open anyway.
- *Retries.* The code has three.  One gives a first and a last attempt, the two
  that differ in what they do; the properties speak of `MaxRetries` and the
  theorems hold for any.  The violation runs of the lifecycle and of the rows use
  the code's three.
- *Jobs of one row*: a row is processed or failed, and counting an import twice
  or not at all already shows; `SyncRows` has the longer files.
- *Two workers* is the container's concurrency (`src/docker-compose.yml:55`), and
  two jobs are needed for a worker to mix them up.
- *Two runs of the hook*: the first polls and sends products and then batches, or
  transactions alone; the second sends batches again without polling.  One worker is enough to take their jobs in the wrong
  order, because a retry or a redelivery of the first may be queued behind the
  second.  *Two polls* give a first and a last one, where the code has ninety.
- *The cells* hold each kind the code tells apart, a negative amount, one that
  rounds, a day whose month and day can be confused, in every way of writing it,
  and a leap day.
- *Four rows* hold a rejected row before and after a flush, on either side of
  a refused one.
- *Three imports*: two that overlap and one that meets what they left.  Two of
  them take any file, and may lock each other out at every attempt; the third
  has one transaction and may be refused at any statement.  `Troubled` names it:
  it is a bound, and the theorems hold for any.  The files hold opposite lock
  orders, a repeated code, a repeated transaction and a location used twice.
- *One replaced connection* separates the tasks that lost their tenant from
  those that did not; two tenants suffice to tell "own" from "other".
- *Five requests* allow two refreshes to race on one token and a logout to
  follow, and the owner's login with two creations of one viewer.

Symmetry is used only where no liveness property is checked.  Deadlock checking
is off everywhere because every model comes to rest: all requests answered, all
messages acknowledged.

### Fairness

- `SyncLifecycle!FairSpec`: weak fairness of each worker's steps.  A Celery
  process polls its queue, and a task that runs reaches its next statement.
  There is no fairness for clients (they may never upload), and none for
  faults.  Which of success and failure a step takes is left open: termination
  comes from the bound on retries, not from luck.  Process kills and lost
  connections are not in that run: with them a row may stay RUNNING for ever,
  as `lifecycle_marked_failed` shows and the documentation says of orphans
  (`src/docs/architecture.md:57`).
- `Inventory!FairSpec`: weak fairness of each import, which goes on or is the
  victim of a deadlock it is part of: a task runs, and the server finds
  deadlocks.  There is none for `Refuse`.  `EveryImportEnds` does not promise a
  commit: the bound on retries ends an import that always loses.

## 4. What is proved

Every safety property and action property of a passing run is a theorem, and so
is the refinement: for every value of the constants, from the named assumptions
on constants only (the ASSUMEs of the modules, which TLC also evaluates).  Two
theorems on addresses and two on orphans assume one thing more, named below.

Four of the five violated statements have a true counterpart, which is proved:
what the code does instead of what is said of it, or when it does what is said.

| Statement violated | Proved instead |
| --- | --- |
| FatalIsMarkedFailed | `MarkedUnlessLost`: it holds where no connection is lost and no worker killed |
| BadRowIsNotFatal | `OnlyRefusalsFail`: rows the code itself rejects never fail or delay a job |
| ErrorsAccumulate | `ReportedExactlyHolds`: which rejected rows are reported |
| ValidRowsPersisted | `NothingLostInTurnHolds`: without an overlap every row is stored whose product is known; `EveryRowAccountedForHolds` and `DroppedOnlyAfterOverlapHolds`: what it takes for a row to be left out |

The fifth, EveryAccountCanLogIn, is a theorem for a seed address in lower case.

**SyncLifecycle_proofs.**  Any jobs, workers, row counts, retries and faults.

- `TypeCorrect`, `QueuedIsCommittedHolds`, `DiscardJustifiedHolds`,
  `NeverOvercountedHolds` hold under all faults.  QueuedIsCommitted needs that a
  committed row stays committed (`AcceptedIsCommitted`).  DiscardJustified needs
  `Lineage` (a message with r retries was published after r others were
  attempted: so the attempt that gives up is the last of 1 + MaxRetries) and
  `ImportedFirst` (a worker about to delete the file has committed).
  NeverOvercounted is not inductive on totals: two sessions on one row overwrite
  each other column by column.  `CountInv` says that there are sums of good and
  of bad rows, over the committed imports, that bound each counter in the row
  and in every session that is going to write it.
- `SingleDeliveryHolds`, `RetainedForRetryHolds`, `AccountingHolds` hold while
  `once` does, and are false afterwards.  Accounting needs `SessionFresh`: nobody
  writes the row between a worker's load and its next write, and so `Flush`
  writes what the worker holds.
- `PerfectScore`: a job scores 100.0 whenever fewer than one row in a thousand
  failed and never when more did; the score of any file with rows is between
  50.0 and 100.0 (`TypeCorrect`, by the range of `Quality`).
- `MarkedUnlessLost` assumes that Faults holds neither a lost connection nor a
  killed worker.  `MarkedInv`: an accepted upload that is not COMPLETED or FAILED
  is queued, or a worker is at it that has yet to mark it; and a worker that
  imports holds RUNNING, so that what it marks is a change and is written.
- `OrphansOnlyByLoss` assumes of Faults that it holds no lost connection, killed
  worker, failed delete or refused retry: then `NoOrphan`, the safety half of
  EventuallyDiscarded, holds through dead requests, crashes, lost commits and
  repeated deliveries.  NoOrphan is inductive as it stands: whatever ends a
  delivery of a stored file deletes the file or leaves another delivery (`Owed`).

**SyncLifecycle_refinement.**  While `calm` holds, `StageInv` and `TurnInv` say
where each job is: its one delivery carries the number of its attempts, and what
may still be imported has not been.  `CompletedIsFinalHolds` follows, and
`ImplementsImportJobHolds`: initial states map to initial states of ImportJob
and every step to one of its steps or to a stutter, with `status`, `imported` and
`undisturbed` read off `log`, `imports` and `calm`.

**MargHook_proofs.**  Any runs, commands, polls and faults.  `HookIsLifecycle`
shows that a job lives beside the hook as it does alone, which makes the
theorems above available.  `DependencyOrderHolds` and `OkMeansImportedHolds`
need `CompletedIsImported` (what the hook reads as COMPLETED has been imported,
and stays so under every fault) and `SentInTurn` (of a polling run, all that was
sent is imported, but for the last).  `NeverSetBackHolds` uses CalmInv of the
refinement: an imported job is not imported again.

**MargExport_proofs.**  Any words, amounts, days and clocks, and any runs.
`ExportKeptHolds` follows a legible cell through the four stages; its core is that the formats
separate the documented ways of writing a date, so that the first that matches
is the one meant.  `ClockIsNotRead`: nothing of a transaction with a documented
date depends on the moment of its import, so that a later import looks for the
record an earlier one has stored.  Whether it finds it is Inventory's subject.

**SyncRows_proofs.**  Files of any length, any number of retries and refusals.
The invariant ties the counters in the session, and the rows its transaction has
stored, to the rows seen so far (`Tallied`), and the two lists of errors, the
one in memory and the one flushed, to each other and to the committed one
(`Listed`): the first rejected row is in both, or about to be.

- `ReportedExactlyHolds` adds `Exact`: what the next flush writes of the errors
  is `Kept`, the rejected rows that nothing separates from the first, and the
  list is still new to the session (`replaced`) just while every row since the
  first rejected one was rejected before any statement.  FirstErrorReported, a weaker
  form that no run checks, is proved before it: `Exact` rests on its invariant.
- `OnlyRefusalsFail` carries the cause of a failure (`CauseKnown`) from where it
  happens, an aborted transaction or a garbled row, to the row's FAILED.
- `ImplementsImportJobSteps`: with `InStep` (the committed status is the one
  process_sync has got to) each step is one of ImportJob's or a stutter.  The
  mapping starts where the task does, with a stored file and its row, so it is
  about steps and not about ImportJob's initial state.

**Inventory_proofs.**  Any imports, files, retries and refusals.

- `ReferencesResolveHolds`: whatever an import has written refers to what it can
  see, and what it has cached it can see; a rollback empties both.
- `CreatedTwiceOnlyInOverlapHolds` and `RepeatedOnlyInOverlapHolds`: what an
  import is about to create was not there when it looked, so whoever else has
  created it committed after this attempt had begun (`Late`), and at the commit
  the two overlap.  For transactions this needs the caches: another location of
  a cached name was committed later than the cache was filled.
- `DroppedOnlyAfterOverlapHolds`: a row is dropped when a lookup finds two
  locations or two transactions (`TwoMatches`).  Both were committed then or one
  is the import's own; nothing is ever deleted, so both are there at its commit,
  and the two theorems above say that they overlapped.
- `EveryRowAccountedForHolds`: `Accounted` says of every row an import has
  passed that it is kept for it (in the tables or among what it has written),
  unknown, or dropped.  Kept rows stay so because nothing is deleted and a
  rollback starts again at the first row.  An unknown one needs `Serial`
  (`RejectedIsUnknown`): had somebody who committed before this attempt stored the
  product, or this import in an earlier row, the lookup would have found it.
- `NothingLostInTurnHolds` joins the two: imports that take turns drop nothing.
- `OnlyCommittedRowsHolds` is all or nothing seen from the tables: every
  location, transaction and batch there is that of a row of a committed import.
  `Origins` says the same of what an import has written and not committed, with
  itself in the place of the committed one; where a record comes from is settled
  by the files, which never change.
- `ImplementsImportJobSteps`: with the status read off `pc` (an import that is
  waiting for a retry is FAILED) and one attempt more than there were retries,
  each step is one of ImportJob's for one job, or a stutter.  As in
  `SyncRows_proofs` this is about steps: the mapping starts where the tasks do.
- `SerialInCommitOrderHolds`: an import that has written a product holds its row
  lock, its version is its last row of the product so far, and the committed one
  is that of the last writer in commit order.

- `VictimsOnlyByLockOrderHolds`: a lock that is held was asked for at an earlier
  row than the one its holder waits at (`Asked`), and two imports never hold
  one lock (`Exclusive`).  In a circle each waits for a lock that another holds, so
  every lock waited for is preceded, in somebody's file, by another of them: they
  have no first one, and the files agree on no order.
- `SomeoneGoesOnHolds`: where nothing is refused, imports never all fail; the
  server's victim leaves behind one that waited for it.

**TenantContext_proofs.**  Any tenants, sessions, connections and replacements.
`TenantInvariant` has four parts.  `PoolInv`: a connection serves one open
session of its process and between transactions shows its committed setting.
`SerialInv`: a worker process has one task and therefore opens one connection,
which is why the tenant committed with RUNNING is found again.  `RequestInv`: a
request keeps the transaction that set its tenant until it rolls it back, so
that no API connection ever has a committed tenant.  `TaskInv`: a task's tenant
is on the one connection of its process unless that was replaced.  The proof
has one lemma per class of step: a statement that assigns, one that queries,
the end of a transaction, control flow, a replacement.

**Accounts_proofs.**  Any requests and addresses.  `SessionInv`: a session is
carried by one thing at a time, its token in Redis or the request that took
that token and has not stored the next.  OneLiveToken and LogoutEndsSession
follow: a logout that finds the token finds no request in flight.  `LateInv`:
a user who was inactive when a refresh began is inactive at its lookup.
`AccountInv`: what `create_viewer` inserts is in lower case.
`OneAccountPerAddressHolds` and `EveryAccountCanLogInHolds` assume the same of
the seed address; `accounts_seed` shows that the second needs it.

### Only proved

No run checks FirstErrorReported (SyncRows), OnlyCommittedRows,
DroppedOnlyAfterOverlap, NothingLostInTurn and SomeoneGoesOn (Inventory), what
`OnlyRefusalsFail`, `PerfectScore`, `MarkedUnlessLost`, `OrphansOnlyByLoss` and
`ClockIsNotRead` say, or that SyncRows and Inventory take the steps of ImportJob.  They are theorems,
which cover every instance.

### Only model-checked

Liveness: EventuallyTerminal, EventuallyDiscarded, EveryImportEnds (fairness
and ENABLED are beyond the prover), and the five violations, which a theorem
could not state.

## 5. What is not modelled

- `upsert_inventory`, `normalize_inventory` and `fetch_inventory`: nothing calls
  them.
- The spelling of cells: thousands separators, digit counts that `strptime`
  accepts beside the documented ones, time zones, the letter case of movements.
  A tenant's own column mapping is taken to be the default one, and
  `industry_attributes`, which the hook never fills, are left out.
- What an illegible cell should become: the connector silently makes a price or
  quantity 0, a movement "in", and the hook skips a row whose first column holds
  a placeholder.  The model does the same and no document says otherwise.
- What a quality score promises: `Quality` is computed as in the code, rounding
  included, and `PerfectScore` says when it is 100.0, but neither a document nor
  a test says what that should mean.  Of two equally near tenths the model takes
  either: the binary fraction of the percentage decides.
- What becomes of a file imported again, beyond `RepeatedOnlyInOverlap`: rows
  without a date get the moment of the attempt and are stored again by every
  import (`integrations/csv_connector.py:263`), and no document says what should be made of
  them.
- A commit whose answer is lost, inside SyncRows and Inventory: there a commit is
  refused or takes effect.  `SyncLifecycle` has that fault (LoseCommit), because
  what it changes is the life of the job.
- JWT encoding, password hashes, cookies' attributes; clocks (a token or a
  visibility timeout may run out at any moment).  The tenant check of
  `create_viewer` is one of the refusals of `Fail`.
- What a failed refresh costs: GETDEL takes the token before the user is looked
  up, so a request that fails in between leaves the client without a usable
  token until it logs in again.  No property is stated against that.
- The reconciliation of RUNNING rows and orphaned files after a worker process
  was killed: the documentation leaves it to operators.  The kill itself is in
  the model, and the theorems on orphans say that it is one of few ways there.
- Runs of the hook that overlap: they rewrite the same converted files while the
  other uploads them.  The documentation calls the footer snippet that can start
  them experimental and asks for a lock.
- AutoRLS and the migrations: straight-line DDL, generated and run once, with no
  state at run time and nothing beside it.  The one thing that could be wrong is
  the order of the reversed statements; reading shows policies dropped, then
  FORCE and ENABLE taken back, then tables dropped, and a model would restate
  the insertions.  What they leave in the database (policies, unique keys,
  the seeded owner) is in TenantContext, Inventory and Accounts.
- Settings, wiring, schemas, the health route: no state.

## 6. Plan

Done: import lifecycle and its abstract promise, rows, concurrent inventory
writes, tenant context, accounts, the Marg hook and the conversions; each
modelled and checked, and its safety proved.

What would come next, in this order:

1. The link between the finer views, row for row: `Inventory` as a refinement of
   the storing step of `SyncRows`, when several imports each have their own
   session.  `SyncLifecycle`, `SyncRows` and `Inventory` share `ImportJob`; what an
   import makes of one row is shared by construction only.
2. The reading thread of the connector beside the session, if the connector ever
   streams: today it reads the whole file before the first row.
3. A run of the hook ends: 90 polls of at most 47 seconds each bound it, under
   weak fairness of the run.
4. If a release repairs what the violations show (a savepoint per row, a mutable
   list, unique keys for locations, one spelling of the seed address): the changed
   definition, and the violated statement as a property of a passing run.

## 7. Running it

    tlc -workers 2 -config SyncLifecycle.cfg MCSyncLifecycle
    tlapm SyncLifecycle_proofs.tla

Each run of `PROJECT.json` names its module and configuration; the theorem
modules are the eight whose names end in `_proofs` or `_refinement`.  The longest
run is `marg` (0.7 million distinct states), the longest proof
`Inventory_proofs`.
