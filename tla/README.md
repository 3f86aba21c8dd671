# LoveWorld Analytics in TLA+

LoveWorld Analytics pulls audience figures from several sources for a network of
TV stations, stores them as metric records on the nodes of a hierarchy (station,
broadcast channel, language channel), aggregates them into rollups per node and
time bucket, and shows the rollups on a dashboard. This directory models the
services, where several processes, a queue and a database meet, the commands of the
operators, and the web application with its forms; it checks the models with TLC on
small instances and proves theorems about them with TLAPS.

Paths below are relative to the repository. "external" means code that is not in
the repository (BullMQ, Postgres, Redis), modelled from how the repository uses it.

## 1. The system

### Components and their state

| component | source | state | operations |
| --- | --- | --- | --- |
| Backfill request | `services/api/src/routes/backfill.ts` | a `backfill_run` row, one job per chunk | validate, check scope, cut the range (`chunkByDays`), INSERT, add the jobs |
| Backfill chunk handler | `services/ingestion/src/handlers/backfill.ts`, `packages/db/src/repositories/backfill-run.ts` | `backfill_run.status`, `chunks_completed` | pull, `markFailed`, `recomputeProgress`, `completeIfDone` |
| Pull handler | `services/ingestion/src/handlers/pull.ts`, `packages/db/src/repositories/ingestion-run.ts`, `metric-record.ts` | `ingestion_run`, `metric_record`, `connector_config.status` | start and finish a run, pull each account, upsert, add refresh jobs |
| Rollup refresh | `services/ingestion/src/handlers/rollup-refresh.ts`, `packages/db/src/repositories/metric-rollup.ts` | `metric_rollup`, advisory locks | list the ancestors, refresh one bucket per ancestor |
| Worker process | `services/ingestion/src/worker.ts`, `queues.ts` | jobs in hand | four workers, drain of 10 s, exit |
| Scheduler | `services/ingestion/src/scheduler.ts` | repeatable jobs in Redis | reconcile every 60 s with `connector_config` |
| Rate limiter | `services/ingestion/src/lib/rate-limiter.ts` | token bucket in Redis | refill and consume (a Lua script), wait, give up |
| Manual entries | `services/api/src/routes/entries.ts` | `metric_record`, `metric_rollup` | one transaction: upsert, refresh every ancestor |
| Hierarchy routes | `services/api/src/routes/hierarchy.ts` | `hierarchy_node` | create, patch (move), archive |
| Scope and RBAC | `services/api/src/lib/hierarchy-scope.ts`, `middleware/rbac.ts`, `packages/auth/src/permissions.ts` | memberships | the capability of a role; climb from a node to a station manager's scope |
| Connector routes | `services/api/src/routes/connectors.ts` | `connector_config`, `platform_account` | create (check and seal the credentials), test (list the accounts), link an account |
| Effective metric | `packages/db/drizzle/0004_effective_metric_tiebreak.sql` | a view | the adjustment that wins |
| Connectors | `packages/connectors/src` | none | reports by account, the days asked for, pages of zones, error classes |
| Metrics board, source health | `services/api/src/routes/metrics.ts`, `source-health.ts` | none | read-only queries; two windows to compare |
| Tenant and password commands | `services/api/src/admin` | `tenant`, `user`, `membership`, `account` | `create-tenant` in a transaction, `set-password` without one |
| Credential envelope | `packages/crypto/src` | key versions | seal with the current one, open with any known |
| Authentication | `services/api/src/app.ts`, `packages/auth/src` | sessions (Better Auth) | sign in, sign out, `GET /me`, a session that ends |
| Web application | `apps/web/src` | the page in the browser | loads with redirects, links by capability, dashboard, entry form, hierarchy forms, tree |
| `FormFromSchema` | `packages/ui/src/lib/components/FormFromSchema.svelte` | the values of a form | defaults, what is sent of groups that were touched |

### How they interact

- The API INSERTs a `backfill_run` and calls `queue.add` once per chunk. The
  chunk handler runs in the ingestion process, one job at a time per process
  (`worker.ts:40-43`); production deploys two processes
  (`infra/dokploy/production.yml:94`).
- The scheduler adds repeatable pull jobs; the same pull handler runs live pulls
  and, inside the chunk handler, backfill chunks.
- A pull writes records account by account, finishes its `ingestion_run` row and
  then adds one `rollup.refresh` job per node and bucket it has touched, delayed by
  30 s, with the node and bucket as job id.
- A refresh job lists the ancestors of its node and refreshes each in a transaction
  of its own, under an advisory lock for the bucket.
- Hierarchy routes move and archive nodes without telling anyone.
- A manual entry writes its record and all its rollups in one transaction.
- Every report a pull asks a source for goes through that source's token bucket, which
  all ingestion processes share in Redis; a pull opens the credentials the API has
  sealed, with keys of its own environment.
- The services compute windows, buckets and chunks each with code of its own; a record
  reaches the right rollup only if they agree.
- The web application has no state of its own but the page: its loads ask the API for
  the session, the memberships and the data, one after the other, while operators run
  commands against the same tables and others edit the hierarchy.

### What makes it hard, and what has to be true

- *At-least-once delivery.* A lost lock or a killed process delivers a chunk again,
  to the other process while the first handler still runs. A completed backfill must
  still mean that every chunk is in the database.
- *Accounting in several statements.* Progress is counted, written, read back and
  compared in separate statements with separate snapshots; whoever handles the last
  chunk must notice.
- *Verdicts from several handlers.* `failed` and `completed` are written by different
  handlers; a verdict must not be overwritten.
- *Stale rollups.* A record counts only when its refresh reaches every rollup above
  it, through a deduplicated, unretried job and one transaction per ancestor.
- *A moving tree.* The ancestors are listed once and the tree may change meanwhile;
  nothing forbids a circle of parents.
- *Schedules shared by processes.* Two processes reconcile the same repeatable jobs
  from snapshots of different age.
- *A shared pace.* Workers sleep for a projected wait and meet again at the bucket;
  Redis' clock may be set back and its key expire; no source may be asked more often
  than the bucket allows, and no job may wait for ever.
- *Calendars.* Ends of months and quarters, leap days, weeks that begin on Monday, a
  `setUTCMonth` that carries over: every window and bucket has to be whole.
- *Two walks over one tree.* Permissions climb in TypeScript, totals descend in SQL, the
  page builds a tree of what it is given; archived nodes and circles are legal input.
- *Commands at the same time.* Find, then insert, against unique indexes or none.
- *Late answers.* A form may be submitted again, left, or lose its answer; what is shown
  as saved has to be in the table.
- *Falsy values.* Zero, blank, false and unset decide what of a form is sent.

`PROJECT.json` lists each hazard at its line, with the properties that watch it.

## 2. The modules

| module | models | extends |
| --- | --- | --- |
| `Backfill` | one backfill from the request to the verdict | |
| `BackfillPromise` | what a backfill promises, abstractly | |
| `MCBackfill` | instances of `Backfill` for TLC (the symmetry of the workers) | `Backfill` |
| `BackfillProofs` | the theorems about `Backfill` | `Backfill` |
| `Hierarchy` | the walks over the tree: ancestors and live subtree | |
| `Rollup` | from a pull's writes to the rollups of one bucket | `Hierarchy` |
| `MCRollup` | trees and accounts for TLC | `Rollup` |
| `ManualEntry` | the transaction of an entry typed in by hand, for one bucket | `Hierarchy` |
| `MCManualEntry` | a station with one channel for TLC | `ManualEntry` |
| `Schedule` | connectors, their repeatable pull jobs and the processes that reconcile them | |
| `Meter` | what a rate limiter promises, abstractly | |
| `TokenBucket` | the token bucket in Redis and its callers | |
| `Calendar` | the date arithmetic of all services | |
| `Pull` | a connector from its creation to its data | `TokenBucket`, `Calendar` |
| `MCPull` | the scenes of `Pull` for TLC | `Pull` |
| `Access` | roles, scopes and the tree the web application shows | `Hierarchy` |
| `Form` | a form built from a schema, and the checks the API makes of what it sends | `Calendar` |
| `Tenancy` | the commands of the operators | |
| `Desk` | somebody at the web application | `Access`, `Form`, `Tenancy` |
| `MCDesk` | the scenes of `Desk` for TLC | `Desk` |
| `HierarchyProofs` | what the walks, scopes and the page's tree compute, for every tree | `Access` |
| `ManualEntryProofs` | the theorems about `ManualEntry` | `ManualEntry`, `HierarchyProofs` |
| `RollupProofs` | the theorems about `Rollup` | `Rollup`, `HierarchyProofs` |
| `ScheduleProofs` | the theorem about `Schedule` | `Schedule` |
| `CalendarProofs` | windows, buckets and chunks, for every instant | `Calendar` |
| `PullProofs` | the theorems about `TokenBucket` and `Pull` | `Pull`, `CalendarProofs` |
| `DeskProofs` | the theorems about `Desk`, `Tenancy` and `Form` | `Desk`, `HierarchyProofs`, `CalendarProofs` |

### Backfill

The state is the request (`producer`, `added`), the `backfill_run` row (`status`,
`chunksCompleted`), the `ingestion_run` rows of each chunk, oldest first (`rows`),
the chunk jobs in BullMQ (`job`, `attemptsMade`, `stalls`, `lock`), what each worker
is doing (`task`) and one history variable, `stored`: the chunks some attempt has
pulled to the end.

A handler is cut at each `await`. `StartRun`, `PullReturns`, `Finish`, `WrapUp` are
the pull; `Caught` is the handler's catch block, `SelectChunkRun` and `SoftFail` the
reading of the newest row, `CountChunks`, `WriteProgress` and `ReadProgress` the two
statements of `recomputeProgress`, `CompleteIfDone` the guarded update, `Return` and
`Throw` what BullMQ does with the result. `CountChunks` and `WriteProgress` are two
steps because the UPDATE's sub-select counts in the statement's snapshot while its
row lock may have to wait: in READ COMMITTED a statement that waited re-evaluates
its WHERE clause but its sub-select still counts in the old snapshot.

Failures: a statement rejects (`db`), `finish` commits and its answer is lost
(`lostack`), a process dies and restarts (`crash`), a lock is not renewed (`lock`),
the request dies inside its loop (`producer`). `RecoverStalled` is BullMQ's stalled
check: back to waiting without an attempt counted, or failed once a job has stalled
more than `MaxStalled` times, without any handler being told.

`BackfillPromise` keeps the status and the stored chunks only: chunks are stored one
by one, the verdict is written once, and it is "completed" only over a full range.
`Backfill` implements it under the identity mapping (`KeepsPromise`).

### Rollup and Hierarchy

One bucket (tenant, category, day). A record is abstracted to a version, a rollup
row to the versions its total was computed from, so "stale" and "newer" are
comparisons. Pullers go through their accounts (`PullAccount`), finish the run
(`FinishPull`) and add the refresh jobs (`AddRefresh`); adding an id that exists in
any state does nothing, as in BullMQ. Refreshers list the ancestors once
(`ListAncestors`) and then, per ancestor, take the advisory lock (`LockBucket`), read
(`ReadBucket`, the snapshot of the aggregate statement, taken after the lock) and
write at the commit (`WriteBucket`). `Reparent` and `Archive` are the hierarchy
routes. The 30 s delay and the wait for a worker are one state, "waiting".

`Hierarchy` has the two recursive queries: `Ancestors` climbs through archived nodes
too, bounded by `MaxDepth`; `Subtree` stops at archived nodes and has no bound, so on
a circle of parents (`Endless`) the aggregate does not end and `ReadBucket` is not
enabled.

### ManualEntry

The other writer of rollups: `POST /tenants/:slug/entries`. A request checks its input
and opens a transaction (`Post`), upserts its record (`Upsert`, which waits for the row
lock of whoever has written the same row), lists the ancestors (`List`), and for each of
them takes the advisory lock (`Lock`) and runs the aggregate statement (`Refresh`); then
it commits (`Commit`). Here a record keeps its figure, and a total is the function of
the figures it sums, so that two different sums are never equal by chance. READ
COMMITTED is in `Seen`: a statement reads the committed records and what its own
transaction has written. Since the repositories are built over the caller's
transaction, every lock is kept to the end of the request, which is where this path
differs from the refresh job, with a transaction per ancestor. `Fail` is any statement
that rejects, or the death of the process; `DeadlockDetected` is Postgres aborting one
of a circle of waiting transactions. The checks before the transaction (session,
capability, connector, schema, node) are the guard "the row is one of `Row`": they
change nothing. An archived node passes them, as in the code.

### Schedule

`config` is `connector_config`, `repeatable` the repeatable jobs in Redis (connector and
pattern), `tick` what each ingestion process' reconciliation is doing. A tick reads the
rows (`ReadRows`), lists the jobs (`ListRepeatables`) and then removes and adds one job
at a time (`Apply`), in the order of the code: the desired connectors one after the
other, each with its removals before its addition, then what is not desired. `TickFails`
is an await that rejects (the tick is caught and forgotten) or a restart. Pulls read the
row and at their end write the status their outcome stands for, whatever has been
written meanwhile (`EndPull`); a paused connector is not desired. Rows are created by
the API; nothing in the repository disables, reschedules or deletes one, so `Edit` is
external: the scheduler is written for it and its test does it by SQL. `outdated` is a
history variable: the ticks under way whose rows have changed since they were read.

### TokenBucket and Meter

The Lua script is one step, as it is in Redis (`Script`: `Consume`, or `TooLow`, which
writes nothing); around it `acquire()` asks, is granted, gives up when the projected wait
passes its deadline, or sleeps and asks again (`Ask`, `Granted`, `GiveUp`, `Sleep`,
`Wake`). Time is counted in milliseconds of which `Second` make a second, tokens in
units of 1/`Second` token, so that the fractions of the code are whole numbers. A timer
may fire late; Redis' clock may be set back (`SetBack`), the key expires, a command is
rejected (`RedisFails`). The fields of the hash are read as the script reads them
(`Tokens`, `Stamp`, `Level`): a bucket nobody has written is full.

`Meter` has a level and what was spent: a tick adds at most the rate, a grant takes what
it spends, credit may be lost and is never made. `TokenBucket` implements it with the
level its script *would* read as the meter's (`M == INSTANCE Meter WITH level <- Level`,
`KeepsRate`): a bucket in Redis does not move when time passes, its level does.

### Calendar

Instants are hours since 1970. The setters of a JavaScript `Date`, which carry a day or a
month that overflows, are external and modelled from their use; over them stand, each
with its own formula as in the code, the window of a scheduled pull, the bucket of a
record and the bucket of a manual entry, the granularity inferred for an entry, the
chunks of a backfill, the days each source is asked for, and the windows of the board.
The properties compare them with one another and with definitions by the calendar
("the last period that is over").

### Pull

`scene` fixes what a behaviour is about: a source, a moment, the jobs, how the
credentials were sealed, what may go wrong. The API creates a connector (`Submit`,
`Created`), tests it (`Test`, `ListPage`, `ListFails`; `ZoneAdded` is somebody at
Cloudflare) and links accounts. A delivered job computes its window, reads and opens the
credentials, lists its accounts and takes them one by one; each report asks the token
bucket first. `Errors` and `Classify` are the two connectors' tables from an error to a
code; a code that can be retried throws and the queue tries again, another one stops the
connector. A record is its job, account and day, an answer without rows is remembered as
such. What happens to a job that is delivered twice is `Backfill`'s, what the refreshes do
is `Rollup`'s.

### Access, Form, Tenancy and Desk

`Access` is made of functions: the matrix of roles, the climb of a scope (`ScopeClimb`,
through live nodes only), the tree of `apps/web/src/lib/hierarchy.ts`, the links of the
layout. `Form` is `FormFromSchema`: the values it starts with, when a group counts as
touched, what is kept of it; and the checks of the API, in two parts as in the route: the
schemas of the two manual sources (`Parses`, with the length of the notes), and the rule
that a period is one week or one calendar month (`OnePeriod`, which is
`inferManualGranularity` of `Calendar`). `Accepts` is both. A value is a record that says
what it is (a text, a date, a number in tenths, a flag), since falsiness is the point.
`Instants` bounds the dates that are typed.

`Tenancy` has both commands statement by statement. The rows of `create-tenant` are seen
by others when it commits; until then an insert of the same slug or address waits at the
unique index. `set-password` has no transaction, and nothing in `account` is unique.

`Desk` puts them together: a browser with its page and session, the loads with one step
for every await that waits for the API, the redirects and error pages, the entry form
with submissions that overlap (`Submit`, `Check`, `Write`, `Answered`, `Lose`,
`WriteFails`), the forms of the hierarchy page and other editors (`Reparent` is the PATCH
route: any live parent, or none). `Status`, `BoardStatus` and `EntryStatus` are the
middleware and the checks of the routes, the last one in the order of the code: the
schema (422), whether the connector is configured (400), the period (422).

Definitions whose comment says "Slip" or "A slip" are wrong on purpose: each is a plausible bug
that the run of some property is shown to find (`PROJECT.json`, "mutants"). No
specification uses them.

## 3. The runs

| run | instance | what it shows |
| --- | --- | --- |
| `BackfillDuplicates.cfg` | 2 chunks, 2 workers, each lock lost at most once, every statement may fail, the request may die | the accounting invariant; a completed run has its data and, for every chunk, a good row; verdicts are final; the run refines `BackfillPromise` |
| `BackfillSerial.cfg` | 2 chunks, 1 worker that may crash once per chunk, lost answers, all outcomes, 2 attempts, fairness | progress only grows, no run is left running when its queue is empty, every run is settled |
| `BackfillTwoWorkers.cfg` | 2 chunks, 2 workers, no fault | **violated**: `NotStranded` |
| `BackfillTwoRestarts.cfg` | 1 chunk, 1 worker, 2 crashes, fairness | **violated**: `EventuallySettled` |
| `RollupOnce.cfg` | a station with two channels, one pull for each, 2 refreshers, fairness | every write is on its way until every rollup above it shows it, and it gets there |
| `RollupDisturbed.cfg` | the same, with one failure and one move or archiving, fairness | totals never go back and a finished refresh covers its job (while the tree stands still); only a circle of parents can hang a refresh |
| `ManualEntry.cfg` | a station with one channel, two dimensions, 2 requests, 2 entries, 2 moves or archivings, one failing statement, fairness | while the tree stands still, the committed totals equal the committed records at every moment and no transactions wait in a circle; every entry is answered unless a move has made a circle of parents |
| `Schedule.cfg` | 2 connectors, 2 patterns, 2 processes, one edit, one pull, one failing tick, fairness | a tick whose rows are current never removes a wanted job and never adds an unwanted one; once the rows rest, the jobs become what they ask for and stay so |
| `Pull.cfg` | every half day of fourteen months with a leap day; scheduled pulls of every granularity in the days around each end of a month; a pull that may go wrong in every way; a connector created, tested and pulled; a backfill in two chunks with 2 workers; other callers of the limiter; a bucket of 2 tokens, one fault, up to 3 zones in pages of 2, fairness | windows, buckets, chunks and board windows are whole and agree; a run that says success has stored every account; zones added meanwhile lose none of the list; a sleeper finds its tokens; the source is asked no more than the bucket allows; the bucket implements `Meter`; every job ends |
| `Desk.cfg` | all trees of 3 nodes, or of 2 with one to come, with all sets of archived nodes, edited twice; some 3,000 fillings of the forms, over 12 periods; three commands at the same time; every role with and without a scope in one or two tenants; 2 submissions, one lost request or ended session, one broken command, fairness | the two walks agree; of the nodes an edit leaves live, it takes off the page exactly those below a node that it moves below itself or to a place off the page; forms send what was touched, and the API accepts them exactly if they were rightly filled; no tenant without an administrator, no user twice, the last password counts; "saved" means stored and the last figure wins; everything comes to rest |
| `RollupCoalesced.cfg` | one channel, two pulls, no fault | **violated**: `EveryWriteRefreshed` |
| `RollupFailedRefresh.cfg` | one channel, two pulls, one failed refresh | **violated**: `SettledIsFresh` |

### Bounds

Two chunks are the least with a last chunk and another one; two workers are what
production deploys, and every race described above is between two handlers. One
lost lock per chunk gives one duplicate delivery, the third delivery repeats it;
`BackfillDuplicates` runs with one attempt per job (a second attempt re-enters the
same steps with another number, and is in `BackfillSerial`). The theorems of section
5 hold without any of these bounds. In `Rollup` two refreshers and a station over two
channels give the overlap on an ancestor; one move is enough to make a circle (a node
may be made its own parent) and to archive. `MaxDepth` is 4 where a circle would
otherwise make lists of 33 nodes; no chain of the instance is longer than 3.
In `ManualEntry` a station with one channel is the least tree with two advisory locks
per entry, and two dimensions let two entries of one node have different rows, so that
they meet at the advisory locks and not only at the row. Two moves reach a deadlock:
turn the tree upside down while one entry has listed the old order, and the run fires
`DeadlockDetected`; with `moves = 0` it never can, which is `NoDeadlock`.
In `Schedule` each connector is absent or created with either pattern at the start; one
edit, one status written by a pull and one failing tick, with two processes, put a stale
tick beside a current one, which is all the race there is.

In `Pull` the calendar is deterministic in the moment, so moments are enumerated: every
date and every weekday at every distance from an end of a month or quarter occurs, with
February in a leap year and in another one, at midnight and off it. A second of three
milliseconds and a rate of two give waits that do and do not divide (2/3 of a
millisecond is rounded); a bucket of two tokens is the least in which a cost of two
competes with costs of one. Both jobs of a backfill contend for it. One fault of any
kind per behaviour is enough for each catch, with two or three attempts per job it
meets a retry.
In `Desk` a tree of three nodes has a chain, a fork, every circle and every place for an
archived node in them. Two submissions are what can overlap; two edits archive a node
and move another, or make a circle and hang a node below it. The amounts of the forms are
the boundaries: nothing, zero, a fraction, an integer. The periods are a week, one over the
new year, months of a leap year and of the end of a year, and what is nearly one: a week
from a Tuesday, six days, two weeks, a week that is turned round or begins at noon, a month
short of its last day, two months, the last days of two months. Three commands are two creations of the same tenant or user beside a
password, or one creation and two passwords.

### Fairness

`Fairness` of `Backfill`: the request, each worker's own steps, delivery of a waiting
job to an idle worker and the stalled check go on; faults never have to happen. Node
runs a resolved promise's continuation, BullMQ polls its queue and its stalled set.
`Fairness` of `Rollup`: as before, and each refresher strongly, since a free advisory
lock can be taken in between by another refresher; Postgres queues lock requests, so
who keeps waiting is served. `ManualEntry` is fair in the same way, with the deadlock
detector running; faults, moves and new entries never have to happen. In `Schedule` the
interval fires again and again (`setInterval`) and pulls end. In `Pull` the API goes on
with a connector, time passes while somebody sleeps, waiting jobs are delivered to idle
workers, a handler and `acquire()` go on; nobody is promised tokens: that a job ends
follows from the jobs being finitely many. In `Desk` the web server, the API and the
commands answer what they were asked; users do nothing unless they like, which is why
`EverythingSettles` says that everything is at rest again and again.

### What the violations say

- *Two workers.* Handler 1 counts both chunks and waits for the row lock; handler 2's
  older count of one chunk is written last; both read 1 of 2, none completes the run,
  and no job is left that could. `backfill-run.ts:30` promises that
  `recomputeProgress` is "Safe to call from multiple concurrent handlers".
- *Two restarts.* After the second restart BullMQ fails the job itself; `markFailed`
  is called from the handler's catch block only. `schema/backfill-run.ts:14-16`
  promises that a restarted worker resumes from `last_checkpoint`; nothing reads it.
- *Coalesced.* A refresh added while the job of its id is active is dropped although
  the active one has read its snapshot. The design document (line 507) promises a
  refresh after every ingestion write.
- *Failed refresh.* The refresh job is added without `attempts` and without
  `removeOnFail`, so one failure leaves a failed job whose id swallows every later
  refresh of that bucket. `queues.ts:21-24` declares three attempts.

Seen while modelling and not given a run of their own:

- An interrupted `queue.add` loop leaves `backfill_run` without all its jobs
  (`routes/backfill.ts:130`, against the comment at 122).
- A lost answer of `finish` makes the catch block finish the row again as failed
  (`pull.ts:88`, against `ingestion-run.ts:24`).
- A pull that fails at its second account refreshes nothing for the first (`pull.ts:155`).
- `getAncestors` lists archived nodes (`metric-rollup.ts:167`, against 43-45).
- A circle of parents hangs the subtree query (`metric-rollup.ts:99`, against 45-46, where
  only `getAncestors` is bounded): the `Circle` of `OnlyCirclesHang`.
- The worker is given the key of version 1 alone (`worker.ts:25-28`) although the design
  document (line 815) says that keys can be rotated: credentials sealed with a second
  version fail every pull (`UnknownKey`), as an error that is retried.
- A node directly below an archived scope root is in scope all the same: the climb asks
  whether a node is the scope's before it asks whether it is live
  (`hierarchy-scope.ts:66-72`); the comment at 10-16 leaves that case open.
  `ScopeMatchesRollup` speaks of scopes of live nodes.
- The dashboard opens the first station, whatever the scope of a station manager is, and
  then shows the 403 of the board.
- The dashboard asks for days only, so that figures entered for a week or a month appear
  on no page.
- A node that is moved below itself is gone from the tree of every page with all that is
  below it, since its chain of parents ends at no root (`lib/hierarchy.ts:26-50`):
  `TreeKeepsNodes` says when, and that nothing else takes a node off.
- The labels of the entry form do not say that a period has to be one week or one month;
  only the message of the API does (`entries.ts:97-100`).
- The slug of an archived node stays taken; a node created with it is answered 500.
- The load of the hierarchy page does not send an expired session to the sign-in page.
- A late success clears what was typed in the meantime (`entry/+page.svelte`).
- A list of choices selects its first option on mount, so that a group with one always
  counts as touched (`FormFromSchema.svelte:171-173` says so); no schema has such a group.
- Two `set-password` of one user at once may leave two credentials; signing in takes any.

## 4. Not modelled

- *Effective metric view*: it orders `metric_adjustment`, a table no code of the
  repository writes; there is no behaviour to speak of.
- *Sums of the board and of source health*: read-only queries over tables whose content
  `Rollup` and `Pull` speak of. Their windows and who may see them are modelled.
- *The cipher and the layout of the envelope*: bytes; which key opens what is in `Pull`.
- *The shape of a report*: HTTP requests and the parsing of rows, down to the day a row
  is for.
- *Better Auth*: external; users, credentials, sessions as the code uses them. Its rate
  limit on signing in is left out.
- *The hash of dimensions*: a record is told apart by what the hash is taken of.
- `chunkPeriod` in `packages/connectors/src/lib/period.ts` is called by no service, the
  middleware of `packages/auth` mounted by none.
- *Logging, environment, deployment, the phase gate script*: configuration, and a script
  that calls one after the other what is modelled.
- *Layout, wording, formats of numbers* of the web application.

## 5. What is proved

`BackfillProofs`, for any number of chunks, workers, attempts and stalls and any set of
faults, from `ConstantsAssumption` alone:

- `TypeCorrect`: `Spec => []TypeOK`.
- `CompletionIsSound`: `Spec => []CompletedIsStored`.
- `VerdictIsFinal`: `Spec => TerminalIsFinal`.
- `PromiseKept`: `Spec => KeepsPromise`, the refinement of `BackfillPromise`.
- `AccountsAreSound`: `Spec => []Accounting`, the inductive invariant behind these.
- `CompletionIsBacked`: `Spec => []CompletedIsBacked`, if `"lostack"` is not among the
  faults (`AnswersArrive`).
- `ProgressAdvances`: `Spec => ProgressNeverRegresses`, if besides there is one worker.

`CompletedIsStored` is not inductive: a completing step trusts `chunksCompleted`, which
trusts a count taken earlier, which trusts the rows, which trust what a pull reported.
`Accounting` says each of these in turn: `RowsAreBacked` (a good row's chunk is
stored), `FinishIsBacked` (a handler about to write a good row has stored its chunk),
`CountIsBacked` (published and pending counts are at most the number of stored
chunks), `Dormant` (nothing moves before the INSERT). Because stored chunks are never
taken back, a count that is too old is too small, never too large: that is why stale
counts can strand a run but cannot complete it early. A completed run then has at
least `ChunksTotal` stored chunks out of `ChunksTotal`, hence all.

- `NobodyIsStranded`: `Spec => []NotStranded`, for one worker, no failing statement
  (`"db"` not among the faults) and no lock lost oftener than BullMQ forgives (`Steady`).

The invariant `Attended` says that a running run has a job that is still to come
(`JobsGoOn`) and follows the one worker to its verdict (`Settles`): the row it writes is
the newest of its chunk (`WritesLastRow`), so the chunk is counted when it counts
(`CountsItsChunk`), and it returns with the run still running only if some chunk is not
counted, or throws only if an attempt is left (`LeavesMore`). It allows crashes, lost
locks, lost answers and a request that dies. Each hypothesis is needed: without it TLC
finds a run left running, with two workers in `BackfillTwoWorkers`, and in the same way with
a statement that fails in the last attempt, or one restart more than the queue forgives.

`HierarchyProofs`, for every tree and every depth:

- `WalksAgree`: if m lies in the live subtree of n and the chain of parents above m ends
  within `MaxDepth`, then n is in the list `Ancestors` climbs from m. The refresh lists
  its ancestors going up and sums them going down; no rollup that counts a record is
  left out of its refresh.

The walk is a recursive function, so its properties need induction; the library's
theorems take the induction predicate as an operator, which the provers cannot
instantiate. `LeastNat` takes a least element from the well-foundedness of strict
inclusion on finite sets instead, and `Induction` is stated over a set. On this rest
`WalkExists` (the definition has a solution), `ClimbWalks` (`Climb` is it), `ClimbsAgree`
and `ClimbEnds` (lengths do not matter, and above a root there is nothing), and
`NodesComeFirst`, by which the cardinality in `Ancestors` is a length.

`ManualEntryProofs`, for any tree without a circle that is no deeper than `MaxDepth`
(`TreeAssumption`), any number of requests, rows and figures, and any bounds:

- `EntryTypes`: `Spec => []TypeOK`; it holds on trees that are moved into circles too.
- `BoardIsExact`: `Spec => []BoardMatches`.

`BoardMatches` speaks of committed state only, and a commit writes totals computed
earlier, so the invariant `IInv` follows them through the transaction: a request holds
the lock of each bucket it has refreshed (`Held`); every node its row counts on is
refreshed or still in its list (`Covered`, from `WalksAgree`); and a total that is
written but not committed is still the one its transaction would compute (`Written`).
The crux is the commit of another request: it can only change totals of nodes above its
own row, it has refreshed all of those and holds their locks, so no request has an
uncommitted total of one of them (`CommitElsewhere`). Once the tree has moved, only
`Held` and the types are left, which is why the property is about `moves = 0`.

- `NoRequestDeadlocks`: `Spec => []NoDeadlock`.

Its invariant `InOrder` gives each node the height of its chain of parents
(`HeightFalls`, `AncestorsFall`): a request takes its row before any node, its list
falls, and what it holds is higher than what it waits for (`NodesInOrder`). In a set of
requests that wait for each other somebody waits for a node; the one that waits for the
lowest waits for a request that waits for a lower one still (`OrderIsFree`).

`RollupProofs`, for any tree, any number of pulls and refreshers and all its faults:

- `RollupsAdvance`: `Spec => RollupNeverRegresses`. Who is between reading the records and
  writing their total holds the advisory lock of the bucket (`Locked`), so the total it has
  read is not behind the committed one (`Behind`).
- `RefreshesCover`: `Spec => []RefreshCovers`, if no chain of parents of the tree at the
  start is longer than getAncestors climbs (`Shallow`). Every rollup that counts the leaf is
  already at the version the job began with or still in its list (`Covering`, by
  `WalksAgree`).
- `OnlySwallowedAreLost`: where nothing fails or is moved (`Undisturbed`), `Spec` together
  with `[][NothingSwallowed]_vars` implies `[]EveryWriteRefreshed`, for pulls that share any
  accounts. `NothingSwallowed` says that no refresh is added while the one of its id is
  active. The invariant `Delivery` follows a write for each row above it: a pull will still
  announce it, its job waits, a refresher will still read it for that row (`Coming`), or
  the row has it.
- `SinglePullsAreRefreshed`: `Spec => []EveryWriteRefreshed`, if besides each node is fed by
  one connector and that pulls once (`FedOnce`): until its only pull has added it, a node
  has no job (`Once`), so nothing is swallowed. `RollupCoalesced` is what happens to a second
  pull, and `RollupFailedRefresh` what a failure does: production is not under these
  hypotheses, and the theorems say that, failures and moves aside,
  the coalescing is the whole reason.

`ScheduleProofs`, for any connectors and processes:

- `TicksAreAlwaysRight`: `Spec => TicksAreRight`. What a process with current rows has set
  out to remove is not asked for by the rows, and what it has set out to add is
  (`Reconciled`); an edit makes every tick under way an outdated one.

`CalendarProofs`, for every instant, with no bound on the years:

- `WindowsAreLastPeriods`, `BucketsContain`, `InferredIsBucket`, `ChunksAskOnce`,
  `BoardCompares`: what the properties of `Pull` say of one moment.
- `InferredIsPeriod`: for any two instants, `inferManualGranularity` finds a week or a month
  exactly if the calendar has one between them. The setters are on one side only: on the
  other stands `IsPeriod`, and the next boundary after a boundary is unique
  (`NextBoundaryUnique`).

The setters carry a day or a month that overflows, so everything rests on a closed form of
"days before a month": the months are consecutive (`MonthsRise`), the fields of an instant
are those of the month it lies in, and what a setter leads to is that month's beginning and
the days that are left over. A chunk ends in the middle of a day as often as at its end;
the days of consecutive chunks fit together because each source rounds both ends in the
same direction (`DaysFit`).

`PullProofs`, first for the bucket by itself, for any number of workers, capacity, rate and
costs, with a clock that may be set back:

- `BucketTypes`: `BucketSpec => []BucketTypeOK`.
- `BucketIsMeter`: `BucketSpec => KeepsRate`, the refinement of `Meter`.
- `SleepersWakeInTime`: `BucketSpec => []WakesInTime`. For a sleeper nobody disturbed, the
  level of the bucket and what the rest of its sleep brings suffice (`InTime`); the
  rounding of the wait goes up, so the invariant holds when the sleep begins.

then for the pulls, for any scenes that fulfil `PullAssumption` (a source the code has, a
period of two instants, jobs of a granularity the code has, a cost that is not zero; a run
looks at pulls or at other callers of the limiter), any accounts, any number of jobs,
attempts and errors:

- `PullsUseBucket`: `Spec => BucketSpec`. No step of a pull touches the bucket but through
  `acquire()`; with it `PullsKeepRate` (`Spec => KeepsRate`) and `PullsWakeInTime`
  (`Spec => []WakesInTime`) are the bucket's theorems.
- `SuccessIsStored`: `Spec => []SuccessMeansStored`. The invariant `Pulls` goes through the
  handler with each job: at most one worker has a job (its lock), what is left to do and
  what is stored are together what it was told (`OnJob`), a run that says success has all
  of it, and a job that is done has its refreshes too (`JobHolds`). The catch around the
  adds of refreshes finishes no run that has succeeded, and a delivery after an error
  begins a row of its own.
- `PullsArePaced`: `Spec => []Paced`. The property counts requests, the bucket counts
  tokens. The worker of a report is in `acquire()` exactly when its caller is
  (`Together`), and every request and every token that was granted and not yet used
  (`Held`) is paid for (`Counted`, `Metered`).
- `ZonesAreListed`: `Spec => []AccountsListed`. The pages fetched so far have all zones up
  to their end, whatever was added meanwhile (`Pages`).
- `ScheduledWindows`, `BucketsAgree`, `BoardComparesAlike`, `DaysAskedOnce`: the invariants
  `WindowIsLastPeriod`, `BucketsHold`, `BoardWindowsMatch` and `EachDayOnce`. The scene
  never changes (`SceneOK`), and the rest is `CalendarProofs`.

In `HierarchyProofs` too, for every tree, circles included:

- `ScopeIsSubtrees`: the climb of `IsNodeInScope`, which stops at a node it has seen, says
  yes exactly for the nodes of the live subtrees of the scope.
- `TreeIsSubtrees`: the tree of the web application holds exactly what lies below its roots.
- What edits do to the tree: a node that comes (`ComingHidesNone`) or goes
  (`GoingHidesNone`) takes no other one off it; moving `m` to `p` takes off the subtree of
  `m` if `p` lies in it or is not on the tree itself, and nothing otherwise
  (`MovingHides`). Subtree and tree are the least sets closed under their rules
  (`SubtreeLeast`, `TreeLeast`), which is how a set that is still reached after the move
  is shown to be in the new tree.

`DeskProofs`, for any scenes that fulfil `DeskAssumption` (rows the commands and routes can
have left: a tenant has its administrator, users differ in their addresses, a user has one
credential at most) and `FormAssumption` (a field holds what its input can hold, an option
of its list if it has one; a node has a name; the form of a connector is the one its schema
gives), any number of commands, posts, edits and faults:

- `TenantsGoverned`: `Spec => []TenantHasAdmin`, and `IdentitiesApart`:
  `Spec => []UsersApart`. The invariant `Governed` follows each command to its commit: its
  user is one of the table or its own, still uncommitted row, addresses are in lower case
  before they are looked up, and no uncommitted row has the address of another
  (`FreshApart`, the unique index).
- `ScopesMatchRollups`: `Spec => []ScopeMatchesRollup`, from `HierarchyProofs`: edits keep
  the parents rows (`TreeWellFormed`) and need keep nothing else.
- `EditsKeepTheTree`: `Spec => TreeKeepsNodes`. Only the three routes change the rows
  (`OnlyEditsChange`), and each is one of the cases of `HierarchyProofs` (`EditsKeep`); a
  node that is created is nobody's parent yet, because the parents of rows are rows.
- `BannersAreTrue`: `Spec => []SavedIsStored`. An answer of 200 is one whose figure was
  written (`AnswersAreTrue`), and no page but the one that gets it shows a banner.

- `LastPasswordHolds`: `Spec => []PasswordIsLast`. Nothing in `account` is unique, so the
  invariant `Keyed` says why one row is all there is: a command that is to insert has seen
  none, and whoever has inserted since has overlapped with it.
- `LastFigureWins`: `Spec => []LastWins`. `Entries` follows a submission from the form,
  whose node is one of those listed (`FormHolds`, `Addressed`), to its answer: posts are
  submitted in the order of their numbers (`Ordered`), so that one that is still under way
  when a later one of its connector is submitted has met it (`MeetingsKnown`).
- `FilledGroupsAreSent`: `Spec => []GroupSentIffTouched`, for any schema. A group of a leaf
  below a group is that group, one of its own groups or one below it (`GroupsNested`),
  hence an outer group counts as touched when an inner one does (`FormSent`).
- `FilledFormsAreAccepted`: `Spec => []FilledFormAccepted`. What is sent is what is asked
  and what is not blank (`EntrySent`), leaf by leaf the schema of the API and the label
  ask for the same (`EntryValid`), and the dates pass exactly if they are one week from a
  Monday or one calendar month, in any year (`PeriodAccepted`, by `InferredIsPeriod`).

Only model-checked: liveness under fairness, which is out of the prover's reach
(`EventuallySettled`, `CatchesUp`, `OnlyCirclesHang`, `EveryEntryAnswered`, `Converges`,
`EveryJobEnds`, `EverythingSettles`). Every invariant and every action property that a
passing run checks is stated by a theorem, under the hypotheses named above. Out of reach
too is what a recursive operator computes on data of any size, where no least element could
be taken instead.
