-------------------------------- MODULE Pull --------------------------------
(***************************************************************************)
(* A connector from its creation to its data: the API checks and seals its *)
(* credentials and lists its accounts; pull jobs and backfill chunks work  *)
(* out their period, read the credentials, and ask the source for each     *)
(* account at the pace of the token bucket.                                *)
(*                                                                         *)
(*   services/api/src/routes/connectors.ts, backfill.ts                    *)
(*   services/ingestion/src/handlers/pull.ts                               *)
(*   packages/connectors/src/ga4.ts, cloudflare-analytics.ts, lib/errors.ts *)
(*   packages/db/src/repositories/connector-config.ts, platform-account.ts *)
(*   packages/crypto/src/envelope.ts, env-provider.ts                      *)
(*                                                                         *)
(* Records are told apart by account and day; the deliveries of a job and  *)
(* the progress of a backfill are the business of Backfill, the refreshes  *)
(* that of Rollup.                                                         *)
(***************************************************************************)
EXTENDS TokenBucket, Calendar

CONSTANTS
  Account,       \* platform accounts that may be linked
  Scenes,        \* bound: the connectors, clocks and jobs the run looks at
  CallBudget,    \* bound: how often other callers of acquire() ask
  FaultBudget,   \* bound: errors of sources, Redis and statements
  MaxZones       \* bound: zones of the Cloudflare account

\* A job without a period of its own has this one.
NoPeriod == [start |-> 0, end |-> 0]

\* Where the run looks at other callers of the rate limiter it looks at no pulls.
ASSUME PullAssumption ==
  /\ CallBudget \in Nat /\ FaultBudget \in Nat /\ MaxZones \in Nat
  /\ IsFiniteSet(Worker)
  /\ \A s \in Scenes :
       /\ s.source \in {"ga4", "cloudflare_analytics"} /\ s.now \in Int /\ s.shape \in BOOLEAN
       /\ s.accounts \subseteq Account
       /\ \A j \in DOMAIN s.jobs : /\ s.jobs[j].granularity \in Granularity
                                   /\ s.jobs[j].period \in [start: Int, end: Int]
       /\ \A ask \in s.asks : /\ ask.cost \in Nat \ {0}
                              /\ ask.patience \in Nat \cup {NoDeadline}
       /\ s.asks # {} => s.jobs = <<>>

VARIABLES
  scene,      \* what this behaviour is about; never changes
  api,        \* the API's work on the connector
  config,     \* the connector_config row
  accounts,   \* the platform_account rows
  zones,      \* how many zones the Cloudflare account has
  queue,      \* the jobs: state and tries
  run,        \* the newest ingestion_run of each job
  listed,     \* history: the accounts each job has been told to pull
  work,       \* what each worker's handler is doing
  records,     \* history: job, account and day of every metric record written
  blank,      \* history: job and account of every answer without rows
  refreshes,  \* rollup refreshes added: account (for its node) and bucket
  requests,   \* history: reports asked of the source
  calls, faults  \* the bounded counters

counts   == <<calls, faults>>
tables   == <<config, accounts, records, blank, refreshes>>
pullVars == <<scene, api, zones, queue, run, listed, work, tables, requests, counts>>
vars     == <<bucketVars, pullVars>>

Jobs == DOMAIN scene.jobs

(***************************************************************************)
(* Errors.  A source's error is a HTTP status, a gRPC code or a message.   *)
(***************************************************************************)
HttpStatus == {"401", "403", "404", "429", "500"}
Network    == {"ECONNREFUSED", "unknown"}
Grpc       == {"UNAUTHENTICATED", "PERMISSION_DENIED", "INVALID_ARGUMENT", "NOT_FOUND",
               "RESOURCE_EXHAUSTED", "UNAVAILABLE"}
Wording    == {"invalid_grant", "forbidden"}

ClassifyHttp(status) ==
  CASE status = "401"            -> "AUTH_INVALID"
    [] status \in {"403", "404"} -> "CONFIG_INVALID"
    [] status = "429"            -> "RATE_LIMITED"
    [] OTHER                     -> "TRANSIENT"

ClassifyNetwork(error) ==
  IF error = "ECONNREFUSED" THEN "UPSTREAM_UNAVAILABLE" ELSE "TRANSIENT"

ClassifyGa4(error) ==
  CASE error \in HttpStatus                               -> ClassifyHttp(error)
    [] error \in {"UNAUTHENTICATED", "invalid_grant"}     -> "AUTH_INVALID"
    [] error \in {"PERMISSION_DENIED", "INVALID_ARGUMENT", "NOT_FOUND", "forbidden"}
                                                          -> "CONFIG_INVALID"
    [] error = "RESOURCE_EXHAUSTED"                       -> "RATE_LIMITED"
    [] error = "UNAVAILABLE"                              -> "UPSTREAM_UNAVAILABLE"
    [] OTHER                                              -> ClassifyNetwork(error)

ClassifyCloudflare(error) ==
  CASE error \in HttpStatus       -> ClassifyHttp(error)
    [] error = "graphql errors"   -> "CONFIG_INVALID"
    [] OTHER                      -> ClassifyNetwork(error)

Errors == IF scene.source = "ga4" THEN HttpStatus \cup Network \cup Grpc \cup Wording
          ELSE HttpStatus \cup Network \cup {"graphql errors"}

Classify(error) ==
  IF scene.source = "ga4" THEN ClassifyGa4(error) ELSE ClassifyCloudflare(error)

Retryable(code) == code \in {"RATE_LIMITED", "TRANSIENT", "UPSTREAM_UNAVAILABLE"}

\* validateCredentials of GA4 reports what cannot be repaired by waiting as
\* AUTH_INVALID.
ClassifyToken(error) ==
  IF scene.source = "ga4" /\ ~Retryable(Classify(error)) THEN "AUTH_INVALID"
  ELSE Classify(error)

(***************************************************************************)
(* State.                                                                  *)
(***************************************************************************)
NoWork   == [at |-> "idle", job |-> 0, shape |-> FALSE, todo |-> {},
             on |-> {}, days |-> {}, affected |-> {}, code |-> "", finished |-> FALSE]

\* The API and the ingestion are given different keyrings: the API its whole
\* environment, the ingestion LWA_KEK_V1 alone.
Current   == "v1"
Ingestion == {"v1"}

Init ==
  /\ BucketInit
  /\ scene \in Scenes
  /\ api = [at |-> IF scene.sealed = "not created" THEN "none" ELSE "created",
            code |-> "", page |-> 0, found |-> {}, known |-> {}]
  /\ config = [sealed |-> scene.sealed, status |-> "active"]
  /\ accounts = IF scene.sealed = "not created" THEN {} ELSE scene.accounts
  /\ zones = 1
  /\ queue = [j \in Jobs |-> [state |-> "waiting", tries |-> 0]]
  /\ run = [j \in Jobs |-> [status |-> "none", period |-> NoPeriod]]
  /\ listed = [j \in Jobs |-> {}]
  /\ work = [w \in Worker |-> NoWork]
  /\ records = {} /\ blank = {} /\ refreshes = {}
  /\ requests = 0 /\ calls = 0 /\ faults = 0

Fault == scene.faulty /\ faults < FaultBudget /\ faults' = faults + 1

(***************************************************************************)
(* The API.                                                                *)
(***************************************************************************)
\* POST connectors: validateCredentials; a bad shape is refused unasked.
Submit ==
  /\ api.at = "none"
  /\ api' = [api EXCEPT !.at = IF scene.shape THEN "validating" ELSE "refused",
                        !.code = IF scene.shape THEN "" ELSE "AUTH_INVALID"]
  /\ UNCHANGED <<bucketVars, scene, zones, queue, run, listed, work, tables, requests, counts>>

Refused ==
  /\ api.at = "validating"
  /\ Fault
  /\ \E error \in Errors :
       api' = [api EXCEPT !.at = "refused", !.code = ClassifyToken(error)]
  /\ UNCHANGED <<bucketVars, scene, zones, queue, run, listed, work, tables, requests, calls>>

\* The credentials are sealed with the current key and records with its version.
Created ==
  /\ api.at = "validating"
  /\ config' = [config EXCEPT !.sealed = Current]
  /\ api' = [api EXCEPT !.at = "created"]
  /\ UNCHANGED <<bucketVars, scene, zones, queue, run, listed, work, accounts, records, blank,
                 refreshes, requests, counts>>

\* POST accounts: insert, or update the row of the same external id.
LinkAccount(a) ==
  /\ api.at # "none" /\ config.sealed # "not created"
  /\ a \in scene.accounts \ accounts
  /\ accounts' = accounts \cup {a}
  /\ UNCHANGED <<bucketVars, scene, api, zones, queue, run, listed, work, config, records, blank,
                 refreshes, requests, counts>>

\* POST test: validateCredentials, whose answer is only reported, then listAccounts.
Test ==
  /\ api.at = "created" /\ scene.tested
  /\ api' = [api EXCEPT !.at = IF scene.source = "ga4" THEN "listed" ELSE "listing",
                        !.page = 1, !.known = 1..zones]
  /\ UNCHANGED <<bucketVars, scene, zones, queue, run, listed, work, tables, requests, counts>>

ZonesPerPage == 2
ZonePages == (zones + ZonesPerPage - 1) \div ZonesPerPage
ZonePage(n) == {z \in 1..zones : (z - 1) \div ZonesPerPage = n - 1}

\* A slip: the loop ends one page early.
ListPageShort ==
  /\ api.at = "listing"
  /\ api' = [api EXCEPT !.at = IF api.page >= ZonePages - 1 THEN "listed" ELSE "listing",
                        !.page = api.page + 1,
                        !.found = api.found \cup ZonePage(api.page)]
  /\ UNCHANGED <<bucketVars, scene, zones, queue, run, listed, work, tables, requests, counts>>

\* The next page, and from its answer how many pages there are.
ListPage ==
  /\ api.at = "listing"
  /\ api' = [api EXCEPT !.at = IF api.page + 1 > ZonePages THEN "listed" ELSE "listing",
                        !.page = api.page + 1,
                        !.found = api.found \cup ZonePage(api.page)]
  /\ UNCHANGED <<bucketVars, scene, zones, queue, run, listed, work, tables, requests, counts>>

ListFails ==
  /\ api.at = "listing"
  /\ Fault
  /\ api' = [api EXCEPT !.at = "not listed"]
  /\ UNCHANGED <<bucketVars, scene, zones, queue, run, listed, work, tables, requests, calls>>

ZoneAdded ==
  /\ scene.tested /\ api.at \in {"created", "listing"}
  /\ zones < MaxZones
  /\ zones' = zones + 1
  /\ UNCHANGED <<bucketVars, scene, api, queue, run, listed, work, tables, requests, counts>>

(***************************************************************************)
(* The pull handler.                                                       *)
(***************************************************************************)
\* What most steps of a handler leave alone.
Elsewhere == UNCHANGED <<scene, api, zones, listed, calls>>
Private   == UNCHANGED <<bucketVars, tables, requests, faults, queue, run>> /\ Elsewhere

\* The window at each moment the run looks at: a table, worked out once.
WindowAt == [t \in {s.now : s \in Scenes} |-> [g \in Granularity |-> Window(t, g)]]

\* The period a job was given or works out.
PeriodOf(j) == LET job == scene.jobs[j]
               IN  IF job.period = NoPeriod THEN WindowAt[scene.now][job.granularity]
                   ELSE job.period

\* The lookups, resolvePeriodWindow and runs.start.
Deliver(w, j) ==
  /\ work[w].at = "idle"
  /\ queue[j].state = "waiting" /\ config.sealed # "not created"
  /\ queue' = [queue EXCEPT ![j].state = "active"]
  /\ run' = [run EXCEPT ![j] = [status |-> "running", period |-> PeriodOf(j)]]
  /\ work' = [work EXCEPT ![w] = [NoWork EXCEPT !.at = "credentials", !.job = j]]
  /\ UNCHANGED <<bucketVars, tables, requests, faults>> /\ Elsewhere

\* A row without credentials is pulled with an empty object.
ReadCredentials(w) ==
  /\ work[w].at = "credentials"
  /\ config.sealed \in Ingestion \cup {"none"}
  /\ work' = [work EXCEPT ![w].at = "accounts",
                          ![w].shape = config.sealed # "none" /\ scene.shape]
  /\ Private

\* openCredentials asks for a key the ingestion was not given.
UnknownKey(w) ==
  /\ work[w].at = "credentials"
  /\ config.sealed \notin Ingestion \cup {"none"}
  /\ work' = [work EXCEPT ![w].at = "failing", ![w].code = "TRANSIENT"]
  /\ Private

ListAccounts(w) ==
  /\ work[w].at = "accounts" /\ accounts # {}
  /\ work' = [work EXCEPT ![w].at = "loop", ![w].todo = accounts]
  /\ listed' = [listed EXCEPT ![work[w].job] = accounts]
  /\ UNCHANGED <<bucketVars, scene, api, zones, tables, requests, counts, queue, run>>

NoAccounts(w) ==
  /\ work[w].at = "accounts" /\ accounts = {}
  /\ run' = [run EXCEPT ![work[w].job].status = "skipped"]
  /\ queue' = [queue EXCEPT ![work[w].job].state = "done"]
  /\ work' = [work EXCEPT ![w] = NoWork]
  /\ UNCHANGED <<bucketVars, tables, requests, faults>> /\ Elsewhere

\* connector.pull of the next account, in the order Postgres listed them.
PullAccount(w, a) ==
  /\ work[w].at = "loop" /\ a \in work[w].todo /\ work[w].shape
  /\ work' = [work EXCEPT ![w].at = "acquire", ![w].todo = work[w].todo \ {a},
                          ![w].on = {a}]
  /\ Ask(w, 1, NoDeadline)
  /\ UNCHANGED <<tables, requests, faults, queue, run>> /\ Elsewhere

BadShape(w) ==
  /\ work[w].at = "loop" /\ work[w].todo # {} /\ ~work[w].shape
  /\ work' = [work EXCEPT ![w].at = "failing", ![w].code = "AUTH_INVALID"]
  /\ Private

\* A slip: the report is asked for without waiting for acquire() to return.
RequestUnpaced(w) ==
  /\ work[w].at = "acquire"
  /\ call' = [call EXCEPT ![w] = NoCall]
  /\ work' = [work EXCEPT ![w].at = "request"]
  /\ requests' = requests + 1
  /\ UNCHANGED <<clock, skew, bucket, spent, disturbed, tables, faults, queue, run>>
  /\ Elsewhere

Request(w) ==
  /\ work[w].at = "acquire" /\ call[w].at = "granted"
  /\ Leave(w)
  /\ work' = [work EXCEPT ![w].at = "request"]
  /\ requests' = requests + 1
  /\ UNCHANGED <<tables, faults, queue, run>> /\ Elsewhere

\* acquire() throws out of connector.pull.
LimiterFails(w) ==
  /\ work[w].at = "acquire" /\ call[w].at = "refused"
  /\ Leave(w)
  /\ \E error \in Network :
       work' = [work EXCEPT ![w].at = "failing", ![w].code = ClassifyNetwork(error)]
  /\ UNCHANGED <<tables, requests, faults, queue, run>> /\ Elsewhere

PeriodStart(w) == run[work[w].job].period.start
PeriodEnd(w)   == run[work[w].job].period.end

\* One row a day for each day asked for, or none at all.
Rows(w) ==
  /\ work[w].at = "request"
  /\ work' = [work EXCEPT ![w].at = "store",
                ![w].days = AskedDays(scene.source, PeriodStart(w), PeriodEnd(w))]
  /\ Private

NoRows(w) ==
  /\ work[w].at = "request"
  /\ work' = [work EXCEPT ![w].at = "store", ![w].days = {}]
  /\ blank' = blank \cup ({work[w].job} \X work[w].on)
  /\ UNCHANGED <<bucketVars, config, accounts, records, refreshes, requests, faults, queue,
                 run>>
  /\ Elsewhere

SourceFails(w) ==
  /\ work[w].at = "request"
  /\ Fault
  /\ \E error \in Errors :
       work' = [work EXCEPT ![w].at = "failing", ![w].code = Classify(error)]
  /\ UNCHANGED <<bucketVars, tables, requests, queue, run>> /\ Elsewhere

\* The bucket of every record, for the node of its account.
Buckets(w) ==
  work[w].on \X {BucketStart(24 * d, MapToRollup("day")) : d \in work[w].days}

\* upsertMany, the affected buckets, updateLastSynced.
Store(w) ==
  /\ work[w].at = "store"
  /\ work[w].on \cap scene.foreign = {} \/ work[w].days = {}
  /\ records' = records \cup ({work[w].job} \X work[w].on \X work[w].days)
  /\ work' = [work EXCEPT ![w].at = "loop",
                          ![w].affected = work[w].affected \cup Buckets(w)]
  /\ UNCHANGED <<bucketVars, config, accounts, blank, refreshes, requests, faults, queue,
                 run>>
  /\ Elsewhere

\* A record for a node of another tenant: nothing of the account is written.
OutsideTenant(w) ==
  /\ work[w].at = "store"
  /\ work[w].on \cap scene.foreign # {} /\ work[w].days # {}
  /\ work' = [work EXCEPT ![w].at = "failing", ![w].code = "TENANT_BOUNDARY_VIOLATION"]
  /\ Private

\* A slip: the success is written inside the loop.
ActivateEarly(w) ==
  /\ work[w].at = "loop" /\ work[w].todo # listed[work[w].job]
  /\ config' = [config EXCEPT !.status = "active"]
  /\ work' = [work EXCEPT ![w].at = "success"]
  /\ UNCHANGED <<bucketVars, accounts, records, blank, refreshes, requests, faults, queue,
                 run>>
  /\ Elsewhere

Activate(w) ==
  /\ work[w].at = "loop" /\ work[w].todo = {}
  /\ config' = [config EXCEPT !.status = "active"]
  /\ work' = [work EXCEPT ![w].at = "success"]
  /\ UNCHANGED <<bucketVars, accounts, records, blank, refreshes, requests, faults, queue,
                 run>>
  /\ Elsewhere

FinishSuccess(w) ==
  /\ work[w].at = "success"
  /\ run' = [run EXCEPT ![work[w].job].status = "success"]
  /\ work' = [work EXCEPT ![w].at = "enqueue", ![w].finished = TRUE]
  /\ UNCHANGED <<bucketVars, tables, requests, faults, queue>> /\ Elsewhere

\* rollupQueue.add for each affected bucket; the job is done.
AddRefreshes(w) ==
  /\ work[w].at = "enqueue"
  /\ refreshes' = refreshes \cup work[w].affected
  /\ queue' = [queue EXCEPT ![work[w].job].state = "done"]
  /\ work' = [work EXCEPT ![w] = NoWork]
  /\ UNCHANGED <<bucketVars, config, accounts, records, blank, requests, faults, run>>
  /\ Elsewhere

\* finishRun("failed"), once; a code that will not go away by itself stops the
\* connector, any other is thrown for the queue to retry.
FinishFailed(w) ==
  /\ work[w].at = "failing"
  /\ run' = IF work[w].finished THEN run ELSE [run EXCEPT ![work[w].job].status = "failed"]
  /\ work' = [work EXCEPT ![w].at = IF Retryable(work[w].code) THEN "throw" ELSE "stop",
                          ![w].finished = TRUE]
  /\ UNCHANGED <<bucketVars, tables, requests, faults, queue>> /\ Elsewhere

StopConnector(w) ==
  /\ work[w].at = "stop"
  /\ config' = [config EXCEPT !.status =
       IF work[w].code = "AUTH_INVALID" THEN "paused" ELSE "error"]
  /\ queue' = [queue EXCEPT ![work[w].job].state = "done"]
  /\ work' = [work EXCEPT ![w] = NoWork]
  /\ UNCHANGED <<bucketVars, accounts, records, blank, refreshes, requests, faults, run>>
  /\ Elsewhere

\* A statement, or an add, rejects: the outer catch.
StatementFails(w) ==
  /\ \/ work[w].at \in {"credentials", "accounts", "store", "success", "enqueue", "stop"}
     \/ work[w].at = "loop" /\ work[w].todo = {}
  /\ Fault
  /\ work' = [work EXCEPT ![w].at = "failing", ![w].code = "TRANSIENT"]
  /\ UNCHANGED <<bucketVars, tables, requests, queue, run>> /\ Elsewhere

\* A slip: an attempt that ends in the catch is not counted.
ThrowUncounted(w) ==
  /\ work[w].at = "throw"
  /\ queue' = [queue EXCEPT ![work[w].job].state = "waiting"]
  /\ work' = [work EXCEPT ![w] = NoWork]
  /\ UNCHANGED <<bucketVars, tables, requests, faults, run>> /\ Elsewhere

Throw(w) ==
  /\ work[w].at = "throw"
  /\ LET j == work[w].job
     IN  queue' = [queue EXCEPT ![j] =
           [state |-> IF queue[j].tries + 1 < scene.attempts THEN "waiting" ELSE "failed",
            tries |-> queue[j].tries + 1]]
  /\ work' = [work EXCEPT ![w] = NoWork]
  /\ UNCHANGED <<bucketVars, tables, requests, faults, run>> /\ Elsewhere

(***************************************************************************)
(* Everybody.                                                              *)
(***************************************************************************)
OthersAsk == scene.asks # {}

\* acquire() as any caller may use it, where no pull is looked at.
Acquire(w) ==
  /\ calls < CallBudget
  /\ calls' = calls + 1
  /\ \E ask \in scene.asks : Ask(w, ask.cost, ask.patience)
  /\ UNCHANGED <<scene, api, zones, queue, run, listed, work, tables, requests, faults>>

Return(w) == OthersAsk /\ Leave(w) /\ UNCHANGED pullVars

Limit(w) == BucketStep(w) /\ UNCHANGED pullVars

LoseRedis(w) ==
  /\ RedisFails(w)
  /\ Fault
  /\ UNCHANGED <<scene, api, zones, queue, run, listed, work, tables, requests, calls>>

\* Time that nobody waits for, and clocks set back, matter to the bucket alone.
Time == /\ Tick \/ (OthersAsk /\ SetBack)
        /\ OthersAsk \/ \E w \in Worker : call[w].at = "sleeping"
        /\ UNCHANGED pullVars

Ends(w) ==
  \/ ReadCredentials(w) \/ UnknownKey(w) \/ ListAccounts(w) \/ NoAccounts(w)
  \/ \E a \in Account : PullAccount(w, a)
  \/ BadShape(w) \/ Request(w) \/ LimiterFails(w) \/ Rows(w) \/ NoRows(w) \/ Store(w)
  \/ OutsideTenant(w) \/ Activate(w) \/ FinishSuccess(w) \/ AddRefreshes(w)
  \/ FinishFailed(w) \/ StopConnector(w) \/ Throw(w)

Next ==
  \/ Submit \/ Refused \/ Created \/ Test \/ ListPage \/ ListFails \/ ZoneAdded
  \/ \E a \in Account : LinkAccount(a)
  \/ \E w \in Worker :
       \/ \E j \in Jobs : Deliver(w, j)
       \/ Ends(w)
       \/ SourceFails(w) \/ StatementFails(w)
       \/ Acquire(w) \/ Return(w) \/ Limit(w) \/ LoseRedis(w)
  \/ Time

Spec == Init /\ [][Next]_vars

\* The processes go on with what they have begun and time passes.
Fairness ==
  /\ WF_vars(Submit \/ Created \/ Test \/ ListPage)
  /\ WF_vars(Tick /\ Time)
  /\ \A w \in Worker : /\ WF_vars(\E j \in Jobs : Deliver(w, j))
                       /\ WF_vars(Ends(w))
                       /\ WF_vars(Limit(w))

FairSpec == Spec /\ Fairness

(***************************************************************************)
(* Properties.                                                             *)
(***************************************************************************)
\* A job without a period of its own pulls the last hour, day, week, month or
\* quarter that is over at the moment it runs, at any time of any day, the ends
\* of months and leap days included (pull.ts 298-358).
WindowIsLastPeriod ==
  \A j \in Jobs : run[j].status # "none" /\ scene.jobs[j].period = NoPeriod =>
    IsLastPeriod(run[j].period, scene.now, scene.jobs[j].granularity)

\* Where there is nothing but a moment to look at.
Moment == scene.jobs = <<>> /\ ~OthersAsk

\* A record begins in exactly one bucket of each granularity; the ingestion and
\* the API, which compute it separately, name the same one; and a manual entry is
\* taken for a week or a month exactly if it is the bucket it will be added to
\* (rollup-debounce.ts 3-47, entries.ts 168-231, period.ts 66-71).
BucketsHold ==
  Moment =>
    /\ \A g \in RollupGranularity :
         LET start == BucketStart(scene.now, g)
             end   == BucketEnd(start, g)
         IN  /\ IsPeriod(start, end, g) /\ start <= scene.now /\ scene.now < end
             /\ EntryBucketStart(scene.now, g) = start
             /\ EntryBucketEnd(start, g) = end
    /\ \A days \in {6, 7, 8, 28, 29, 30, 31}, g \in {"week", "month"} :
         LET start == Midnight(scene.now)
             end   == start + 24 * days
         IN  InferGranularity(start, end) = g <=>
               start = BucketStart(start, g) /\ end = BucketEnd(start, g)

\* The board compares a period with one that ends and begins earlier, is not
\* turned round, and is longer or shorter by no more days than months differ,
\* although setUTCMonth carries the 31st into the next month (metrics.ts 107-139).
BoardWindowsMatch ==
  Moment => \A period \in Period, comparison \in Comparison :
    LET w == BoardWindows(scene.now, period, comparison)
    IN  /\ w.cur.start <= w.cur.end /\ w.prev.start <= w.prev.end
        /\ comparison # "none" => w.prev.start < w.cur.start /\ w.prev.end < w.cur.end
        /\ DaysIn(w.prev) - DaysIn(w.cur) \in -3..3

\* The chunks of a backfill ask for no day twice, for every whole day of the
\* range, and for no day outside it, although the range may begin and end at any
\* hour (backfill.ts 159-172 with ga4.ts 215-235, cloudflare-analytics.ts 214-227).
EachDayOnce ==
  Moment => \A hours \in {1, 5, 24, 30, 48, 151}, size \in {1, 2, 7} :
    LET start    == scene.now
        end      == start + hours
        cut      == Chunks(start, end, size)
        asked(i) == AskedDays(scene.source, cut[i].start, cut[i].end)
        all      == UNION {asked(i) : i \in DOMAIN cut}
    IN  /\ \A i, j \in DOMAIN cut : i # j => asked(i) \cap asked(j) = {}
        /\ WholeDays(start, end) \subseteq all
        /\ all \subseteq TouchedDays(start, end)

\* A run that ends with success has, for every account it was told to pull,
\* either the records of all whole days of its period or an answer without rows;
\* and once its job is done the rollup bucket of each has its refresh
\* (pull.ts 111-284).
SuccessMeansStored ==
  \A j \in Jobs : run[j].status = "success" =>
    LET whole == WholeDays(run[j].period.start, run[j].period.end)
    IN  \A a \in listed[j] :
          \/ <<j, a>> \in blank
          \/ /\ \A d \in whole : <<j, a, d>> \in records
             /\ queue[j].state = "done" =>
                  \A d \in whole : <<a, BucketStart(24 * d, "day")>> \in refreshes

\* However many workers pull, the source is asked for no more reports than a full
\* bucket and the time gone by allow (pull.ts 42-51, ga4.ts 97).
Paced == requests * Second <= Full + Refill * clock

\* A list of accounts that is answered has every zone there was when it was asked
\* for, also when zones are added between its pages (cloudflare-analytics.ts 76-99).
AccountsListed ==
  api.at = "listed" /\ scene.source = "cloudflare_analytics" => api.known \subseteq api.found

\* Once a connector exists, each of its jobs is done or has failed for good:
\* waiting for tokens and retrying come to an end (pull.ts, rate-limiter.ts 115-134).
EveryJobEnds ==
  config.sealed # "not created" ~> \A j \in Jobs : queue[j].state \in {"done", "failed"}
=============================================================================
