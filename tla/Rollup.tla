-------------------------------- MODULE Rollup --------------------------------
(***************************************************************************)
(* From a pull that writes metric records to the rollups the dashboards    *)
(* read, for one bucket (tenant, category, day).                           *)
(*                                                                         *)
(*   services/ingestion/src/handlers/pull.ts            the writer         *)
(*   services/ingestion/src/handlers/rollup-refresh.ts  the refresh job    *)
(*   packages/db/src/repositories/metric-rollup.ts      refreshBucket      *)
(*   services/api/src/routes/hierarchy.ts               the tree moves     *)
(*                                                                         *)
(* A record is abstracted to its version (how often it was written) and a  *)
(* rollup row to the versions its total was computed from, so that "stale" *)
(* is a comparison.  Refresh jobs are BullMQ jobs with one id per node and *)
(* bucket: adding an id that exists in any state does nothing.             *)
(***************************************************************************)
EXTENDS Hierarchy, Sequences

CONSTANTS
  Puller,         \* pull and backfill jobs that write into this bucket
  Accounts,       \* for each of them the nodes its platform accounts feed
  Refresher,      \* refresh handlers that may run at the same time
  Nobody,         \* no refresher holds the advisory lock
  InitialParent,  \* the tree at the start
  PullBudget,     \* bound: how often each puller runs
  TreeBudget,     \* bound: how many nodes are moved or archived
  FaultBudget,    \* bound: how many failures happen
  Faults          \* which failures may happen, a subset of Fault

Fault == {"pull", "redis", "refresh"}

ASSUME RollupAssumption ==
  /\ Accounts \in [Puller -> SUBSET Node]
  /\ Nobody \notin Refresher
  /\ InitialParent \in [Node -> Node \cup {NoNode}]
  /\ PullBudget \in Nat /\ TreeBudget \in Nat /\ FaultBudget \in Nat
  /\ Faults \subseteq Fault

VARIABLES
  parent, archived,  \* hierarchy_node
  record,            \* the version of each node's metric_record, 0 for none
  rollup,            \* each node's metric_rollup row
  job,               \* the refresh job of each node
  pull,              \* what each puller is doing
  refresh,           \* what each refresher is doing
  holder,            \* who holds the advisory lock of each node's bucket
  pulls, moves, faults  \* the bounded counters

tree   == <<parent, archived>>
counts == <<pulls, moves, faults>>
vars   == <<tree, record, rollup, job, pull, refresh, holder, counts>>

NoTotal == [n \in Node |-> 0]

NoPull    == [at |-> "idle", todo |-> {}, affected |-> {}]

\* A refresher's step, the leaf of its job, the nodes still to refresh, the
\* total it has read, and (history) the leaf's version when the job began.
NoRefresh == [at |-> "idle", leaf |-> NoNode, todo |-> <<>>, total |-> NoTotal, due |-> 0]

Init ==
  /\ parent = InitialParent
  /\ archived = {}
  /\ record = NoTotal
  /\ rollup = [n \in Node |-> NoTotal]
  /\ job = [n \in Node |-> "none"]
  /\ pull = [p \in Puller |-> NoPull]
  /\ refresh = [q \in Refresher |-> NoRefresh]
  /\ holder = [n \in Node |-> Nobody]
  /\ pulls = [p \in Puller |-> 0]
  /\ moves = 0
  /\ faults = 0

Fails(kind) ==
  /\ kind \in Faults
  /\ faults < FaultBudget
  /\ faults' = faults + 1

(***************************************************************************)
(* The pull: account after account, each with an upsert of its own; the    *)
(* refresh jobs are added when all accounts are through.                   *)
(***************************************************************************)
StartPull(p) ==
  /\ pull[p].at = "idle"
  /\ pulls[p] < PullBudget
  /\ pulls' = [pulls EXCEPT ![p] = @ + 1]
  /\ pull' = [pull EXCEPT ![p] = [at |-> "pull", todo |-> Accounts[p], affected |-> {}]]
  /\ UNCHANGED <<tree, record, rollup, job, refresh, holder, moves, faults>>

PullAccount(p, n) ==
  /\ pull[p].at = "pull"
  /\ n \in pull[p].todo
  /\ record' = [record EXCEPT ![n] = @ + 1]
  /\ pull' = [pull EXCEPT ![p].todo = @ \ {n}, ![p].affected = @ \cup {n}]
  /\ UNCHANGED <<tree, rollup, job, refresh, holder, counts>>

\* An account fails, for good or for now, or the process dies: the handler
\* returns or throws, and the accounts before it stay written.
PullFails(p) ==
  /\ Fails("pull")
  /\ pull[p].at = "pull"
  /\ pull' = [pull EXCEPT ![p] = NoPull]
  /\ UNCHANGED <<tree, record, rollup, job, refresh, holder, pulls, moves>>

\* The connector's status and the run's success are written here.
FinishPull(p) ==
  /\ pull[p].at = "pull"
  /\ pull[p].todo = {}
  /\ pull' = [pull EXCEPT ![p].at = "enqueue"]
  /\ UNCHANGED <<tree, record, rollup, job, refresh, holder, counts>>

\* Slip (never used by the specification): one job id for the whole bucket.
AddRefreshOnce(p, n) ==
  /\ pull[p].at = "enqueue"
  /\ n \in pull[p].affected
  /\ job' = [job EXCEPT ![n] =
               IF \A m \in Node : job[m] = "none" THEN "waiting" ELSE @]
  /\ pull' = [pull EXCEPT ![p].affected = @ \ {n}]
  /\ UNCHANGED <<tree, record, rollup, refresh, holder, counts>>

\* rollupQueue.add: the 30 s delay and the wait are one state, "waiting".
AddRefresh(p, n) ==
  /\ pull[p].at = "enqueue"
  /\ n \in pull[p].affected
  /\ job' = [job EXCEPT ![n] = IF @ = "none" THEN "waiting" ELSE @]
  /\ pull' = [pull EXCEPT ![p].affected = @ \ {n}]
  /\ UNCHANGED <<tree, record, rollup, refresh, holder, counts>>

\* Redis rejects an add, or the process dies: the run is already a success.
EnqueueFails(p) ==
  /\ Fails("redis")
  /\ pull[p].at = "enqueue"
  /\ pull' = [pull EXCEPT ![p] = NoPull]
  /\ UNCHANGED <<tree, record, rollup, job, refresh, holder, pulls, moves>>

PullDone(p) ==
  /\ pull[p].at = "enqueue"
  /\ pull[p].affected = {}
  /\ pull' = [pull EXCEPT ![p] = NoPull]
  /\ UNCHANGED <<tree, record, rollup, job, refresh, holder, counts>>

(***************************************************************************)
(* The refresh job: the ancestors once, then one transaction per node:     *)
(* advisory lock, aggregate, upsert, commit.                               *)
(***************************************************************************)
DeliverRefresh(q, n) ==
  /\ refresh[q].at = "idle"
  /\ job[n] = "waiting"
  /\ job' = [job EXCEPT ![n] = "active"]
  /\ refresh' = [refresh EXCEPT ![q] =
                  [NoRefresh EXCEPT !.at = "list", !.leaf = n, !.due = record[n]]]
  /\ UNCHANGED <<tree, record, rollup, pull, holder, counts>>

\* Slip: the leaf is refreshed and nothing above it.
ListLeaf(q) ==
  /\ refresh[q].at = "list"
  /\ refresh' = [refresh EXCEPT ![q].at = "lock", ![q].todo = <<refresh[q].leaf>>]
  /\ UNCHANGED <<tree, record, rollup, job, pull, holder, counts>>

ListAncestors(q) ==
  /\ refresh[q].at = "list"
  /\ refresh' = [refresh EXCEPT ![q].at = "lock",
                                ![q].todo = Ancestors(parent, refresh[q].leaf)]
  /\ UNCHANGED <<tree, record, rollup, job, pull, holder, counts>>

\* Slip: no advisory lock.
LockNothing(q) ==
  /\ refresh[q].at = "lock"
  /\ refresh[q].todo # <<>>
  /\ holder' = [holder EXCEPT ![Head(refresh[q].todo)] = q]
  /\ refresh' = [refresh EXCEPT ![q].at = "read"]
  /\ UNCHANGED <<tree, record, rollup, job, pull, counts>>

LockBucket(q) ==
  LET n == Head(refresh[q].todo) IN
  /\ refresh[q].at = "lock"
  /\ refresh[q].todo # <<>>
  /\ holder[n] = Nobody
  /\ holder' = [holder EXCEPT ![n] = q]
  /\ refresh' = [refresh EXCEPT ![q].at = "read"]
  /\ UNCHANGED <<tree, record, rollup, job, pull, counts>>

Total(n) ==
  LET below == Subtree(parent, archived, n)
  IN  [m \in Node |-> IF m \in below THEN record[m] ELSE 0]

\* The aggregate is a statement of its own, after the lock: its snapshot is
\* the database at this moment.  It does not end while n is on a cycle.
ReadBucket(q) ==
  LET n == Head(refresh[q].todo) IN
  /\ refresh[q].at = "read"
  /\ ~ Endless(parent, archived, n)
  /\ refresh' = [refresh EXCEPT ![q].at = "write", ![q].total = Total(n)]
  /\ UNCHANGED <<tree, record, rollup, job, pull, holder, counts>>

\* Slip: the loop does not move on to the next ancestor.
WriteBucketAgain(q) ==
  LET n == Head(refresh[q].todo) IN
  /\ refresh[q].at = "write"
  /\ rollup' = [rollup EXCEPT ![n] = refresh[q].total]
  /\ holder' = [holder EXCEPT ![n] = Nobody]
  /\ refresh' = [refresh EXCEPT ![q].at = "lock", ![q].total = NoTotal]
  /\ UNCHANGED <<tree, record, job, pull, counts>>

\* The upsert becomes visible and the lock is released at the commit.
WriteBucket(q) ==
  LET n == Head(refresh[q].todo) IN
  /\ refresh[q].at = "write"
  /\ rollup' = [rollup EXCEPT ![n] = refresh[q].total]
  /\ holder' = [holder EXCEPT ![n] = Nobody]
  /\ refresh' = [refresh EXCEPT ![q].at = "lock", ![q].todo = Tail(@),
                                ![q].total = NoTotal]
  /\ UNCHANGED <<tree, record, job, pull, counts>>

RefreshDone(q) ==
  /\ refresh[q].at = "lock"
  /\ refresh[q].todo = <<>>
  /\ job' = [job EXCEPT ![refresh[q].leaf] = "none"]
  /\ refresh' = [refresh EXCEPT ![q] = NoRefresh]
  /\ UNCHANGED <<tree, record, rollup, pull, holder, counts>>

\* A statement fails: the transaction is rolled back and the job, added with
\* no attempts option and kept when it fails, is "failed".
RefreshFails(q) ==
  /\ Fails("refresh")
  /\ refresh[q].at # "idle"
  /\ job' = [job EXCEPT ![refresh[q].leaf] = "failed"]
  /\ refresh' = [refresh EXCEPT ![q] = NoRefresh]
  /\ holder' = [n \in Node |-> IF holder[n] = q THEN Nobody ELSE holder[n]]
  /\ UNCHANGED <<tree, record, rollup, pull, pulls, moves>>

(***************************************************************************)
(* The hierarchy routes.  Neither enqueues a refresh.                      *)
(***************************************************************************)
\* PATCH with a parentId: a parent must exist and not be archived, nothing
\* else is asked, not even that it is another node; null makes a root.
Reparent(n, m) ==
  /\ moves < TreeBudget
  /\ m \notin archived
  /\ parent[n] # m
  /\ parent' = [parent EXCEPT ![n] = m]
  /\ moves' = moves + 1
  /\ UNCHANGED <<archived, record, rollup, job, pull, refresh, holder, pulls, faults>>

Archive(n) ==
  /\ moves < TreeBudget
  /\ n \notin archived
  /\ archived' = archived \cup {n}
  /\ moves' = moves + 1
  /\ UNCHANGED <<parent, record, rollup, job, pull, refresh, holder, pulls, faults>>

-----------------------------------------------------------------------------
Pulling(p) ==
  \/ StartPull(p) \/ FinishPull(p) \/ PullDone(p)
  \/ \E n \in Node : PullAccount(p, n) \/ AddRefresh(p, n)

Refreshing(q) ==
  \/ ListAncestors(q) \/ LockBucket(q) \/ ReadBucket(q) \/ WriteBucket(q) \/ RefreshDone(q)

\* The queue is drained, no pull is left and no handler is at work.
Settled ==
  /\ \A p \in Puller : pull[p].at = "idle" /\ pulls[p] = PullBudget
  /\ \A q \in Refresher : refresh[q].at = "idle"
  /\ \A n \in Node : job[n] \notin {"waiting", "active"}

Stopped == Settled /\ UNCHANGED vars

Next ==
  \/ \E p \in Puller : Pulling(p) \/ PullFails(p) \/ EnqueueFails(p)
  \/ \E q \in Refresher, n \in Node : DeliverRefresh(q, n)
  \/ \E q \in Refresher : Refreshing(q) \/ RefreshFails(q)
  \/ \E n \in Node, m \in Node \cup {NoNode} : Reparent(n, m)
  \/ \E n \in Node : Archive(n)
  \/ Stopped

\* Handlers run on; the queue hands out waiting jobs; a free advisory lock is
\* granted to a transaction that keeps asking (strong, as other refreshers
\* may take it in between; Postgres queues lock requests).
Fairness ==
  /\ \A p \in Puller : WF_vars(Pulling(p))
  /\ \A q \in Refresher : SF_vars(Refreshing(q))
  /\ \A n \in Node : WF_vars(\E q \in Refresher : DeliverRefresh(q, n))

Spec     == Init /\ [][Next]_vars
FairSpec == Spec /\ Fairness

-----------------------------------------------------------------------------
\* As long as no node is moved or archived, a refresh never puts older records
\* back into a rollup that already shows newer ones, however refreshes of
\* different nodes overlap on an ancestor.
RollupNeverRegresses ==
  [][moves = 0 => \A n, m \in Node : rollup'[n][m] >= rollup[n][m]]_rollup

\* A committed write that some rollup above it does not show yet is still on
\* its way: its pull is running, or its refresh job is waiting or active.
Stale(n, m) == rollup[n][m] # Total(n)[m]
OnItsWay(m) ==
  \/ job[m] \in {"waiting", "active"}
  \/ \E p \in Puller : m \in pull[p].todo \cup pull[p].affected

EveryWriteRefreshed == \A n, m \in Node : Stale(n, m) => OnItsWay(m)

\* Once all is quiet the dashboard shows exactly the records.
SettledIsFresh == Settled => \A n \in Node : rollup[n] = Total(n)

\* Every rollup that has fallen behind catches up.
CatchesUp == \A n, m \in Node : Stale(n, m) ~> ~Stale(n, m)

\* A refresh that was started comes to an end, whatever is moved or archived
\* meanwhile, unless a move has made a circle of parents: nothing else can hang
\* a refresh, no lock is waited for in vain.
Circle == \E n \in Node : Endless(parent, archived, n)
OnlyCirclesHang ==
  \A q \in Refresher : refresh[q].at # "idle" ~> (refresh[q].at = "idle" \/ Circle)

\* As long as no node is moved or archived, a refresh that gets to its end has
\* brought every rollup above its leaf at least to the version the leaf had when
\* the job began, however other refreshes of the same ancestors overlap it or
\* fail beside it.
RefreshCovers ==
  \A q \in Refresher :
    (moves = 0 /\ refresh[q].at = "lock" /\ refresh[q].todo = <<>>) =>
      \A n \in Node : refresh[q].leaf \in Subtree(parent, archived, n)
                       => rollup[n][refresh[q].leaf] >= refresh[q].due

=============================================================================
