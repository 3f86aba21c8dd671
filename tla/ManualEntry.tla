----------------------------- MODULE ManualEntry -----------------------------
(***************************************************************************)
(* Figures typed in by hand: POST /tenants/:slug/entries writes a record   *)
(* and refreshes every rollup above it in one transaction, for one bucket  *)
(* (tenant, category, week or month).                                      *)
(*                                                                         *)
(*   services/api/src/routes/entries.ts              the request           *)
(*   packages/db/src/repositories/metric-record.ts   the upsert            *)
(*   packages/db/src/repositories/metric-rollup.ts   the refresh           *)
(*   services/api/src/routes/hierarchy.ts            the tree moves        *)
(*                                                                         *)
(* Postgres runs the transaction READ COMMITTED: each statement sees what  *)
(* was committed when it starts, and what its own transaction has written. *)
(* Row locks and advisory locks are kept to the end of the transaction.    *)
(***************************************************************************)
EXTENDS Hierarchy, Sequences

CONSTANTS
  Clerk,          \* requests that may be in flight at the same time
  Nobody,         \* no transaction holds the lock
  Dims,           \* the dimensions of an entry (estimation method, BARB week)
  Value,          \* the figures that are entered
  InitialParent,  \* the tree at the start
  EntryBudget,    \* bound: how many entries are posted
  TreeBudget,     \* bound: how many nodes are moved or archived
  FaultBudget     \* bound: how many statements fail

\* The dedup key of a record, as far as one bucket and source leave it open.
Row == Node \X Dims
NoFigure == 0

ASSUME EntryAssumption ==
  /\ Nobody \notin Clerk
  /\ Value \subseteq Nat
  /\ InitialParent \in [Node -> Node \cup {NoNode}]
  /\ EntryBudget \in Nat /\ TreeBudget \in Nat /\ FaultBudget \in Nat

\* The tree the routes start from has no circle and is no deeper than
\* getAncestors climbs.
ASSUME TreeAssumption ==
  \A n \in Node : Climb(InitialParent, n, MaxDepth + 1)[MaxDepth + 1] = NoNode

VARIABLES
  parent, archived,  \* hierarchy_node
  record,            \* metric_record: the committed figure of each row
  rollup,            \* metric_rollup: the committed total of each node
  task,              \* what each request is doing
  rowLock,           \* who holds the lock of each record's row
  holder,            \* who holds the advisory lock of each node's bucket
  entries, moves, faults  \* the bounded counters

tree   == <<parent, archived>>
locks  == <<rowLock, holder>>
counts == <<entries, moves, faults>>
vars   == <<tree, record, rollup, task, locks, counts>>

\* A total is kept as the figures it is the sum of.
NoTotal == [r \in Row |-> NoFigure]

\* A request's step, its entry, the ancestors still to refresh, those it has
\* refreshed, and the totals it has written but not committed.
NoRow == <<NoNode, NoNode>>
Task == [at: {"idle", "upsert", "list", "lock", "refresh"}, row: Row \cup {NoRow},
         value: Nat, todo: Seq(Node), done: SUBSET Node, written: [Node -> [Row -> Nat]]]

Idle == [at |-> "idle", row |-> NoRow, value |-> NoFigure, todo |-> <<>>, done |-> {},
         written |-> [n \in Node |-> NoTotal]]

Init ==
  /\ parent = InitialParent
  /\ archived = {}
  /\ record = NoTotal
  /\ rollup = [n \in Node |-> NoTotal]
  /\ task = [c \in Clerk |-> Idle]
  /\ rowLock = [r \in Row |-> Nobody]
  /\ holder = [n \in Node |-> Nobody]
  /\ entries = 0
  /\ moves = 0
  /\ faults = 0

\* What the subtree query and the sums over effective_metric find for n when
\* the records are rec.
Total(rec, n) ==
  LET below == Subtree(parent, archived, n)
  IN  [r \in Row |-> IF r[1] \in below THEN rec[r] ELSE NoFigure]

\* The records as transaction c sees them.
Seen(c) == [record EXCEPT ![task[c].row] = task[c].value]

(***************************************************************************)
(* The request.                                                            *)
(***************************************************************************)
\* Session, capability, connector, entry and node are checked, the period is
\* a week or a month; BEGIN.
Post(c, r, v) ==
  /\ entries < EntryBudget
  /\ task[c].at = "idle"
  /\ entries' = entries + 1
  /\ task' = [task EXCEPT ![c] = [Idle EXCEPT !.at = "upsert", !.row = r, !.value = v]]
  /\ UNCHANGED <<tree, record, rollup, locks, moves, faults>>

\* INSERT ... ON CONFLICT DO UPDATE waits for whoever has written the row.
Upsert(c) ==
  LET r == task[c].row IN
  /\ task[c].at = "upsert"
  /\ rowLock[r] = Nobody
  /\ rowLock' = [rowLock EXCEPT ![r] = c]
  /\ task' = [task EXCEPT ![c].at = "list"]
  /\ UNCHANGED <<tree, record, rollup, holder, counts>>

\* Slip (never used by the specification): the ancestors in any order.
ListUnordered(c) ==
  LET up == Ancestors(parent, task[c].row[1]) IN
  /\ task[c].at = "list"
  /\ \E order \in [DOMAIN up -> DOMAIN up] :
       /\ \A i, j \in DOMAIN up : order[i] = order[j] => i = j
       /\ task' = [task EXCEPT ![c] =
                     [@ EXCEPT !.at = "lock", !.todo = [i \in DOMAIN up |-> up[order[i]]]]]
  /\ UNCHANGED <<tree, record, rollup, locks, counts>>

\* Slip: the climb does not stop at the root.
ListWithNull(c) ==
  /\ task[c].at = "list"
  /\ task' = [task EXCEPT ![c] =
                [@ EXCEPT !.at = "lock", !.todo = AncestorsAndNull(parent, task[c].row[1])]]
  /\ UNCHANGED <<tree, record, rollup, locks, counts>>

List(c) ==
  /\ task[c].at = "list"
  /\ task' = [task EXCEPT ![c] =
                [@ EXCEPT !.at = "lock", !.todo = Ancestors(parent, task[c].row[1])]]
  /\ UNCHANGED <<tree, record, rollup, locks, counts>>

\* Slip: no advisory lock.
LockNothing(c) ==
  /\ task[c].at = "lock"
  /\ task[c].todo # <<>>
  /\ task' = [task EXCEPT ![c].at = "refresh"]
  /\ UNCHANGED <<tree, record, rollup, locks, counts>>

Lock(c) ==
  LET n == Head(task[c].todo) IN
  /\ task[c].at = "lock"
  /\ task[c].todo # <<>>
  /\ holder[n] \in {Nobody, c}
  /\ holder' = [holder EXCEPT ![n] = c]
  /\ task' = [task EXCEPT ![c].at = "refresh"]
  /\ UNCHANGED <<tree, record, rollup, rowLock, counts>>

\* The task of c when the next ancestor is refreshed.
Refreshed(c) ==
  LET n == Head(task[c].todo)
  IN  [task[c] EXCEPT !.at = "lock", !.todo = Tail(@), !.done = @ \cup {n},
                      !.written = [@ EXCEPT ![n] = Total(Seen(c), n)]]

\* The statement starts after the lock was granted.  It does not end while n
\* is on a circle of parents.
Refresh(c) ==
  LET n == Head(task[c].todo) IN
  /\ task[c].at = "refresh"
  /\ ~ Endless(parent, archived, n)
  /\ task' = [task EXCEPT ![c] = Refreshed(c)]
  /\ UNCHANGED <<tree, record, rollup, locks, counts>>

Freed(lock, c) == [k \in DOMAIN lock |-> IF lock[k] = c THEN Nobody ELSE lock[k]]

\* Slip: session locks, which a commit does not release.
CommitKeepsLocks(c) ==
  /\ task[c].at = "lock"
  /\ task[c].todo = <<>>
  /\ record' = Seen(c)
  /\ rollup' = [n \in Node |-> IF n \in task[c].done THEN task[c].written[n] ELSE rollup[n]]
  /\ rowLock' = Freed(rowLock, c)
  /\ task' = [task EXCEPT ![c] = Idle]
  /\ UNCHANGED <<tree, holder, counts>>

Commit(c) ==
  /\ task[c].at = "lock"
  /\ task[c].todo = <<>>
  /\ record' = Seen(c)
  /\ rollup' = [n \in Node |-> IF n \in task[c].done THEN task[c].written[n] ELSE rollup[n]]
  /\ rowLock' = Freed(rowLock, c)
  /\ holder' = Freed(holder, c)
  /\ task' = [task EXCEPT ![c] = Idle]
  /\ UNCHANGED <<tree, counts>>

\* ROLLBACK: nothing of the entry is left.
Rollback(c) ==
  /\ task' = [task EXCEPT ![c] = Idle]
  /\ rowLock' = Freed(rowLock, c)
  /\ holder' = Freed(holder, c)
  /\ UNCHANGED <<tree, record, rollup, entries, moves>>

\* A statement rejects, or the process dies and Postgres ends its session.
Fail(c) ==
  /\ task[c].at # "idle"
  /\ faults < FaultBudget
  /\ faults' = faults + 1
  /\ Rollback(c)

WaitsFor(c, d) ==
  /\ c # d
  /\ \/ task[c].at = "upsert" /\ rowLock[task[c].row] = d
     \/ task[c].at = "lock" /\ task[c].todo # <<>> /\ holder[Head(task[c].todo)] = d

\* c is in, or waits behind, a circle of transactions that wait for each other.
Stuck(c) ==
  \E S \in SUBSET Clerk : c \in S /\ \A d \in S : \E e \in S : WaitsFor(d, e)

\* Postgres finds the circle and aborts a transaction; the route answers 500.
DeadlockDetected(c) ==
  /\ Stuck(c)
  /\ Rollback(c)
  /\ UNCHANGED faults

(***************************************************************************)
(* The hierarchy routes.                                                   *)
(***************************************************************************)
Reparent(n, m) ==
  /\ moves < TreeBudget
  /\ m \notin archived
  /\ parent[n] # m
  /\ parent' = [parent EXCEPT ![n] = m]
  /\ moves' = moves + 1
  /\ UNCHANGED <<archived, record, rollup, task, locks, entries, faults>>

Archive(n) ==
  /\ moves < TreeBudget
  /\ n \notin archived
  /\ archived' = archived \cup {n}
  /\ moves' = moves + 1
  /\ UNCHANGED <<parent, record, rollup, task, locks, entries, faults>>

-----------------------------------------------------------------------------
Request(c) == Upsert(c) \/ List(c) \/ Lock(c) \/ Refresh(c) \/ Commit(c)

Next ==
  \/ \E c \in Clerk, r \in Row, v \in Value : Post(c, r, v)
  \/ \E c \in Clerk : Request(c) \/ Fail(c) \/ DeadlockDetected(c)
  \/ \E n \in Node, m \in Node \cup {NoNode} : Reparent(n, m)
  \/ \E n \in Node : Archive(n)

\* Requests run on.  A lock is granted to who keeps waiting for it (Postgres
\* queues lock requests), and the deadlock detector runs.
Fairness ==
  /\ \A c \in Clerk : SF_vars(Request(c))
  /\ WF_vars(\E c \in Clerk : DeadlockDetected(c))

Spec     == Init /\ [][Next]_vars
FairSpec == Spec /\ Fairness

-----------------------------------------------------------------------------
TypeOK ==
  /\ parent \in [Node -> Node \cup {NoNode}]
  /\ archived \subseteq Node
  /\ record \in [Row -> Nat]
  /\ rollup \in [Node -> [Row -> Nat]]
  /\ task \in [Clerk -> Task]
  /\ rowLock \in [Row -> Clerk \cup {Nobody}]
  /\ holder \in [Node -> Clerk \cup {Nobody}]
  /\ entries \in 0 .. EntryBudget
  /\ moves \in 0 .. TreeBudget
  /\ faults \in 0 .. FaultBudget

\* As long as no node is moved or archived, the committed totals are at every
\* moment the totals of the committed records: no reader of the board ever sees
\* an entry in one rollup and not in another, and entries that overlap on an
\* ancestor never lose each other's figures.
BoardMatches == moves = 0 => \A n \in Node : rollup[n] = Total(record, n)

\* As long as no node is moved or archived, requests lock their ancestors in one
\* order and none waits for itself through others.
NoDeadlock == moves = 0 => \A c \in Clerk : ~ Stuck(c)

\* Every entry is answered, whatever is moved meanwhile, unless a move has made
\* a circle of parents.
Circle == \E n \in Node : Endless(parent, archived, n)
EveryEntryAnswered ==
  \A c \in Clerk : task[c].at # "idle" ~> (task[c].at = "idle" \/ Circle)

=============================================================================
