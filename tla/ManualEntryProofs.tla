-------------------------- MODULE ManualEntryProofs --------------------------
(***************************************************************************)
(* The types of ManualEntry and its two safety properties.  As long as no  *)
(* node is moved or archived, the committed rollups are at every moment    *)
(* the totals of the committed records.  For any tree, any number of       *)
(* requests, rows and figures, and any number of failing statements.       *)
(***************************************************************************)
EXTENDS ManualEntry, HierarchyProofs

-----------------------------------------------------------------------------
(***************************************************************************)
(* The inductive invariant.                                                *)
(***************************************************************************)
\* What a request at work has in hand.
Shape ==
  \A c \in Clerk :
    /\ task[c].at # "idle" => task[c].row \in Row
    /\ task[c].at = "refresh" => task[c].todo # <<>>
    /\ task[c].at \notin {"lock", "refresh"} => task[c].done = {}

Still == moves = 0 => parent = InitialParent /\ archived = {}

\* A request holds the lock of every bucket it has refreshed or is refreshing.
Held(c) ==
  /\ \A n \in task[c].done : holder[n] = c
  /\ task[c].at = "refresh" => holder[Head(task[c].todo)] = c

\* Every node whose total the new record changes is refreshed or will be.
Affected(c) == {n \in Node : task[c].row[1] \in Subtree(parent, archived, n)}
Ahead(c)    == {task[c].todo[i] : i \in DOMAIN task[c].todo}
Covered(c) ==
  task[c].at \in {"lock", "refresh"} => Affected(c) \subseteq task[c].done \cup Ahead(c)

\* A total that is written but not committed is still the one a statement of
\* its transaction would compute: whoever else touches the bucket waits.
Written(c) == \A n \in task[c].done : task[c].written[n] = Total(Seen(c), n)

Types    == TypeOK /\ Shape
Sound(c) == Held(c) /\ (moves = 0 => Covered(c) /\ Written(c))
Quiet    == Still /\ BoardMatches
IInv     == Types /\ Quiet /\ \A c \in Clerk : Sound(c)

-----------------------------------------------------------------------------
(***************************************************************************)
(* Types.                                                                  *)
(***************************************************************************)
LEMMA TotalType ==
  ASSUME NEW rec \in [Row -> Nat], NEW n \in Node
  PROVE  Total(rec, n) \in [Row -> Nat]
BY DEF Total, NoFigure

LEMMA SeenType ==
  ASSUME TypeOK, NEW c \in Clerk
  PROVE  Seen(c) \in [Row -> Nat]
<1>1. task[c].value \in Nat BY DEF TypeOK, Task
<1>2. QED BY <1>1 DEF Seen, TypeOK

LEMMA FreedType ==
  ASSUME NEW K, NEW lock \in [K -> Clerk \cup {Nobody}], NEW c \in Clerk
  PROVE  /\ Freed(lock, c) \in [K -> Clerk \cup {Nobody}]
         /\ \A k \in K : Freed(lock, c)[k] = IF lock[k] = c THEN Nobody ELSE lock[k]
BY DEF Freed

LEMMA IdleType == Idle \in Task
<1>1. NoTotal \in [Row -> Nat] BY DEF NoTotal, NoFigure
<1>2. QED BY <1>1 DEF Idle, Task, NoFigure

\* A step that only replaces the task of c keeps the types if the new task is one.
LEMMA OneTask ==
  ASSUME Types, NEW c \in Clerk, NEW t \in Task, task' = [task EXCEPT ![c] = t],
         t.at # "idle" => t.row \in Row,
         t.at = "refresh" => t.todo # <<>>,
         t.at \notin {"lock", "refresh"} => t.done = {}
  PROVE  task' \in [Clerk -> Task] /\ Shape'
BY DEF Types, TypeOK, Shape

LEMMA TypesInit == Init => Types
<1> SUFFICES ASSUME Init PROVE Types OBVIOUS
<1> USE EntryAssumption
<1>1. NoTotal \in [Row -> Nat] BY DEF NoTotal, NoFigure
<1>2. TypeOK BY <1>1, IdleType DEF Init, TypeOK
<1>3. Shape BY DEF Init, Shape, Idle
<1>4. QED BY <1>2, <1>3 DEF Types

LEMMA PostTypes ==
  ASSUME Types, NEW c \in Clerk, NEW r \in Row, NEW v \in Value, Post(c, r, v)
  PROVE  Types'
<1> DEFINE t == [Idle EXCEPT !.at = "upsert", !.row = r, !.value = v]
<1>1. t \in Task BY IdleType, EntryAssumption DEF Task
<1>2. t.at = "upsert" /\ t.row = r /\ t.done = {} BY DEF Idle
<1>3. task' = [task EXCEPT ![c] = t] BY DEF Post
<1> HIDE DEF t
<1>4. task' \in [Clerk -> Task] /\ Shape' BY <1>1, <1>2, <1>3, OneTask
<1>5. QED BY <1>4, EntryAssumption DEF Post, Types, TypeOK, tree, locks

LEMMA UpsertTypes ==
  ASSUME Types, NEW c \in Clerk, Upsert(c)
  PROVE  Types'
<1> DEFINE t == [task[c] EXCEPT !.at = "list"]
<1>1. task[c] \in Task BY DEF Types, TypeOK
<1>2. t \in Task BY <1>1 DEF Task
<1>3. t.at = "list" /\ t.row = task[c].row /\ t.done = task[c].done BY <1>1 DEF Task
<1>4. task[c].row \in Row /\ task[c].done = {} BY DEF Types, Shape, Upsert
<1>5. task' = [task EXCEPT ![c] = t] BY DEF Upsert
<1> HIDE DEF t
<1>6. task' \in [Clerk -> Task] /\ Shape' BY <1>2, <1>3, <1>4, <1>5, OneTask
<1>7. rowLock' \in [Row -> Clerk \cup {Nobody}] BY DEF Upsert, Types, TypeOK
<1>8. QED BY <1>6, <1>7 DEF Upsert, Types, TypeOK, tree, counts

LEMMA ListTypes ==
  ASSUME Types, NEW c \in Clerk, List(c)
  PROVE  Types'
<1> DEFINE up == Ancestors(parent, task[c].row[1])
           t  == [task[c] EXCEPT !.at = "lock", !.todo = up]
<1>1. task[c] \in Task BY DEF Types, TypeOK
<1>2. task[c].row \in Row BY DEF Types, Shape, List
<1>3. up \in Seq(Node) BY <1>2, AncestorsAreNodes DEF Types, TypeOK, Row, Place
<1>4. task' = [task EXCEPT ![c] = t] BY DEF List
<1> HIDE DEF up
<1>5. t \in Task BY <1>1, <1>3 DEF Task
<1>6. t.at = "lock" /\ t.row = task[c].row BY <1>1 DEF Task
<1> HIDE DEF t
<1>7. task' \in [Clerk -> Task] /\ Shape' BY <1>2, <1>4, <1>5, <1>6, OneTask
<1>8. QED BY <1>7 DEF List, Types, TypeOK, tree, locks, counts

LEMMA LockTypes ==
  ASSUME Types, NEW c \in Clerk, Lock(c)
  PROVE  Types'
<1> DEFINE t == [task[c] EXCEPT !.at = "refresh"]
<1>1. task[c] \in Task BY DEF Types, TypeOK
<1>2. task[c].row \in Row /\ task[c].todo # <<>> BY DEF Types, Shape, Lock
<1>3. task' = [task EXCEPT ![c] = t] BY DEF Lock
<1>4. t \in Task BY <1>1 DEF Task
<1>5. t.at = "refresh" /\ t.row = task[c].row /\ t.todo = task[c].todo BY <1>1 DEF Task
<1> HIDE DEF t
<1>6. task' \in [Clerk -> Task] /\ Shape' BY <1>2, <1>3, <1>4, <1>5, OneTask
<1>7. holder' \in [Node -> Clerk \cup {Nobody}] BY DEF Lock, Types, TypeOK
<1>8. QED BY <1>6, <1>7 DEF Lock, Types, TypeOK, tree, counts

LEMMA RefreshedTask ==
  ASSUME Types, NEW c \in Clerk, Refresh(c)
  PROVE  LET n == Head(task[c].todo)
             t == Refreshed(c)
         IN  /\ n \in Node
             /\ task[c].todo \in Seq(Node) /\ task[c].todo # <<>>
             /\ t \in Task
             /\ t.at = "lock" /\ t.row = task[c].row /\ t.value = task[c].value
             /\ t.todo = Tail(task[c].todo) /\ t.done = task[c].done \cup {n}
             /\ t.written = [task[c].written EXCEPT ![n] = Total(Seen(c), n)]
             /\ task' = [task EXCEPT ![c] = t]
<1> DEFINE n == Head(task[c].todo)
           sum == Total(Seen(c), n)
<1>1. task[c] \in Task BY DEF Types, TypeOK
<1>2. task[c].todo \in Seq(Node) /\ task[c].todo # <<>>
  BY <1>1 DEF Types, Shape, Refresh, Task
<1>3. n \in Node /\ Tail(task[c].todo) \in Seq(Node) BY <1>2
<1>4. sum \in [Row -> Nat]
  <2> HIDE DEF n
  <2> QED BY <1>3, SeenType, TotalType DEF Types
<1>5. task' = [task EXCEPT ![c] = Refreshed(c)] BY DEF Refresh
<1>6. Refreshed(c) = [task[c] EXCEPT !.at = "lock", !.todo = Tail(@), !.done = @ \cup {n},
                                     !.written = [@ EXCEPT ![n] = sum]]
  BY DEF Refreshed
<1> HIDE DEF n, sum
<1>7. [task[c].written EXCEPT ![n] = sum] \in [Node -> [Row -> Nat]]
  BY <1>1, <1>3, <1>4 DEF Task
<1> DEFINE rest == Tail(task[c].todo)
           more == task[c].done \cup {n}
           wrote == [task[c].written EXCEPT ![n] = sum]
<1>8. /\ Refreshed(c) \in Task
      /\ Refreshed(c).at = "lock" /\ Refreshed(c).row = task[c].row
      /\ Refreshed(c).value = task[c].value /\ Refreshed(c).todo = rest
      /\ Refreshed(c).done = more /\ Refreshed(c).written = wrote
  <2>1. more \in SUBSET Node BY <1>1, <1>3 DEF Task
  <2>2. Refreshed(c) = [task[c] EXCEPT !.at = "lock", !.todo = rest, !.done = more,
                                       !.written = wrote]
    BY <1>6
  <2> HIDE DEF rest, more, wrote
  <2>3. QED BY <1>1, <1>3, <1>7, <2>1, <2>2 DEF Task, rest, wrote
<1>9. QED BY <1>2, <1>3, <1>5, <1>8 DEF n, sum

LEMMA RefreshTypes ==
  ASSUME Types, NEW c \in Clerk, Refresh(c)
  PROVE  Types'
<1>1. task[c].row \in Row BY DEF Types, Shape, Refresh
<1>2. task' \in [Clerk -> Task] /\ Shape' BY <1>1, RefreshedTask, OneTask
<1>3. QED BY <1>2 DEF Refresh, Types, TypeOK, tree, locks, counts

LEMMA CommitTypes ==
  ASSUME Types, NEW c \in Clerk, Commit(c)
  PROVE  Types'
<1>1. task' \in [Clerk -> Task] /\ Shape'
  <2>1. Idle.at = "idle" /\ Idle.done = {} BY DEF Idle
  <2>2. QED BY <2>1, IdleType, OneTask DEF Commit
<1>2. record' \in [Row -> Nat] BY SeenType DEF Commit, Types
<1>3. rollup' \in [Node -> [Row -> Nat]]
  <2>1. task[c].written \in [Node -> [Row -> Nat]] BY DEF Types, TypeOK, Task
  <2>2. QED BY <2>1 DEF Commit, Types, TypeOK
<1>4. rowLock' \in [Row -> Clerk \cup {Nobody}] /\ holder' \in [Node -> Clerk \cup {Nobody}]
  BY FreedType DEF Commit, Types, TypeOK
<1>5. QED BY <1>1, <1>2, <1>3, <1>4 DEF Commit, Types, TypeOK, tree, counts

LEMMA RollbackTypes ==
  ASSUME Types, NEW c \in Clerk, Rollback(c), faults' \in 0 .. FaultBudget
  PROVE  Types'
<1>1. task' \in [Clerk -> Task] /\ Shape'
  <2>1. Idle.at = "idle" /\ Idle.done = {} BY DEF Idle
  <2>2. QED BY <2>1, IdleType, OneTask DEF Rollback
<1>2. rowLock' \in [Row -> Clerk \cup {Nobody}] /\ holder' \in [Node -> Clerk \cup {Nobody}]
  BY FreedType DEF Rollback, Types, TypeOK
<1>3. QED BY <1>1, <1>2 DEF Rollback, Types, TypeOK, tree

LEMMA AbortTypes ==
  ASSUME Types, NEW c \in Clerk, Fail(c) \/ DeadlockDetected(c)
  PROVE  Types' /\ Rollback(c)
<1>1. Rollback(c) BY DEF Fail, DeadlockDetected
<1>2. faults' \in 0 .. FaultBudget
  BY EntryAssumption DEF Fail, DeadlockDetected, Types, TypeOK
<1>3. QED BY <1>1, <1>2, RollbackTypes

LEMMA MoveTypes ==
  ASSUME Types, NEW n \in Node, \/ \E m \in Node \cup {NoNode} : Reparent(n, m)
                                \/ Archive(n)
  PROVE  Types' /\ moves' # 0
<1>1. moves' = moves + 1 /\ moves' \in 0 .. TreeBudget
  BY EntryAssumption DEF Reparent, Archive, Types, TypeOK
<1>2. parent' \in [Node -> Node \cup {NoNode}] /\ archived' \subseteq Node
  BY DEF Reparent, Archive, Types, TypeOK
<1>3. UNCHANGED <<record, rollup, task, rowLock, holder, entries, faults>>
  BY DEF Reparent, Archive, locks
<1>4. TypeOK' BY <1>1, <1>2, <1>3 DEF Types, TypeOK
<1>5. Shape' BY <1>3 DEF Types, Shape
<1>6. moves' # 0 BY <1>1 DEF Types, TypeOK
<1>7. QED BY <1>4, <1>5, <1>6 DEF Types

LEMMA TypesNext == Types /\ [Next]_vars => Types'
<1> SUFFICES ASSUME Types, [Next]_vars PROVE Types' OBVIOUS
<1>1. CASE UNCHANGED vars
  BY <1>1 DEF vars, tree, locks, counts, Types, TypeOK, Shape
<1>2. ASSUME NEW c \in Clerk, NEW r \in Row, NEW v \in Value, Post(c, r, v) PROVE Types'
  BY <1>2, PostTypes
<1>3. ASSUME NEW c \in Clerk, Request(c) PROVE Types'
  BY <1>3, UpsertTypes, ListTypes, LockTypes, RefreshTypes, CommitTypes DEF Request
<1>4. ASSUME NEW c \in Clerk, Fail(c) \/ DeadlockDetected(c) PROVE Types'
  BY <1>4, AbortTypes
<1>5. ASSUME NEW n \in Node, \/ \E m \in Node \cup {NoNode} : Reparent(n, m)
                             \/ Archive(n)
      PROVE  Types'
  BY <1>5, MoveTypes
<1>6. QED BY <1>1, <1>2, <1>3, <1>4, <1>5 DEF Next

\* Every variable keeps its type, whatever happens to the tree.
THEOREM EntryTypes == Spec => []TypeOK
<1>1. Types => TypeOK BY DEF Types
<1>2. QED BY <1>1, TypesInit, TypesNext, PTL DEF Spec

-----------------------------------------------------------------------------
(***************************************************************************)
(* The totals of the records.                                              *)
(***************************************************************************)
\* A record counts on the nodes it lies below and on no other.
LEMMA TotalDepends ==
  ASSUME NEW a \in [Row -> Nat], NEW b \in [Row -> Nat], NEW n \in Node,
         \A r \in Row : r[1] \in Subtree(parent, archived, n) => a[r] = b[r]
  PROVE  Total(a, n) = Total(b, n)
BY DEF Total

\* An entry changes no total of a node it does not lie below.
LEMMA TotalElsewhere ==
  ASSUME Types, NEW c \in Clerk, task[c].row \in Row,
         NEW n \in Node, n \notin Affected(c)
  PROVE  Total(Seen(c), n) = Total(record, n)
<1>1. \A r \in Row : r # task[c].row => Seen(c)[r] = record[r]
  BY DEF Seen, Types, TypeOK
<1>2. task[c].row[1] \notin Subtree(parent, archived, n) BY DEF Affected
<1>3. \A r \in Row : r[1] \in Subtree(parent, archived, n) => Seen(c)[r] = record[r]
  BY <1>1, <1>2
<1>4. QED BY <1>3, SeenType, TotalDepends DEF Types, TypeOK

-----------------------------------------------------------------------------
(***************************************************************************)
(* The invariant.                                                          *)
(***************************************************************************)
LEMMA InvInit == Init => IInv
<1> SUFFICES ASSUME Init PROVE IInv OBVIOUS
<1>1. Types BY TypesInit
<1>2. Still BY DEF Init, Still
<1>3. ASSUME NEW c \in Clerk PROVE Sound(c)
  <2>1. task[c].at = "idle" /\ task[c].done = {} BY DEF Init, Idle
  <2>2. QED BY <2>1 DEF Sound, Held, Covered, Written
<1>4. BoardMatches
  <2>1. ASSUME NEW n \in Node PROVE Total(record, n) = NoTotal
    BY DEF Init, Total, NoTotal
  <2>2. QED BY <2>1 DEF Init, BoardMatches
<1>5. QED BY <1>1, <1>2, <1>3, <1>4 DEF IInv, Quiet

\* Before it commits, a request disturbs nobody as long as it leaves alone the
\* locks that others hold.
LEMMA OneRequest ==
  ASSUME IInv, Types', NEW c \in Clerk, NEW t, task' = [task EXCEPT ![c] = t],
         UNCHANGED <<parent, archived, record, rollup, moves>>,
         \A n \in Node : \A d \in Clerk \ {c} : holder[n] = d => holder'[n] = d,
         Sound(c)'
  PROVE  IInv'
<1>1. Quiet' BY DEF IInv, Quiet, Still, BoardMatches, Total
<1>2. ASSUME NEW d \in Clerk, d # c PROVE Sound(d)'
  <2>1. task'[d] = task[d] BY <1>2 DEF IInv, Types, TypeOK
  <2>2. Held(d)'
    <3>1. Held(d) BY DEF IInv, Sound
    <3>2. task[d] \in Task BY DEF IInv, Types, TypeOK
    <3>3. task[d].at = "refresh" => Head(task[d].todo) \in Node
      BY <3>2 DEF IInv, Types, Shape, Task
    <3>4. QED BY <1>2, <2>1, <3>1, <3>2, <3>3 DEF Held, Task
  <2>3. Covered(d) => Covered(d)' BY <2>1 DEF Covered, Affected, Ahead
  <2>4. Written(d) => Written(d)' BY <2>1 DEF Written, Seen, Total
  <2>5. QED BY <2>2, <2>3, <2>4 DEF IInv, Sound
<1>3. QED BY <1>1, <1>2 DEF IInv

LEMMA PostInv ==
  ASSUME IInv, NEW c \in Clerk, NEW r \in Row, NEW v \in Value, Post(c, r, v)
  PROVE  IInv'
<1> DEFINE t == [Idle EXCEPT !.at = "upsert", !.row = r, !.value = v]
<1>1. Types' BY PostTypes DEF IInv
<1>2. task' = [task EXCEPT ![c] = t] BY DEF Post
<1>3. task'[c].at = "upsert" BY DEF Post, IInv, Types, TypeOK, Idle
<1>4. Sound(c)'
  <2>1. task'[c].done = {} BY <1>1, <1>3 DEF Types, Shape
  <2>2. QED BY <1>3, <2>1 DEF Sound, Held, Covered, Written
<1>5. QED BY <1>1, <1>2, <1>4, OneRequest DEF Post, tree, locks

LEMMA UpsertInv ==
  ASSUME IInv, NEW c \in Clerk, Upsert(c)
  PROVE  IInv'
<1>1. Types' BY UpsertTypes DEF IInv
<1>2. task' = [task EXCEPT ![c] = [task[c] EXCEPT !.at = "list"]] BY DEF Upsert
<1>3. task'[c].at = "list"
  <2>1. task[c] \in Task BY DEF IInv, Types, TypeOK
  <2>2. QED BY <1>2, <2>1 DEF IInv, Types, TypeOK, Task
<1>4. Sound(c)'
  <2>1. task'[c].done = {} BY <1>1, <1>3 DEF Types, Shape
  <2>2. QED BY <1>3, <2>1 DEF Sound, Held, Covered, Written
<1>5. QED BY <1>1, <1>2, <1>4, OneRequest DEF Upsert, tree, counts

LEMMA ListInv ==
  ASSUME IInv, NEW c \in Clerk, List(c)
  PROVE  IInv'
<1> DEFINE up == Ancestors(parent, task[c].row[1])
           t  == [task[c] EXCEPT !.at = "lock", !.todo = up]
<1>1. Types' BY ListTypes DEF IInv
<1>2. task' = [task EXCEPT ![c] = t] BY DEF List
<1>3. task[c] \in Task /\ task[c].row \in Row /\ task[c].done = {}
  BY DEF IInv, Types, TypeOK, Shape, List
<1> HIDE DEF up
<1>4. /\ task'[c].at = "lock" /\ task'[c].todo = up
      /\ task'[c].row = task[c].row /\ task'[c].done = {}
  BY <1>2, <1>3 DEF IInv, Types, TypeOK, Task
<1>5. ASSUME moves = 0, NEW n \in Affected(c) PROVE n \in {up[i] : i \in DOMAIN up}
  <2> DEFINE m == task[c].row[1]
  <2>1. parent = InitialParent /\ archived = {} BY <1>5 DEF IInv, Quiet, Still
  <2>2. m \in Node /\ n \in Node /\ m \in Subtree(parent, archived, n)
    BY <1>3 DEF Affected, Row
  <2>3. Climb(parent, m, MaxDepth + 1)[MaxDepth + 1] = NoNode
    BY <2>1, <2>2, TreeAssumption
  <2>4. \E i \in DOMAIN up : up[i] = n
    BY <2>2, <2>3, WalksAgree DEF up, IInv, Types, TypeOK, Place
  <2>5. QED BY <2>4
<1>6. UNCHANGED <<parent, archived, record, rollup, moves, holder>>
  BY DEF List, tree, locks, counts
<1>7. Sound(c)'
  <2>1. Held(c)' /\ Written(c)' BY <1>4 DEF Held, Written
  <2>2. moves = 0 => Covered(c)' BY <1>4, <1>5, <1>6 DEF Covered, Affected, Ahead
  <2>3. QED BY <1>6, <2>1, <2>2 DEF Sound
<1>8. QED BY <1>1, <1>2, <1>6, <1>7, OneRequest

LEMMA LockInv ==
  ASSUME IInv, NEW c \in Clerk, Lock(c)
  PROVE  IInv'
<1> DEFINE n == Head(task[c].todo)
           t == [task[c] EXCEPT !.at = "refresh"]
<1>1. Types' BY LockTypes DEF IInv
<1>2. task' = [task EXCEPT ![c] = t] BY DEF Lock
<1>3. task[c] \in Task /\ task[c].at = "lock" /\ task[c].todo # <<>>
  BY DEF IInv, Types, TypeOK, Lock
<1>4. n \in Node BY <1>3 DEF Task
<1>5. /\ task'[c].at = "refresh" /\ task'[c].todo = task[c].todo
      /\ task'[c].row = task[c].row /\ task'[c].value = task[c].value
      /\ task'[c].done = task[c].done /\ task'[c].written = task[c].written
  BY <1>2, <1>3 DEF IInv, Types, TypeOK, Task
<1>6. /\ holder[n] \in {Nobody, c} /\ holder' = [holder EXCEPT ![n] = c]
      /\ holder \in [Node -> Clerk \cup {Nobody}]
  BY DEF Lock, IInv, Types, TypeOK
<1>7. UNCHANGED <<parent, archived, record, rollup, moves>>
  BY DEF Lock, tree, counts
<1>8. Sound(c)'
  <2>1. Held(c)' BY <1>3, <1>4, <1>5, <1>6 DEF Held, IInv, Sound, Task
  <2>2. Covered(c) => Covered(c)' BY <1>3, <1>5, <1>7 DEF Covered, Affected, Ahead
  <2>3. Written(c) => Written(c)' BY <1>5, <1>7 DEF Written, Seen, Total
  <2>4. QED BY <1>7, <2>1, <2>2, <2>3 DEF IInv, Sound
<1>9. \A m \in Node : \A d \in Clerk \ {c} : holder[m] = d => holder'[m] = d
  BY <1>4, <1>6, EntryAssumption
<1>10. QED BY <1>1, <1>2, <1>7, <1>8, <1>9, OneRequest

LEMMA RefreshInv ==
  ASSUME IInv, NEW c \in Clerk, Refresh(c)
  PROVE  IInv'
<1> DEFINE n == Head(task[c].todo)
           t == Refreshed(c)
<1>1. Types' BY RefreshTypes DEF IInv
<1>2. /\ n \in Node
      /\ task[c].todo \in Seq(Node) /\ task[c].todo # <<>>
      /\ t \in Task
      /\ t.at = "lock" /\ t.row = task[c].row /\ t.value = task[c].value
      /\ t.todo = Tail(task[c].todo) /\ t.done = task[c].done \cup {n}
      /\ t.written = [task[c].written EXCEPT ![n] = Total(Seen(c), n)]
      /\ task' = [task EXCEPT ![c] = t]
  BY RefreshedTask DEF IInv
<1> HIDE DEF t
<1>3. task'[c] = t BY <1>2 DEF IInv, Types, TypeOK
<1>4. UNCHANGED <<parent, archived, record, rollup, moves, holder>> /\ task[c].at = "refresh"
  BY DEF Refresh, tree, locks, counts
<1>5. Held(c)' BY <1>2, <1>3, <1>4 DEF IInv, Sound, Held
<1>6. Covered(c) => Covered(c)'
  <2>1. Ahead(c) \subseteq {n} \cup Ahead(c)'
    <3>1. ASSUME NEW i \in DOMAIN task[c].todo, i # 1
          PROVE  i - 1 \in DOMAIN t.todo /\ t.todo[i - 1] = task[c].todo[i]
      BY <1>2, <3>1
    <3>2. n = task[c].todo[1] BY <1>2
    <3>3. QED BY <1>3, <3>1, <3>2 DEF Ahead
  <2>2. Affected(c)' = Affected(c) BY <1>2, <1>3, <1>4 DEF Affected
  <2>3. QED BY <1>2, <1>3, <1>4, <2>1, <2>2 DEF Covered
<1>7. Written(c) => Written(c)'
  <2>1. \A m \in Node : Total(Seen(c), m)' = Total(Seen(c), m)
    BY <1>2, <1>3, <1>4 DEF Seen, Total
  <2>2. task[c] \in Task BY DEF IInv, Types, TypeOK
  <2>3. task[c].done \subseteq Node /\ DOMAIN task[c].written = Node BY <2>2 DEF Task
  <2>4. QED BY <1>2, <1>3, <2>1, <2>3 DEF Written
<1>8. Sound(c)' BY <1>4, <1>5, <1>6, <1>7 DEF IInv, Sound
<1>9. QED BY <1>1, <1>2, <1>4, <1>8, OneRequest

LEMMA RollbackInv ==
  ASSUME IInv, NEW c \in Clerk, Rollback(c), Types'
  PROVE  IInv'
<1>1. task'[c].at = "idle" /\ task'[c].done = {}
  BY DEF Rollback, IInv, Types, TypeOK, Idle
<1>2. Sound(c)' BY <1>1 DEF Sound, Held, Covered, Written
<1>3. \A m \in Node : \A d \in Clerk \ {c} : holder[m] = d => holder'[m] = d
  BY FreedType DEF Rollback, IInv, Types, TypeOK
<1>4. QED BY <1>1, <1>2, <1>3, OneRequest DEF Rollback, tree

\* A node another request has refreshed is not above the row c commits: c has
\* refreshed, and so locked, every node that is.
LEMMA CommitElsewhere ==
  ASSUME IInv, moves = 0, NEW c \in Clerk, Commit(c), NEW n \in Node, n \notin task[c].done
  PROVE  n \notin Affected(c)
<1>1. task[c].at = "lock" /\ task[c].todo = <<>> BY DEF Commit
<1>2. Ahead(c) = {} BY <1>1 DEF Ahead
<1>3. Affected(c) \subseteq task[c].done BY <1>1, <1>2 DEF IInv, Sound, Covered
<1>4. QED BY <1>3

LEMMA CommitInv ==
  ASSUME IInv, NEW c \in Clerk, Commit(c)
  PROVE  IInv'
<1>1. Types /\ Types' BY CommitTypes DEF IInv
<1>2. /\ task' = [task EXCEPT ![c] = Idle] /\ task[c].at = "lock"
      /\ record' = Seen(c) /\ UNCHANGED <<parent, archived, moves>>
      /\ rollup' = [n \in Node |-> IF n \in task[c].done THEN task[c].written[n] ELSE rollup[n]]
      /\ holder' = Freed(holder, c)
  BY DEF Commit, tree, counts
<1>3. task[c].row \in Row BY <1>1, <1>2 DEF Types, Shape
<1>4. BoardMatches'
  <2>1. SUFFICES ASSUME moves = 0, NEW n \in Node PROVE rollup'[n] = Total(record, n)'
    BY <1>2 DEF BoardMatches
  <2>2. Total(record, n)' = Total(Seen(c), n) BY <1>2 DEF Total
  <2>3. CASE n \in task[c].done
    BY <1>2, <2>1, <2>2, <2>3 DEF IInv, Sound, Written
  <2>4. CASE n \notin task[c].done
    <3>1. Total(Seen(c), n) = Total(record, n)
      BY <1>1, <1>3, <2>1, <2>4, CommitElsewhere, TotalElsewhere
    <3>2. rollup'[n] = rollup[n] BY <1>2, <2>4
    <3>3. QED BY <2>1, <2>2, <3>1, <3>2 DEF IInv, Quiet, BoardMatches
  <2>5. QED BY <2>3, <2>4
<1>5. Still' BY <1>2 DEF IInv, Quiet, Still
<1>6. ASSUME NEW d \in Clerk PROVE Sound(d)'
  <2>1. CASE d = c
    <3>1. task'[c].at = "idle" /\ task'[c].done = {} BY <1>1, <1>2 DEF Types, TypeOK, Idle
    <3>2. QED BY <2>1, <3>1 DEF Sound, Held, Covered, Written
  <2>2. CASE d # c
    <3>1. task'[d] = task[d] BY <1>1, <1>2, <2>2 DEF Types, TypeOK
    <3>2. task[d] \in Task BY <1>1 DEF Types, TypeOK
    <3>3. Held(d) /\ (moves = 0 => Covered(d) /\ Written(d)) BY DEF IInv, Sound
    <3>4. Held(d)'
      <4>1. task[d].at = "refresh" => Head(task[d].todo) \in Node
        BY <1>1, <3>2 DEF Types, Shape, Task
      <4>2. \A m \in Node : holder[m] = d => holder'[m] = d
        BY <1>1, <1>2, <2>2, FreedType DEF Types, TypeOK
      <4>3. QED BY <3>1, <3>2, <3>3, <4>1, <4>2 DEF Held, Task
    <3>5. Covered(d) => Covered(d)' BY <1>2, <3>1 DEF Covered, Affected, Ahead
    <3>6. ASSUME moves = 0, NEW n \in task[d].done
          PROVE  Total(Seen(d), n)' = Total(Seen(d), n)
      <4>1. n \in Node /\ holder[n] = d BY <3>2, <3>3, <3>6 DEF Held, Task
      <4>2. n \notin task[c].done BY <4>1, <2>2 DEF IInv, Sound, Held
      <4>3. n \notin Affected(c) BY <3>6, <4>1, <4>2, CommitElsewhere
      <4>4. \A r \in Row : r[1] \in Subtree(parent, archived, n) => r # task[c].row
        BY <4>1, <4>3 DEF Affected
      <4>5. \A r \in Row : r # task[c].row => record'[r] = record[r]
        BY <1>1, <1>2 DEF Seen, Types, TypeOK
      <4>6. \A r \in Row : r[1] \in Subtree(parent, archived, n) => Seen(d)'[r] = Seen(d)[r]
        BY <1>1, <3>1, <4>4, <4>5 DEF Seen, Types, TypeOK
      <4>7. QED BY <1>2, <4>6 DEF Total
    <3>7. moves = 0 /\ Written(d) => Written(d)' BY <3>1, <3>6 DEF Written
    <3>8. QED BY <1>2, <3>3, <3>4, <3>5, <3>7 DEF Sound
  <2>3. QED BY <2>1, <2>2
<1>7. QED BY <1>1, <1>4, <1>5, <1>6 DEF IInv, Quiet

\* Once the tree has moved, only the locks are left to say something about.
LEMMA MoveInv ==
  ASSUME IInv, NEW n \in Node, \/ \E m \in Node \cup {NoNode} : Reparent(n, m)
                               \/ Archive(n)
  PROVE  IInv'
<1>1. Types' /\ moves' # 0 BY MoveTypes DEF IInv
<1>2. Quiet' BY <1>1 DEF Quiet, Still, BoardMatches
<1>3. UNCHANGED <<task, holder>> BY DEF Reparent, Archive, locks
<1>4. \A c \in Clerk : Sound(c)' BY <1>1, <1>3 DEF IInv, Sound, Held
<1>5. QED BY <1>1, <1>2, <1>4 DEF IInv

LEMMA InvNext == IInv /\ [Next]_vars => IInv'
<1> SUFFICES ASSUME IInv, [Next]_vars PROVE IInv' OBVIOUS
<1>1. CASE UNCHANGED vars
  <2>1. Types' BY <1>1, TypesNext DEF IInv
  <2>2. Quiet'
    BY <1>1 DEF vars, tree, counts, IInv, Quiet, Still, BoardMatches, Total
  <2>3. ASSUME NEW c \in Clerk PROVE Sound(c)'
    BY <1>1 DEF vars, tree, locks, counts, IInv, Sound, Held, Covered, Written, Affected,
                Ahead, Seen, Total
  <2>4. QED BY <2>1, <2>2, <2>3 DEF IInv
<1>2. ASSUME NEW c \in Clerk, NEW r \in Row, NEW v \in Value, Post(c, r, v) PROVE IInv'
  BY <1>2, PostInv
<1>3. ASSUME NEW c \in Clerk, Request(c) PROVE IInv'
  BY <1>3, UpsertInv, ListInv, LockInv, RefreshInv, CommitInv DEF Request
<1>4. ASSUME NEW c \in Clerk, Fail(c) \/ DeadlockDetected(c) PROVE IInv'
  BY <1>4, AbortTypes, RollbackInv DEF IInv
<1>5. ASSUME NEW n \in Node, \/ \E m \in Node \cup {NoNode} : Reparent(n, m)
                             \/ Archive(n)
      PROVE  IInv'
  BY <1>5, MoveInv
<1>6. QED BY <1>1, <1>2, <1>3, <1>4, <1>5 DEF Next

\* No reader of the board ever sees an entry in one rollup and not in another,
\* and entries that overlap on an ancestor never lose each other's figures.
THEOREM BoardIsExact == Spec => []BoardMatches
<1>1. IInv => BoardMatches BY DEF IInv, Quiet
<1>2. QED BY <1>1, InvInit, InvNext, PTL DEF Spec

-----------------------------------------------------------------------------
(***************************************************************************)
(* No deadlock.  A request locks nodes of falling height, and its row      *)
(* before any node.  In a circle of waiting requests the one that waits    *)
(* for the lowest node would wait for one that waits for a lower node.     *)
(***************************************************************************)
\* How many nodes the chain from n to its root has, in the tree of the start.
Chain(n)  == Climb(InitialParent, n, MaxDepth + 1)
Height(n) == Cardinality({k \in DOMAIN Chain(n) : Chain(n)[k] # NoNode})

\* A parent is lower than its children.
LEMMA HeightFalls ==
  ASSUME NEW n \in Node, NEW m \in Node, InitialParent[n] = m
  PROVE  Height(m) \in Nat /\ Height(n) \in Nat /\ Height(m) < Height(n)
<1> DEFINE d  == MaxDepth + 1
           at == Chain(n)
           up == Chain(m)
           Cn == {k \in DOMAIN at : at[k] # NoNode}
           Cm == {k \in DOMAIN up : up[k] # NoNode}
           S  == {k \in 0 .. MaxDepth : at[k + 1] = up[k]}
<1>1. d \in Nat /\ MaxDepth \in Nat /\ InitialParent \in [Node -> Place]
  BY HierarchyAssumption, EntryAssumption DEF Place
<1>2. Walk(InitialParent, n, d, at) /\ Walk(InitialParent, m, d, up)
  BY <1>1, ClimbWalks DEF Place, Chain
<1>3. /\ Cardinality(Cn) \in 1 .. d + 1 /\ Cn = 0 .. (Cardinality(Cn) - 1)
      /\ Cardinality(Cm) \in 1 .. d + 1 /\ Cm = 0 .. (Cardinality(Cm) - 1)
  BY <1>1, NodesComeFirst DEF Chain
<1>4. at[d] = NoNode /\ up[d] = NoNode BY TreeAssumption DEF Chain
<1>5. Height(n) = Cardinality(Cn) /\ Height(m) = Cardinality(Cm) BY DEF Height
<1> HIDE DEF at, up
<1>6. 0 .. MaxDepth \subseteq S
  <2>1. at[1] = m
    <3>1. n # NoNode /\ n \in Place BY HierarchyAssumption DEF Place
    <3>2. at[1] = Above(InitialParent)[n] BY <1>1, <1>2 DEF Walk
    <3>3. QED BY <3>1, <3>2 DEF Above, Place
  <2>2. 0 \in S BY <1>1, <1>2, <2>1 DEF Walk
  <2>3. ASSUME NEW k \in 1 .. MaxDepth, k - 1 \in S PROVE k \in S
    <3>1. at[k] = up[k - 1] BY <2>3
    <3>2. at[k + 1] = Above(InitialParent)[at[k]] BY <1>1, <1>2 DEF Walk
    <3>3. up[k] = Above(InitialParent)[up[k - 1]] BY <1>1, <1>2 DEF Walk
    <3>4. QED BY <3>1, <3>2, <3>3
  <2>4. QED
    <3> HIDE DEF S
    <3> QED BY <1>1, <2>2, <2>3, Induction
<1> DEFINE cn == Cardinality(Cn)
           cm == Cardinality(Cm)
<1>7. cn \in Nat /\ cm \in Nat /\ cm >= 1 /\ Cn = 0 .. (cn - 1) /\ Cm = 0 .. (cm - 1)
  BY <1>1, <1>3
<1>8. cm - 1 \in Cm /\ cm - 1 \in 0 .. d
  <2> HIDE DEF cm
  <2>1. cm - 1 \in Cm
    <3> HIDE DEF Cm
    <3> QED BY <1>7
  <2>2. QED BY <1>2, <2>1 DEF Walk
<1>9. cm - 1 \in 0 .. MaxDepth /\ up[cm - 1] # NoNode
  <2> HIDE DEF cm
  <2> QED BY <1>1, <1>4, <1>8
<1>10. cm \in Cn
  <2> HIDE DEF cm
  <2>1. at[(cm - 1) + 1] = up[cm - 1] BY <1>6, <1>9
  <2>2. (cm - 1) + 1 = cm /\ cm \in 0 .. d
    <3> HIDE DEF Cm, Cn
    <3> QED BY <1>1, <1>7, <1>9
  <2>3. DOMAIN at = 0 .. d BY <1>2 DEF Walk
  <2>4. QED BY <1>9, <2>1, <2>2, <2>3
<1>11. cm < cn
  <2> HIDE DEF cm, cn, Cn
  <2> QED BY <1>7, <1>10
<1>12. QED BY <1>5, <1>7, <1>11

LEMMA HeightType == ASSUME NEW n \in Node PROVE Height(n) \in Nat
<1>1. MaxDepth + 1 \in Nat /\ InitialParent \in [Node -> Place]
  BY HierarchyAssumption, EntryAssumption DEF Place
<1> DEFINE C == {k \in DOMAIN Chain(n) : Chain(n)[k] # NoNode}
<1>2. Cardinality(C) \in 1 .. (MaxDepth + 1) + 1 BY <1>1, NodesComeFirst DEF Chain
<1>3. Height(n) = Cardinality(C) BY DEF Height
<1> HIDE DEF C
<1>4. QED BY <1>1, <1>2, <1>3

\* The next node of a list is lower than the one before it.
Falls(todo) ==
  \A i \in DOMAIN todo : i + 1 \in DOMAIN todo => Height(todo[i + 1]) < Height(todo[i])

\* The list of getAncestors falls.
LEMMA AncestorsFall ==
  ASSUME NEW n \in Node
  PROVE  Falls(Ancestors(InitialParent, n))
<1> DEFINE at == Climb(InitialParent, n, MaxDepth)
           C  == {k \in DOMAIN at : at[k] # NoNode}
           up == Ancestors(InitialParent, n)
<1>1. MaxDepth \in Nat /\ InitialParent \in [Node -> Place]
  BY HierarchyAssumption, EntryAssumption DEF Place
<1>2. Walk(InitialParent, n, MaxDepth, at) BY <1>1, ClimbWalks DEF Place
<1>3. Cardinality(C) \in 1 .. MaxDepth + 1 /\ C = 0 .. (Cardinality(C) - 1)
  BY <1>1, NodesComeFirst
<1>4. up = [i \in 1 .. Cardinality(C) |-> at[i - 1]] BY DEF Ancestors
<1>5. up \in Seq(Node) BY <1>1, AncestorsAreNodes
<1> HIDE DEF at
<1> SUFFICES ASSUME NEW i \in DOMAIN up, i + 1 \in DOMAIN up
             PROVE  Height(up[i + 1]) < Height(up[i])
  BY DEF Falls
<1>6. up[i] \in Node /\ up[i + 1] \in Node BY <1>5
<1>7. up[i + 1] = Above(InitialParent)[up[i]]
  <2> DEFINE t == Cardinality(C)
  <2>1. t \in 1 .. MaxDepth + 1 /\ DOMAIN up = 1 .. t
        /\ \A j \in 1 .. t : up[j] = at[j - 1]
    BY <1>3, <1>4
  <2> HIDE DEF t, C, up
  <2>2. i \in 1 .. t /\ i + 1 \in 1 .. t /\ i \in 1 .. MaxDepth BY <1>1, <2>1
  <2>3. up[i] = at[i - 1] /\ up[i + 1] = at[i] BY <2>1, <2>2
  <2>4. at[i] = Above(InitialParent)[at[i - 1]] BY <1>2, <2>2 DEF Walk
  <2>5. QED BY <2>3, <2>4
<1>8. InitialParent[up[i]] = up[i + 1]
  BY <1>6, <1>7, HierarchyAssumption DEF Above
<1>9. QED BY <1>6, <1>8, HeightFalls

-----------------------------------------------------------------------------
\* Who holds a row is past its upsert.
RowInOrder(c) == \A r \in Row : rowLock[r] = c => task[c].at \in {"list", "lock", "refresh"}

\* What a request holds is above what it locks next.
NodesInOrder(c) ==
  \A n \in Node : holder[n] = c =>
    \/ /\ task[c].at = "lock"
       /\ task[c].todo # <<>> => Height(Head(task[c].todo)) < Height(n)
    \/ task[c].at = "refresh" /\ Height(Head(task[c].todo)) <= Height(n)

ListInOrder(c) == task[c].at \in {"lock", "refresh"} => Falls(task[c].todo)

Ordered(c) == RowInOrder(c) /\ NodesInOrder(c) /\ ListInOrder(c)
InOrder    == IInv /\ (moves = 0 => \A c \in Clerk : Ordered(c))

\* A step of c takes no lock in the name of another.
LEMMA OrderOfOthers ==
  ASSUME Types, NEW c \in Clerk, NEW t, task' = [task EXCEPT ![c] = t],
         NEW d \in Clerk \ {c}, Ordered(d),
         \A n \in Node : holder'[n] = d => holder[n] = d,
         \A r \in Row : rowLock'[r] = d => rowLock[r] = d
  PROVE  Ordered(d)'
<1>1. task'[d] = task[d] BY DEF Types, TypeOK
<1>2. QED BY <1>1 DEF Ordered, RowInOrder, NodesInOrder, ListInOrder

\* A request that lets everything go is in order.
LEMMA OrderOfFreed ==
  ASSUME Types, NEW c \in Clerk, task' = [task EXCEPT ![c] = Idle],
         rowLock' = Freed(rowLock, c), holder' = Freed(holder, c),
         \A d \in Clerk : Ordered(d)
  PROVE  \A d \in Clerk : Ordered(d)'
<1>1. /\ \A n \in Node : holder'[n] = IF holder[n] = c THEN Nobody ELSE holder[n]
      /\ \A r \in Row : rowLock'[r] = IF rowLock[r] = c THEN Nobody ELSE rowLock[r]
  BY FreedType DEF Types, TypeOK
<1>2. Ordered(c)'
  <2>1. task'[c].at = "idle" BY DEF Types, TypeOK, Idle
  <2>2. QED
    BY <1>1, <2>1, EntryAssumption DEF Ordered, RowInOrder, NodesInOrder, ListInOrder
<1>3. ASSUME NEW d \in Clerk \ {c} PROVE Ordered(d)'
  BY <1>1, <1>3, EntryAssumption, OrderOfOthers
<1>4. QED BY <1>2, <1>3

LEMMA PostOrder ==
  ASSUME Types, \A d \in Clerk : Ordered(d),
         NEW c \in Clerk, NEW r \in Row, NEW v \in Value, Post(c, r, v)
  PROVE  \A d \in Clerk : Ordered(d)'
<1>1. /\ task' = [task EXCEPT ![c] = [Idle EXCEPT !.at = "upsert", !.row = r, !.value = v]]
      /\ UNCHANGED <<holder, rowLock>> /\ task[c].at = "idle"
  BY DEF Post, locks
<1>2. task'[c].at = "upsert" BY <1>1 DEF Types, TypeOK, Idle
<1>3. Ordered(c)'
  BY <1>1, <1>2 DEF Ordered, RowInOrder, NodesInOrder, ListInOrder
<1>4. ASSUME NEW d \in Clerk \ {c} PROVE Ordered(d)'
  BY <1>1, <1>4, OrderOfOthers
<1>5. QED BY <1>3, <1>4

LEMMA UpsertOrder ==
  ASSUME Types, \A d \in Clerk : Ordered(d), NEW c \in Clerk, Upsert(c)
  PROVE  \A d \in Clerk : Ordered(d)'
<1>1. /\ task' = [task EXCEPT ![c] = [task[c] EXCEPT !.at = "list"]]
      /\ rowLock' = [rowLock EXCEPT ![task[c].row] = c]
      /\ holder' = holder /\ task[c].at = "upsert"
  BY DEF Upsert
<1>2. task'[c].at = "list"
  <2>1. task[c] \in Task BY DEF Types, TypeOK
  <2>2. QED BY <1>1, <2>1 DEF Types, TypeOK, Task
<1>3. Ordered(c)'
  BY <1>1, <1>2 DEF Ordered, RowInOrder, NodesInOrder, ListInOrder
<1>4. ASSUME NEW d \in Clerk \ {c} PROVE Ordered(d)'
  <2>1. \A r \in Row : rowLock'[r] = d => rowLock[r] = d BY <1>1, <1>4 DEF Types, TypeOK
  <2>2. QED BY <1>1, <1>4, <2>1, OrderOfOthers
<1>5. QED BY <1>3, <1>4

LEMMA ListOrder ==
  ASSUME Types, parent = InitialParent, \A d \in Clerk : Ordered(d), NEW c \in Clerk, List(c)
  PROVE  \A d \in Clerk : Ordered(d)'
<1> DEFINE up == Ancestors(parent, task[c].row[1])
<1>1. /\ task' = [task EXCEPT ![c] = [task[c] EXCEPT !.at = "lock", !.todo = up]]
      /\ UNCHANGED <<rowLock, holder>> /\ task[c].at = "list"
  BY DEF List, locks
<1>2. task[c] \in Task /\ task[c].row \in Row BY <1>1 DEF Types, TypeOK, Shape
<1>3. Falls(up) BY <1>2, AncestorsFall DEF Row
<1> HIDE DEF up
<1>4. task'[c].at = "lock" /\ task'[c].todo = up
  BY <1>1, <1>2 DEF Types, TypeOK, Task
<1>5. Ordered(c)'
  <2>1. \A n \in Node : holder[n] # c BY <1>1 DEF Ordered, NodesInOrder
  <2>2. QED
    BY <1>1, <1>3, <1>4, <2>1 DEF Ordered, RowInOrder, NodesInOrder, ListInOrder
<1>6. ASSUME NEW d \in Clerk \ {c} PROVE Ordered(d)'
  BY <1>1, <1>6, OrderOfOthers
<1>7. QED BY <1>5, <1>6

LEMMA LockOrder ==
  ASSUME Types, \A d \in Clerk : Ordered(d), NEW c \in Clerk, Lock(c)
  PROVE  \A d \in Clerk : Ordered(d)'
<1> DEFINE n == Head(task[c].todo)
<1>1. /\ task' = [task EXCEPT ![c] = [task[c] EXCEPT !.at = "refresh"]]
      /\ holder' = [holder EXCEPT ![n] = c] /\ rowLock' = rowLock
      /\ task[c].at = "lock" /\ task[c].todo # <<>>
  BY DEF Lock
<1>2. task[c] \in Task BY DEF Types, TypeOK
<1>3. n \in Node /\ Height(n) \in Nat
  <2>1. n \in Node BY <1>1, <1>2 DEF Task
  <2>2. QED BY <2>1, HeightType
<1>4. task'[c].at = "refresh" /\ task'[c].todo = task[c].todo
  BY <1>1, <1>2 DEF Types, TypeOK, Task
<1> HIDE DEF n
<1>5. NodesInOrder(c)'
  <2> SUFFICES ASSUME NEW m \in Node, holder'[m] = c PROVE Height(n) <= Height(m)
    BY <1>4 DEF NodesInOrder, n
  <2>1. CASE m = n BY <1>3, <2>1
  <2>2. CASE m # n
    <3>1. holder[m] = c BY <1>1, <1>3, <2>2 DEF Types, TypeOK
    <3>2. Height(n) < Height(m) BY <1>1, <3>1 DEF Ordered, NodesInOrder, n
    <3>3. Height(m) \in Nat BY HeightType
    <3>4. QED BY <1>3, <3>2, <3>3
  <2>3. QED BY <2>1, <2>2
<1>6. Ordered(c)'
  BY <1>1, <1>4, <1>5 DEF Ordered, RowInOrder, ListInOrder
<1>7. ASSUME NEW d \in Clerk \ {c} PROVE Ordered(d)'
  <2>1. \A m \in Node : holder'[m] = d => holder[m] = d
    BY <1>1, <1>3, <1>7 DEF Types, TypeOK
  <2>2. QED BY <1>1, <1>7, <2>1, OrderOfOthers
<1>8. QED BY <1>6, <1>7

LEMMA RefreshOrder ==
  ASSUME Types, \A d \in Clerk : Ordered(d), NEW c \in Clerk, Refresh(c)
  PROVE  \A d \in Clerk : Ordered(d)'
<1> DEFINE todo == task[c].todo
           n == Head(todo)
           t == Refreshed(c)
<1>1. /\ n \in Node /\ todo \in Seq(Node) /\ todo # <<>>
      /\ t.at = "lock" /\ t.todo = Tail(todo)
      /\ task' = [task EXCEPT ![c] = t]
  BY RefreshedTask
<1>2. UNCHANGED <<rowLock, holder>> /\ task[c].at = "refresh" BY DEF Refresh, locks
<1> HIDE DEF t, todo
<1>3. task'[c] = t BY <1>1 DEF Types, TypeOK
<1>4. Falls(todo) BY <1>2 DEF Ordered, ListInOrder, todo
<1>5. /\ n = todo[1] /\ Len(todo) \in Nat /\ DOMAIN todo = 1 .. Len(todo)
      /\ DOMAIN Tail(todo) = 1 .. Len(todo) - 1
      /\ \A i \in DOMAIN Tail(todo) : Tail(todo)[i] = todo[i + 1]
  BY <1>1
<1>6. Falls(Tail(todo))
  <2> SUFFICES ASSUME NEW i \in DOMAIN Tail(todo), i + 1 \in DOMAIN Tail(todo)
               PROVE  Height(Tail(todo)[i + 1]) < Height(Tail(todo)[i])
    BY DEF Falls
  <2>1. i + 1 \in DOMAIN todo /\ (i + 1) + 1 \in DOMAIN todo BY <1>5
  <2>2. QED BY <1>4, <1>5, <2>1 DEF Falls
<1>7. ASSUME Tail(todo) # <<>> PROVE Height(Head(Tail(todo))) < Height(n)
  <2>1. 1 \in DOMAIN Tail(todo) /\ Head(Tail(todo)) = Tail(todo)[1] BY <1>1, <1>7
  <2>2. 1 \in DOMAIN todo /\ 1 + 1 \in DOMAIN todo BY <1>5, <2>1
  <2>3. QED BY <1>4, <1>5, <2>1, <2>2 DEF Falls
<1>8. NodesInOrder(c)'
  <2> SUFFICES ASSUME NEW m \in Node, holder[m] = c, Tail(todo) # <<>>
               PROVE  Height(Head(Tail(todo))) < Height(m)
    BY <1>1, <1>2, <1>3 DEF NodesInOrder
  <2>1. Height(n) <= Height(m) BY <1>2 DEF Ordered, NodesInOrder, todo
  <2>2. Head(Tail(todo)) \in Node BY <1>1
  <2>3. /\ Height(m) \in Nat /\ Height(n) \in Nat /\ Height(Head(Tail(todo))) \in Nat
    BY <1>1, <2>2, HeightType
  <2>4. QED BY <1>7, <2>1, <2>3
<1>9. Ordered(c)'
  BY <1>1, <1>2, <1>3, <1>6, <1>8 DEF Ordered, RowInOrder, ListInOrder
<1>10. ASSUME NEW d \in Clerk \ {c} PROVE Ordered(d)'
  BY <1>1, <1>2, <1>10, OrderOfOthers
<1>11. QED BY <1>9, <1>10

LEMMA OrderNext == InOrder /\ [Next]_vars => InOrder'
<1> SUFFICES ASSUME InOrder, [Next]_vars PROVE InOrder' OBVIOUS
<1>1. IInv /\ IInv' /\ Types BY InvNext DEF InOrder, IInv
<1> SUFFICES ASSUME moves' = 0 PROVE \A c \in Clerk : Ordered(c)'
  BY <1>1 DEF InOrder
<1>2. ASSUME NEW n \in Node, \/ \E m \in Node \cup {NoNode} : Reparent(n, m)
                             \/ Archive(n)
      PROVE  FALSE
  BY <1>1, <1>2, MoveTypes
<1>3. CASE UNCHANGED vars
  BY <1>3 DEF vars, locks, counts, InOrder, Ordered, RowInOrder, NodesInOrder, ListInOrder
<1>4. CASE ~ UNCHANGED vars
  <2>1. moves = 0
    BY <1>2, <1>4 DEF Next, Post, Request, Upsert, List, Lock, Refresh, Commit, Fail,
                      DeadlockDetected, Rollback, counts
  <2>2. parent = InitialParent /\ \A c \in Clerk : Ordered(c)
    BY <1>1, <2>1 DEF InOrder, IInv, Quiet, Still
  <2>3. ASSUME NEW c \in Clerk, Request(c) PROVE \A d \in Clerk : Ordered(d)'
    <3>1. CASE Commit(c) BY <1>1, <2>2, <3>1, OrderOfFreed DEF Commit
    <3>2. QED
      BY <1>1, <2>2, <2>3, <3>1, UpsertOrder, ListOrder, LockOrder, RefreshOrder DEF Request
  <2>4. ASSUME NEW c \in Clerk, Fail(c) \/ DeadlockDetected(c)
        PROVE  \A d \in Clerk : Ordered(d)'
    <3>1. Rollback(c) BY <2>4 DEF Fail, DeadlockDetected
    <3>2. QED BY <1>1, <2>2, <3>1, OrderOfFreed DEF Rollback
  <2>5. QED BY <1>1, <1>2, <1>4, <2>2, <2>3, <2>4, PostOrder DEF Next
<1>5. QED BY <1>3, <1>4

LEMMA OrderInit == Init => InOrder
<1> SUFFICES ASSUME Init PROVE InOrder OBVIOUS
<1>1. \A c \in Clerk : Ordered(c)
  BY EntryAssumption DEF Init, Idle, Ordered, RowInOrder, NodesInOrder, ListInOrder
<1>2. QED BY <1>1, InvInit DEF InOrder

\* In order, no set of requests waits for itself: take the one that waits for
\* the lowest node.
LEMMA OrderIsFree == InOrder => NoDeadlock
<1> SUFFICES ASSUME InOrder, moves = 0, NEW c \in Clerk, Stuck(c) PROVE FALSE
  BY DEF NoDeadlock
<1>1. Types /\ \A d \in Clerk : Ordered(d) BY DEF InOrder, IInv
<1>2. PICK S \in SUBSET Clerk : c \in S /\ \A d \in S : \E e \in S : WaitsFor(d, e)
  BY DEF Stuck
<1> DEFINE Next1(d) == Head(task[d].todo)
           L == {d \in S : task[d].at = "lock"}
           H == {Height(Next1(d)) : d \in L}
<1>3. ASSUME NEW d \in L
      PROVE  Next1(d) \in Node /\ \E e \in L : holder[Next1(d)] = e
  <2>1. PICK e \in S : WaitsFor(d, e) BY <1>2
  <2>2. task[d].todo # <<>> /\ holder[Next1(d)] = e BY <2>1 DEF WaitsFor
  <2>3. task[d].todo \in Seq(Node) BY <1>1, <1>2 DEF Types, TypeOK, Task
  <2>4. Next1(d) \in Node BY <2>2, <2>3
  <2>5. task[e].at \in {"lock", "refresh"}
    BY <1>1, <1>2, <2>2, <2>4 DEF Ordered, NodesInOrder
  <2>6. task[e].at \in {"upsert", "lock"} BY <1>2 DEF WaitsFor
  <2>7. QED BY <2>2, <2>4, <2>5, <2>6
<1>4. L # {}
  <2>1. PICK d \in S : WaitsFor(c, d) BY <1>2
  <2>2. CASE task[c].at = "lock" BY <1>2, <2>2
  <2>3. CASE task[c].at = "upsert" /\ rowLock[task[c].row] = d
    <3>1. task[c].row \in Row BY <1>1, <2>3 DEF Types, Shape
    <3>2. task[d].at # "upsert" BY <1>1, <1>2, <2>3, <3>1 DEF Ordered, RowInOrder
    <3>3. task[d].at = "lock" BY <1>2, <3>2 DEF WaitsFor
    <3>4. QED BY <3>3
  <2>4. QED BY <2>1, <2>2, <2>3 DEF WaitsFor
<1>5. H \in SUBSET Nat /\ H # {} BY <1>3, <1>4, HeightType
<1>6. PICK d \in L : \A k \in H : Height(Next1(d)) <= k
  <2>1. \E h \in H : \A k \in H : h <= k
    <3> HIDE DEF H
    <3> QED BY <1>5, LeastNat
  <2>2. QED BY <2>1
<1>7. PICK e \in L : holder[Next1(d)] = e BY <1>3
<1>8. Next1(d) \in Node /\ Next1(e) \in Node BY <1>3
<1>9. task[e].at = "lock" /\ task[e].todo # <<>>
  BY <1>2, <1>7 DEF WaitsFor
<1>10. Height(Next1(e)) < Height(Next1(d))
  BY <1>1, <1>2, <1>7, <1>8, <1>9 DEF Ordered, NodesInOrder
<1>11. Height(Next1(e)) \in H BY <1>7
<1>12. QED
  <2>1. Height(Next1(d)) <= Height(Next1(e)) BY <1>6, <1>11
  <2>2. Height(Next1(d)) \in Nat /\ Height(Next1(e)) \in Nat BY <1>8, HeightType
  <2>3. QED BY <1>10, <2>1, <2>2

\* As long as no node is moved or archived, overlapping requests never wait for
\* each other in a circle: for any tree, any rows and any number of requests.
THEOREM NoRequestDeadlocks == Spec => []NoDeadlock
BY OrderInit, OrderNext, OrderIsFree, PTL DEF Spec
=============================================================================
