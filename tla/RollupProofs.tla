---------------------------- MODULE RollupProofs ----------------------------
(***************************************************************************)
(* What the advisory lock and the order of the statements achieve, for any *)
(* number of pulls and refreshers, any tree and any failures: as long as   *)
(* no node is moved or archived, no rollup ever goes back, and a refresh   *)
(* that ends has brought every ancestor up to date.  Where nothing fails   *)
(* either, a write is only lost to an add that the queue swallows.         *)
(***************************************************************************)
EXTENDS Rollup, HierarchyProofs

-----------------------------------------------------------------------------
(***************************************************************************)
(* Types.                                                                  *)
(***************************************************************************)
Row       == [Node -> Nat]
Refreshes == [at: {"idle", "list", "lock", "read", "write"}, leaf: Place, todo: Seq(Node),
              total: Row, due: Nat]

Typed ==
  /\ parent \in [Node -> Place]
  /\ record \in Row /\ rollup \in [Node -> Row]
  /\ refresh \in [Refresher -> Refreshes]
  /\ holder \in [Node -> Refresher \cup {Nobody}]
  /\ moves \in Nat
  /\ \A q \in Refresher : refresh[q].at # "idle" => refresh[q].leaf \in Node
  /\ \A q \in Refresher : refresh[q].at \in {"read", "write"} => refresh[q].todo # <<>>

LEMMA NoRefreshTyped == NoRefresh \in Refreshes /\ NoRefresh.at = "idle" /\ NoTotal \in Row
BY DEF NoRefresh, NoTotal, Refreshes, Row, Place

LEMMA TypedStart == Init => Typed
BY RollupAssumption, NoRefreshTyped DEF Init, Typed, Place, Row, Refreshes

LEMMA HeadTail ==
  ASSUME NEW s \in Seq(Node), s # <<>>
  PROVE  /\ Head(s) \in Node /\ Tail(s) \in Seq(Node)
         /\ \A i \in DOMAIN s : s[i] = Head(s) \/ \E j \in DOMAIN Tail(s) : Tail(s)[j] = s[i]
<1>1. Head(s) \in Node /\ Tail(s) \in Seq(Node) OBVIOUS
<1>2. ASSUME NEW i \in DOMAIN s, s[i] # Head(s)
      PROVE  \E j \in DOMAIN Tail(s) : Tail(s)[j] = s[i]
  <2>1. i # 1 /\ i \in 1 .. Len(s) BY <1>2
  <2>2. i - 1 \in DOMAIN Tail(s) /\ Tail(s)[i - 1] = s[i] BY <2>1
  <2>3. QED BY <2>2
<1>3. QED BY <1>1, <1>2

\* The records that each node's row should add up.
Shown == [n \in Node |-> Total(n)]

LEMMA ShownTyped == Typed => Shown \in [Node -> Row]
BY DEF Shown, Typed, Total, Row

LEMMA ShownKept == UNCHANGED <<parent, archived, record>> => Shown' = Shown
BY DEF Shown, Total

\* The steps that touch neither the tree nor the rows nor a refresh.
Elsewhere == UNCHANGED <<parent, archived, record, rollup, refresh, holder, moves>>

LEMMA PullsElsewhere ==
  ASSUME NEW p \in Puller, NEW n,
         \/ StartPull(p) \/ FinishPull(p) \/ PullDone(p) \/ AddRefresh(p, n)
         \/ PullFails(p) \/ EnqueueFails(p)
  PROVE  Elsewhere
BY DEF StartPull, FinishPull, PullDone, AddRefresh, PullFails, EnqueueFails, Fails, Elsewhere,
       tree, counts

LEMMA TypedStep == Typed /\ [Next]_vars => Typed'
<1> SUFFICES ASSUME Typed, [Next]_vars PROVE Typed' OBVIOUS
<1>1. ASSUME Elsewhere PROVE Typed' BY <1>1 DEF Elsewhere, Typed
<1>2. ASSUME NEW p \in Puller, NEW n \in Node, PullAccount(p, n) PROVE Typed'
  BY <1>2 DEF PullAccount, Typed, Row, tree, counts
<1>3. ASSUME NEW q \in Refresher, NEW n \in Node, DeliverRefresh(q, n) PROVE Typed'
  <2> DEFINE r == [NoRefresh EXCEPT !.at = "list", !.leaf = n, !.due = record[n]]
  <2>1. r \in Refreshes /\ r.at = "list" /\ r.leaf \in Node
    BY NoRefreshTyped DEF NoRefresh, Refreshes, Typed, Row, Place
  <2>2. refresh' = [refresh EXCEPT ![q] = r] BY <1>3 DEF DeliverRefresh
  <2> HIDE DEF r
  <2>3. QED BY <1>3, <2>1, <2>2 DEF DeliverRefresh, Typed, tree, counts
<1>4. ASSUME NEW q \in Refresher, ListAncestors(q) PROVE Typed'
  <2>1. refresh[q].leaf \in Node BY <1>4 DEF ListAncestors, Typed
  <2>2. Ancestors(parent, refresh[q].leaf) \in Seq(Node)
    BY <2>1, AncestorsAreNodes DEF Typed
  <2>3. QED BY <1>4, <2>1, <2>2 DEF ListAncestors, Typed, Refreshes, tree, counts
<1>5. ASSUME NEW q \in Refresher, LockBucket(q) PROVE Typed'
  <2>1. Head(refresh[q].todo) \in Node BY <1>5, HeadTail DEF LockBucket, Typed, Refreshes
  <2>2. QED BY <1>5, <2>1 DEF LockBucket, Typed, Refreshes, tree, counts
<1>6. ASSUME NEW q \in Refresher, ReadBucket(q) PROVE Typed'
  <2>1. Head(refresh[q].todo) \in Node BY <1>6, HeadTail DEF ReadBucket, Typed, Refreshes
  <2>2. Total(Head(refresh[q].todo)) \in Row BY <2>1, ShownTyped DEF Shown
  <2>3. QED BY <1>6, <2>2 DEF ReadBucket, Typed, Refreshes, tree, counts
<1>7. ASSUME NEW q \in Refresher, WriteBucket(q) PROVE Typed'
  <2>1. /\ Head(refresh[q].todo) \in Node /\ Tail(refresh[q].todo) \in Seq(Node)
        /\ refresh[q].total \in Row
    BY <1>7, HeadTail DEF WriteBucket, Typed, Refreshes
  <2>2. QED
    BY <1>7, <2>1, NoRefreshTyped DEF WriteBucket, Typed, Refreshes, tree, counts
<1>8. ASSUME NEW q \in Refresher, RefreshDone(q) \/ RefreshFails(q) PROVE Typed'
  BY <1>8, NoRefreshTyped DEF RefreshDone, RefreshFails, Fails, Typed, tree, counts
<1>9. ASSUME NEW n \in Node, NEW m \in Node \cup {NoNode}, Reparent(n, m) PROVE Typed'
  BY <1>9 DEF Reparent, Typed, Place
<1>10. ASSUME NEW n \in Node, Archive(n) PROVE Typed' BY <1>10 DEF Archive, Typed
<1>11. CASE UNCHANGED vars \/ Stopped
  BY <1>1, <1>11 DEF Stopped, vars, tree, counts, Elsewhere
<1>12. QED
  BY <1>1, <1>2, <1>3, <1>4, <1>5, <1>6, <1>7, <1>8, <1>9, <1>10, <1>11, PullsElsewhere
  DEF Next, Pulling, Refreshing

-----------------------------------------------------------------------------
(***************************************************************************)
(* The lock.                                                               *)
(***************************************************************************)
\* Who reads or writes a bucket holds its lock.
Locked == \A q \in Refresher : refresh[q].at \in {"read", "write"}
                                => holder[Head(refresh[q].todo)] = q

\* While the tree rests, the rows only lag behind, and what a refresher is about
\* to write lies between the row that is there and the records.
Behind ==
  moves = 0 =>
    /\ \A n, m \in Node : rollup[n][m] <= Shown[n][m]
    /\ \A q \in Refresher : refresh[q].at = "write" =>
         \A m \in Node : /\ rollup[Head(refresh[q].todo)][m] <= refresh[q].total[m]
                         /\ refresh[q].total[m] <= Shown[Head(refresh[q].todo)][m]

Ordered == Typed /\ Locked /\ Behind

LEMMA OrderedStart == Init => Ordered
<1> SUFFICES ASSUME Init PROVE Ordered OBVIOUS
<1>1. Typed BY TypedStart
<1>2. \A q \in Refresher : refresh[q].at = "idle" BY NoRefreshTyped DEF Init
<1>3. ASSUME NEW n \in Node, NEW m \in Node PROVE rollup[n][m] <= Shown[n][m]
  <2>1. rollup[n][m] = 0 BY DEF Init, NoTotal
  <2>2. Shown[n][m] \in Nat BY <1>1, ShownTyped DEF Row
  <2>3. QED BY <2>1, <2>2
<1>4. QED BY <1>1, <1>2, <1>3 DEF Ordered, Locked, Behind

LEMMA LockedStep == Typed /\ Locked /\ [Next]_vars => Locked'
<1> SUFFICES ASSUME Typed, Locked, [Next]_vars PROVE Locked' OBVIOUS
<1> USE DEF Typed, Locked
<1>1. ASSUME Elsewhere PROVE Locked' BY <1>1 DEF Elsewhere
<1>2. ASSUME NEW p \in Puller, NEW n \in Node, PullAccount(p, n) PROVE Locked'
  BY <1>2 DEF PullAccount
<1>3. ASSUME NEW q \in Refresher, NEW n \in Node, DeliverRefresh(q, n) PROVE Locked'
  <2> DEFINE r == [NoRefresh EXCEPT !.at = "list", !.leaf = n, !.due = record[n]]
  <2>1. r.at = "list" BY DEF NoRefresh
  <2>2. refresh' = [refresh EXCEPT ![q] = r] /\ holder' = holder
    BY <1>3 DEF DeliverRefresh
  <2> HIDE DEF r
  <2>3. QED BY <2>1, <2>2
<1>4. ASSUME NEW q \in Refresher, ListAncestors(q) PROVE Locked'
  BY <1>4 DEF ListAncestors, Refreshes
<1>5. ASSUME NEW q \in Refresher, LockBucket(q) PROVE Locked'
  <2>1. Head(refresh[q].todo) \in Node BY <1>5, HeadTail DEF LockBucket, Refreshes
  <2>2. \A o \in Refresher \ {q} : refresh'[o] = refresh[o] BY <1>5 DEF LockBucket
  <2>3. refresh'[q].todo = refresh[q].todo BY <1>5 DEF LockBucket, Refreshes
  <2>4. holder' = [holder EXCEPT ![Head(refresh[q].todo)] = q]
        /\ holder[Head(refresh[q].todo)] = Nobody
    BY <1>5 DEF LockBucket
  <2>5. ASSUME NEW o \in Refresher, refresh'[o].at \in {"read", "write"}
        PROVE  holder'[Head(refresh'[o].todo)] = o
    <3>1. CASE o = q BY <2>1, <2>3, <2>4, <3>1
    <3>2. CASE o # q
      <4>1. holder[Head(refresh[o].todo)] = o BY <2>2, <2>5, <3>2
      <4>2. Head(refresh[o].todo) # Head(refresh[q].todo)
        BY <2>4, <4>1, RollupAssumption
      <4>3. QED BY <2>1, <2>2, <2>4, <3>2, <4>1, <4>2
    <3>3. QED BY <3>1, <3>2
  <2>6. QED BY <2>5
<1>6. ASSUME NEW q \in Refresher, ReadBucket(q) PROVE Locked'
  <2>1. refresh'[q].todo = refresh[q].todo /\ holder' = holder
        /\ \A o \in Refresher \ {q} : refresh'[o] = refresh[o]
    BY <1>6 DEF ReadBucket, Refreshes
  <2>2. refresh[q].at = "read" BY <1>6 DEF ReadBucket
  <2>3. QED BY <2>1, <2>2
<1>7. ASSUME NEW q \in Refresher, WriteBucket(q) PROVE Locked'
  <2>1. Head(refresh[q].todo) \in Node BY <1>7, HeadTail DEF WriteBucket, Refreshes
  <2>2. refresh'[q].at = "lock" /\ \A o \in Refresher \ {q} : refresh'[o] = refresh[o]
    BY <1>7 DEF WriteBucket, Refreshes
  <2>3. holder[Head(refresh[q].todo)] = q
        /\ holder' = [holder EXCEPT ![Head(refresh[q].todo)] = Nobody]
    BY <1>7 DEF WriteBucket
  <2>4. ASSUME NEW o \in Refresher, refresh'[o].at \in {"read", "write"}
        PROVE  holder'[Head(refresh'[o].todo)] = o
    <3>1. o # q /\ refresh'[o] = refresh[o] BY <2>2, <2>4
    <3>2. holder[Head(refresh[o].todo)] = o BY <2>4, <3>1
    <3>3. Head(refresh[o].todo) # Head(refresh[q].todo) BY <2>3, <3>1, <3>2
    <3>4. QED BY <2>1, <2>3, <3>1, <3>2, <3>3
  <2>5. QED BY <2>4
<1>8. ASSUME NEW q \in Refresher, RefreshDone(q) PROVE Locked'
  BY <1>8, NoRefreshTyped DEF RefreshDone
<1>9. ASSUME NEW q \in Refresher, RefreshFails(q) PROVE Locked'
  <2>1. /\ refresh' = [refresh EXCEPT ![q] = NoRefresh]
        /\ holder' = [n \in Node |-> IF holder[n] = q THEN Nobody ELSE holder[n]]
    BY <1>9 DEF RefreshFails
  <2>2. ASSUME NEW o \in Refresher, refresh'[o].at \in {"read", "write"}
        PROVE  holder'[Head(refresh'[o].todo)] = o
    <3>1. o # q /\ refresh'[o] = refresh[o] BY <2>1, <2>2, NoRefreshTyped
    <3>2. holder[Head(refresh[o].todo)] = o BY <2>2, <3>1
    <3>3. Head(refresh[o].todo) \in Node BY <2>2, <3>1, HeadTail DEF Refreshes
    <3>4. QED BY <2>1, <3>1, <3>2, <3>3
  <2>3. QED BY <2>2
<1>10. ASSUME NEW n \in Node, NEW m, Reparent(n, m) \/ Archive(n) PROVE Locked'
  BY <1>10 DEF Reparent, Archive
<1>11. CASE UNCHANGED vars \/ Stopped
  BY <1>1, <1>11 DEF Stopped, vars, tree, counts, Elsewhere
<1>12. QED
  BY <1>1, <1>2, <1>3, <1>4, <1>5, <1>6, <1>7, <1>8, <1>9, <1>10, <1>11, PullsElsewhere
  DEF Next, Pulling, Refreshing

\* A row that is written does not go back.
LEMMA WriteIsAhead ==
  ASSUME Ordered, moves = 0, NEW q \in Refresher, WriteBucket(q), NEW n \in Node, NEW m \in Node
  PROVE  /\ rollup'[n][m] >= rollup[n][m] /\ rollup'[n][m] <= Shown[n][m]
         /\ n # Head(refresh[q].todo) => rollup'[n] = rollup[n]
<1>1. /\ rollup \in [Node -> Row] /\ refresh[q] \in Refreshes /\ refresh[q].todo # <<>>
      /\ Shown[n] \in Row /\ refresh[q].at = "write"
  BY ShownTyped DEF Ordered, Typed, WriteBucket
<1>2. Head(refresh[q].todo) \in Node BY <1>1, HeadTail DEF Refreshes
<1>3. rollup' = [rollup EXCEPT ![Head(refresh[q].todo)] = refresh[q].total]
  BY DEF WriteBucket
<1>4. refresh[q].total \in Row BY <1>1 DEF Refreshes
<1>5. /\ rollup[n][m] <= Shown[n][m]
      /\ rollup[Head(refresh[q].todo)][m] <= refresh[q].total[m]
      /\ refresh[q].total[m] <= Shown[Head(refresh[q].todo)][m]
  BY <1>1 DEF Ordered, Behind
<1>6. CASE n = Head(refresh[q].todo)
  BY <1>1, <1>2, <1>3, <1>4, <1>5, <1>6 DEF Row
<1>7. CASE n # Head(refresh[q].todo)
  BY <1>1, <1>2, <1>3, <1>4, <1>5, <1>7 DEF Row
<1>8. QED BY <1>6, <1>7

LEMMA BehindStep == Ordered /\ [Next]_vars => Behind'
<1> SUFFICES ASSUME Ordered, [Next]_vars, moves' = 0 PROVE Behind' BY DEF Behind
<1>0. Typed /\ Locked /\ Behind /\ Typed' BY TypedStep DEF Ordered
<1>1. ASSUME UNCHANGED <<parent, archived, record, rollup, moves>>,
             \A q \in Refresher : refresh'[q] = refresh[q] \/ refresh'[q].at # "write"
      PROVE  Behind'
  BY <1>0, <1>1, ShownKept, HeadTail DEF Behind, Typed, Refreshes
<1>2. ASSUME Elsewhere PROVE Behind' BY <1>1, <1>2 DEF Elsewhere
<1>3. ASSUME NEW p \in Puller, NEW l \in Node, PullAccount(p, l) PROVE Behind'
  <2>1. /\ UNCHANGED <<parent, archived, rollup, refresh, moves>>
        /\ record' = [record EXCEPT ![l] = @ + 1]
    BY <1>3 DEF PullAccount, tree, counts
  <2>2. ASSUME NEW n \in Node, NEW m \in Node PROVE Shown[n][m] <= Shown'[n][m]
    <3>1. Subtree(parent', archived', n) = Subtree(parent, archived, n) BY <2>1
    <3>2. record[m] \in Nat /\ record[m] <= record'[m] BY <1>0, <2>1 DEF Typed, Row
    <3>3. QED BY <3>1, <3>2 DEF Shown, Total
  <2>3. /\ \A n \in Node : Shown[n] \in Row /\ Shown'[n] \in Row
    <3>1. \A n \in Node : Shown[n] \in Row BY <1>0, ShownTyped
    <3>2. \A n \in Node : Shown'[n] \in Row BY <1>0 DEF Shown, Total, Typed, Row
    <3>3. QED BY <3>1, <3>2
  <2>4. moves = 0 BY <2>1
  <2>5. ASSUME NEW n \in Node, NEW m \in Node PROVE rollup'[n][m] <= Shown'[n][m]
    <3>1. rollup[n][m] <= Shown[n][m] BY <1>0, <2>4 DEF Behind
    <3>2. rollup[n] \in Row /\ Shown[n] \in Row /\ Shown'[n] \in Row
      BY <1>0, <2>3 DEF Typed
    <3>3. rollup[n][m] \in Nat /\ Shown[n][m] \in Nat /\ Shown'[n][m] \in Nat
      BY <3>2 DEF Row
    <3>4. Shown[n][m] <= Shown'[n][m] BY <2>2
    <3>5. rollup'[n][m] = rollup[n][m] BY <2>1
    <3>6. QED BY <3>1, <3>3, <3>4, <3>5
  <2>6. ASSUME NEW q \in Refresher, refresh'[q].at = "write", NEW m \in Node
        PROVE  /\ rollup'[Head(refresh'[q].todo)][m] <= refresh'[q].total[m]
               /\ refresh'[q].total[m] <= Shown'[Head(refresh'[q].todo)][m]
    <3> DEFINE n == Head(refresh[q].todo)
    <3>1. n \in Node /\ refresh[q].total \in Row
      BY <1>0, <2>1, <2>6, HeadTail DEF Typed, Refreshes
    <3>2. rollup[n][m] <= refresh[q].total[m] /\ refresh[q].total[m] <= Shown[n][m]
      BY <1>0, <2>1, <2>4, <2>6 DEF Behind
    <3>3. Shown[n][m] <= Shown'[n][m] BY <2>2, <3>1
    <3>4. refresh[q].total[m] \in Nat /\ Shown[n][m] \in Nat /\ Shown'[n][m] \in Nat
      BY <2>3, <3>1 DEF Row
    <3>5. Shown'[Head(refresh'[q].todo)] = Shown'[n] BY <2>1
    <3>6. QED BY <2>1, <3>2, <3>3, <3>4, <3>5
  <2>7. QED BY <2>5, <2>6 DEF Behind
<1>4. ASSUME NEW q \in Refresher, ReadBucket(q) PROVE Behind'
  <2> DEFINE n == Head(refresh[q].todo)
  <2>1. /\ UNCHANGED <<parent, archived, record, rollup, moves>>
        /\ \A o \in Refresher \ {q} : refresh'[o] = refresh[o]
        /\ refresh'[q].todo = refresh[q].todo /\ refresh'[q].total = Total(n)
    BY <1>0, <1>4 DEF ReadBucket, tree, counts, Typed, Refreshes
  <2>2. n \in Node /\ Total(n) = Shown[n]
    BY <1>0, <1>4, HeadTail DEF ReadBucket, Typed, Refreshes, Shown
  <2>3. Shown' = Shown BY <2>1, ShownKept
  <2>4. Shown[n] \in Row BY <1>0, <2>2, ShownTyped
  <2>5. \A l, m \in Node : rollup[l][m] <= Shown[l][m] BY <1>0, <2>1 DEF Behind
  <2>6. ASSUME NEW o \in Refresher, refresh'[o].at = "write", NEW m \in Node
        PROVE  /\ rollup'[Head(refresh'[o].todo)][m] <= refresh'[o].total[m]
               /\ refresh'[o].total[m] <= Shown'[Head(refresh'[o].todo)][m]
    <3>1. CASE o = q
      <4>1. Shown'[Head(refresh'[o].todo)] = Shown[n]
        <5>1. Head(refresh'[o].todo) = n BY <2>1, <3>1
        <5>2. QED BY <2>2, <2>3, <5>1
      <4>2. QED BY <2>1, <2>2, <2>4, <2>5, <3>1, <4>1 DEF Row
    <3>2. CASE o # q
      <4>1. refresh'[o] = refresh[o] BY <2>1, <3>2
      <4>2. Head(refresh[o].todo) \in Node
        BY <1>0, <2>6, <4>1, HeadTail DEF Typed, Refreshes
      <4>3. /\ rollup[Head(refresh[o].todo)][m] <= refresh[o].total[m]
            /\ refresh[o].total[m] <= Shown[Head(refresh[o].todo)][m]
        BY <1>0, <2>1, <2>6, <4>1 DEF Behind
      <4>4. Shown'[Head(refresh'[o].todo)] = Shown[Head(refresh[o].todo)]
        BY <2>3, <4>1, <4>2
      <4>5. QED BY <2>1, <4>1, <4>3, <4>4
    <3>3. QED BY <3>1, <3>2
  <2>7. QED BY <2>1, <2>3, <2>5, <2>6 DEF Behind
<1>5. ASSUME NEW q \in Refresher, WriteBucket(q) PROVE Behind'
  <2>1. /\ UNCHANGED <<parent, archived, record, moves>>
        /\ \A o \in Refresher \ {q} : refresh'[o] = refresh[o]
        /\ refresh'[q].at = "lock" /\ refresh[q].at = "write"
    BY <1>0, <1>5 DEF WriteBucket, tree, counts, Typed, Refreshes
  <2>2. Shown' = Shown BY <2>1, ShownKept
  <2>3. \A n, m \in Node : rollup'[n][m] <= Shown[n][m] BY <1>5, <2>1, WriteIsAhead
  <2>4. \A n \in Node \ {Head(refresh[q].todo)} : rollup'[n] = rollup[n]
    BY <1>5, <2>1, WriteIsAhead
  <2>5. ASSUME NEW o \in Refresher, refresh'[o].at = "write", NEW m \in Node
        PROVE  /\ rollup'[Head(refresh'[o].todo)][m] <= refresh'[o].total[m]
               /\ refresh'[o].total[m] <= Shown'[Head(refresh'[o].todo)][m]
    <3>1. o # q /\ refresh'[o] = refresh[o] BY <2>1, <2>5
    <3>2. Head(refresh[o].todo) \in Node
      BY <1>0, <2>5, <3>1, HeadTail DEF Typed, Refreshes
    <3>3. Head(refresh[o].todo) # Head(refresh[q].todo)
      BY <1>0, <2>1, <2>5, <3>1 DEF Locked
    <3>4. /\ rollup[Head(refresh[o].todo)][m] <= refresh[o].total[m]
          /\ refresh[o].total[m] <= Shown[Head(refresh[o].todo)][m]
      BY <1>0, <2>1, <2>5, <3>1 DEF Behind
    <3>5. rollup'[Head(refresh[o].todo)] = rollup[Head(refresh[o].todo)]
      BY <2>4, <3>2, <3>3
    <3>6. Shown'[Head(refresh'[o].todo)] = Shown[Head(refresh[o].todo)]
      BY <2>2, <3>1, <3>2
    <3>7. QED BY <3>1, <3>4, <3>5, <3>6
  <2>6. QED BY <2>2, <2>3, <2>5 DEF Behind
<1>6. ASSUME NEW q \in Refresher, NEW n,
             DeliverRefresh(q, n) \/ ListAncestors(q) \/ LockBucket(q) \/ RefreshDone(q)
               \/ RefreshFails(q)
      PROVE  Behind'
  <2>1. UNCHANGED <<parent, archived, record, rollup, moves>>
    BY <1>6 DEF DeliverRefresh, ListAncestors, LockBucket, RefreshDone, RefreshFails, Fails,
                tree, counts
  <2>2. \A o \in Refresher \ {q} : refresh'[o] = refresh[o]
    BY <1>0, <1>6 DEF DeliverRefresh, ListAncestors, LockBucket, RefreshDone, RefreshFails,
                      Typed
  <2>3. refresh'[q].at # "write"
    <3>1. CASE DeliverRefresh(q, n)
      BY <1>0, <3>1 DEF DeliverRefresh, NoRefresh, Typed
    <3>2. CASE ListAncestors(q) BY <1>0, <3>2 DEF ListAncestors, Typed, Refreshes
    <3>3. CASE LockBucket(q) BY <1>0, <3>3 DEF LockBucket, Typed, Refreshes
    <3>4. CASE RefreshDone(q) \/ RefreshFails(q)
      BY <1>0, <3>4, NoRefreshTyped DEF RefreshDone, RefreshFails, Typed
    <3>5. QED BY <1>6, <3>1, <3>2, <3>3, <3>4
  <2>4. QED BY <1>1, <2>1, <2>2, <2>3
<1>7. ASSUME NEW n \in Node, NEW m, Reparent(n, m) \/ Archive(n) PROVE Behind'
  BY <1>0, <1>7 DEF Reparent, Archive, Typed
<1>8. CASE UNCHANGED vars \/ Stopped
  BY <1>2, <1>8 DEF Stopped, vars, tree, counts, Elsewhere
<1>9. QED
  BY <1>2, <1>3, <1>4, <1>5, <1>6, <1>7, <1>8, PullsElsewhere
  DEF Next, Pulling, Refreshing

LEMMA OrderedKept == Spec => []Ordered
<1>1. Ordered /\ [Next]_vars => Ordered' BY TypedStep, LockedStep, BehindStep DEF Ordered
<1>2. QED BY <1>1, OrderedStart, PTL DEF Spec

\* Only a refresh writes a row.
LEMMA OnlyWrites ==
  ASSUME [Next]_vars, rollup' # rollup PROVE \E q \in Refresher : WriteBucket(q)
BY DEF Next, Pulling, Refreshing, StartPull, FinishPull, PullDone, PullAccount, AddRefresh,
       PullFails, EnqueueFails, DeliverRefresh, ListAncestors, LockBucket, ReadBucket,
       RefreshDone, RefreshFails, Reparent, Archive, Stopped, vars

\* While no node is moved or archived, a rollup never goes back, however many
\* refreshes overlap on an ancestor (metric-rollup.ts, rollup-refresh.ts).
THEOREM RollupsAdvance == Spec => RollupNeverRegresses
<1>1. Ordered /\ [Next]_vars
        => [moves = 0 => \A n, m \in Node : rollup'[n][m] >= rollup[n][m]]_rollup
  BY OnlyWrites, WriteIsAhead
<1>2. QED BY <1>1, OrderedKept, PTL DEF Spec, RollupNeverRegresses

-----------------------------------------------------------------------------
(***************************************************************************)
(* What a refresh covers.                                                  *)
(***************************************************************************)
\* The tree at the start is no deeper than getAncestors climbs.
Shallow == \A m \in Node : Climb(InitialParent, m, MaxDepth + 1)[MaxDepth + 1] = NoNode

\* What a job owes: its leaf at least as it was when the job began; until it has
\* paid, the ancestor is on its list, and what it has read is enough.
Paid(q, n) == rollup[n][refresh[q].leaf] >= refresh[q].due
OnList(q, n) == \E i \in DOMAIN refresh[q].todo : refresh[q].todo[i] = n
Owes(q) ==
  /\ refresh[q].at # "idle" => refresh[q].due <= record[refresh[q].leaf]
  /\ refresh[q].at \in {"lock", "read", "write"} =>
       \A n \in Node : refresh[q].leaf \in Subtree(parent, archived, n)
                        => OnList(q, n) \/ Paid(q, n)
  /\ /\ refresh[q].at = "write"
     /\ refresh[q].leaf \in Subtree(parent, archived, Head(refresh[q].todo))
     => refresh[q].total[refresh[q].leaf] >= refresh[q].due

Covering == Ordered /\ (moves = 0 => parent = InitialParent /\ \A q \in Refresher : Owes(q))

LEMMA CoveringStart == Init => Covering
BY OrderedStart, NoRefreshTyped DEF Init, Covering, Owes

\* While the tree rests, versions and rows only grow.
LEMMA Grows ==
  ASSUME Ordered, [Next]_vars, moves' = 0
  PROVE  /\ moves = 0 /\ UNCHANGED <<parent, archived>>
         /\ \A n \in Node : record[n] <= record'[n]
         /\ \A n, m \in Node : rollup[n][m] <= rollup'[n][m]
<1>0. Typed /\ Typed' BY TypedStep DEF Ordered
<1>1. moves = 0 /\ UNCHANGED <<parent, archived>>
  <2>1. ASSUME NEW n, NEW m, Reparent(n, m) \/ Archive(n) PROVE FALSE
    BY <1>0, <2>1 DEF Reparent, Archive, Typed
  <2>2. QED
    BY <2>1 DEF Next, Pulling, Refreshing, StartPull, FinishPull, PullDone, PullAccount,
       AddRefresh, PullFails, EnqueueFails, DeliverRefresh, ListAncestors, LockBucket,
       ReadBucket, WriteBucket, RefreshDone, RefreshFails, Fails, Stopped, vars, tree, counts
<1>2. ASSUME NEW n \in Node PROVE record[n] <= record'[n]
  <2>1. record \in Row BY <1>0 DEF Typed
  <2>2. ASSUME NEW p \in Puller, NEW l \in Node, PullAccount(p, l) PROVE record[n] <= record'[n]
    BY <2>1, <2>2 DEF PullAccount, Row
  <2>3. CASE record' = record BY <2>1, <2>3 DEF Row
  <2>4. QED
    BY <2>2, <2>3 DEF Next, Pulling, Refreshing, StartPull, FinishPull, PullDone,
       AddRefresh, PullFails, EnqueueFails, DeliverRefresh, ListAncestors, LockBucket,
       ReadBucket, WriteBucket, RefreshDone, RefreshFails, Fails, Reparent, Archive, Stopped, vars
<1>3. ASSUME NEW n \in Node, NEW m \in Node PROVE rollup[n][m] <= rollup'[n][m]
  <2>1. rollup[n] \in Row /\ rollup'[n] \in Row BY <1>0 DEF Typed
  <2>2. rollup[n][m] \in Nat /\ rollup'[n][m] \in Nat BY <2>1 DEF Row
  <2>3. CASE rollup' = rollup BY <2>2, <2>3
  <2>4. CASE rollup' # rollup BY <1>1, <2>2, <2>4, OnlyWrites, WriteIsAhead
  <2>5. QED BY <2>3, <2>4
<1>4. QED BY <1>1, <1>2, <1>3

\* A refresher that does not move owes no more than before.
LEMMA OwesKept ==
  ASSUME Covering, [Next]_vars, moves' = 0, NEW q \in Refresher, refresh'[q] = refresh[q]
  PROVE  Owes(q)'
<1>1. Typed /\ Typed' /\ Owes(q) BY TypedStep, Grows DEF Covering, Ordered
<1>2. /\ UNCHANGED <<parent, archived>> /\ \A n \in Node : record[n] <= record'[n]
      /\ \A n, m \in Node : rollup[n][m] <= rollup'[n][m]
  BY Grows DEF Covering
<1>3. CASE refresh[q].at = "idle" BY <1>3 DEF Owes
<1>4. CASE refresh[q].at # "idle"
  <2> DEFINE leaf == refresh[q].leaf
             due == refresh[q].due
  <2>1. leaf \in Node /\ due \in Nat BY <1>1, <1>4 DEF Typed, Refreshes
  <2>2. record[leaf] \in Nat /\ record'[leaf] \in Nat BY <1>1, <2>1 DEF Typed, Row
  <2>3. due <= record'[leaf]
    <3>1. due <= record[leaf] BY <1>1, <1>4 DEF Owes
    <3>2. record[leaf] <= record'[leaf] BY <1>2, <2>1
    <3> HIDE DEF leaf, due
    <3>3. QED BY <2>1, <2>2, <3>1, <3>2
  <2>4. ASSUME NEW n \in Node, Paid(q, n) PROVE rollup'[n][leaf] >= due
    <3>1. rollup[n] \in Row /\ rollup'[n] \in Row BY <1>1 DEF Typed
    <3>2. rollup[n][leaf] \in Nat /\ rollup'[n][leaf] \in Nat BY <2>1, <3>1 DEF Row
    <3>3. rollup[n][leaf] >= due BY <2>4 DEF Paid
    <3>4. rollup[n][leaf] <= rollup'[n][leaf] BY <1>2, <2>1
    <3> HIDE DEF leaf, due
    <3>5. QED BY <2>1, <3>2, <3>3, <3>4
  <2>5. QED BY <1>1, <1>2, <2>3, <2>4 DEF Owes, Paid, OnList
<1>5. QED BY <1>3, <1>4

LEMMA CoveringStep == Shallow /\ Covering /\ [Next]_vars => Covering'
<1> SUFFICES ASSUME Shallow, Covering, [Next]_vars PROVE Covering' OBVIOUS
<1>0. Ordered /\ Ordered'
  BY TypedStep, LockedStep, BehindStep DEF Covering, Ordered
<1> SUFFICES ASSUME moves' = 0, NEW q \in Refresher, refresh'[q] # refresh[q] PROVE Owes(q)'
  BY <1>0, Grows, OwesKept DEF Covering
<1>1. /\ moves = 0 /\ UNCHANGED <<parent, archived>> /\ Owes(q) /\ parent = InitialParent
      /\ \A n \in Node : record[n] <= record'[n]
  BY Grows DEF Covering
<1>2. Typed /\ Typed' /\ refresh[q] \in Refreshes BY <1>0 DEF Ordered, Typed
<1>3. ASSUME NEW n \in Node, DeliverRefresh(q, n) PROVE Owes(q)'
  <2> DEFINE r == [NoRefresh EXCEPT !.at = "list", !.leaf = n, !.due = record[n]]
  <2>1. r.at = "list" /\ r.leaf = n /\ r.due = record[n] BY DEF NoRefresh
  <2>2. refresh'[q] = r /\ record' = record BY <1>2, <1>3 DEF DeliverRefresh, Typed
  <2>3. record[n] \in Nat BY <1>2 DEF Typed, Row
  <2> HIDE DEF r
  <2>4. QED BY <2>1, <2>2, <2>3 DEF Owes
<1>4. CASE ListAncestors(q)
  <2>1. /\ refresh[q].at = "list" /\ refresh[q].leaf \in Node
        /\ refresh'[q].at = "lock" /\ refresh'[q].leaf = refresh[q].leaf
        /\ refresh'[q].due = refresh[q].due /\ record' = record
        /\ refresh'[q].todo = Ancestors(parent, refresh[q].leaf)
    BY <1>2, <1>4 DEF ListAncestors, Typed, Refreshes
  <2>2. ASSUME NEW n \in Node, refresh[q].leaf \in Subtree(parent, archived, n)
        PROVE  OnList(q, n)'
    <3>1. \E i \in DOMAIN Ancestors(parent, refresh[q].leaf) :
            Ancestors(parent, refresh[q].leaf)[i] = n
      BY <1>1, <1>2, <2>1, <2>2, WalksAgree DEF Shallow, Typed
    <3>2. QED BY <2>1, <3>1 DEF OnList
  <2>3. refresh'[q].due <= record'[refresh'[q].leaf] BY <1>1, <2>1 DEF Owes
  <2>4. QED BY <1>1, <2>1, <2>2, <2>3 DEF Owes
<1>5. CASE LockBucket(q)
  <2>1. /\ refresh[q].at = "lock" /\ refresh'[q].at = "read"
        /\ refresh'[q].leaf = refresh[q].leaf /\ refresh'[q].due = refresh[q].due
        /\ refresh'[q].todo = refresh[q].todo /\ UNCHANGED <<record, rollup>>
    BY <1>2, <1>5 DEF LockBucket, Typed, Refreshes
  <2>2. QED BY <1>1, <2>1 DEF Owes, OnList, Paid
<1>6. CASE ReadBucket(q)
  <2> DEFINE n == Head(refresh[q].todo)
  <2>1. /\ refresh[q].at = "read" /\ refresh'[q].at = "write"
        /\ refresh'[q].leaf = refresh[q].leaf /\ refresh'[q].due = refresh[q].due
        /\ refresh'[q].todo = refresh[q].todo /\ UNCHANGED <<record, rollup>>
        /\ refresh'[q].total = Total(n) /\ refresh[q].leaf \in Node
    BY <1>2, <1>6 DEF ReadBucket, Typed, Refreshes
  <2>2. /\ Head(refresh'[q].todo) = n
        /\ refresh[q].leaf \in Subtree(parent, archived, n)
             => Total(n)[refresh[q].leaf] = record[refresh[q].leaf]
    BY <2>1 DEF Total
  <2>3. record[refresh[q].leaf] \in Nat /\ refresh[q].due \in Nat
    BY <1>2, <2>1 DEF Typed, Row, Refreshes
  <2>4. refresh[q].due <= record[refresh[q].leaf] BY <1>1, <2>1 DEF Owes
  <2> HIDE DEF n
  <2>5. refresh'[q].leaf \in Subtree(parent', archived', Head(refresh'[q].todo))
          => refresh'[q].total[refresh'[q].leaf] >= refresh'[q].due
    BY <1>1, <2>1, <2>2, <2>3, <2>4
  <2>6. QED BY <1>1, <2>1, <2>4, <2>5 DEF Owes, OnList, Paid
<1>7. CASE WriteBucket(q)
  <2> DEFINE h == Head(refresh[q].todo)
             leaf == refresh[q].leaf
             due == refresh[q].due
  <2>1. /\ refresh[q].at = "write" /\ refresh'[q].at = "lock"
        /\ refresh'[q].leaf = leaf /\ refresh'[q].due = due
        /\ refresh'[q].todo = Tail(refresh[q].todo) /\ record' = record
        /\ rollup' = [rollup EXCEPT ![h] = refresh[q].total]
        /\ refresh[q].todo # <<>> /\ leaf \in Node
    BY <1>2, <1>7 DEF WriteBucket, Typed, Refreshes
  <2>2. /\ h \in Node
        /\ \A i \in DOMAIN refresh[q].todo :
             refresh[q].todo[i] = h
               \/ \E j \in DOMAIN Tail(refresh[q].todo) : Tail(refresh[q].todo)[j]
                                                           = refresh[q].todo[i]
    BY <1>2, <2>1, HeadTail DEF Refreshes
  <2>3. ASSUME NEW n \in Node, leaf \in Subtree(parent, archived, n)
        PROVE  OnList(q, n)' \/ Paid(q, n)'
    <3>1. CASE n = h
      <4>1. rollup'[n] = refresh[q].total BY <1>2, <2>1, <2>2, <3>1 DEF Typed
      <4>2. refresh[q].total[leaf] >= due BY <1>1, <2>1, <2>3, <3>1 DEF Owes
      <4>3. QED BY <2>1, <4>1, <4>2 DEF Paid
    <3>2. CASE n # h
      <4>1. OnList(q, n) \/ Paid(q, n) BY <1>1, <2>1, <2>3 DEF Owes
      <4>2. rollup'[n] = rollup[n] BY <1>2, <2>1, <2>2, <3>2 DEF Typed
      <4>3. CASE OnList(q, n) BY <2>1, <2>2, <3>2, <4>3 DEF OnList
      <4>4. CASE Paid(q, n) BY <2>1, <4>2, <4>4 DEF Paid
      <4>5. QED BY <4>1, <4>3, <4>4
    <3>3. QED BY <3>1, <3>2
  <2>4. refresh'[q].due <= record'[refresh'[q].leaf] BY <1>1, <2>1 DEF Owes
  <2>5. QED BY <1>1, <2>1, <2>3, <2>4 DEF Owes
<1>8. CASE RefreshDone(q) \/ RefreshFails(q)
  <2>1. refresh'[q].at = "idle"
    BY <1>2, <1>8, NoRefreshTyped DEF RefreshDone, RefreshFails, Typed
  <2>2. QED BY <2>1 DEF Owes
<1>9. ASSUME NEW o \in Refresher, NEW n,
             \/ DeliverRefresh(o, n) \/ ListAncestors(o) \/ LockBucket(o) \/ ReadBucket(o)
             \/ WriteBucket(o) \/ RefreshDone(o) \/ RefreshFails(o)
      PROVE  o = q
  BY <1>2, <1>9 DEF DeliverRefresh, ListAncestors, LockBucket, ReadBucket, WriteBucket,
     RefreshDone, RefreshFails, Typed
<1>10. QED
  BY <1>3, <1>4, <1>5, <1>6, <1>7, <1>8, <1>9
  DEF Next, Pulling, Refreshing, StartPull, FinishPull, PullDone, PullAccount, AddRefresh,
      PullFails, EnqueueFails, Reparent, Archive, Stopped, vars

\* Over a tree that is no deeper than getAncestors climbs, and as long as no node
\* is moved or archived, a refresh that gets to its end has brought every rollup
\* above its leaf to the version the leaf had when it began, whatever others do to
\* the same ancestors meanwhile (rollup-refresh.ts, metric-rollup.ts).
THEOREM RefreshesCover == ASSUME Shallow PROVE Spec => []RefreshCovers
<1>1. Covering /\ [Next]_vars => Covering' BY CoveringStep
<1>2. ASSUME Covering PROVE RefreshCovers
  <2>1. SUFFICES ASSUME NEW q \in Refresher, moves = 0, refresh[q].at = "lock",
                        refresh[q].todo = <<>>, NEW n \in Node,
                        refresh[q].leaf \in Subtree(parent, archived, n)
                 PROVE  Paid(q, n)
    BY DEF RefreshCovers, Paid
  <2>2. OnList(q, n) \/ Paid(q, n) BY <1>2, <2>1 DEF Covering, Owes
  <2>3. ~ OnList(q, n) BY <2>1 DEF OnList
  <2>4. QED BY <2>2, <2>3
<1>3. QED BY <1>1, <1>2, CoveringStart, PTL DEF Spec

-----------------------------------------------------------------------------
(***************************************************************************)
(* Every write is on its way.                                              *)
(***************************************************************************)
\* Nothing fails and nothing is moved.
Undisturbed == Faults = {} /\ TreeBudget = 0

\* No refresh is added while the one of its id is active, which would swallow it.
NothingSwallowed == \A p \in Puller, n \in Node : AddRefresh(p, n) => job[n] # "active"

\* A refresh job is active exactly while one refresher has it.
Pulls == [at: {"idle", "pull", "enqueue"}, todo: SUBSET Node, affected: SUBSET Node]
Handled ==
  /\ pull \in [Puller -> Pulls]
  /\ \A p \in Puller : pull[p].at = "idle" => pull[p].affected = {}
  /\ job \in [Node -> {"none", "waiting", "active"}]
  /\ \A q \in Refresher : refresh[q].at # "idle" => job[refresh[q].leaf] = "active"
  /\ \A q, o \in Refresher :
       refresh[q].at # "idle" /\ refresh[o].at # "idle" /\ refresh[q].leaf = refresh[o].leaf
         => q = o

\* The record of m has reached the row of n, or its pull will add a refresh, or one
\* is waiting, or a refresher that has m will still read it for n or has read it.
Reached(n, m)   == rollup[n][m] = record[m]
Announced(m)    == \E p \in Puller : m \in pull[p].affected
Brings(q, n, m) ==
  /\ refresh[q].at # "idle" /\ refresh[q].leaf = m
  /\ refresh[q].at = "list" \/ OnList(q, n)
  /\ refresh[q].at = "write" /\ Head(refresh[q].todo) = n => refresh[q].total[m] = record[m]
Coming(n, m) ==
  \/ Reached(n, m)
  \/ Announced(m)
  \/ job[m] = "waiting"
  \/ \E q \in Refresher : Brings(q, n, m)
OnTheWay ==
  \A n, m \in Node : m \in Subtree(parent, archived, n) => Coming(n, m)

Delivery == Ordered /\ moves = 0 /\ parent = InitialParent /\ Handled /\ OnTheWay

LEMMA NoPullTyped == NoPull \in Pulls /\ NoPull.at = "idle" /\ NoPull.affected = {}
BY DEF NoPull, Pulls

LEMMA DeliveryStart == Init => Delivery
<1> SUFFICES ASSUME Init PROVE Delivery OBVIOUS
<1>1. Handled BY NoPullTyped, NoRefreshTyped DEF Init, Handled
<1>2. ASSUME NEW n \in Node, NEW m \in Node PROVE Reached(n, m)
  BY DEF Init, NoTotal, Reached
<1>3. OnTheWay BY <1>2 DEF OnTheWay, Coming
<1>4. QED BY <1>1, <1>3, OrderedStart DEF Init, Delivery

\* Without faults and moves these are the steps there are.
Serves(q) == Refreshing(q) \/ \E n \in Node : DeliverRefresh(q, n)

LEMMA CalmSteps ==
  ASSUME Undisturbed, moves = 0, [Next]_vars
  PROVE  \/ \E p \in Puller : Pulling(p)
         \/ \E q \in Refresher : Serves(q)
         \/ UNCHANGED vars
<1>1. ASSUME NEW n, NEW m, Reparent(n, m) \/ Archive(n) PROVE FALSE
  BY <1>1 DEF Reparent, Archive, Undisturbed
<1>2. ASSUME NEW p, PullFails(p) \/ EnqueueFails(p) \/ RefreshFails(p) PROVE FALSE
  BY <1>2 DEF PullFails, EnqueueFails, RefreshFails, Fails, Undisturbed
<1>3. QED BY <1>1, <1>2 DEF Next, Serves, Stopped

LEMMA HandledPull ==
  ASSUME Handled, NEW p \in Puller, Pulling(p)
  PROVE  /\ Handled' /\ refresh' = refresh /\ rollup' = rollup
         /\ \A n \in Node : job[n] = "waiting" => job'[n] = "waiting"
<1> USE DEF Handled
<1>1. /\ pull[p] \in Pulls /\ refresh' = refresh /\ rollup' = rollup
      /\ \A o \in Puller \ {p} : pull'[o] = pull[o]
  BY DEF Pulling, StartPull, FinishPull, PullDone, PullAccount, AddRefresh
<1>2. ASSUME UNCHANGED <<job, refresh>>, pull' \in [Puller -> Pulls],
             pull'[p].at = "idle" => pull'[p].affected = {}
      PROVE  Handled' /\ \A n \in Node : job[n] = "waiting" => job'[n] = "waiting"
  BY <1>1, <1>2
<1>3. CASE StartPull(p)
  <2> DEFINE r == [at |-> "pull", todo |-> Accounts[p], affected |-> {}]
  <2>1. r \in Pulls /\ r.at = "pull" BY RollupAssumption DEF Pulls
  <2>2. pull' = [pull EXCEPT ![p] = r] /\ UNCHANGED <<job, refresh>> BY <1>3 DEF StartPull
  <2> HIDE DEF r
  <2>3. pull' \in [Puller -> Pulls] /\ pull'[p].at = "pull" BY <2>1, <2>2
  <2>4. QED BY <1>1, <1>2, <2>2, <2>3
<1>4. ASSUME NEW n \in Node, PullAccount(p, n) PROVE Handled' /\ UNCHANGED job
  <2>1. /\ pull' = [pull EXCEPT ![p].todo = @ \ {n}, ![p].affected = @ \cup {n}]
        /\ UNCHANGED <<job, refresh>> /\ pull[p].at = "pull"
    BY <1>4 DEF PullAccount
  <2>2. pull' \in [Puller -> Pulls] /\ pull'[p].at = "pull" BY <1>1, <2>1 DEF Pulls
  <2>3. QED BY <1>2, <2>1, <2>2
<1>5. CASE FinishPull(p)
  <2>1. /\ pull' = [pull EXCEPT ![p].at = "enqueue"] /\ UNCHANGED <<job, refresh>>
    BY <1>5 DEF FinishPull
  <2>2. pull' \in [Puller -> Pulls] /\ pull'[p].at = "enqueue" BY <1>1, <2>1 DEF Pulls
  <2>3. QED BY <1>1, <1>2, <2>1, <2>2
<1>6. CASE PullDone(p)
  <2>1. pull' = [pull EXCEPT ![p] = NoPull] /\ UNCHANGED <<job, refresh>>
    BY <1>6 DEF PullDone
  <2>2. pull' \in [Puller -> Pulls] /\ pull'[p] = NoPull BY <2>1, NoPullTyped
  <2>3. QED BY <1>1, <1>2, <2>1, <2>2, NoPullTyped
<1>7. ASSUME NEW n \in Node, AddRefresh(p, n)
      PROVE  Handled' /\ \A l \in Node : job[l] = "waiting" => job'[l] = "waiting"
  <2>1. /\ pull' = [pull EXCEPT ![p].affected = @ \ {n}] /\ refresh' = refresh
        /\ job' = [job EXCEPT ![n] = IF @ = "none" THEN "waiting" ELSE @]
        /\ pull[p].at = "enqueue"
    BY <1>7 DEF AddRefresh
  <2>2. pull' \in [Puller -> Pulls] /\ pull'[p].at = "enqueue" BY <1>1, <2>1 DEF Pulls
  <2>3. \A l \in Node : /\ job[l] # "none" => job'[l] = job[l]
                        /\ job'[l] \in {"none", "waiting", "active"}
    BY <2>1
  <2>4. job' \in [Node -> {"none", "waiting", "active"}] BY <2>1, <2>3
  <2>5. \A q \in Refresher : refresh[q].at # "idle" => job'[refresh[q].leaf] = "active"
    <3>1. \A l : job[l] = "active" => job'[l] = "active" BY <2>1
    <3>2. QED BY <3>1
  <2>6. \A o \in Puller : pull'[o].at = "idle" => pull'[o].affected = {} BY <1>1, <2>2
  <2>7. QED BY <2>1, <2>2, <2>3, <2>4, <2>5, <2>6
<1>8. QED BY <1>1, <1>2, <1>3, <1>4, <1>5, <1>6, <1>7 DEF Pulling, StartPull, FinishPull, PullDone

LEMMA HandledRefresh ==
  ASSUME Typed, Handled, NEW q \in Refresher, Serves(q)
  PROVE  Handled'
<1> USE DEF Handled
<1>0. /\ pull' = pull /\ refresh \in [Refresher -> Refreshes]
      /\ \A o \in Refresher \ {q} : refresh'[o] = refresh[o]
  BY DEF Typed, Serves, Refreshing, DeliverRefresh, ListAncestors, LockBucket, ReadBucket,
         WriteBucket, RefreshDone
<1>1. ASSUME NEW n \in Node, DeliverRefresh(q, n) PROVE Handled'
  <2> DEFINE r == [NoRefresh EXCEPT !.at = "list", !.leaf = n, !.due = record[n]]
  <2>1. r.at = "list" /\ r.leaf = n BY DEF NoRefresh
  <2>2. refresh'[q] = r BY <1>0, <1>1 DEF DeliverRefresh
  <2> HIDE DEF r
  <2>3. job' = [job EXCEPT ![n] = "active"] /\ job[n] = "waiting" BY <1>1 DEF DeliverRefresh
  <2>4. \A o \in Refresher \ {q} : refresh'[o].at # "idle" => refresh'[o].leaf # n
    BY <1>0, <2>3
  <2>5. \A o \in Refresher : refresh'[o].at # "idle" => job'[refresh'[o].leaf] = "active"
    BY <1>0, <2>1, <2>2, <2>3
  <2>6. job' \in [Node -> {"none", "waiting", "active"}] BY <2>3
  <2>7. \A o, i \in Refresher :
          refresh'[o].at # "idle" /\ refresh'[i].at # "idle" /\ refresh'[o].leaf = refresh'[i].leaf
            => o = i
    BY <1>0, <2>1, <2>2, <2>4
  <2>8. QED BY <1>0, <2>5, <2>6, <2>7
<1>2. CASE RefreshDone(q)
  <2> DEFINE m == refresh[q].leaf
  <2>1. /\ refresh'[q].at = "idle" /\ refresh[q].at = "lock"
        /\ job' = [job EXCEPT ![m] = "none"]
    BY <1>0, <1>2, NoRefreshTyped DEF RefreshDone
  <2>2. \A o \in Refresher \ {q} : refresh[o].at # "idle" => refresh[o].leaf # m
    BY <2>1
  <2>3. \A o \in Refresher : refresh'[o].at # "idle" => job'[refresh'[o].leaf] = "active"
    BY <1>0, <2>1, <2>2
  <2>4. job' \in [Node -> {"none", "waiting", "active"}] BY <2>1
  <2>5. QED BY <1>0, <2>1, <2>3, <2>4
<1>3. CASE ListAncestors(q) \/ LockBucket(q) \/ ReadBucket(q) \/ WriteBucket(q)
  <2>1. /\ job' = job /\ refresh'[q].leaf = refresh[q].leaf
        /\ refresh[q].at # "idle"
    BY <1>0, <1>3 DEF ListAncestors, LockBucket, ReadBucket, WriteBucket, Refreshes
  <2>2. \A o \in Refresher : /\ refresh'[o].leaf = refresh[o].leaf
                             /\ refresh'[o].at # "idle" => refresh[o].at # "idle"
    BY <1>0, <2>1
  <2>3. QED BY <1>0, <2>1, <2>2
<1>4. QED BY <1>1, <1>2, <1>3 DEF Serves, Refreshing

\* A refresher that stands still brings what it brought, unless the leaf is written.
LEMMA BringsKept ==
  ASSUME NEW q \in Refresher, NEW n \in Node, NEW m \in Node,
         refresh'[q] = refresh[q], record'[m] = record[m], Brings(q, n, m)
  PROVE  Brings(q, n, m)'
BY DEF Brings, OnList

LEMMA PullOnTheWay ==
  ASSUME Handled, NEW p \in Puller, Pulling(p), NothingSwallowed,
         NEW n \in Node, NEW m \in Node, Coming(n, m)
  PROVE  Coming(n, m)'
<1>1. /\ refresh' = refresh /\ rollup' = rollup
      /\ \A l \in Node : job[l] = "waiting" => job'[l] = "waiting"
  BY HandledPull
<1>2. pull \in [Puller -> Pulls] /\ \A o \in Puller \ {p} : pull'[o] = pull[o]
  BY DEF Handled, Pulling, StartPull, FinishPull, PullDone, PullAccount, AddRefresh
<1>3. ASSUME record'[m] = record[m], m \in pull[p].affected => m \in pull'[p].affected
      PROVE  Coming(n, m)'
  <2>1. CASE Reached(n, m) BY <1>1, <1>3, <2>1 DEF Reached, Coming
  <2>2. CASE Announced(m) BY <1>2, <1>3, <2>2 DEF Announced, Coming
  <2>3. CASE job[m] = "waiting" BY <1>1, <2>3 DEF Coming
  <2>4. ASSUME NEW q \in Refresher, Brings(q, n, m) PROVE Coming(n, m)'
    <3>1. Brings(q, n, m)' BY <1>1, <1>3, <2>4, BringsKept
    <3>2. QED BY <3>1 DEF Coming
  <2>5. QED BY <2>1, <2>2, <2>3, <2>4 DEF Coming
<1>4. CASE StartPull(p) \/ FinishPull(p) \/ PullDone(p)
  <2>1. record' = record /\ (m \in pull[p].affected => m \in pull'[p].affected)
    BY <1>2, <1>4 DEF StartPull, FinishPull, PullDone, Handled, Pulls
  <2>2. QED BY <1>3, <2>1
<1>5. ASSUME NEW l \in Node, PullAccount(p, l) PROVE Coming(n, m)'
  <2>1. /\ pull'[p].affected = pull[p].affected \cup {l}
        /\ record' = [record EXCEPT ![l] = @ + 1]
    BY <1>2, <1>5 DEF PullAccount, Pulls
  <2>2. CASE l = m BY <2>1, <2>2 DEF Announced, Coming
  <2>3. CASE l # m
    <3>1. record'[m] = record[m] BY <2>1, <2>3
    <3>2. QED BY <1>3, <2>1, <3>1
  <2>4. QED BY <2>2, <2>3
<1>6. ASSUME NEW l \in Node, AddRefresh(p, l) PROVE Coming(n, m)'
  <2>1. /\ pull'[p].affected = pull[p].affected \ {l} /\ record' = record
        /\ job' = [job EXCEPT ![l] = IF @ = "none" THEN "waiting" ELSE @]
    BY <1>2, <1>6 DEF AddRefresh, Pulls
  <2>2. CASE l = m
    <3>1. job[m] \in {"none", "waiting"} BY <1>6, <2>2 DEF NothingSwallowed, Handled
    <3>2. job'[m] = "waiting" BY <2>1, <2>2, <3>1 DEF Handled
    <3>3. QED BY <3>2 DEF Coming
  <2>3. CASE l # m BY <1>3, <2>1, <2>3
  <2>4. QED BY <2>2, <2>3
<1>7. QED BY <1>4, <1>5, <1>6 DEF Pulling

LEMMA RefreshOnTheWay ==
  ASSUME Shallow, Delivery, moves' = 0, [Next]_vars, NEW q \in Refresher, Serves(q),
         NEW n \in Node, NEW m \in Node, m \in Subtree(parent, archived, n), Coming(n, m)
  PROVE  Coming(n, m)'
<1>1. /\ Typed /\ Handled /\ moves = 0 /\ parent = InitialParent
      /\ pull' = pull /\ record' = record /\ refresh[q] \in Refreshes
      /\ \A o \in Refresher \ {q} : refresh'[o] = refresh[o]
  BY DEF Delivery, Ordered, Typed, Serves, Refreshing, DeliverRefresh, ListAncestors,
         LockBucket, ReadBucket, WriteBucket, RefreshDone, counts
<1>2. ASSUME NEW o \in Refresher \ {q}, Brings(o, n, m) PROVE Coming(n, m)'
  <2>1. Brings(o, n, m)' BY <1>1, <1>2, BringsKept
  <2>2. QED BY <2>1 DEF Coming
<1>3. CASE Announced(m) BY <1>1, <1>3 DEF Announced, Coming
<1>4. CASE Reached(n, m)
  <2>1. rollup'[n][m] = rollup[n][m]
    <3>1. CASE rollup' = rollup BY <3>1
    <3>2. CASE WriteBucket(q)
      <4>1. /\ rollup'[n][m] >= rollup[n][m] /\ rollup'[n][m] <= Shown[n][m]
        BY <1>1, <3>2, WriteIsAhead DEF Delivery
      <4>2. Shown[n][m] = record[m] BY DEF Shown, Total
      <4>3. rollup[n][m] = record[m] BY <1>4 DEF Reached
      <4>4. record[m] \in Nat BY <1>1 DEF Typed, Row
      <4>5. rollup'[n][m] \in Nat
        <5>1. Typed' BY <1>1, TypedStep
        <5>2. rollup'[n] \in Row BY <5>1 DEF Typed
        <5>3. QED BY <5>2 DEF Row
      <4>6. QED BY <4>1, <4>2, <4>3, <4>4, <4>5
    <3>3. QED
      BY <3>1, <3>2 DEF Serves, Refreshing, DeliverRefresh, ListAncestors, LockBucket,
                        ReadBucket, RefreshDone
  <2>2. QED BY <1>1, <1>4, <2>1 DEF Reached, Coming
<1>5. CASE job[m] = "waiting"
  <2>1. ASSUME DeliverRefresh(q, m) PROVE Coming(n, m)'
    <3> DEFINE r == [NoRefresh EXCEPT !.at = "list", !.leaf = m, !.due = record[m]]
    <3>1. r.at = "list" /\ r.leaf = m BY DEF NoRefresh
    <3>2. refresh'[q] = r BY <1>1, <2>1 DEF DeliverRefresh, Typed
    <3> HIDE DEF r
    <3>3. Brings(q, n, m)' BY <3>1, <3>2 DEF Brings
    <3>4. QED BY <3>3 DEF Coming
  <2>2. ASSUME NEW l \in Node, l # m, DeliverRefresh(q, l) PROVE job'[m] = "waiting"
    BY <1>5, <2>2 DEF DeliverRefresh
  <2>3. CASE RefreshDone(q)
    <3>1. job[refresh[q].leaf] = "active" BY <1>1, <2>3 DEF RefreshDone, Handled
    <3>2. job'[m] = "waiting" BY <1>5, <2>3, <3>1 DEF RefreshDone
    <3>3. QED BY <3>2 DEF Coming
  <2>4. CASE job' = job BY <1>5, <2>4 DEF Coming
  <2>5. QED
    BY <2>1, <2>2, <2>3, <2>4 DEF Serves, Refreshing, ListAncestors, LockBucket, ReadBucket,
                                  WriteBucket, Coming
<1>6. CASE Brings(q, n, m)
  <2>1. refresh[q].at # "idle" /\ refresh[q].leaf = m BY <1>6 DEF Brings
  <2>2. CASE ListAncestors(q)
    <3>1. /\ refresh'[q].at = "lock" /\ refresh'[q].leaf = m
          /\ refresh'[q].todo = Ancestors(parent, m)
      BY <1>1, <2>1, <2>2 DEF ListAncestors, Typed, Refreshes
    <3>2. \E i \in DOMAIN Ancestors(parent, m) : Ancestors(parent, m)[i] = n
      BY <1>1, WalksAgree DEF Shallow, Typed
    <3>3. Brings(q, n, m)' BY <3>1, <3>2 DEF Brings, OnList
    <3>4. QED BY <3>3 DEF Coming
  <2>3. CASE LockBucket(q)
    <3>1. /\ refresh'[q].at = "read" /\ refresh'[q].leaf = m /\ refresh[q].at = "lock"
          /\ refresh'[q].todo = refresh[q].todo
      BY <1>1, <2>1, <2>3 DEF LockBucket, Typed, Refreshes
    <3>2. Brings(q, n, m)' BY <1>6, <3>1 DEF Brings, OnList
    <3>3. QED BY <3>2 DEF Coming
  <2>4. CASE ReadBucket(q)
    <3> DEFINE h == Head(refresh[q].todo)
    <3>1. /\ refresh'[q].at = "write" /\ refresh'[q].leaf = m /\ refresh[q].at = "read"
          /\ refresh'[q].todo = refresh[q].todo /\ refresh'[q].total = Total(h)
      BY <1>1, <2>1, <2>4 DEF ReadBucket, Typed, Refreshes
    <3>2. h = n => Total(h)[m] = record[m] BY DEF Total
    <3>3. Brings(q, n, m)' BY <1>1, <1>6, <3>1, <3>2 DEF Brings, OnList
    <3>4. QED BY <3>3 DEF Coming
  <2>5. CASE WriteBucket(q)
    <3> DEFINE h == Head(refresh[q].todo)
    <3>1. /\ refresh[q].at = "write" /\ refresh'[q].at = "lock" /\ refresh'[q].leaf = m
          /\ refresh'[q].todo = Tail(refresh[q].todo) /\ refresh[q].todo # <<>>
          /\ rollup' = [rollup EXCEPT ![h] = refresh[q].total]
      BY <1>1, <2>1, <2>5 DEF WriteBucket, Typed, Refreshes
    <3>2. CASE n = h
      <4>1. refresh[q].total[m] = record[m] BY <1>6, <3>1, <3>2 DEF Brings
      <4>2. rollup'[n] = refresh[q].total BY <1>1, <3>1, <3>2 DEF Typed
      <4>3. Reached(n, m)' BY <1>1, <4>1, <4>2 DEF Reached
      <4>4. QED BY <4>3 DEF Coming
    <3>3. CASE n # h
      <4>1. PICK i \in DOMAIN refresh[q].todo : refresh[q].todo[i] = n
        BY <1>6, <3>1 DEF Brings, OnList
      <4>2. \E j \in DOMAIN Tail(refresh[q].todo) : Tail(refresh[q].todo)[j] = n
        BY <1>1, <3>1, <3>3, <4>1, HeadTail DEF Refreshes
      <4>3. Brings(q, n, m)' BY <3>1, <4>2 DEF Brings, OnList
      <4>4. QED BY <4>3 DEF Coming
    <3>4. QED BY <3>2, <3>3
  <2>6. CASE RefreshDone(q)
    <3>1. refresh[q].at = "lock" /\ refresh[q].todo = <<>> BY <2>6 DEF RefreshDone
    <3>2. QED BY <1>6, <3>1 DEF Brings, OnList
  <2>7. ASSUME NEW l \in Node, DeliverRefresh(q, l) PROVE FALSE
    BY <2>1, <2>7 DEF DeliverRefresh
  <2>8. QED BY <2>2, <2>3, <2>4, <2>5, <2>6, <2>7 DEF Serves, Refreshing
<1>7. QED BY <1>2, <1>3, <1>4, <1>5, <1>6 DEF Coming

LEMMA DeliveryStep ==
  ASSUME Shallow, Undisturbed
  PROVE  Delivery /\ [Next]_vars /\ [NothingSwallowed]_vars => Delivery'
<1> SUFFICES ASSUME Delivery, [Next]_vars, [NothingSwallowed]_vars PROVE Delivery' OBVIOUS
<1>1. Ordered' BY TypedStep, LockedStep, BehindStep DEF Delivery, Ordered
<1>2. UNCHANGED <<parent, archived, moves>>
  <2>1. ASSUME NEW p \in Puller, Pulling(p) PROVE UNCHANGED <<parent, archived, moves>>
    BY <2>1 DEF Pulling, StartPull, FinishPull, PullDone, PullAccount, AddRefresh, tree, counts
  <2>2. ASSUME NEW q \in Refresher, Serves(q) PROVE UNCHANGED <<parent, archived, moves>>
    BY <2>2 DEF Serves, Refreshing, DeliverRefresh, ListAncestors, LockBucket, ReadBucket,
                WriteBucket, RefreshDone, tree, counts
  <2>3. QED BY <2>1, <2>2, CalmSteps DEF Delivery, vars, tree, counts
<1>3. ASSUME NEW p \in Puller, Pulling(p) PROVE Handled' /\ OnTheWay'
  <2>1. Handled' BY <1>3, HandledPull DEF Delivery
  <2>2. CASE UNCHANGED vars
    BY <2>1, <2>2 DEF vars, tree, counts, Delivery, OnTheWay, Coming, Reached, Announced,
                      Brings, OnList
  <2>3. CASE NothingSwallowed
    <3>1. ASSUME NEW n \in Node, NEW m \in Node, m \in Subtree(parent, archived, n)
          PROVE  Coming(n, m)'
      BY <1>3, <2>3, <3>1, PullOnTheWay DEF Delivery, OnTheWay
    <3>2. QED BY <1>2, <2>1, <3>1 DEF OnTheWay
  <2>4. QED BY <2>2, <2>3
<1>4. ASSUME NEW q \in Refresher, Serves(q) PROVE Handled' /\ OnTheWay'
  <2>1. Handled' BY <1>4, HandledRefresh DEF Delivery, Ordered
  <2>2. ASSUME NEW n \in Node, NEW m \in Node, m \in Subtree(parent, archived, n)
        PROVE  Coming(n, m)'
    <3>1. moves' = 0 /\ Coming(n, m) BY <1>2, <2>2 DEF Delivery, OnTheWay
    <3>2. QED BY <1>4, <2>2, <3>1, RefreshOnTheWay
  <2>3. QED BY <1>2, <2>1, <2>2 DEF OnTheWay
<1>5. CASE UNCHANGED vars
  <2>1. UNCHANGED <<parent, archived, record, rollup, job, pull, refresh>>
    BY <1>5 DEF vars, tree
  <2>2. Handled' BY <2>1 DEF Delivery, Handled
  <2>3. ASSUME NEW n \in Node, NEW m \in Node, Coming(n, m) PROVE Coming(n, m)'
    <3>1. Reached(n, m) => Reached(n, m)' BY <2>1 DEF Reached
    <3>2. Announced(m) => Announced(m)' BY <2>1 DEF Announced
    <3>3. \A q \in Refresher : Brings(q, n, m) => Brings(q, n, m)' BY <2>1, BringsKept
    <3>4. QED BY <2>1, <2>3, <3>1, <3>2, <3>3 DEF Coming
  <2>4. OnTheWay'
    <3>1. ASSUME NEW n \in Node, NEW m \in Node, m \in Subtree(parent, archived, n)
          PROVE  Coming(n, m)'
      BY <2>3, <3>1 DEF Delivery, OnTheWay
    <3>2. QED BY <2>1, <3>1 DEF OnTheWay
  <2>5. QED BY <1>1, <1>2, <2>2, <2>4 DEF Delivery
<1>6. QED BY <1>1, <1>2, <1>3, <1>4, <1>5, CalmSteps DEF Delivery

\* What is on its way for every row is on its way: a row does not count what is not
\* below its node.
LEMMA DeliveryRefreshes == Delivery => EveryWriteRefreshed
<1> SUFFICES ASSUME Delivery, NEW n \in Node, NEW m \in Node, Stale(n, m) PROVE OnItsWay(m)
  BY DEF EveryWriteRefreshed
<1>1. Typed /\ Behind /\ moves = 0 /\ Handled BY DEF Delivery, Ordered
<1>2. m \in Subtree(parent, archived, n)
  <2>1. SUFFICES ASSUME m \notin Subtree(parent, archived, n) PROVE FALSE OBVIOUS
  <2>2. Total(n)[m] = 0 BY <2>1 DEF Total
  <2>3. rollup[n] \in Row BY <1>1 DEF Typed
  <2>4. rollup[n][m] \in Nat BY <2>3 DEF Row
  <2>5. rollup[n][m] <= 0 BY <1>1, <2>2 DEF Behind, Shown
  <2>6. QED BY <2>2, <2>4, <2>5 DEF Stale
<1>3. ~ Reached(n, m) BY <1>2 DEF Stale, Total, Reached
<1>4. Announced(m) \/ job[m] = "waiting" \/ \E q \in Refresher : Brings(q, n, m)
  BY <1>2, <1>3 DEF Delivery, OnTheWay, Coming
<1>5. CASE Announced(m) BY <1>5 DEF Announced, OnItsWay
<1>6. ASSUME NEW q \in Refresher, Brings(q, n, m) PROVE job[m] = "active"
  BY <1>1, <1>6 DEF Brings, Handled
<1>7. QED BY <1>4, <1>5, <1>6 DEF OnItsWay

\* Where nothing fails and nothing is moved, on a tree that is no deeper than
\* getAncestors climbs, a refresh that is swallowed by the active one of its id is all
\* there is that can lose a write: if none is, every committed write that some rollup
\* does not show is on its way, for any number of pulls and refreshers and any accounts
\* they share (pull.ts 263-284, rollup-refresh.ts).
THEOREM OnlySwallowedAreLost ==
  ASSUME Shallow, Undisturbed
  PROVE  Spec /\ [][NothingSwallowed]_vars => []EveryWriteRefreshed
<1>1. Delivery /\ [Next]_vars /\ [NothingSwallowed]_vars => Delivery' BY DeliveryStep
<1>2. QED BY <1>1, DeliveryStart, DeliveryRefreshes, PTL DEF Spec

\* One connector feeds a node, and pulls once.
FedOnce ==
  /\ PullBudget <= 1
  /\ \A p, r \in Puller : p # r => Accounts[p] \cap Accounts[r] = {}

\* Until its only pull has added the refresh of a node, the node has no job.
Once ==
  /\ pulls \in [Puller -> Nat]
  /\ \A p \in Puller :
       /\ pull[p].at = "idle" => pull[p].todo = {} /\ pull[p].affected = {}
       /\ pull[p].at = "enqueue" => pull[p].todo = {}
       /\ pull[p].todo \cup pull[p].affected \subseteq Accounts[p]
       /\ pulls[p] = 0 => pull[p].at = "idle" /\ \A n \in Accounts[p] : job[n] = "none"
       /\ \A n \in pull[p].todo \cup pull[p].affected : job[n] = "none"

LEMMA OnceStart == Init => Once
BY RollupAssumption, NoPullTyped DEF Init, Once, NoPull

LEMMA OnceSwallowsNothing == Once => NothingSwallowed
BY DEF Once, NothingSwallowed, AddRefresh

LEMMA OnceStep ==
  ASSUME Undisturbed, FedOnce
  PROVE  Delivery /\ Once /\ [Next]_vars => Once'
<1> SUFFICES ASSUME Delivery, Once, [Next]_vars PROVE Once' OBVIOUS
<1>1. /\ pull \in [Puller -> Pulls] /\ pulls \in [Puller -> Nat]
      /\ job \in [Node -> {"none", "waiting", "active"}]
  BY DEF Delivery, Handled, Once
<1> DEFINE Of(p) ==
      /\ pull[p].at = "idle" => pull[p].todo = {} /\ pull[p].affected = {}
      /\ pull[p].at = "enqueue" => pull[p].todo = {}
      /\ pull[p].todo \cup pull[p].affected \subseteq Accounts[p]
      /\ pulls[p] = 0 => pull[p].at = "idle" /\ \A n \in Accounts[p] : job[n] = "none"
      /\ \A n \in pull[p].todo \cup pull[p].affected : job[n] = "none"
<1>2. \A p \in Puller : Of(p) BY DEF Once
<1>3. ASSUME pulls' \in [Puller -> Nat], \A p \in Puller : Of(p)' PROVE Once'
  BY <1>3 DEF Once
<1> HIDE DEF Of
<1>4. ASSUME NEW p \in Puller, pull'[p] = pull[p], pulls'[p] = pulls[p],
             \A n \in Accounts[p] : job[n] = "none" => job'[n] = "none"
      PROVE  Of(p)'
  BY <1>2, <1>4 DEF Of
<1>5. ASSUME NEW q \in Refresher, Serves(q) PROVE Once'
  <2>1. UNCHANGED <<pull, pulls>> /\ \A n \in Node : job[n] = "none" => job'[n] = "none"
    BY <1>1, <1>5 DEF Serves, Refreshing, DeliverRefresh, ListAncestors, LockBucket, ReadBucket,
                WriteBucket, RefreshDone, counts
  <2>2. \A p \in Puller : Accounts[p] \subseteq Node BY RollupAssumption
  <2>3. QED BY <1>1, <1>3, <1>4, <2>1, <2>2
<1>6. ASSUME NEW p \in Puller, Pulling(p) PROVE Once'
  <2>1. \A r \in Puller \ {p} : pull'[r] = pull[r] /\ pulls'[r] = pulls[r]
    BY <1>1, <1>6 DEF Pulling, StartPull, FinishPull, PullDone, PullAccount, AddRefresh, counts
  <2>2. ASSUME job' = job, Of(p)', pulls' \in [Puller -> Nat] PROVE Once'
    BY <1>3, <1>4, <2>1, <2>2
  <2>3. pull[p] \in Pulls /\ pulls[p] \in Nat /\ Of(p) BY <1>1, <1>2
  <2>4. CASE StartPull(p)
    <3> DEFINE r == [at |-> "pull", todo |-> Accounts[p], affected |-> {}]
    <3>1. r.at = "pull" /\ r.todo = Accounts[p] /\ r.affected = {} OBVIOUS
    <3>2. pull' = [pull EXCEPT ![p] = r] /\ pulls' = [pulls EXCEPT ![p] = @ + 1] /\ job' = job
          /\ pulls[p] < PullBudget
      BY <2>4 DEF StartPull
    <3> HIDE DEF r
    <3>3. pulls[p] = 0 BY <2>3, <3>2, RollupAssumption DEF FedOnce
    <3>4. pull'[p] = r /\ pulls'[p] # 0 /\ pulls' \in [Puller -> Nat] BY <1>1, <3>2, <3>3
    <3>5. Of(p)' BY <2>3, <3>1, <3>2, <3>3, <3>4 DEF Of
    <3>6. QED BY <2>2, <3>2, <3>4, <3>5
  <2>5. ASSUME NEW n \in Node, PullAccount(p, n) PROVE Once'
    <3>1. /\ pull'[p].at = "pull" /\ pull[p].at = "pull"
          /\ pull'[p].todo = pull[p].todo \ {n} /\ n \in pull[p].todo
          /\ pull'[p].affected = pull[p].affected \cup {n}
          /\ UNCHANGED <<job, pulls>>
      BY <1>1, <2>3, <2>5 DEF PullAccount, Pulls, counts
    <3>2. Of(p)' BY <2>3, <3>1 DEF Of
    <3>3. QED BY <1>1, <2>2, <3>1, <3>2
  <2>6. CASE FinishPull(p)
    <3>1. /\ pull'[p].at = "enqueue" /\ pull[p].at = "pull" /\ pull[p].todo = {}
          /\ pull'[p].todo = pull[p].todo /\ pull'[p].affected = pull[p].affected
          /\ UNCHANGED <<job, pulls>>
      BY <1>1, <2>3, <2>6 DEF FinishPull, Pulls, counts
    <3>2. Of(p)' BY <2>3, <3>1 DEF Of
    <3>3. QED BY <1>1, <2>2, <3>1, <3>2
  <2>7. CASE PullDone(p)
    <3>1. /\ pull'[p] = NoPull /\ pull[p].at = "enqueue" /\ UNCHANGED <<job, pulls>>
      BY <1>1, <2>7 DEF PullDone, counts
    <3>2. NoPull.todo = {} BY DEF NoPull
    <3>3. Of(p)' BY <2>3, <3>1, <3>2, NoPullTyped DEF Of
    <3>4. QED BY <1>1, <2>2, <3>1, <3>3
  <2>8. ASSUME NEW n \in Node, AddRefresh(p, n) PROVE Once'
    <3>1. /\ pull'[p].at = "enqueue" /\ pull[p].at = "enqueue" /\ n \in pull[p].affected
          /\ pull'[p].todo = pull[p].todo /\ pull'[p].affected = pull[p].affected \ {n}
          /\ pulls' = pulls /\ \A l \in Node \ {n} : job'[l] = job[l]
      BY <1>1, <2>3, <2>8 DEF AddRefresh, Pulls, counts
    <3>2. /\ pull[p].todo = {} /\ n \in Accounts[p] /\ pulls[p] # 0
          /\ pull[p].affected \subseteq Node
      BY <2>3, <3>1 DEF Of, Pulls
    <3>3. Of(p)' BY <2>3, <3>1, <3>2 DEF Of
    <3>4. ASSUME NEW r \in Puller \ {p} PROVE Of(r)'
      <4>1. n \notin Accounts[r] BY <3>2 DEF FedOnce
      <4>2. \A l \in Accounts[r] : job'[l] = job[l] BY <3>1, <4>1, RollupAssumption
      <4>3. QED BY <1>4, <2>1, <4>2
    <3>5. QED BY <1>1, <1>3, <3>1, <3>3, <3>4
  <2>9. QED BY <1>6, <2>4, <2>5, <2>6, <2>7, <2>8 DEF Pulling
<1>7. CASE UNCHANGED vars
  <2>1. UNCHANGED <<pull, pulls, job>> BY <1>7 DEF vars, counts
  <2>2. QED BY <1>1, <1>3, <1>4, <2>1
<1>8. QED BY <1>5, <1>6, <1>7, CalmSteps DEF Delivery

\* Where nothing fails or is moved, a node is fed by one connector and that pulls once,
\* every write is on its way until every row that counts it shows it, on any tree that
\* is no deeper than getAncestors climbs.
THEOREM SinglePullsAreRefreshed ==
  ASSUME Shallow, Undisturbed, FedOnce
  PROVE  Spec => []EveryWriteRefreshed
<1>1. Delivery /\ Once /\ [Next]_vars => (Delivery /\ Once)'
  <2> SUFFICES ASSUME Delivery, Once, [Next]_vars PROVE Delivery' /\ Once' OBVIOUS
  <2>1. NothingSwallowed BY OnceSwallowsNothing
  <2>2. QED BY <2>1, DeliveryStep, OnceStep
<1>2. Init => Delivery /\ Once BY DeliveryStart, OnceStart
<1>3. QED BY <1>1, <1>2, DeliveryRefreshes, PTL DEF Spec
=============================================================================
