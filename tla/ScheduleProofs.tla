--------------------------- MODULE ScheduleProofs ---------------------------
(***************************************************************************)
(* What a reconciliation does while its rows are current, for any number   *)
(* of processes, connectors and patterns.                                  *)
(***************************************************************************)
EXTENDS Schedule, TLAPS

\* A tick whose rows are current knows what is desired, and has nothing else to do.
Current(r) ==
  /\ tick[r].at \in {"read", "apply"} => tick[r].desired = Desired(config)
  /\ tick[r].at = "apply" =>
       \A change \in tick[r].todo : change.add <=> change.entry \in Desired(config)

Steps ==
  [at: {"idle", "read", "apply"}, desired: SUBSET Entry, on: Config \cup {NoConfig},
   todo: SUBSET [add: BOOLEAN, entry: Entry]]

Reconciled ==
  /\ config \in [Config -> Rows]
  /\ tick \in [Replica -> Steps]
  /\ repeatable \subseteq Entry
  /\ \A r \in Replica \ outdated : Current(r)

PullsTyped == pull \in [Puller -> Config \cup {NoConfig}]

LEMMA PullsKept ==
  /\ Init => PullsTyped
  /\ PullsTyped /\ [Next]_vars => PullsTyped'
BY DEF Init, PullsTyped, Next, Create, Edit, Reconcile, ReadRows, ListRepeatables, Apply,
       EndTick, TickFails, StartPull, Pulling, EndPull, EndPullQuietly, vars

LEMMA DesiredType == \A rows : Desired(rows) \in SUBSET Entry
BY DEF Desired

LEMMA IdleType == Idle \in Steps /\ Idle.at = "idle"
BY DEF Idle, Steps

\* The changes that are left to do once both sides have been read.
LEMMA ChangesAreRight ==
  ASSUME NEW desired \in SUBSET Entry, NEW existing \in SUBSET Entry
  PROVE  /\ Changes(desired, existing) \in SUBSET [add: BOOLEAN, entry: Entry]
         /\ \A change \in Changes(desired, existing) : change.add <=> change.entry \in desired
BY DEF Changes

LEMMA ReconciledStart == Init => Reconciled
<1>1. NoRow \in Rows /\ \A cron \in Cron : Fresh(cron) \in Rows
  BY DEF NoRow, Rows, Fresh, Status
<1>2. QED BY <1>1, IdleType DEF Init, Reconciled, Current

\* A row changes: ticks that have read the rows are behind from now on.
LEMMA RowChanges ==
  ASSUME Reconciled, NEW c \in Config, NEW row \in Rows, SetRow(c, row),
         UNCHANGED <<tick, repeatable>>
  PROVE  Reconciled'
<1>1. config' \in [Config -> Rows] BY DEF Reconciled, SetRow
<1>2. CASE row = config[c]
  <2>1. config' = config /\ outdated' = outdated BY <1>2 DEF Reconciled, SetRow
  <2>2. QED BY <2>1 DEF Reconciled, Current
<1>3. CASE row # config[c]
  <2>1. outdated' = {o \in Replica : tick[o].at # "idle"} BY <1>3 DEF SetRow
  <2>2. \A r \in Replica \ outdated' : Current(r)' BY <2>1 DEF Current
  <2>3. QED BY <1>1, <2>2 DEF Reconciled
<1>4. QED BY <1>2, <1>3

LEMMA ApplyTodo ==
  ASSUME Reconciled, NEW r \in Replica, NEW change, Apply(r, change)
  PROVE  /\ change \in tick[r].todo /\ tick[r].at = "apply" /\ change.entry \in Entry
         /\ change.add \in BOOLEAN /\ tick[r] \in Steps
         /\ repeatable' = IF change.add THEN repeatable \cup {change.entry}
                          ELSE repeatable \ {change.entry}
<1>1. change \in tick[r].todo /\ tick[r].at = "apply" BY DEF Apply, MayApply
<1>2. change \in [add: BOOLEAN, entry: Entry] /\ tick[r] \in Steps
  BY <1>1 DEF Reconciled, Steps
<1>3. QED BY <1>1, <1>2 DEF Apply

LEMMA ReconciledStep == PullsTyped /\ Reconciled /\ [Next]_vars => Reconciled'
<1> SUFFICES ASSUME PullsTyped, Reconciled, [Next]_vars PROVE Reconciled' OBVIOUS
<1>1. ASSUME NEW r \in Replica, NEW t, t \in Steps, tick' = [tick EXCEPT ![r] = t],
             config' = config, repeatable' \in SUBSET Entry, outdated \ {r} \subseteq outdated',
             r \notin outdated' => Current(r)'
      PROVE  Reconciled'
  <2>1. ASSUME NEW o \in Replica \ outdated' PROVE Current(o)'
    <3>1. CASE o = r BY <1>1, <2>1, <3>1
    <3>2. CASE o # r
      <4>1. tick'[o] = tick[o] /\ o \notin outdated BY <1>1, <2>1, <3>2 DEF Reconciled
      <4>2. QED BY <1>1, <4>1 DEF Reconciled, Current
    <3>3. QED BY <3>1, <3>2
  <2>2. QED BY <1>1, <2>1 DEF Reconciled
<1>2. ASSUME NEW r \in Replica, ReadRows(r) PROVE Reconciled'
  <2> DEFINE t == [Idle EXCEPT !.at = "read", !.desired = Desired(config)]
  <2>1. t \in Steps /\ t.at = "read" /\ t.desired = Desired(config)
    BY DesiredType DEF Idle, Steps
  <2> HIDE DEF t
  <2>2. tick' = [tick EXCEPT ![r] = t] BY <1>2 DEF ReadRows, t
  <2>3. Current(r)'
    <3>1. tick'[r] = t /\ config' = config BY <1>2, <2>2 DEF ReadRows, Reconciled
    <3>2. QED BY <2>1, <3>1 DEF Current
  <2>4. QED BY <1>1, <1>2, <2>1, <2>2, <2>3 DEF ReadRows, Reconciled
<1>3. ASSUME NEW r \in Replica, ListRepeatables(r) PROVE Reconciled'
  <2> DEFINE t == [tick[r] EXCEPT !.at = "apply",
                                  !.todo = Changes(tick[r].desired, repeatable)]
  <2>1. tick[r] \in Steps /\ tick[r].at = "read" /\ repeatable \in SUBSET Entry
    BY <1>3 DEF ListRepeatables, Reconciled
  <2>2. tick[r].desired \in SUBSET Entry BY <2>1 DEF Steps
  <2>3. /\ t \in Steps /\ t.at = "apply" /\ t.desired = tick[r].desired
        /\ t.todo = Changes(tick[r].desired, repeatable)
    BY <2>1, <2>2, ChangesAreRight DEF Steps
  <2>4. tick' = [tick EXCEPT ![r] = t] BY <1>3 DEF ListRepeatables
  <2> HIDE DEF t
  <2>5. tick'[r] = t /\ config' = config /\ outdated' = outdated
    BY <1>3, <2>4 DEF ListRepeatables, Reconciled
  <2>6. r \notin outdated' => Current(r)'
    <3>1. SUFFICES ASSUME r \notin outdated PROVE Current(r)' BY <2>5
    <3>2. tick[r].desired = Desired(config) BY <2>1, <3>1 DEF Reconciled, Current
    <3>3. QED BY <2>1, <2>2, <2>3, <2>5, <3>2, ChangesAreRight DEF Current
  <2>7. QED BY <1>1, <1>3, <2>1, <2>3, <2>4, <2>5, <2>6 DEF ListRepeatables
<1>4. ASSUME NEW r \in Replica, NEW change, Apply(r, change) PROVE Reconciled'
  <2> DEFINE t == [tick[r] EXCEPT !.todo = tick[r].todo \ {change}, !.on = change.entry[1]]
  <2>1. /\ tick[r].at = "apply" /\ change.entry \in Entry /\ tick[r] \in Steps
        /\ repeatable' = IF change.add THEN repeatable \cup {change.entry}
                         ELSE repeatable \ {change.entry}
    BY <1>4, ApplyTodo
  <2>2. change.entry[1] \in Config BY <2>1 DEF Entry
  <2>3. /\ t \in Steps /\ t.at = tick[r].at /\ t.desired = tick[r].desired
        /\ t.todo \subseteq tick[r].todo
    BY <2>1, <2>2 DEF Steps
  <2>4. tick' = [tick EXCEPT ![r] = t] BY <1>4 DEF Apply
  <2> HIDE DEF t
  <2>5. tick'[r] = t /\ config' = config /\ outdated' = outdated
    BY <1>4, <2>4 DEF Apply, Reconciled
  <2>6. r \notin outdated' => Current(r)' BY <2>3, <2>5 DEF Reconciled, Current
  <2>7. repeatable' \in SUBSET Entry BY <2>1 DEF Reconciled
  <2>8. QED BY <1>1, <2>3, <2>4, <2>5, <2>6, <2>7
<1>5. ASSUME NEW r \in Replica, EndTick(r) \/ TickFails(r) PROVE Reconciled'
  <2>1. /\ tick' = [tick EXCEPT ![r] = Idle] /\ config' = config /\ repeatable' = repeatable
        /\ outdated' = outdated \ {r}
    BY <1>5 DEF EndTick, TickFails
  <2>2. Current(r)' BY <2>1, IdleType DEF Reconciled, Current
  <2>3. QED BY <1>1, <2>1, <2>2, IdleType DEF Reconciled
<1>6. ASSUME NEW c \in Config, NEW cron \in Cron, Create(c, cron) PROVE Reconciled'
  <2>1. Fresh(cron) \in Rows BY DEF Fresh, Rows, Status
  <2>2. QED BY <1>6, <2>1, RowChanges DEF Create
<1>7. ASSUME NEW c \in Config, NEW row \in Rows, Edit(c, row) PROVE Reconciled'
  BY <1>7, RowChanges DEF Edit
<1>8. ASSUME NEW p \in Puller, NEW status \in Status, EndPull(p, status) PROVE Reconciled'
  <2> DEFINE c == pull[p]
             row == IF config[c].exists THEN [config[c] EXCEPT !.status = status]
                    ELSE config[c]
  <2>1. c \in Config BY <1>8 DEF EndPull, PullsTyped
  <2>2. row \in Rows
    <3>1. config[c] \in Rows BY <2>1 DEF Reconciled
    <3>2. CASE config[c].exists
      <4>1. config[c] \in [exists: {TRUE}, schedule: Cron \cup {NoCron}, enabled: BOOLEAN,
                           status: Status]
        <5>1. NoRow.exists = FALSE BY DEF NoRow
        <5>2. config[c] # NoRow BY <3>2, <5>1, Zenon
        <5>3. QED BY <3>1, <5>2 DEF Rows
      <4> DEFINE old == config[c]
      <4> HIDE DEF old
      <4>2. [old EXCEPT !.status = status] \in Rows BY <4>1 DEF Rows, old
      <4>3. QED BY <3>2, <4>2 DEF old
    <3>3. CASE ~ config[c].exists BY <3>1, <3>3
    <3>4. QED BY <3>2, <3>3
  <2>3. SetRow(c, row) /\ UNCHANGED <<tick, repeatable>> BY <1>8 DEF EndPull
  <2> HIDE DEF c, row
  <2>4. QED BY <2>1, <2>2, <2>3, RowChanges
<1>9. ASSUME UNCHANGED <<config, repeatable, tick, outdated>> PROVE Reconciled'
  BY <1>9 DEF Reconciled, Current
<1>10. QED
  BY <1>2, <1>3, <1>4, <1>5, <1>6, <1>7, <1>8, <1>9
  DEF Next, Reconcile, Pulling, StartPull, EndPullQuietly, vars

LEMMA ReconciledKept == Spec => []Reconciled
BY PullsKept, ReconciledStart, ReconciledStep, PTL DEF Spec

\* However many processes reconcile at the same time and whatever is edited or
\* paused meanwhile, a process whose rows are current takes away no job that should
\* be there and adds none that should not (scheduler.ts).
THEOREM TicksAreAlwaysRight == Spec => TicksAreRight
<1> DEFINE Right(r) == tick[r].at = "apply" /\ tick'[r] # tick[r] =>
                         /\ repeatable \cap Desired(config) \subseteq repeatable'
                         /\ repeatable' \subseteq repeatable \cup Desired(config)
<1>1. ASSUME Reconciled, [Next]_vars, NEW r \in Replica \ outdated PROVE Right(r)
  <2> SUFFICES ASSUME tick[r].at = "apply", tick'[r] # tick[r] PROVE Right(r) OBVIOUS
  <2>1. ASSUME NEW change, Apply(r, change) PROVE Right(r)
    BY <1>1, <2>1, ApplyTodo DEF Reconciled, Current
  <2>2. ASSUME NEW o \in Replica \ {r}, NEW change,
               ReadRows(o) \/ ListRepeatables(o) \/ Apply(o, change) \/ EndTick(o) \/ TickFails(o)
        PROVE  FALSE
    BY <1>1, <2>2 DEF ReadRows, ListRepeatables, Apply, EndTick, TickFails, Reconciled
  <2>3. CASE EndTick(r) \/ TickFails(r) BY <2>3 DEF EndTick, TickFails
  <2>4. ~ ReadRows(r) /\ ~ ListRepeatables(r) BY DEF ReadRows, ListRepeatables
  <2>5. ASSUME UNCHANGED tick PROVE FALSE BY <2>5
  <2>6. QED
    BY <1>1, <2>1, <2>2, <2>3, <2>4, <2>5
    DEF Next, Reconcile, Create, Edit, StartPull, Pulling, EndPull, EndPullQuietly, vars
<1>2. Reconciled /\ [Next]_vars => [\A r \in Replica \ outdated : Right(r)]_vars BY <1>1
<1>3. QED BY <1>2, ReconciledKept, PTL DEF Spec, TicksAreRight
=============================================================================
