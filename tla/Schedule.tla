------------------------------ MODULE Schedule ------------------------------
(***************************************************************************)
(* Connectors and their repeatable pull jobs.  Each ingestion process runs *)
(* a reconciliation of connector_config with the repeatable jobs in Redis  *)
(* once a minute; there is no lock between the processes.  The pulls write *)
(* the status that decides what is scheduled.                              *)
(*                                                                         *)
(*   services/ingestion/src/scheduler.ts           the reconciliation      *)
(*   services/ingestion/src/handlers/pull.ts       the status              *)
(*   services/api/src/routes/connectors.ts         new connectors          *)
(***************************************************************************)
EXTENDS Naturals, FiniteSets

CONSTANTS
  Config,       \* ids of connector_config rows
  Cron,         \* cron patterns
  NoCron,       \* no schedule
  Replica,      \* ingestion processes
  Puller,       \* pulls that may run at the same time
  NoConfig,     \* an idle puller, or a tick that has not begun its loop
  EditBudget,   \* bound: rows created or edited
  PullBudget,   \* bound: pulls started
  FaultBudget   \* bound: ticks that fail

ASSUME ScheduleAssumption ==
  /\ NoCron \notin Cron
  /\ NoConfig \notin Config
  /\ IsFiniteSet(Config)
  /\ EditBudget \in Nat /\ PullBudget \in Nat /\ FaultBudget \in Nat

VARIABLES
  config,      \* connector_config
  repeatable,  \* the repeatable jobs in Redis: config and pattern
  tick,        \* what each process' reconciliation is doing
  pull,        \* the config whose row each running pull has read
  outdated,    \* history: who reconciles with rows that have changed since
  edits, pulls, faults  \* the bounded counters

counts == <<edits, pulls, faults>>
vars   == <<config, repeatable, tick, pull, outdated, counts>>

Status == {"active", "error", "paused"}
NoRow  == [exists |-> FALSE, schedule |-> NoCron, enabled |-> FALSE, status |-> "active"]
Rows   == [exists: {TRUE}, schedule: Cron \cup {NoCron}, enabled: BOOLEAN, status: Status]
            \cup {NoRow}

Entry  == Config \X Cron
\* A tick waits for the next minute, for the rows, for the repeatable jobs, or
\* works off its changes, removes and adds of entries; `on` is the connector its
\* loop is at.
Idle == [at |-> "idle", desired |-> {}, todo |-> {}, on |-> NoConfig]

Fresh(cron) == [exists |-> TRUE, schedule |-> cron, enabled |-> TRUE, status |-> "active"]

\* Some connectors have been created before the first process starts.
Init ==
  /\ config \in [Config -> {NoRow} \cup {Fresh(cron) : cron \in Cron}]
  /\ repeatable = {}
  /\ tick = [r \in Replica |-> Idle]
  /\ pull = [p \in Puller |-> NoConfig]
  /\ outdated = {}
  /\ edits = 0
  /\ pulls = 0
  /\ faults = 0

(***************************************************************************)
(* The rows.                                                               *)
(***************************************************************************)
\* Every row changes through this, so that ticks that have read the rows are
\* known to be behind.
SetRow(c, row) ==
  /\ config' = [config EXCEPT ![c] = row]
  /\ outdated' = IF row = config[c] THEN outdated
                 ELSE {r \in Replica : tick[r].at # "idle"}

\* POST /tenants/:slug/connectors, after the credentials were accepted.
Create(c, cron) ==
  /\ edits < EditBudget
  /\ ~ config[c].exists
  /\ SetRow(c, Fresh(cron))
  /\ edits' = edits + 1
  /\ UNCHANGED <<repeatable, tick, pull, pulls, faults>>

\* No route does it: rows are disabled, resumed, rescheduled and deleted by
\* hand, as the scheduler's test does.
Edited(row) ==
  {NoRow, [row EXCEPT !.enabled = ~ row.enabled], [row EXCEPT !.status = "active"]}
    \cup {[row EXCEPT !.schedule = cron] : cron \in Cron \cup {NoCron}}

Edit(c, row) ==
  /\ edits < EditBudget
  /\ config[c].exists
  /\ row \in Edited(config[c]) \ {config[c]}
  /\ SetRow(c, row)
  /\ edits' = edits + 1
  /\ UNCHANGED <<repeatable, tick, pull, pulls, faults>>

(***************************************************************************)
(* The reconciliation.                                                     *)
(***************************************************************************)
\* Rows that are enabled, not paused and scheduled.
Desired(rows) ==
  {e \in Entry : /\ rows[e[1]].exists /\ rows[e[1]].enabled
                 /\ rows[e[1]].status # "paused"
                 /\ rows[e[1]].schedule = e[2]}

\* The interval fires and no tick of this process is in flight; the SELECT.
ReadRows(r) ==
  /\ tick[r].at = "idle"
  /\ tick' = [tick EXCEPT ![r] = [Idle EXCEPT !.at = "read", !.desired = Desired(config)]]
  /\ outdated' = outdated \ {r}
  /\ UNCHANGED <<config, repeatable, pull, counts>>

Connectors(entries) == {e[1] : e \in entries}

\* Slip (never used by the specification): an existing job is recognised by
\* its connector alone.
ChangesByName(desired, existing) ==
  [add: {TRUE}, entry: {e \in desired : e[1] \notin Connectors(existing)}]
    \cup [add: {FALSE}, entry: {e \in existing : e[1] \notin Connectors(desired)}]

\* Slip: everything is removed and added again.
ChangesAfresh(desired, existing) ==
  [add: {TRUE}, entry: desired] \cup [add: {FALSE}, entry: existing]

\* What the loops will do: desired patterns that do not exist are added, jobs
\* with another pattern or of a connector that is not desired are removed.
Changes(desired, existing) ==
  [add: {TRUE}, entry: desired \ existing] \cup [add: {FALSE}, entry: existing \ desired]

ListRepeatables(r) ==
  /\ tick[r].at = "read"
  /\ tick' = [tick EXCEPT ![r] =
                [@ EXCEPT !.at = "apply", !.todo = Changes(tick[r].desired, repeatable)]]
  /\ UNCHANGED <<config, repeatable, pull, outdated, counts>>

\* Desired connectors come first, one after the other and in any order, each
\* with its removals before its addition.
MayApply(t, change) ==
  LET c == change.entry[1]
      first == Connectors(t.desired)
  IN  /\ change \in t.todo
      /\ \/ c = t.on
         \/ \A other \in t.todo : other.entry[1] # t.on
      /\ c \in first \/ \A other \in t.todo : other.entry[1] \notin first
      /\ change.add => \A other \in t.todo : other.entry[1] = c => other.add

\* Adding a job that exists and removing one that does not change nothing.
Apply(r, change) ==
  /\ tick[r].at = "apply"
  /\ MayApply(tick[r], change)
  /\ repeatable' = IF change.add THEN repeatable \cup {change.entry}
                   ELSE repeatable \ {change.entry}
  /\ tick' = [tick EXCEPT ![r] =
                [@ EXCEPT !.todo = tick[r].todo \ {change}, !.on = change.entry[1]]]
  /\ UNCHANGED <<config, pull, outdated, counts>>

EndTick(r) ==
  /\ tick[r].at = "apply"
  /\ tick[r].todo = {}
  /\ tick' = [tick EXCEPT ![r] = Idle]
  /\ outdated' = outdated \ {r}
  /\ UNCHANGED <<config, repeatable, pull, counts>>

\* An await of the tick rejects, or its process is restarted.
TickFails(r) ==
  /\ tick[r].at # "idle"
  /\ faults < FaultBudget
  /\ faults' = faults + 1
  /\ tick' = [tick EXCEPT ![r] = Idle]
  /\ outdated' = outdated \ {r}
  /\ UNCHANGED <<config, repeatable, pull, edits, pulls>>

(***************************************************************************)
(* The pulls.                                                              *)
(***************************************************************************)
\* A repeatable job that has fired, or a chunk of a backfill, reaches a worker:
\* its repetition may be gone by now.  The handler reads the row and looks
\* neither at its status nor at `enabled`.
StartPull(p, c) ==
  /\ pulls < PullBudget
  /\ pull[p] = NoConfig
  /\ config[c].exists
  /\ pull' = [pull EXCEPT ![p] = c]
  /\ pulls' = pulls + 1
  /\ UNCHANGED <<config, repeatable, tick, outdated, edits, faults>>

\* The pull ends: it writes the status its outcome stands for, over whatever
\* status the row has got meanwhile, or none (a retryable error, no accounts).
EndPull(p, status) ==
  LET c == pull[p] IN
  /\ c # NoConfig
  /\ pull' = [pull EXCEPT ![p] = NoConfig]
  /\ SetRow(c, IF config[c].exists THEN [config[c] EXCEPT !.status = status] ELSE config[c])
  /\ UNCHANGED <<repeatable, tick, counts>>

EndPullQuietly(p) ==
  /\ pull[p] # NoConfig
  /\ pull' = [pull EXCEPT ![p] = NoConfig]
  /\ UNCHANGED <<config, repeatable, tick, outdated, counts>>

-----------------------------------------------------------------------------
Reconcile(r) ==
  \/ ReadRows(r)
  \/ ListRepeatables(r)
  \/ \E change \in tick[r].todo : Apply(r, change)
  \/ EndTick(r)

Pulling(p) == EndPullQuietly(p) \/ \E status \in Status : EndPull(p, status)

Next ==
  \/ \E c \in Config, cron \in Cron : Create(c, cron)
  \/ \E c \in Config : \E row \in Rows : Edit(c, row)
  \/ \E r \in Replica : Reconcile(r) \/ TickFails(r)
  \/ \E p \in Puller, c \in Config : StartPull(p, c)
  \/ \E p \in Puller : Pulling(p)

\* The interval goes on firing and pulls end; nobody has to edit a row.
Fairness ==
  /\ \A r \in Replica : WF_vars(Reconcile(r))
  /\ \A p \in Puller : WF_vars(Pulling(p))

Spec     == Init /\ [][Next]_vars
FairSpec == Spec /\ Fairness

-----------------------------------------------------------------------------
\* A process that reconciles with current rows never takes away a job that
\* should be there and never adds one that should not, whatever the other
\* process is doing to the same jobs.
TicksAreRight ==
  [][\A r \in Replica \ outdated :
       tick[r].at = "apply" /\ tick'[r] # tick[r] =>
         /\ repeatable \cap Desired(config) \subseteq repeatable'
         /\ repeatable' \subseteq repeatable \cup Desired(config)]_vars

\* Once the rows rest, the repeatable jobs become exactly those the rows ask
\* for and stay so, although two processes reconcile without a lock and a tick
\* may have failed half-way.
Converges == <>[](repeatable = Desired(config))

=============================================================================
