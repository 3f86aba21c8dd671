------------------------------ MODULE Backfill ------------------------------
(***************************************************************************)
(* One historical backfill, from the API request that splits the range     *)
(* into chunk jobs to the handlers that pull the chunks and settle the     *)
(* backfill_run row.                                                       *)
(*                                                                         *)
(*   services/api/src/routes/backfill.ts           the producer            *)
(*   services/ingestion/src/handlers/backfill.ts   the chunk handler       *)
(*   services/ingestion/src/handlers/pull.ts       the pull it wraps       *)
(*   packages/db/src/repositories/backfill-run.ts  the backfill_run row    *)
(*   packages/db/src/repositories/ingestion-run.ts the ingestion_run rows  *)
(*                                                                         *)
(* A handler is cut at every await: between two steps any other worker,    *)
(* the queue or the producer may move.  The queue (BullMQ) and Postgres    *)
(* are not part of the repository; they are modelled from how the code     *)
(* uses them.                                                              *)
(***************************************************************************)
EXTENDS Naturals, Sequences, FiniteSets

CONSTANTS
  ChunksTotal,   \* number of chunks the range is cut into
  Worker,        \* ingestion processes; each takes one backfill job at a time
  NoWorker,      \* "nobody holds the lock of this job"
  MaxAttempts,   \* the jobs' "attempts" option (3 in the code)
  MaxStalled,    \* BullMQ's maxStalledCount (1 by default)
  StallBudget,   \* bound: how often the lock of one job may be lost
  PullOutcomes,  \* what a pull may report, a subset of Outcome
  Faults         \* which failures may happen, a subset of Fault

Chunk   == 0 .. ChunksTotal - 1
Outcome == {"success", "skipped", "soft", "hard"}
Fault   == {"db", "lostack", "crash", "lock", "producer"}

ASSUME ConstantsAssumption ==
  /\ ChunksTotal \in Nat \ {0}
  /\ NoWorker \notin Worker
  /\ MaxAttempts \in Nat \ {0}
  /\ MaxStalled \in Nat
  /\ StallBudget \in Nat
  /\ PullOutcomes \subseteq Outcome
  /\ Faults \subseteq Fault

VARIABLES
  producer,         \* the API request: "insert", "adding", "done" or "died"
  added,            \* how many chunk jobs it has added
  status,           \* backfill_run.status ("none" before the INSERT)
  chunksCompleted,  \* backfill_run.chunks_completed
  rows,             \* the ingestion_run rows of each chunk, oldest first
  job,              \* the chunk's BullMQ job
  attemptsMade,     \* ... its failed attempts
  stalls,           \* ... how often it was found stalled
  lock,             \* ... the worker that holds its lock
  task,             \* what each worker is doing
  stored            \* history: the chunks one attempt has pulled to the end

run   == <<status, chunksCompleted>>
queue == <<job, attemptsMade, stalls, lock>>
vars  == <<producer, added, run, rows, queue, task, stored>>

RunStatus == {"none", "running", "completed", "failed"}
RowStatus == {"running", "success", "failed", "skipped"}
JobState  == {"none", "waiting", "active", "done", "failed"}
Step == {"idle", "start", "pull", "finish", "refinish", "wrapup", "caught",
         "select", "softfail", "count", "write", "progress", "complete",
         "return", "throw"}

\* A worker's task: the step it is at, the chunk, job.attemptsMade as it was
\* delivered, the index of its ingestion_run row, what the pull reported and
\* the count its progress statement has read.
Task == [at: Step, chunk: Chunk, attempt: Nat, row: Nat,
         outcome: Outcome, count: Nat]

Idle == [at |-> "idle", chunk |-> 0, attempt |-> 0, row |-> 0,
         outcome |-> "success", count |-> 0]

Init ==
  /\ producer = "insert"
  /\ added = 0
  /\ status = "none"
  /\ chunksCompleted = 0
  /\ rows = [c \in Chunk |-> <<>>]
  /\ job = [c \in Chunk |-> "none"]
  /\ attemptsMade = [c \in Chunk |-> 0]
  /\ stalls = [c \in Chunk |-> 0]
  /\ lock = [c \in Chunk |-> NoWorker]
  /\ task = [w \in Worker |-> Idle]
  /\ stored = {}

(***************************************************************************)
(* The producer: one INSERT, then one queue.add per chunk.  There is no    *)
(* transaction around them and nothing resumes a loop that was cut short.  *)
(***************************************************************************)
InsertRun ==
  /\ producer = "insert"
  /\ producer' = "adding"
  /\ status' = "running"
  /\ UNCHANGED <<added, chunksCompleted, rows, queue, task, stored>>

AddChunk ==
  /\ producer = "adding"
  /\ added < ChunksTotal
  /\ added' = added + 1
  /\ job' = [job EXCEPT ![added] = "waiting"]
  /\ UNCHANGED <<producer, run, rows, attemptsMade, stalls, lock, task, stored>>

Respond ==
  /\ producer = "adding"
  /\ added = ChunksTotal
  /\ producer' = "done"
  /\ UNCHANGED <<added, run, rows, queue, task, stored>>

\* The API process dies, or queue.add rejects, inside the loop.
ProducerDies ==
  /\ "producer" \in Faults
  /\ producer = "adding"
  /\ producer' = "died"
  /\ UNCHANGED <<added, run, rows, queue, task, stored>>

(***************************************************************************)
(* The queue.                                                              *)
(***************************************************************************)
Deliver(w, c) ==
  /\ task[w].at = "idle"
  /\ job[c] = "waiting"
  /\ job' = [job EXCEPT ![c] = "active"]
  /\ lock' = [lock EXCEPT ![c] = w]
  /\ task' = [task EXCEPT ![w] =
                [Idle EXCEPT !.at = "start", !.chunk = c, !.attempt = attemptsMade[c]]]
  /\ UNCHANGED <<producer, added, run, rows, attemptsMade, stalls, stored>>

\* The worker process dies (a deploy whose drain ran out of its 10 s, an
\* unhandled rejection, a kill) and starts again with nothing in hand.
Crash(w) ==
  /\ "crash" \in Faults
  /\ task[w].at # "idle"
  /\ LET c == task[w].chunk IN
       /\ lock[c] = w => stalls[c] < StallBudget
       /\ lock' = [lock EXCEPT ![c] = IF @ = w THEN NoWorker ELSE @]
  /\ task' = [task EXCEPT ![w] = Idle]
  /\ UNCHANGED <<producer, added, run, rows, job, attemptsMade, stalls, stored>>

\* The lock is not renewed in time although the handler is still running.
LoseLock(c) ==
  /\ "lock" \in Faults
  /\ job[c] = "active"
  /\ lock[c] # NoWorker
  /\ stalls[c] < StallBudget
  /\ lock' = [lock EXCEPT ![c] = NoWorker]
  /\ UNCHANGED <<producer, added, run, rows, job, attemptsMade, stalls, task, stored>>

\* The stalled check: back to waiting, the attempt not counted, or failed for
\* good without any handler being told.
RecoverStalled(c) ==
  /\ job[c] = "active"
  /\ lock[c] = NoWorker
  /\ stalls' = [stalls EXCEPT ![c] = @ + 1]
  /\ job' = [job EXCEPT ![c] = IF stalls[c] + 1 > MaxStalled THEN "failed" ELSE "waiting"]
  /\ UNCHANGED <<producer, added, run, rows, attemptsMade, lock, task, stored>>

(***************************************************************************)
(* The pull inside the handler.                                            *)
(***************************************************************************)
GoTo(w, step) == task' = [task EXCEPT ![w].at = step]

\* ... and out of the pull, whose row and outcome are not used again.
LeaveFor(w, step) ==
  task' = [task EXCEPT ![w] = [Idle EXCEPT !.at = step, !.chunk = task[w].chunk,
                                           !.attempt = task[w].attempt]]

\* runs.start: a new ingestion_run row, "running".
StartRun(w) ==
  LET c == task[w].chunk IN
  /\ task[w].at = "start"
  /\ rows' = [rows EXCEPT ![c] = Append(@, "running")]
  /\ task' = [task EXCEPT ![w].at = "pull", ![w].row = Len(rows[c]) + 1]
  /\ UNCHANGED <<producer, added, run, queue, stored>>

\* A lookup before runs.start throws, or the INSERT does: no row is left.
StartFails(w) ==
  /\ "db" \in Faults
  /\ task[w].at = "start"
  /\ LeaveFor(w, "caught")
  /\ UNCHANGED <<producer, added, run, rows, queue, stored>>

\* The account loop comes to its end, finds no account, or meets an error
\* that is not ("soft") or is ("hard") worth a retry.
PullReturns(w, outcome) ==
  /\ task[w].at = "pull"
  /\ task' = [task EXCEPT ![w].at = "finish", ![w].outcome = outcome]
  /\ stored' = IF outcome \in {"success", "skipped"}
                 THEN stored \cup {task[w].chunk} ELSE stored
  /\ UNCHANGED <<producer, added, run, rows, queue>>

\* A database error inside the loop goes to the outer catch.
PullThrows(w) ==
  /\ "db" \in Faults
  /\ task[w].at = "pull"
  /\ GoTo(w, "refinish")
  /\ UNCHANGED <<producer, added, run, rows, queue, stored>>

SetRow(w, s) == rows' = [rows EXCEPT ![task[w].chunk][task[w].row] = s]

\* Slips the runs are shown to notice (never used by the specification): the
\* outcome written as it is, and a soft failure filed as a skip.
RawOutcome(outcome) == outcome
SoftIsSkipped(outcome) ==
  CASE outcome = "success" -> "success"
    [] outcome = "hard" -> "failed"
    [] OTHER -> "skipped"

FinalStatus(outcome) ==
  CASE outcome = "success" -> "success"
    [] outcome = "skipped" -> "skipped"
    [] OTHER -> "failed"

\* finishRun: the row's terminal status.  A success goes on to queue the
\* rollup refreshes, a soft failure to pause the connector, a hard one throws.
Finish(w) ==
  /\ task[w].at = "finish"
  /\ SetRow(w, FinalStatus(task[w].outcome))
  /\ LeaveFor(w, CASE task[w].outcome \in {"success", "soft"} -> "wrapup"
                   [] task[w].outcome = "skipped" -> "select"
                   [] task[w].outcome = "hard" -> "caught")
  /\ UNCHANGED <<producer, added, run, queue, stored>>

\* The UPDATE fails, or it commits and only its answer is lost ("lostack").
\* Either way `finished` stays false and the outer catch finishes again.
FinishFails(w) ==
  /\ task[w].at = "finish"
  /\ \/ "db" \in Faults /\ UNCHANGED rows
     \/ "lostack" \in Faults /\ SetRow(w, FinalStatus(task[w].outcome))
  /\ GoTo(w, "refinish")
  /\ UNCHANGED <<producer, added, run, queue, stored>>

\* The outer catch: finish as failed, then rethrow, whether or not this
\* second UPDATE goes through.
Refinish(w) ==
  /\ task[w].at = "refinish"
  /\ \/ SetRow(w, "failed")
     \/ "db" \in Faults /\ UNCHANGED rows
  /\ LeaveFor(w, "caught")
  /\ UNCHANGED <<producer, added, run, queue, stored>>

\* After finish: the refresh jobs, or the connector's new status.  An error
\* here throws, but the row keeps its status because `finished` is true.
WrapUp(w) ==
  /\ task[w].at = "wrapup"
  /\ \/ LeaveFor(w, "select")
     \/ "db" \in Faults /\ LeaveFor(w, "caught")
  /\ UNCHANGED <<producer, added, run, rows, queue, stored>>

(***************************************************************************)
(* The handler around the pull, and the repository it calls.               *)
(***************************************************************************)
\* Slip: the update without its status guard.
MarkFailedAlways == status' = "failed"

MarkFailed ==
  status' = IF status = "running" THEN "failed" ELSE status

\* Slip: attempts counted from one where they are counted from zero.
CaughtOffByOne(w) ==
  /\ task[w].at = "caught"
  /\ IF task[w].attempt >= MaxAttempts THEN MarkFailed ELSE UNCHANGED status
  /\ GoTo(w, "throw")
  /\ UNCHANGED <<producer, added, chunksCompleted, rows, queue, stored>>

\* The catch block.  isTerminal is computed from the attempts the job had
\* when it was delivered.
Caught(w) ==
  /\ task[w].at = "caught"
  /\ IF task[w].attempt + 1 >= MaxAttempts THEN MarkFailed ELSE UNCHANGED status
  /\ GoTo(w, "throw")
  /\ UNCHANGED <<producer, added, chunksCompleted, rows, queue, stored>>

\* The newest ingestion_run row of the chunk decides, whoever wrote it.
SelectChunkRun(w) ==
  LET chunkRuns == rows[task[w].chunk] IN
  /\ task[w].at = "select"
  /\ GoTo(w, IF chunkRuns[Len(chunkRuns)] = "failed" THEN "softfail" ELSE "count")
  /\ UNCHANGED <<producer, added, run, rows, queue, stored>>

SoftFail(w) ==
  /\ task[w].at = "softfail"
  /\ MarkFailed
  /\ GoTo(w, "return")
  /\ UNCHANGED <<producer, added, chunksCompleted, rows, queue, stored>>

\* Slips: any row counts its chunk; only a chunk with nothing but good rows does.
AnyRowCounts(c) == rows[c] # <<>>
AllRowsCount(c) == rows[c] # <<>> /\ \A i \in DOMAIN rows[c] : rows[c][i] \in {"success", "skipped"}

Counted(c) == \E i \in DOMAIN rows[c] : rows[c][i] \in {"success", "skipped"}

\* Slip: rows counted instead of distinct chunks.
CountRows(w) ==
  /\ task[w].at = "count"
  /\ LET good(c) == {i \in DOMAIN rows[c] : rows[c][i] \in {"success", "skipped"}}
         found == UNION {{<<c, i>> : i \in good(c)} : c \in Chunk}
     IN  task' = [task EXCEPT ![w].at = "write", ![w].count = Cardinality(found)]
  /\ UNCHANGED <<producer, added, run, rows, queue, stored>>

\* recomputeProgress, first half: the statement's snapshot, in which the
\* sub-select counts.  The row lock comes later, and a statement that waited
\* for it still writes the count of its own snapshot (READ COMMITTED).
CountChunks(w) ==
  /\ task[w].at = "count"
  /\ task' = [task EXCEPT ![w].at = "write",
                          ![w].count = Cardinality({c \in Chunk : Counted(c)})]
  /\ UNCHANGED <<producer, added, run, rows, queue, stored>>

WriteProgress(w) ==
  /\ task[w].at = "write"
  /\ chunksCompleted' = task[w].count
  /\ LeaveFor(w, "progress")
  /\ UNCHANGED <<producer, added, status, rows, queue, stored>>

\* Slip: done only beyond the last chunk.
ReadProgressBeyond(w) ==
  /\ task[w].at = "progress"
  /\ GoTo(w, IF chunksCompleted > ChunksTotal THEN "complete" ELSE "return")
  /\ UNCHANGED <<producer, added, run, rows, queue, stored>>

\* recomputeProgress, second half: the row is read back in a new statement.
ReadProgress(w) ==
  /\ task[w].at = "progress"
  /\ GoTo(w, IF chunksCompleted >= ChunksTotal THEN "complete" ELSE "return")
  /\ UNCHANGED <<producer, added, run, rows, queue, stored>>

\* Slip: the update without its status guard.
CompleteAlways(w) ==
  /\ task[w].at = "complete"
  /\ status' = IF chunksCompleted >= ChunksTotal THEN "completed" ELSE status
  /\ GoTo(w, "return")
  /\ UNCHANGED <<producer, added, chunksCompleted, rows, queue, stored>>

CompleteIfDone(w) ==
  /\ task[w].at = "complete"
  /\ status' = IF status = "running" /\ chunksCompleted >= ChunksTotal
                 THEN "completed" ELSE status
  /\ GoTo(w, "return")
  /\ UNCHANGED <<producer, added, chunksCompleted, rows, queue, stored>>

\* A statement of the handler rejects.  In the catch block that replaces the
\* error; after it nothing catches, so not even the last attempt marks the run.
HandlerThrows(w) ==
  /\ "db" \in Faults
  /\ task[w].at \in {"caught", "select", "softfail", "count", "write",
                     "progress", "complete"}
  /\ LeaveFor(w, "throw")
  /\ UNCHANGED <<producer, added, run, rows, queue, stored>>

\* The job is settled only by the worker that still holds its lock.
Return(w) ==
  LET c == task[w].chunk IN
  /\ task[w].at = "return"
  /\ job' = [job EXCEPT ![c] = IF lock[c] = w THEN "done" ELSE @]
  /\ lock' = [lock EXCEPT ![c] = IF @ = w THEN NoWorker ELSE @]
  /\ task' = [task EXCEPT ![w] = Idle]
  /\ UNCHANGED <<producer, added, run, rows, attemptsMade, stalls, stored>>

Throw(w) ==
  LET c == task[w].chunk IN
  /\ task[w].at = "throw"
  /\ IF lock[c] = w
       THEN /\ attemptsMade' = [attemptsMade EXCEPT ![c] = @ + 1]
            /\ job' = [job EXCEPT ![c] =
                         IF attemptsMade[c] + 1 >= MaxAttempts THEN "failed" ELSE "waiting"]
            /\ lock' = [lock EXCEPT ![c] = NoWorker]
       ELSE UNCHANGED <<attemptsMade, job, lock>>
  /\ task' = [task EXCEPT ![w] = Idle]
  /\ UNCHANGED <<producer, added, run, rows, stalls, stored>>

-----------------------------------------------------------------------------
Produce == InsertRun \/ AddChunk \/ Respond

Handle(w) ==
  \/ StartRun(w)
  \/ \E outcome \in PullOutcomes : PullReturns(w, outcome)
  \/ Finish(w) \/ Refinish(w) \/ WrapUp(w)
  \/ Caught(w) \/ SelectChunkRun(w) \/ SoftFail(w)
  \/ CountChunks(w) \/ WriteProgress(w) \/ ReadProgress(w) \/ CompleteIfDone(w)
  \/ Return(w) \/ Throw(w)

Fail(w) ==
  \/ StartFails(w) \/ PullThrows(w) \/ FinishFails(w) \/ HandlerThrows(w)
  \/ Crash(w)

\* Every job settled and nobody at work: the system may stop.
Quiet ==
  /\ producer \in {"done", "died"}
  /\ \A c \in Chunk : job[c] \in {"none", "done", "failed"}
  /\ \A w \in Worker : task[w].at = "idle"

Stopped == Quiet /\ UNCHANGED vars

Next ==
  \/ Produce \/ ProducerDies
  \/ \E w \in Worker, c \in Chunk : Deliver(w, c)
  \/ \E w \in Worker : Handle(w) \/ Fail(w)
  \/ \E c \in Chunk : LoseLock(c) \/ RecoverStalled(c)
  \/ Stopped

\* The API request, every worker and the queue keep going; faults need not.
Fairness ==
  /\ WF_vars(Produce)
  /\ \A w \in Worker : WF_vars(Handle(w))
  /\ \A w \in Worker : WF_vars(\E c \in Chunk : Deliver(w, c))
  /\ \A c \in Chunk : WF_vars(RecoverStalled(c))

Spec     == Init /\ [][Next]_vars
FairSpec == Spec /\ Fairness

-----------------------------------------------------------------------------
TypeOK ==
  /\ producer \in {"insert", "adding", "done", "died"}
  /\ added \in 0 .. ChunksTotal
  /\ status \in RunStatus
  /\ chunksCompleted \in Nat
  /\ rows \in [Chunk -> Seq(RowStatus)]
  /\ job \in [Chunk -> JobState]
  /\ attemptsMade \in [Chunk -> Nat]
  /\ stalls \in [Chunk -> Nat]
  /\ lock \in [Chunk -> Worker \cup {NoWorker}]
  /\ task \in [Worker -> Task]
  /\ stored \subseteq Chunk

\* What keeps the accounting sound, part by part: nothing moves before the
\* INSERT; a row, a pending finish, a pending count and the published count
\* never claim more than is stored.
Dormant ==
  /\ status = "none" <=> producer = "insert"
  /\ status = "none" => /\ \A c \in Chunk : job[c] = "none"
                        /\ \A w \in Worker : task[w].at = "idle"

RowsAreBacked ==
  \A c \in Chunk : \A i \in DOMAIN rows[c] :
    rows[c][i] \in {"success", "skipped"} => c \in stored

FinishIsBacked ==
  \A w \in Worker :
    (task[w].at = "finish" /\ task[w].outcome \in {"success", "skipped"})
       => task[w].chunk \in stored

CountIsBacked ==
  /\ chunksCompleted <= Cardinality(stored)
  /\ \A w \in Worker : task[w].at = "write" => task[w].count <= Cardinality(stored)

\* A run that says "completed" has every chunk of its range in the database:
\* retries, duplicate deliveries, stale counts and lost answers never make
\* the accounting of recomputeProgress run ahead of the data.
CompletedIsStored == status = "completed" => stored = Chunk

\* The inductive invariant behind CompletedIsStored.
Accounting ==
  TypeOK /\ Dormant /\ RowsAreBacked /\ FinishIsBacked /\ CountIsBacked /\ CompletedIsStored

\* The rows behind the accounting agree: a completed run has, for every
\* chunk, a row that says success or skipped.
CompletedIsBacked == status = "completed" => \A c \in Chunk : Counted(c)

\* Terminal transitions are guarded: a late handler never overwrites the
\* decision an earlier one has written, and a run never goes back.
TerminalIsFinal ==
  [][(status \in {"completed", "failed"}) => (status' = status)]_status

\* The progress shown for a run never goes down.
ProgressNeverRegresses == [][chunksCompleted' >= chunksCompleted]_chunksCompleted

\* When every chunk job was added and has settled, the run is not left
\* "running": whoever handled the last chunk has written the verdict.
NotStranded == (producer = "done" /\ Quiet) => status # "running"

\* The detailed system implements the promise: its status and the chunks in
\* the database move only as BackfillPromise allows.
Promise == INSTANCE BackfillPromise
KeepsPromise == Promise!Spec

\* A run that was started is eventually settled.
EventuallySettled == status = "running" ~> status \in {"completed", "failed"}

=============================================================================
