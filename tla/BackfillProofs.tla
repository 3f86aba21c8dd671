--------------------------- MODULE BackfillProofs ---------------------------
(***************************************************************************)
(* Theorems about Backfill, for any number of chunks, workers, attempts    *)
(* and faults.  The argument: `stored` only grows; no row, finish or count *)
(* ever claims a chunk that is not in it (Accounting); so a published      *)
(* count that reaches chunks_total means that every chunk is stored.       *)
(* The other way round, that a run with nothing left to do has its verdict *)
(* (Attended), needs a worker on its own.                                  *)
(***************************************************************************)
EXTENDS Backfill, FiniteSetTheorems, SequenceTheorems, TLAPS

\* chunks_total is the number of chunks, and every set of chunks is counted
\* by a natural number no larger than it.
LEMMA ChunkCardinality ==
  /\ IsFiniteSet(Chunk)
  /\ Cardinality(Chunk) = ChunksTotal
  /\ \A S \in SUBSET Chunk : /\ IsFiniteSet(S)
                             /\ Cardinality(S) \in Nat
                             /\ Cardinality(S) <= ChunksTotal
                             /\ Cardinality(S) = ChunksTotal => S = Chunk
<1>1. ChunksTotal \in Nat /\ ChunksTotal > 0
  BY ConstantsAssumption
<1>2. IsFiniteSet(Chunk) /\ Cardinality(Chunk) = ChunksTotal
  BY <1>1, FS_Interval DEF Chunk
<1>3. ASSUME NEW S \in SUBSET Chunk
      PROVE  /\ IsFiniteSet(S)
             /\ Cardinality(S) \in Nat
             /\ Cardinality(S) <= ChunksTotal
             /\ Cardinality(S) = ChunksTotal => S = Chunk
  BY <1>2, FS_Subset, FS_CardinalityType
<1>4. QED
  BY <1>2, <1>3

\* A larger set of chunks is not counted lower.
LEMMA ChunkCountMonotone ==
  ASSUME NEW S \in SUBSET Chunk, NEW T \in SUBSET S
  PROVE  Cardinality(T) <= Cardinality(S)
BY ChunkCardinality, FS_Subset

LEMMA IdleType == Idle \in Task
BY ConstantsAssumption DEF Idle, Task, Step, Chunk, Outcome

\* Moving a task to another step keeps it a task.
LEMMA GoToType ==
  ASSUME TypeOK, NEW w \in Worker, NEW s \in Step
  PROVE  /\ GoTo(w, s) => task' \in [Worker -> Task]
         /\ LeaveFor(w, s) => task' \in [Worker -> Task]
<1>1. [task[w] EXCEPT !.at = s] \in Task
  BY DEF TypeOK, Task
<1>2. [Idle EXCEPT !.at = s, !.chunk = task[w].chunk, !.attempt = task[w].attempt] \in Task
  BY IdleType DEF TypeOK, Task, Idle
<1>3. QED
  BY <1>1, <1>2 DEF TypeOK, GoTo, LeaveFor

\* SetRow rewrites one entry of one sequence.
LEMMA SetRowType ==
  ASSUME TypeOK, NEW w \in Worker, NEW s \in RowStatus, SetRow(w, s)
  PROVE  rows' \in [Chunk -> Seq(RowStatus)]
<1> DEFINE c == task[w].chunk
           r == [rows[c] EXCEPT ![task[w].row] = s]
<1>1. c \in Chunk /\ rows[c] \in Seq(RowStatus)
  BY DEF TypeOK, Task
<1>2. r \in Seq(RowStatus)
  <2>1. PICK n \in Nat : rows[c] \in [1 .. n -> RowStatus]
    BY <1>1, SeqDef
  <2>2. r \in [1 .. n -> RowStatus]
    BY <2>1
  <2>3. QED
    BY <2>2, SeqDef
<1>3. rows' = [rows EXCEPT ![c] = r]
  BY DEF SetRow
<1>4. QED
  BY <1>1, <1>2, <1>3 DEF TypeOK

LEMMA FinalStatusType == \A o \in Outcome : FinalStatus(o) \in RowStatus
BY DEF FinalStatus, Outcome, RowStatus

-----------------------------------------------------------------------------
\* Every step keeps the variables in their types.
LEMMA TypeStep == TypeOK /\ [Next]_vars => TypeOK'
<1> SUFFICES ASSUME TypeOK, [Next]_vars PROVE TypeOK'
  OBVIOUS
<1> USE ConstantsAssumption
<1>1. CASE Produce \/ ProducerDies
  <2>1. CASE InsertRun \/ Respond \/ ProducerDies
    BY <2>1 DEF TypeOK, InsertRun, Respond, ProducerDies, run, queue, RunStatus
  <2>2. CASE AddChunk
    <3>1. added \in Chunk /\ added + 1 \in 0 .. ChunksTotal
      BY <2>2 DEF AddChunk, TypeOK, Chunk
    <3>2. QED
      BY <2>2, <3>1 DEF TypeOK, AddChunk, run, JobState
  <2>3. QED
    BY <1>1, <2>1, <2>2 DEF Produce
<1>2. ASSUME NEW w \in Worker, NEW c \in Chunk, Deliver(w, c) PROVE TypeOK'
  <2>1. [Idle EXCEPT !.at = "start", !.chunk = c, !.attempt = attemptsMade[c]] \in Task
    BY IdleType DEF TypeOK, Task, Idle, Step
  <2>2. QED
    BY <1>2, <2>1 DEF TypeOK, Deliver, run, JobState
<1>3. ASSUME NEW w \in Worker, Handle(w) PROVE TypeOK'
  <2>1. CASE StartRun(w)
    <3>1. task[w].chunk \in Chunk /\ task[w] \in Task
      BY DEF TypeOK, Task
    <3>2. Append(rows[task[w].chunk], "running") \in Seq(RowStatus)
      BY <3>1 DEF TypeOK, RowStatus
    <3>3. [task[w] EXCEPT !.at = "pull", !.row = Len(rows[task[w].chunk]) + 1] \in Task
      <4>1. Len(rows[task[w].chunk]) + 1 \in Nat
        BY <3>1, LenProperties DEF TypeOK
      <4>2. QED
        BY <3>1, <4>1 DEF Task, Step
    <3>4. task' \in [Worker -> Task]
      <4>1. task' = [task EXCEPT ![w] = [@ EXCEPT !.at = "pull",
                                                  !.row = Len(rows[task[w].chunk]) + 1]]
        BY <2>1, <3>1 DEF TypeOK, StartRun, Task
      <4>2. QED
        BY <4>1, <3>3 DEF TypeOK
    <3>5. QED
      BY <2>1, <3>1, <3>2, <3>4 DEF TypeOK, StartRun, run, queue
  <2>2. ASSUME NEW o \in PullOutcomes, PullReturns(w, o) PROVE TypeOK'
    <3>1. [task[w] EXCEPT !.at = "finish", !.outcome = o] \in Task /\ task[w].chunk \in Chunk
      BY DEF TypeOK, Task, Step
    <3>2. task' = [task EXCEPT ![w] = [@ EXCEPT !.at = "finish", !.outcome = o]]
      BY <2>2 DEF TypeOK, PullReturns, Task
    <3>3. QED
      BY <2>2, <3>1, <3>2 DEF TypeOK, PullReturns, run, queue
  <2>3. CASE Finish(w)
    <3>1. task[w].outcome \in Outcome
      BY DEF TypeOK, Task
    <3>2. rows' \in [Chunk -> Seq(RowStatus)]
      BY <2>3, <3>1, FinalStatusType, SetRowType DEF Finish
    <3>3. task' \in [Worker -> Task]
      BY <2>3, <3>1, GoToType DEF Finish, Outcome, Step
    <3>4. QED
      BY <2>3, <3>2, <3>3 DEF TypeOK, Finish, run, queue
  <2>4. CASE Refinish(w)
    <3>1. rows' \in [Chunk -> Seq(RowStatus)]
      BY <2>4, SetRowType DEF Refinish, RowStatus, TypeOK
    <3>2. task' \in [Worker -> Task]
      BY <2>4, GoToType DEF Refinish, Step
    <3>3. QED
      BY <2>4, <3>1, <3>2 DEF TypeOK, Refinish, run, queue
  <2>5. CASE WrapUp(w) \/ SelectChunkRun(w) \/ ReadProgress(w)
    <3>1. task' \in [Worker -> Task]
      BY <2>5, GoToType DEF WrapUp, SelectChunkRun, ReadProgress, Step
    <3>2. QED
      BY <2>5, <3>1 DEF TypeOK, WrapUp, SelectChunkRun, ReadProgress, run, queue
  <2>6. CASE Caught(w) \/ SoftFail(w) \/ CompleteIfDone(w)
    <3>1. task' \in [Worker -> Task]
      BY <2>6, GoToType DEF Caught, SoftFail, CompleteIfDone, Step
    <3>2. status' \in RunStatus
      BY <2>6 DEF TypeOK, Caught, SoftFail, CompleteIfDone, MarkFailed, RunStatus
    <3>3. QED
      BY <2>6, <3>1, <3>2 DEF TypeOK, Caught, SoftFail, CompleteIfDone, queue
  <2>7. CASE CountChunks(w)
    <3>1. Cardinality({c \in Chunk : Counted(c)}) \in Nat
      BY ChunkCardinality
    <3>2. ASSUME NEW n \in Nat
          PROVE  [task[w] EXCEPT !.at = "write", !.count = n] \in Task
      BY DEF TypeOK, Task, Step
    <3>3. task' \in [Worker -> Task]
      <4> DEFINE n == Cardinality({c \in Chunk : Counted(c)})
      <4>1. task' = [task EXCEPT ![w] = [@ EXCEPT !.at = "write", !.count = n]]
        BY <2>7 DEF TypeOK, CountChunks, Task
      <4>2. QED
        BY <4>1, <3>1, <3>2 DEF TypeOK
    <3>4. QED
      BY <2>7, <3>3 DEF TypeOK, CountChunks, run, queue
  <2>8. CASE WriteProgress(w)
    <3>1. task' \in [Worker -> Task]
      BY <2>8, GoToType DEF WriteProgress, Step
    <3>2. QED
      BY <2>8, <3>1 DEF TypeOK, WriteProgress, Task, queue
  <2>9. CASE Return(w) \/ Throw(w)
    <3> DEFINE c == task[w].chunk
    <3>1. c \in Chunk
      BY DEF TypeOK, Task
    <3>2. job' \in [Chunk -> JobState]
      BY <2>9, <3>1 DEF TypeOK, Return, Throw, JobState
    <3>3. lock' \in [Chunk -> Worker \cup {NoWorker}]
      BY <2>9, <3>1 DEF TypeOK, Return, Throw
    <3>4. attemptsMade' \in [Chunk -> Nat]
      BY <2>9, <3>1 DEF TypeOK, Return, Throw
    <3>5. task' \in [Worker -> Task]
      BY <2>9, IdleType DEF TypeOK, Return, Throw
    <3>6. QED
      BY <2>9, <3>2, <3>3, <3>4, <3>5 DEF TypeOK, Return, Throw, run
  <2>10. QED
    BY <1>3, <2>1, <2>2, <2>3, <2>4, <2>5, <2>6, <2>7, <2>8, <2>9 DEF Handle
<1>4. ASSUME NEW w \in Worker, Fail(w) PROVE TypeOK'
  <2>1. CASE StartFails(w) \/ PullThrows(w) \/ HandlerThrows(w)
    <3>1. task' \in [Worker -> Task]
      BY <2>1, GoToType DEF StartFails, PullThrows, HandlerThrows, Step
    <3>2. QED
      BY <2>1, <3>1 DEF TypeOK, StartFails, PullThrows, HandlerThrows, run, queue
  <2>2. CASE FinishFails(w)
    <3>1. rows' \in [Chunk -> Seq(RowStatus)]
      BY <2>2, FinalStatusType, SetRowType DEF FinishFails, TypeOK, Task
    <3>2. task' \in [Worker -> Task]
      BY <2>2, GoToType DEF FinishFails, Step
    <3>3. QED
      BY <2>2, <3>1, <3>2 DEF TypeOK, FinishFails, run, queue
  <2>3. CASE Crash(w)
    <3>1. task[w].chunk \in Chunk
      BY DEF TypeOK, Task
    <3>2. lock' \in [Chunk -> Worker \cup {NoWorker}]
      BY <2>3, <3>1 DEF TypeOK, Crash
    <3>3. QED
      BY <2>3, <3>2, IdleType DEF TypeOK, Crash, run
  <2>4. QED
    BY <1>4, <2>1, <2>2, <2>3 DEF Fail
<1>5. ASSUME NEW c \in Chunk, LoseLock(c) \/ RecoverStalled(c) PROVE TypeOK'
  <2>1. CASE LoseLock(c)
    BY <2>1 DEF TypeOK, LoseLock, run
  <2>2. CASE RecoverStalled(c)
    <3>1. job' \in [Chunk -> JobState] /\ stalls' \in [Chunk -> Nat]
      BY <2>2 DEF TypeOK, RecoverStalled, JobState
    <3>2. QED
      BY <2>2, <3>1 DEF TypeOK, RecoverStalled, run
  <2>3. QED
    BY <1>5, <2>1, <2>2
<1>6. CASE Stopped \/ UNCHANGED vars
  BY <1>6 DEF TypeOK, Stopped, vars, run, queue
<1>7. QED
  BY <1>1, <1>2, <1>3, <1>4, <1>5, <1>6 DEF Next

\* Type correctness of the backfill, whatever fails.
THEOREM TypeCorrect == Spec => []TypeOK
<1>1. Init => TypeOK
  BY ConstantsAssumption, IdleType
  DEF Init, TypeOK, RunStatus, JobState, Chunk
<1>2. QED
  BY <1>1, TypeStep, PTL DEF Spec

-----------------------------------------------------------------------------
\* The chunks in the database are never lost again.
LEMMA StoredGrows == [Next]_vars => stored \subseteq stored'
<1> SUFFICES ASSUME [Next]_vars PROVE stored \subseteq stored'
  OBVIOUS
<1>1. CASE Produce \/ ProducerDies
  BY <1>1 DEF Produce, InsertRun, AddChunk, Respond, ProducerDies
<1>2. ASSUME NEW w \in Worker, NEW c \in Chunk, Deliver(w, c) PROVE stored \subseteq stored'
  BY <1>2 DEF Deliver
<1>3. ASSUME NEW w \in Worker, Handle(w) PROVE stored \subseteq stored'
  BY <1>3 DEF Handle, StartRun, PullReturns, Finish, Refinish, WrapUp, Caught, SelectChunkRun,
              SoftFail, CountChunks, WriteProgress, ReadProgress, CompleteIfDone, Return, Throw
<1>4. ASSUME NEW w \in Worker, Fail(w) PROVE stored \subseteq stored'
  BY <1>4 DEF Fail, StartFails, PullThrows, FinishFails, HandlerThrows, Crash
<1>5. ASSUME NEW c \in Chunk, LoseLock(c) \/ RecoverStalled(c) PROVE stored \subseteq stored'
  BY <1>5 DEF LoseLock, RecoverStalled
<1>6. CASE Stopped \/ UNCHANGED vars
  BY <1>6 DEF Stopped, vars
<1>7. QED
  BY <1>1, <1>2, <1>3, <1>4, <1>5, <1>6 DEF Next

\* Nothing moves before the INSERT of the backfill_run row.
LEMMA DormantStep == TypeOK /\ Dormant /\ [Next]_vars => Dormant'
<1> SUFFICES ASSUME TypeOK, Dormant, [Next]_vars PROVE Dormant'
  OBVIOUS
<1>1. CASE Produce \/ ProducerDies
  BY <1>1 DEF Dormant, Produce, InsertRun, AddChunk, Respond, ProducerDies, run
<1>2. ASSUME NEW w \in Worker, NEW c \in Chunk, Deliver(w, c) PROVE Dormant'
  BY <1>2 DEF Dormant, Deliver, run
<1>3. ASSUME NEW w \in Worker, Handle(w) PROVE Dormant'
  <2>1. task[w].at # "idle" /\ producer' = producer
    BY <1>3 DEF Handle, StartRun, PullReturns, Finish, Refinish, WrapUp, Caught, SelectChunkRun,
                SoftFail, CountChunks, WriteProgress, ReadProgress, CompleteIfDone, Return, Throw
  <2>2. status' = "none" <=> status = "none"
    BY <1>3 DEF Handle, StartRun, PullReturns, Finish, Refinish, WrapUp, Caught, SelectChunkRun,
                SoftFail, CountChunks, WriteProgress, ReadProgress, CompleteIfDone, Return, Throw,
                run, MarkFailed
  <2>3. QED
    BY <2>1, <2>2 DEF Dormant
<1>4. ASSUME NEW w \in Worker, Fail(w) PROVE Dormant'
  BY <1>4 DEF Dormant, Fail, StartFails, PullThrows, FinishFails, HandlerThrows, Crash, run
<1>5. ASSUME NEW c \in Chunk, LoseLock(c) \/ RecoverStalled(c) PROVE Dormant'
  BY <1>5 DEF Dormant, LoseLock, RecoverStalled, run
<1>6. CASE Stopped \/ UNCHANGED vars
  BY <1>6 DEF Dormant, Stopped, vars, run, queue
<1>7. QED
  BY <1>1, <1>2, <1>3, <1>4, <1>5, <1>6 DEF Next

\* SetRow changes no other entry and adds none.
LEMMA SetRowEffect ==
  ASSUME TypeOK, NEW w \in Worker, NEW s \in RowStatus, SetRow(w, s),
         NEW c \in Chunk, NEW i \in DOMAIN rows'[c]
  PROVE  /\ i \in DOMAIN rows[c]
         /\ \/ rows'[c][i] = rows[c][i]
            \/ c = task[w].chunk /\ rows'[c][i] = s
<1>1. task[w].chunk \in Chunk
  BY DEF TypeOK, Task
<1>2. CASE c = task[w].chunk
  <2>1. rows'[c] = [rows[c] EXCEPT ![task[w].row] = s]
    BY <1>1, <1>2 DEF SetRow, TypeOK
  <2>2. QED
    BY <1>2, <2>1
<1>3. CASE c # task[w].chunk
  BY <1>1, <1>3 DEF SetRow, TypeOK
<1>4. QED
  BY <1>2, <1>3

\* A row says success or skipped only for a chunk that is stored.
LEMMA RowsAreBackedStep ==
  TypeOK /\ RowsAreBacked /\ FinishIsBacked /\ [Next]_vars => RowsAreBacked'
<1> SUFFICES ASSUME TypeOK, RowsAreBacked, FinishIsBacked, [Next]_vars,
                    NEW c \in Chunk, NEW i \in DOMAIN rows'[c],
                    rows'[c][i] \in {"success", "skipped"}
             PROVE  c \in stored'
  BY DEF RowsAreBacked
<1>1. CASE rows' = rows
  BY <1>1, StoredGrows DEF RowsAreBacked
<1>2. ASSUME NEW w \in Worker, StartRun(w) PROVE c \in stored'
  <2> DEFINE d == task[w].chunk
  <2>1. d \in Chunk /\ rows[d] \in Seq(RowStatus)
    BY DEF TypeOK, Task
  <2>2. CASE c = d
    <3>1. rows'[c] = Append(rows[c], "running")
      BY <1>2, <2>1, <2>2 DEF StartRun, TypeOK
    <3>2. i \in 1 .. Len(rows[c]) + 1 /\ DOMAIN rows[c] = 1 .. Len(rows[c])
      BY <2>1, <2>2, <3>1, AppendProperties, LenProperties DEF RowStatus
    <3>3. i \in DOMAIN rows[c] /\ rows'[c][i] = rows[c][i]
      BY <2>1, <2>2, <3>1, <3>2, AppendProperties DEF RowStatus
    <3>4. QED
      BY <3>3, StoredGrows DEF RowsAreBacked
  <2>3. CASE c # d
    BY <1>2, <2>1, <2>3, StoredGrows DEF StartRun, TypeOK, RowsAreBacked
  <2>4. QED
    BY <2>2, <2>3
<1>3. ASSUME NEW w \in Worker, task[w].at = "finish", SetRow(w, FinalStatus(task[w].outcome))
      PROVE  c \in stored'
  <2>1. task[w].outcome \in Outcome
    BY DEF TypeOK, Task
  <2>2. \/ i \in DOMAIN rows[c] /\ rows'[c][i] = rows[c][i]
        \/ c = task[w].chunk /\ rows'[c][i] = FinalStatus(task[w].outcome)
    BY <1>3, <2>1, FinalStatusType, SetRowEffect
  <2>3. FinalStatus(task[w].outcome) \in {"success", "skipped"}
          => task[w].outcome \in {"success", "skipped"}
    BY <2>1 DEF FinalStatus, Outcome
  <2>4. QED
    BY <1>3, <2>2, <2>3, StoredGrows DEF RowsAreBacked, FinishIsBacked
<1>4. ASSUME NEW w \in Worker, SetRow(w, "failed") PROVE c \in stored'
  <2>1. i \in DOMAIN rows[c] /\ rows'[c][i] = rows[c][i]
    BY <1>4, SetRowEffect DEF RowStatus
  <2>2. QED
    BY <2>1, StoredGrows DEF RowsAreBacked
<1>5. ASSUME NEW w \in Worker, Handle(w) PROVE c \in stored'
  <2>1. CASE StartRun(w)
    BY <1>2, <2>1
  <2>2. CASE Finish(w) \/ Refinish(w)
    BY <1>1, <1>3, <1>4, <2>2 DEF Finish, Refinish
  <2>3. CASE ~(StartRun(w) \/ Finish(w) \/ Refinish(w))
    BY <1>1, <1>5, <2>3
    DEF Handle, PullReturns, WrapUp, Caught, SelectChunkRun, SoftFail, CountChunks,
        WriteProgress, ReadProgress, CompleteIfDone, Return, Throw
  <2>4. QED
    BY <2>1, <2>2, <2>3
<1>6. ASSUME NEW w \in Worker, Fail(w) PROVE c \in stored'
  <2>1. CASE FinishFails(w)
    BY <1>1, <1>3, <2>1 DEF FinishFails
  <2>2. CASE ~FinishFails(w)
    BY <1>1, <1>6, <2>2 DEF Fail, StartFails, PullThrows, HandlerThrows, Crash
  <2>3. QED
    BY <2>1, <2>2
<1>7. ASSUME NEW w \in Worker, NEW d \in Chunk, Deliver(w, d) PROVE c \in stored'
  BY <1>1, <1>7 DEF Deliver
<1>8. ASSUME NEW d \in Chunk, LoseLock(d) \/ RecoverStalled(d) PROVE c \in stored'
  BY <1>1, <1>8 DEF LoseLock, RecoverStalled
<1>9. CASE Produce \/ ProducerDies \/ Stopped \/ UNCHANGED vars
  BY <1>1, <1>9 DEF Produce, InsertRun, AddChunk, Respond, ProducerDies, Stopped, vars
<1>10. QED
  BY <1>5, <1>6, <1>7, <1>8, <1>9 DEF Next

\* A task that is about to finish or to write a count was so before the step,
\* or its pull has just returned, or it has just counted.
LEMMA PendingOrigin ==
  ASSUME TypeOK, [Next]_vars, NEW w \in Worker, task'[w].at \in {"finish", "write"}
  PROVE  \/ task'[w] = task[w]
         \/ \E o \in PullOutcomes : PullReturns(w, o)
         \/ CountChunks(w)
<1> DEFINE Goal == \/ task'[w] = task[w]
                   \/ \E o \in PullOutcomes : PullReturns(w, o)
                   \/ CountChunks(w)
<1>1. ASSUME NEW v \in Worker, NEW s \in Step \ {"finish", "write"},
             GoTo(v, s) \/ LeaveFor(v, s)
      PROVE  Goal
  BY <1>1 DEF GoTo, LeaveFor, TypeOK, Task, Idle
<1>2. ASSUME NEW v \in Worker, task' = [task EXCEPT ![v] = Idle] PROVE Goal
  BY <1>2 DEF TypeOK, Idle
<1>3. ASSUME NEW v \in Worker, Handle(v) PROVE Goal
  <2>1. CASE StartRun(v)
    BY <2>1 DEF StartRun, TypeOK, Task
  <2>2. CASE \E o \in PullOutcomes : PullReturns(v, o)
    BY <2>2 DEF PullReturns, TypeOK, Task
  <2>3. CASE Finish(v)
    <3>1. task[v].outcome \in Outcome
      BY DEF TypeOK, Task
    <3>2. \E s \in Step \ {"finish", "write"} : LeaveFor(v, s)
      BY <2>3, <3>1 DEF Finish, Outcome, Step
    <3>3. QED
      BY <1>1, <3>2
  <2>4. CASE Refinish(v) \/ WrapUp(v) \/ Caught(v) \/ SelectChunkRun(v) \/ SoftFail(v)
             \/ WriteProgress(v) \/ ReadProgress(v) \/ CompleteIfDone(v)
    <3>1. \E s \in Step \ {"finish", "write"} : GoTo(v, s) \/ LeaveFor(v, s)
      BY <2>4 DEF Refinish, WrapUp, Caught, SelectChunkRun, SoftFail, WriteProgress,
                  ReadProgress, CompleteIfDone, Step
    <3>2. QED
      BY <1>1, <3>1
  <2>5. CASE CountChunks(v)
    BY <2>5 DEF CountChunks, TypeOK, Task
  <2>6. CASE Return(v) \/ Throw(v)
    BY <1>2, <2>6 DEF Return, Throw
  <2>7. QED
    BY <1>3, <2>1, <2>2, <2>3, <2>4, <2>5, <2>6 DEF Handle
<1>4. ASSUME NEW v \in Worker, Fail(v) PROVE Goal
  <2>1. CASE Crash(v)
    BY <1>2, <2>1 DEF Crash
  <2>2. CASE ~Crash(v)
    <3>1. \E s \in Step \ {"finish", "write"} : GoTo(v, s) \/ LeaveFor(v, s)
      BY <1>4, <2>2 DEF Fail, StartFails, PullThrows, FinishFails, HandlerThrows, Step
    <3>2. QED
      BY <1>1, <3>1
  <2>3. QED
    BY <2>1, <2>2
<1>5. ASSUME NEW v \in Worker, NEW c \in Chunk, Deliver(v, c) PROVE Goal
  BY <1>5 DEF Deliver, TypeOK, Idle
<1>6. CASE \/ Produce \/ ProducerDies \/ Stopped \/ UNCHANGED vars
           \/ \E c \in Chunk : LoseLock(c) \/ RecoverStalled(c)
  BY <1>6 DEF Produce, InsertRun, AddChunk, Respond, ProducerDies, Stopped, vars,
              LoseLock, RecoverStalled
<1>7. QED
  BY <1>3, <1>4, <1>5, <1>6 DEF Next

\* A pull that is about to report success or skipped has stored its chunk.
LEMMA FinishIsBackedStep == TypeOK /\ FinishIsBacked /\ [Next]_vars => FinishIsBacked'
<1> SUFFICES ASSUME TypeOK, FinishIsBacked, [Next]_vars, NEW w \in Worker,
                    task'[w].at = "finish", task'[w].outcome \in {"success", "skipped"}
             PROVE  task'[w].chunk \in stored'
  BY DEF FinishIsBacked
<1>1. CASE task'[w] = task[w]
  BY <1>1, StoredGrows DEF FinishIsBacked
<1>2. ASSUME NEW o \in PullOutcomes, PullReturns(w, o) PROVE task'[w].chunk \in stored'
  BY <1>2 DEF PullReturns, TypeOK, Task
<1>3. CASE CountChunks(w)
  BY <1>3 DEF CountChunks, TypeOK, Task
<1>4. QED
  BY <1>1, <1>2, <1>3, PendingOrigin

\* chunks_completed is written by WriteProgress only.
LEMMA CountOrigin ==
  ASSUME [Next]_vars
  PROVE  \/ chunksCompleted' = chunksCompleted
         \/ \E w \in Worker : WriteProgress(w)
<1>1. ASSUME NEW w \in Worker, Handle(w), ~WriteProgress(w)
      PROVE  chunksCompleted' = chunksCompleted
  BY <1>1 DEF Handle, StartRun, PullReturns, Finish, Refinish, WrapUp, Caught, SelectChunkRun,
              SoftFail, CountChunks, ReadProgress, CompleteIfDone, Return, Throw, run
<1>2. ASSUME NEW w \in Worker, Fail(w) PROVE chunksCompleted' = chunksCompleted
  BY <1>2 DEF Fail, StartFails, PullThrows, FinishFails, HandlerThrows, Crash, run
<1>3. CASE \/ Produce \/ ProducerDies \/ Stopped \/ UNCHANGED vars
           \/ \E c \in Chunk : LoseLock(c) \/ RecoverStalled(c)
           \/ \E w \in Worker, c \in Chunk : Deliver(w, c)
  BY <1>3 DEF Produce, InsertRun, AddChunk, Respond, ProducerDies, Stopped, vars,
              LoseLock, RecoverStalled, Deliver, run
<1>4. QED
  BY <1>1, <1>2, <1>3 DEF Next

\* No count, pending or published, exceeds what is stored.
LEMMA CountIsBackedStep ==
  TypeOK /\ TypeOK' /\ RowsAreBacked /\ CountIsBacked /\ [Next]_vars => CountIsBacked'
<1> SUFFICES ASSUME TypeOK, TypeOK', RowsAreBacked, CountIsBacked, [Next]_vars
             PROVE  CountIsBacked'
  OBVIOUS
<1>1. /\ Cardinality(stored) \in Nat /\ Cardinality(stored') \in Nat
      /\ Cardinality(stored) <= Cardinality(stored')
  BY StoredGrows, ChunkCountMonotone, ChunkCardinality DEF TypeOK
<1>2. chunksCompleted' <= Cardinality(stored')
  <2>1. CASE chunksCompleted' = chunksCompleted
    BY <1>1, <2>1 DEF CountIsBacked, TypeOK
  <2>2. ASSUME NEW w \in Worker, WriteProgress(w) PROVE chunksCompleted' <= Cardinality(stored')
    <3>1. chunksCompleted' = task[w].count /\ task[w].count <= Cardinality(stored)
      BY <2>2 DEF WriteProgress, CountIsBacked
    <3>2. QED
      BY <1>1, <3>1 DEF TypeOK
  <2>3. QED
    BY <2>1, <2>2, CountOrigin
<1>3. ASSUME NEW w \in Worker, task'[w].at = "write"
      PROVE  task'[w].count <= Cardinality(stored')
  <2>1. CASE task'[w] = task[w]
    <3>1. task[w].count <= Cardinality(stored) /\ task[w].count \in Nat
      BY <1>3, <2>1 DEF CountIsBacked, TypeOK, Task
    <3>2. QED
      BY <1>1, <2>1, <3>1
  <2>2. CASE CountChunks(w)
    <3> DEFINE S == {c \in Chunk : Counted(c)}
    <3>1. S \subseteq stored
      BY DEF RowsAreBacked, Counted
    <3>2. Cardinality(S) <= Cardinality(stored) /\ Cardinality(S) \in Nat
      BY <3>1, ChunkCountMonotone, ChunkCardinality DEF TypeOK
    <3>3. task'[w].count = Cardinality(S)
      BY <2>2 DEF CountChunks, TypeOK, Task
    <3>4. QED
      BY <1>1, <3>2, <3>3
  <2>3. ASSUME NEW o \in PullOutcomes, PullReturns(w, o) PROVE FALSE
    BY <1>3, <2>3 DEF PullReturns, TypeOK, Task
  <2>4. QED
    BY <1>3, <2>1, <2>2, <2>3, PendingOrigin
<1>4. QED
  BY <1>2, <1>3 DEF CountIsBacked

-----------------------------------------------------------------------------
\* Chunks are stored by returning pulls only.
LEMMA StoredOrigin ==
  ASSUME [Next]_vars
  PROVE  \/ stored' = stored
         \/ \E w \in Worker : \E o \in PullOutcomes : PullReturns(w, o)
<1>1. ASSUME NEW w \in Worker, Handle(w), ~\E o \in PullOutcomes : PullReturns(w, o)
      PROVE  stored' = stored
  BY <1>1 DEF Handle, StartRun, Finish, Refinish, WrapUp, Caught, SelectChunkRun,
              SoftFail, CountChunks, WriteProgress, ReadProgress, CompleteIfDone, Return, Throw
<1>2. ASSUME NEW w \in Worker, Fail(w) PROVE stored' = stored
  BY <1>2 DEF Fail, StartFails, PullThrows, FinishFails, HandlerThrows, Crash
<1>3. CASE \/ Produce \/ ProducerDies \/ Stopped \/ UNCHANGED vars
           \/ \E c \in Chunk : LoseLock(c) \/ RecoverStalled(c)
           \/ \E w \in Worker, c \in Chunk : Deliver(w, c)
  BY <1>3 DEF Produce, InsertRun, AddChunk, Respond, ProducerDies, Stopped, vars,
              LoseLock, RecoverStalled, Deliver
<1>4. QED
  BY <1>1, <1>2, <1>3 DEF Next

\* How the verdict may move in one step.
LEMMA StatusStep ==
  ASSUME TypeOK, CountIsBacked, [Next]_vars
  PROVE  \/ status' = status
         \/ InsertRun
         \/ status = "running" /\ status' = "failed" /\ stored' = stored
         \/ status = "running" /\ status' = "completed" /\ stored' = stored /\ stored = Chunk
<1> DEFINE Goal == \/ status' = status
                   \/ InsertRun
                   \/ status = "running" /\ status' = "failed" /\ stored' = stored
                   \/ /\ status = "running" /\ status' = "completed"
                      /\ stored' = stored /\ stored = Chunk
<1>1. ASSUME NEW w \in Worker, Handle(w) PROVE Goal
  <2>1. CASE Caught(w) \/ SoftFail(w)
    BY <2>1 DEF Caught, SoftFail, MarkFailed
  <2>2. CASE CompleteIfDone(w)
    <3>1. CASE status = "running" /\ chunksCompleted >= ChunksTotal
      <4>1. /\ stored \in SUBSET Chunk /\ Cardinality(stored) \in Nat
            /\ Cardinality(stored) <= ChunksTotal
        BY ChunkCardinality DEF TypeOK
      <4>2. Cardinality(stored) = ChunksTotal
        BY <3>1, <4>1, ConstantsAssumption DEF CountIsBacked, TypeOK
      <4>3. stored = Chunk
        BY <4>1, <4>2, ChunkCardinality
      <4>4. QED
        BY <2>2, <3>1, <4>3 DEF CompleteIfDone
    <3>2. CASE ~(status = "running" /\ chunksCompleted >= ChunksTotal)
      BY <2>2, <3>2 DEF CompleteIfDone
    <3>3. QED
      BY <3>1, <3>2
  <2>3. CASE ~(Caught(w) \/ SoftFail(w) \/ CompleteIfDone(w))
    BY <1>1, <2>3
    DEF Handle, StartRun, PullReturns, Finish, Refinish, WrapUp, SelectChunkRun, CountChunks,
        WriteProgress, ReadProgress, Return, Throw, run
  <2>4. QED
    BY <2>1, <2>2, <2>3
<1>2. ASSUME NEW w \in Worker, Fail(w) PROVE Goal
  BY <1>2 DEF Fail, StartFails, PullThrows, FinishFails, HandlerThrows, Crash, run
<1>3. CASE \/ Produce \/ ProducerDies \/ Stopped \/ UNCHANGED vars
           \/ \E c \in Chunk : LoseLock(c) \/ RecoverStalled(c)
           \/ \E w \in Worker, c \in Chunk : Deliver(w, c)
  BY <1>3 DEF Produce, AddChunk, Respond, ProducerDies, Stopped, vars,
              LoseLock, RecoverStalled, Deliver, run
<1>4. QED
  BY <1>1, <1>2, <1>3 DEF Next

\* Accounting is inductive.
LEMMA AccountingStep == Accounting /\ [Next]_vars => Accounting'
<1> SUFFICES ASSUME Accounting, [Next]_vars PROVE Accounting'
  OBVIOUS
<1> USE DEF Accounting
<1>1. TypeOK' /\ Dormant' /\ RowsAreBacked' /\ FinishIsBacked'
  BY TypeStep, DormantStep, RowsAreBackedStep, FinishIsBackedStep
<1>2. CountIsBacked'
  BY <1>1, CountIsBackedStep
<1>3. CompletedIsStored'
  <2>1. stored \subseteq stored' /\ stored' \subseteq Chunk
    BY <1>1, StoredGrows DEF TypeOK
  <2>2. CASE status' = status
    BY <2>1, <2>2 DEF CompletedIsStored
  <2>3. CASE InsertRun
    BY <2>3 DEF InsertRun, CompletedIsStored
  <2>4. QED
    BY <2>2, <2>3, StatusStep DEF CompletedIsStored
<1>4. QED
  BY <1>1, <1>2, <1>3

LEMMA AccountingInit == Init => Accounting
<1> SUFFICES ASSUME Init PROVE Accounting
  OBVIOUS
<1>1. TypeOK
  BY ConstantsAssumption, IdleType DEF Init, TypeOK, RunStatus, JobState, Chunk
<1>2. Dormant /\ RowsAreBacked /\ FinishIsBacked /\ CompletedIsStored
  BY DEF Init, Idle, Dormant, RowsAreBacked, FinishIsBacked, CompletedIsStored
<1>3. CountIsBacked
  BY FS_EmptySet DEF Init, Idle, CountIsBacked
<1>4. QED
  BY <1>1, <1>2, <1>3 DEF Accounting

\* No row, finish or count of recomputeProgress ever claims more than the
\* database holds, whatever fails, in whatever order.
THEOREM AccountsAreSound == Spec => []Accounting
BY AccountingInit, AccountingStep, PTL DEF Spec

\* A run that says "completed" has every chunk in the database, for any
\* number of chunks and workers and under every fault of the model.
THEOREM CompletionIsSound == Spec => []CompletedIsStored
<1>1. Accounting => CompletedIsStored
  BY DEF Accounting
<1>2. QED
  BY <1>1, AccountsAreSound, PTL

\* No handler, however late, rewrites a verdict.
THEOREM VerdictIsFinal == Spec => TerminalIsFinal
<1>1. Accounting /\ [Next]_vars
        => [(status \in {"completed", "failed"}) => (status' = status)]_status
  <2> SUFFICES ASSUME Accounting, [Next]_vars, status \in {"completed", "failed"}
               PROVE  status' = status
    OBVIOUS
  <2>1. ~InsertRun
    BY DEF InsertRun, Accounting, Dormant
  <2>2. QED
    BY <2>1, StatusStep DEF Accounting
<1>2. QED
  BY <1>1, AccountsAreSound, PTL DEF Spec, TerminalIsFinal

\* The queue, the handlers and the repository together implement the promise.
THEOREM PromiseKept == Spec => KeepsPromise
<1>1. Init => Promise!Init
  BY DEF Init, Promise!Init
<1>2. Accounting /\ Accounting' /\ [Next]_vars => [Promise!Next]_(Promise!vars)
  <2> SUFFICES ASSUME Accounting, Accounting', [Next]_vars
               PROVE  Promise!Next \/ UNCHANGED <<status, stored>>
    BY DEF Promise!vars
  <2>1. CASE InsertRun
    BY <2>1 DEF InsertRun, Accounting, Dormant, Promise!Next, Promise!Start
  <2>2. CASE status = "running" /\ status' = "failed" /\ stored' = stored
    BY <2>2 DEF Promise!Next, Promise!GiveUp
  <2>3. CASE /\ status = "running" /\ status' = "completed"
             /\ stored' = stored /\ stored = Chunk
    BY <2>3 DEF Promise!Next, Promise!Complete
  <2>4. CASE status' = status
    <3>1. ASSUME NEW w \in Worker, NEW o \in PullOutcomes, PullReturns(w, o)
          PROVE  Promise!Next \/ UNCHANGED <<status, stored>>
      <4>1. status # "none" /\ task[w].chunk \in Chunk
        BY <3>1 DEF PullReturns, Accounting, Dormant, TypeOK, Task
      <4>2. stored' = stored \/ Promise!Store(task[w].chunk)
        BY <2>4, <3>1, <4>1 DEF PullReturns, Promise!Store
      <4>3. QED
        BY <2>4, <4>1, <4>2 DEF Promise!Next
    <3>2. CASE ~\E w \in Worker : \E o \in PullOutcomes : PullReturns(w, o)
      <4>1. stored' = stored
        BY <3>2, StoredOrigin
      <4>2. QED
        BY <2>4, <4>1
    <3>3. QED
      BY <3>1, <3>2
  <2>5. QED
    BY <2>1, <2>2, <2>3, <2>4, StatusStep DEF Accounting
<1>3. QED
  BY <1>1, <1>2, AccountsAreSound, PTL DEF Spec, KeepsPromise, Promise!Spec

-----------------------------------------------------------------------------
(***************************************************************************)
(* Where no answer of an UPDATE is lost after its commit, the rows, too,   *)
(* agree with the verdict: an unfinished pull owns its row, which says     *)
(* "running" until finishRun; so no row that counts is ever rewritten.     *)
(***************************************************************************)
AnswersArrive == "lostack" \notin Faults

\* Between runs.start and the end of its finish a pull owns its row.
InHand(w) == task[w].at \in {"pull", "finish", "refinish"}

RowsAreOwned ==
  \A w \in Worker : InHand(w) =>
    /\ task[w].row \in DOMAIN rows[task[w].chunk]
    /\ rows[task[w].chunk][task[w].row] = "running"
    /\ \A v \in Worker \ {w} : InHand(v) =>
         <<task[v].chunk, task[v].row>> # <<task[w].chunk, task[w].row>>

GoodChunks == {c \in Chunk : Counted(c)}

\* No count, pending or published, exceeds the chunks with a good row.
CountIsOfRows ==
  /\ chunksCompleted <= Cardinality(GoodChunks)
  /\ \A w \in Worker : task[w].at = "write" => task[w].count <= Cardinality(GoodChunks)

\* A task in hand after a step was so before, or has just got its row.
LEMMA InHandOrigin ==
  ASSUME TypeOK, [Next]_vars, NEW w \in Worker, InHand(w)'
  PROVE  \/ /\ InHand(w)
            /\ task'[w].chunk = task[w].chunk
            /\ task'[w].row = task[w].row
         \/ StartRun(w)
<1> DEFINE Goal == \/ /\ InHand(w)
                      /\ task'[w].chunk = task[w].chunk
                      /\ task'[w].row = task[w].row
                   \/ StartRun(w)
           Free == Step \ {"pull", "finish", "refinish"}
<1> USE DEF InHand
<1>1. ASSUME NEW v \in Worker, NEW s \in Free, GoTo(v, s) \/ LeaveFor(v, s)
      PROVE  Goal
  BY <1>1 DEF GoTo, LeaveFor, TypeOK, Task, Idle
<1>2. ASSUME NEW v \in Worker, task' = [task EXCEPT ![v] = Idle] PROVE Goal
  BY <1>2 DEF TypeOK, Idle
<1>3. ASSUME NEW v \in Worker, Handle(v) PROVE Goal
  <2>1. CASE StartRun(v)
    BY <2>1 DEF StartRun, TypeOK, Task
  <2>2. CASE \E o \in PullOutcomes : PullReturns(v, o)
    BY <2>2 DEF PullReturns, TypeOK, Task
  <2>3. CASE Finish(v)
    <3>1. task[v].outcome \in Outcome
      BY DEF TypeOK, Task
    <3>2. \E s \in Free : LeaveFor(v, s)
      BY <2>3, <3>1 DEF Finish, Outcome, Step
    <3>3. QED
      BY <1>1, <3>2
  <2>4. CASE Refinish(v) \/ WrapUp(v) \/ Caught(v) \/ SelectChunkRun(v) \/ SoftFail(v)
             \/ WriteProgress(v) \/ ReadProgress(v) \/ CompleteIfDone(v)
    <3>1. \E s \in Free : GoTo(v, s) \/ LeaveFor(v, s)
      BY <2>4 DEF Refinish, WrapUp, Caught, SelectChunkRun, SoftFail, WriteProgress,
                  ReadProgress, CompleteIfDone, Step
    <3>2. QED
      BY <1>1, <3>1
  <2>5. CASE CountChunks(v)
    BY <2>5 DEF CountChunks, TypeOK, Task
  <2>6. CASE Return(v) \/ Throw(v)
    BY <1>2, <2>6 DEF Return, Throw
  <2>7. QED
    BY <1>3, <2>1, <2>2, <2>3, <2>4, <2>5, <2>6 DEF Handle
<1>4. ASSUME NEW v \in Worker, Fail(v) PROVE Goal
  <2>1. CASE Crash(v)
    BY <1>2, <2>1 DEF Crash
  <2>2. CASE PullThrows(v) \/ FinishFails(v)
    <3>1. InHand(v) /\ GoTo(v, "refinish")
      BY <2>2 DEF PullThrows, FinishFails
    <3>2. task' = [task EXCEPT ![v] = [@ EXCEPT !.at = "refinish"]] /\ task[w] \in Task
      BY <3>1 DEF GoTo, TypeOK
    <3>3. CASE v = w
      BY <3>1, <3>2, <3>3 DEF TypeOK, Task
    <3>4. CASE v # w
      BY <3>2, <3>4 DEF TypeOK
    <3>5. QED
      BY <3>3, <3>4
  <2>3. CASE StartFails(v) \/ HandlerThrows(v)
    <3>1. \E s \in Free : LeaveFor(v, s)
      BY <2>3 DEF StartFails, HandlerThrows, Step
    <3>2. QED
      BY <1>1, <3>1
  <2>4. QED
    BY <1>4, <2>1, <2>2, <2>3 DEF Fail
<1>5. ASSUME NEW v \in Worker, NEW c \in Chunk, Deliver(v, c) PROVE Goal
  BY <1>5 DEF Deliver, TypeOK, Idle
<1>6. CASE \/ Produce \/ ProducerDies \/ Stopped \/ UNCHANGED vars
           \/ \E c \in Chunk : LoseLock(c) \/ RecoverStalled(c)
  BY <1>6 DEF Produce, InsertRun, AddChunk, Respond, ProducerDies, Stopped, vars,
              LoseLock, RecoverStalled
<1>7. QED
  BY <1>3, <1>4, <1>5, <1>6 DEF Next

\* The rows change when a pull starts or when it lets its own row go.
LEMMA RowsOrigin ==
  ASSUME AnswersArrive, TypeOK, [Next]_vars
  PROVE  \/ rows' = rows
         \/ \E w \in Worker : StartRun(w)
         \/ \E w \in Worker, s \in RowStatus :
              InHand(w) /\ SetRow(w, s) /\ ~InHand(w)'
<1> DEFINE Goal == \/ rows' = rows
                   \/ \E w \in Worker : StartRun(w)
                   \/ \E w \in Worker, s \in RowStatus :
                        InHand(w) /\ SetRow(w, s) /\ ~InHand(w)'
<1>1. ASSUME NEW w \in Worker, Finish(w) PROVE Goal
  <2>1. task[w].outcome \in Outcome
    BY DEF TypeOK, Task
  <2>2. InHand(w) /\ SetRow(w, FinalStatus(task[w].outcome))
    BY <1>1 DEF Finish, InHand
  <2>3. ~InHand(w)'
    BY <1>1, <2>1 DEF Finish, InHand, LeaveFor, Outcome, Idle, TypeOK
  <2>4. QED
    BY <2>1, <2>2, <2>3, FinalStatusType
<1>2. ASSUME NEW w \in Worker, Refinish(w) PROVE Goal
  <2>1. InHand(w) /\ ~InHand(w)'
    BY <1>2 DEF Refinish, InHand, LeaveFor, Idle, TypeOK
  <2>2. QED
    BY <1>2, <2>1 DEF Refinish, RowStatus
<1>3. ASSUME NEW w \in Worker, Handle(w), ~Finish(w), ~Refinish(w) PROVE Goal
  BY <1>3 DEF Handle, PullReturns, WrapUp, Caught, SelectChunkRun, SoftFail, CountChunks,
              WriteProgress, ReadProgress, CompleteIfDone, Return, Throw
<1>4. ASSUME NEW w \in Worker, Fail(w) PROVE rows' = rows
  BY <1>4 DEF Fail, StartFails, PullThrows, FinishFails, HandlerThrows, Crash, AnswersArrive
<1>5. CASE \/ Produce \/ ProducerDies \/ Stopped \/ UNCHANGED vars
           \/ \E c \in Chunk : LoseLock(c) \/ RecoverStalled(c)
           \/ \E w \in Worker, c \in Chunk : Deliver(w, c)
  BY <1>5 DEF Produce, InsertRun, AddChunk, Respond, ProducerDies, Stopped, vars,
              LoseLock, RecoverStalled, Deliver
<1>6. QED
  BY <1>1, <1>2, <1>3, <1>4, <1>5 DEF Next

\* A new row is the youngest of its chunk and nobody else's.
LEMMA RowsAreOwnedStep ==
  ASSUME AnswersArrive, TypeOK, TypeOK', RowsAreOwned, [Next]_vars
  PROVE  RowsAreOwned'
<1> SUFFICES ASSUME NEW w \in Worker, InHand(w)'
             PROVE  /\ task'[w].row \in DOMAIN rows'[task'[w].chunk]
                    /\ rows'[task'[w].chunk][task'[w].row] = "running"
                    /\ \A v \in Worker \ {w} : InHand(v)' =>
                         <<task'[v].chunk, task'[v].row>> # <<task'[w].chunk, task'[w].row>>
  BY DEF RowsAreOwned
<1> DEFINE Kept(v) == /\ InHand(v)
                      /\ task'[v].chunk = task[v].chunk
                      /\ task'[v].row = task[v].row
<1>1. \A v \in Worker : InHand(v)' => Kept(v) \/ StartRun(v)
  BY InHandOrigin
<1>2. \A v \in Worker : task[v].chunk \in Chunk /\ rows[task[v].chunk] \in Seq(RowStatus)
  BY DEF TypeOK, Task
<1>3. CASE \E u \in Worker : StartRun(u)
  <2>1. PICK u \in Worker : StartRun(u)
    BY <1>3
  <2> DEFINE d == task[u].chunk
  <2>2. /\ rows' = [rows EXCEPT ![d] = Append(@, "running")]
        /\ task'[u].chunk = d /\ task'[u].row = Len(rows[d]) + 1
        /\ \A v \in Worker \ {u} : task'[v] = task[v]
        /\ ~InHand(u)
    BY <2>1 DEF StartRun, TypeOK, Task, InHand
  <2>3. /\ DOMAIN rows[d] = 1 .. Len(rows[d]) /\ Len(rows[d]) \in Nat
        /\ rows'[d] = Append(rows[d], "running")
        /\ DOMAIN rows'[d] = 1 .. Len(rows[d]) + 1
        /\ rows'[d][Len(rows[d]) + 1] = "running"
        /\ \A i \in DOMAIN rows[d] : rows'[d][i] = rows[d][i]
    BY <1>2, <2>2, AppendProperties, LenProperties DEF RowStatus, TypeOK
  <2>4. \A v \in Worker \ {u} : InHand(v)' => Kept(v)
    BY <2>2 DEF InHand
  <2>5. CASE w = u
    <3>1. ASSUME NEW v \in Worker \ {w}, InHand(v)'
          PROVE  <<task'[v].chunk, task'[v].row>> # <<task'[w].chunk, task'[w].row>>
      <4>1. task[v].row \in DOMAIN rows[task[v].chunk]
        BY <2>4, <2>5, <3>1 DEF RowsAreOwned
      <4>2. CASE task[v].chunk = d
        BY <2>2, <2>3, <2>4, <2>5, <3>1, <4>1, <4>2
      <4>3. CASE task[v].chunk # d
        BY <2>2, <2>4, <2>5, <3>1, <4>3
      <4>4. QED
        BY <4>2, <4>3
    <3>2. task'[w].row \in 1 .. Len(rows[d]) + 1
      BY <2>2, <2>3, <2>5
    <3>3. QED
      BY <2>2, <2>3, <2>5, <3>1, <3>2
  <2>6. CASE w # u
    <3>1. Kept(w)
      BY <2>4, <2>6
    <3>2. /\ task[w].row \in DOMAIN rows[task[w].chunk]
          /\ rows[task[w].chunk][task[w].row] = "running"
      BY <3>1 DEF RowsAreOwned
    <3>3. /\ task'[w].row \in DOMAIN rows'[task'[w].chunk]
          /\ rows'[task'[w].chunk][task'[w].row] = "running"
      <4>1. CASE task[w].chunk = d
        BY <2>3, <3>1, <3>2, <4>1
      <4>2. CASE task[w].chunk # d
        <5>1. rows'[task[w].chunk] = rows[task[w].chunk]
          BY <1>2, <2>2, <4>2 DEF TypeOK
        <5>2. QED
          BY <3>1, <3>2, <5>1
      <4>3. QED
        BY <4>1, <4>2
    <3>4. ASSUME NEW v \in Worker \ {w}, InHand(v)'
          PROVE  <<task'[v].chunk, task'[v].row>> # <<task'[w].chunk, task'[w].row>>
      <4>1. CASE v = u
        BY <2>2, <2>3, <3>1, <3>2, <4>1
      <4>2. CASE v # u
        BY <2>4, <3>1, <3>4, <4>2 DEF RowsAreOwned
      <4>3. QED
        BY <4>1, <4>2
    <3>5. QED
      BY <3>3, <3>4
  <2>7. QED
    BY <2>5, <2>6
<1>4. CASE ~\E u \in Worker : StartRun(u)
  <2>1. \A v \in Worker : InHand(v)' => Kept(v)
    BY <1>1, <1>4
  <2>2. /\ task[w].row \in DOMAIN rows[task[w].chunk]
        /\ rows[task[w].chunk][task[w].row] = "running"
        /\ \A v \in Worker \ {w} : InHand(v)' =>
             <<task'[v].chunk, task'[v].row>> # <<task'[w].chunk, task'[w].row>>
    BY <2>1 DEF RowsAreOwned
  <2>3. /\ task[w].row \in DOMAIN rows'[task[w].chunk]
        /\ rows'[task[w].chunk][task[w].row] = "running"
    <3>1. CASE rows' = rows
      BY <2>2, <3>1
    <3>2. ASSUME NEW u \in Worker, NEW s \in RowStatus, InHand(u), SetRow(u, s), ~InHand(u)'
          PROVE  /\ task[w].row \in DOMAIN rows'[task[w].chunk]
                 /\ rows'[task[w].chunk][task[w].row] = "running"
      <4>1. u # w /\ <<task[u].chunk, task[u].row>> # <<task[w].chunk, task[w].row>>
        BY <2>1, <3>2 DEF RowsAreOwned
      <4> HIDE DEF InHand
      <4>2. rows' = [rows EXCEPT ![task[u].chunk] = [@ EXCEPT ![task[u].row] = s]]
        BY <3>2 DEF SetRow
      <4>3. CASE task[u].chunk = task[w].chunk
        <5>1. task[u].row # task[w].row
          BY <4>1, <4>3
        <5>2. rows'[task[w].chunk] = [rows[task[w].chunk] EXCEPT ![task[u].row] = s]
          BY <1>2, <4>2, <4>3 DEF TypeOK
        <5>3. QED
          BY <2>2, <5>1, <5>2
      <4>4. CASE task[u].chunk # task[w].chunk
        <5>1. rows'[task[w].chunk] = rows[task[w].chunk]
          BY <1>2, <4>2, <4>4 DEF TypeOK
        <5>2. QED
          BY <2>2, <5>1
      <4>5. QED
        BY <4>3, <4>4
    <3>3. QED
      BY <1>4, <3>1, <3>2, RowsOrigin
  <2>4. QED
    BY <2>1, <2>2, <2>3
<1>5. QED
  BY <1>3, <1>4

\* A chunk that counts, counts from then on.
LEMMA GoodChunksGrow ==
  ASSUME AnswersArrive, TypeOK, RowsAreOwned, [Next]_vars
  PROVE  GoodChunks \subseteq GoodChunks'
<1> SUFFICES ASSUME NEW c \in Chunk, NEW i \in DOMAIN rows[c],
                    rows[c][i] \in {"success", "skipped"}
             PROVE  i \in DOMAIN rows'[c] /\ rows'[c][i] = rows[c][i]
  BY DEF GoodChunks, Counted
<1>1. CASE rows' = rows
  BY <1>1
<1>2. ASSUME NEW w \in Worker, StartRun(w)
      PROVE  i \in DOMAIN rows'[c] /\ rows'[c][i] = rows[c][i]
  <2>1. rows[c] \in Seq(RowStatus)
    BY DEF TypeOK
  <2>2. CASE c = task[w].chunk
    <3>1. rows'[c] = Append(rows[c], "running")
      BY <1>2, <2>2 DEF StartRun, TypeOK
    <3>2. QED
      BY <2>1, <3>1, AppendProperties, LenProperties DEF RowStatus
  <2>3. CASE c # task[w].chunk
    BY <1>2, <2>3 DEF StartRun, TypeOK
  <2>4. QED
    BY <2>2, <2>3
<1>3. ASSUME NEW w \in Worker, NEW s \in RowStatus, InHand(w), SetRow(w, s)
      PROVE  i \in DOMAIN rows'[c] /\ rows'[c][i] = rows[c][i]
  <2>1. rows' = [rows EXCEPT ![task[w].chunk] = [@ EXCEPT ![task[w].row] = s]]
    BY <1>3 DEF SetRow
  <2>2. CASE c = task[w].chunk
    <3>1. i # task[w].row
      BY <1>3, <2>2 DEF RowsAreOwned
    <3>2. rows'[c] = [rows[c] EXCEPT ![task[w].row] = s]
      BY <2>1, <2>2 DEF TypeOK
    <3>3. QED
      BY <3>1, <3>2
  <2>3. CASE c # task[w].chunk
    BY <2>1, <2>3 DEF TypeOK
  <2>4. QED
    BY <2>2, <2>3
<1>4. QED
  BY <1>1, <1>2, <1>3, RowsOrigin

LEMMA GoodChunkCount ==
  ASSUME AnswersArrive, TypeOK, RowsAreOwned, [Next]_vars
  PROVE  /\ Cardinality(GoodChunks) \in Nat /\ Cardinality(GoodChunks') \in Nat
         /\ Cardinality(GoodChunks) <= Cardinality(GoodChunks')
<1>1. GoodChunks \in SUBSET Chunk /\ GoodChunks' \in SUBSET Chunk
  BY DEF GoodChunks
<1>2. GoodChunks \in SUBSET GoodChunks'
  BY GoodChunksGrow
<1>3. QED
  BY <1>1, <1>2, ChunkCountMonotone, ChunkCardinality

\* What an inductive step knows before and after.
RowAccounting == Accounting /\ RowsAreOwned /\ CountIsOfRows /\ CompletedIsBacked

LEMMA CountIsOfRowsStep ==
  ASSUME AnswersArrive, TypeOK, TypeOK', RowsAreOwned, CountIsOfRows, [Next]_vars
  PROVE  CountIsOfRows'
<1> DEFINE before == Cardinality(GoodChunks)
           after  == Cardinality(GoodChunks')
<1>1. before \in Nat /\ after \in Nat /\ before <= after
  BY GoodChunkCount
<1> HIDE DEF before, after
<1>2. chunksCompleted' <= after
  <2>1. CASE chunksCompleted' = chunksCompleted
    BY <1>1, <2>1 DEF CountIsOfRows, TypeOK, before
  <2>2. ASSUME NEW w \in Worker, WriteProgress(w) PROVE chunksCompleted' <= after
    <3>1. chunksCompleted' = task[w].count /\ task[w].count <= before
      BY <2>2 DEF WriteProgress, CountIsOfRows, before
    <3>2. QED
      BY <1>1, <3>1 DEF TypeOK
  <2>3. QED
    BY <2>1, <2>2, CountOrigin
<1>3. ASSUME NEW w \in Worker, task'[w].at = "write" PROVE task'[w].count <= after
  <2>1. CASE task'[w] = task[w]
    <3>1. task[w].count <= before /\ task[w].count \in Nat
      BY <1>3, <2>1 DEF CountIsOfRows, TypeOK, Task, before
    <3>2. QED
      BY <1>1, <2>1, <3>1
  <2>2. CASE CountChunks(w)
    <3>1. task'[w].count = before
      BY <2>2 DEF CountChunks, GoodChunks, TypeOK, Task, before
    <3>2. QED
      BY <1>1, <3>1
  <2>3. ASSUME NEW o \in PullOutcomes, PullReturns(w, o) PROVE FALSE
    BY <1>3, <2>3 DEF PullReturns, TypeOK, Task
  <2>4. QED
    BY <1>3, <2>1, <2>2, <2>3, PendingOrigin
<1>4. QED
  BY <1>2, <1>3 DEF CountIsOfRows, after

\* The verdict "completed" is written over a count that is true of the rows.
LEMMA CompletedIsBackedStep ==
  ASSUME AnswersArrive, TypeOK, RowsAreOwned, CountIsOfRows, CompletedIsBacked, [Next]_vars
  PROVE  CompletedIsBacked'
<1>1. GoodChunks \subseteq GoodChunks'
  BY GoodChunksGrow
<1>2. CASE status = "completed"
  <2>1. \A c \in Chunk : c \in GoodChunks
    BY <1>2 DEF CompletedIsBacked, GoodChunks
  <2>2. QED
    BY <1>1, <2>1 DEF CompletedIsBacked, GoodChunks
<1>3. ASSUME NEW w \in Worker, CompleteIfDone(w), status # "completed", status' = "completed"
      PROVE  CompletedIsBacked'
  <2>1. chunksCompleted >= ChunksTotal
    BY <1>3 DEF CompleteIfDone
  <2>2. /\ GoodChunks \in SUBSET Chunk /\ Cardinality(GoodChunks) \in Nat
        /\ Cardinality(GoodChunks) <= ChunksTotal
    BY ChunkCardinality DEF GoodChunks
  <2>3. Cardinality(GoodChunks) = ChunksTotal
    BY <2>1, <2>2, ConstantsAssumption DEF CountIsOfRows, TypeOK
  <2>4. GoodChunks = Chunk
    BY <2>2, <2>3, ChunkCardinality
  <2>5. QED
    BY <1>1, <2>4 DEF CompletedIsBacked, GoodChunks
<1>4. ASSUME NEW w \in Worker, Handle(w), ~CompleteIfDone(w)
      PROVE  status' = status \/ status' = "failed"
  BY <1>4 DEF Handle, StartRun, PullReturns, Finish, Refinish, WrapUp, Caught, SelectChunkRun,
              SoftFail, CountChunks, WriteProgress, ReadProgress, Return, Throw, run, MarkFailed
<1>5. ASSUME NEW w \in Worker, Fail(w) PROVE status' = status
  BY <1>5 DEF Fail, StartFails, PullThrows, FinishFails, HandlerThrows, Crash, run
<1>6. CASE \/ Produce \/ ProducerDies \/ Stopped \/ UNCHANGED vars
           \/ \E c \in Chunk : LoseLock(c) \/ RecoverStalled(c)
           \/ \E w \in Worker, c \in Chunk : Deliver(w, c)
  <2>1. status' = status \/ status' = "running"
    BY <1>6 DEF Produce, InsertRun, AddChunk, Respond, ProducerDies, Stopped, vars,
                LoseLock, RecoverStalled, Deliver, run
  <2>2. QED
    BY <1>2, <2>1 DEF CompletedIsBacked
<1>7. (status' # "completed") => CompletedIsBacked'
  BY DEF CompletedIsBacked
<1>8. QED
  BY <1>2, <1>3, <1>4, <1>5, <1>6, <1>7 DEF Next

LEMMA RowAccountingStep ==
  ASSUME AnswersArrive, RowAccounting, [Next]_vars
  PROVE  RowAccounting'
<1>1. Accounting /\ Accounting' /\ TypeOK /\ TypeOK'
  BY AccountingStep DEF RowAccounting, Accounting
<1>2. QED
  BY <1>1, RowsAreOwnedStep, CountIsOfRowsStep, CompletedIsBackedStep DEF RowAccounting

LEMMA RowAccountingInit == Init => RowAccounting
<1> SUFFICES ASSUME Init PROVE RowAccounting
  OBVIOUS
<1>1. RowsAreOwned /\ CompletedIsBacked
  BY DEF Init, Idle, RowsAreOwned, InHand, CompletedIsBacked
<1>2. CountIsOfRows
  <2>1. Cardinality(GoodChunks) \in Nat
    BY ChunkCardinality DEF GoodChunks
  <2>2. QED
    BY <2>1 DEF Init, Idle, CountIsOfRows
<1>3. QED
  BY <1>1, <1>2, AccountingInit DEF RowAccounting

LEMMA RowAccountingAlways == ASSUME AnswersArrive PROVE Spec => []RowAccounting
<1>1. RowAccounting /\ [Next]_vars => RowAccounting'
  BY RowAccountingStep
<1>2. QED
  BY <1>1, RowAccountingInit, PTL DEF Spec

\* With two handlers of one chunk, stale counts, crashes and lost locks, a
\* completed run still has a good ingestion_run row for every chunk, as long
\* as no UPDATE commits whose answer is lost.
THEOREM CompletionIsBacked == ASSUME AnswersArrive PROVE Spec => []CompletedIsBacked
<1>1. RowAccounting => CompletedIsBacked
  BY DEF RowAccounting
<1>2. QED
  BY <1>1, RowAccountingAlways, PTL

-----------------------------------------------------------------------------
\* A worker on its own: nobody else is between its count and its write.
OneWorker == \A v, w \in Worker : v = w

\* Then the count it is about to write is not below the published one.
CountIsFresh == \A w \in Worker : task[w].at = "write" => task[w].count >= chunksCompleted

LEMMA CountIsFreshStep ==
  ASSUME OneWorker, TypeOK, CountIsOfRows, CountIsFresh, [Next]_vars
  PROVE  CountIsFresh'
<1> SUFFICES ASSUME NEW w \in Worker, task'[w].at = "write"
             PROVE  task'[w].count >= chunksCompleted'
  BY DEF CountIsFresh
<1>1. ASSUME NEW v \in Worker, WriteProgress(v) PROVE FALSE
  <2>1. v = w
    BY DEF OneWorker
  <2>2. QED
    BY <1>1, <2>1 DEF WriteProgress, LeaveFor, Idle, TypeOK
<1>2. chunksCompleted' = chunksCompleted
  BY <1>1, CountOrigin
<1>3. CASE task'[w] = task[w]
  BY <1>2, <1>3 DEF CountIsFresh
<1>4. CASE CountChunks(w)
  <2>1. task'[w].count = Cardinality(GoodChunks)
    BY <1>4 DEF CountChunks, GoodChunks, TypeOK, Task
  <2>2. Cardinality(GoodChunks) \in Nat
    BY ChunkCardinality DEF GoodChunks
  <2>3. QED
    BY <1>2, <2>1, <2>2 DEF CountIsOfRows, TypeOK
<1>5. ASSUME NEW o \in PullOutcomes, PullReturns(w, o) PROVE FALSE
  BY <1>5 DEF PullReturns, TypeOK, Task
<1>6. QED
  BY <1>3, <1>4, <1>5, PendingOrigin

\* A single ingestion worker never lowers the progress shown for a run (of two,
\* one may write the count it took before the other wrote a newer one).
THEOREM ProgressAdvances ==
  ASSUME AnswersArrive, OneWorker PROVE Spec => ProgressNeverRegresses
<1>1. Init => CountIsFresh
  BY DEF Init, Idle, CountIsFresh
<1>2. RowAccounting /\ CountIsFresh /\ [Next]_vars => CountIsFresh'
  BY CountIsFreshStep DEF RowAccounting, Accounting
<1>3. RowAccounting /\ CountIsFresh /\ [Next]_vars
        => [chunksCompleted' >= chunksCompleted]_chunksCompleted
  <2> SUFFICES ASSUME RowAccounting, CountIsFresh, [Next]_vars,
                      chunksCompleted' # chunksCompleted
               PROVE  chunksCompleted' >= chunksCompleted
    OBVIOUS
  <2>1. PICK w \in Worker : WriteProgress(w)
    BY CountOrigin
  <2>2. QED
    BY <2>1 DEF WriteProgress, CountIsFresh
<1>4. QED
  BY <1>1, <1>2, <1>3, RowAccountingAlways, PTL DEF Spec, ProgressNeverRegresses

-----------------------------------------------------------------------------
(***************************************************************************)
(* Nobody leaves a run behind.  As long as some chunk can still be handled *)
(* there is somebody to write the verdict; the worker that settles the     *)
(* last one finds every chunk counted, or has marked the run failed.       *)
(***************************************************************************)
AllCounted == \A c \in Chunk : Counted(c)

\* Its job is not settled by anybody else, and is its own while it holds the lock.
HoldsJob(w) ==
  LET c == task[w].chunk IN
  /\ job[c] \in {"waiting", "active"}
  /\ lock[c] = w => job[c] = "active" /\ task[w].attempt = attemptsMade[c]

\* It writes the newest row of its chunk, and reads it again when it is finished.
WritesLastRow(w) ==
  LET c == task[w].chunk IN
  /\ InHand(w) => rows[c] # <<>> /\ task[w].row = Len(rows[c])
  /\ task[w].at \in {"wrapup", "select"} => rows[c] # <<>> /\ rows[c][Len(rows[c])] # "running"

\* It counts its own chunk, and when that was the last one it sees the total.
CountsItsChunk(w) ==
  /\ task[w].at \in {"count", "write", "progress", "complete"} => Counted(task[w].chunk)
  /\ task[w].at = "write" /\ AllCounted => task[w].count >= ChunksTotal
  /\ task[w].at = "progress" /\ AllCounted => chunksCompleted >= ChunksTotal
  /\ task[w].at = "complete" => chunksCompleted >= ChunksTotal

\* It leaves a running run only when another chunk, or another attempt, is to come.
LeavesMore(w) ==
  /\ task[w].at = "return" /\ status = "running" => Counted(task[w].chunk) /\ ~AllCounted
  /\ task[w].at = "throw" /\ task[w].attempt + 1 >= MaxAttempts => status # "running"

Settles(w) ==
  task[w].at # "idle" => HoldsJob(w) /\ WritesLastRow(w) /\ CountsItsChunk(w) /\ LeavesMore(w)

\* No job fails unnoticed, no chunk is passed over, and a running run has one to come.
JobsGoOn ==
  /\ \A c \in Chunk : job[c] = "active" /\ lock[c] = NoWorker => stalls[c] < MaxStalled
  /\ \A c \in Chunk : job[c] = "none" <=> c >= added
  /\ producer = "done" => added = ChunksTotal
  /\ status = "running" =>
       /\ \A c \in Chunk : job[c] # "failed" /\ (job[c] = "done" => Counted(c))
       /\ \E c \in Chunk : job[c] \in {"none", "waiting", "active"}

Attended == (\A w \in Worker : Settles(w)) /\ JobsGoOn

\* One worker, no failing statement, and a lock lost no oftener than BullMQ forgives.
Steady == OneWorker /\ "db" \notin Faults /\ StallBudget <= MaxStalled

\* A step that leaves the queue alone, reopens no run and takes the good row
\* of no settled chunk leaves the jobs going.
LEMMA JobsStay ==
  ASSUME JobsGoOn, UNCHANGED <<producer, added, job, stalls, lock>>,
         status' = "running" => status = "running",
         \A c \in Chunk : job[c] = "done" /\ Counted(c) => Counted(c)'
  PROVE  JobsGoOn'
BY DEF JobsGoOn

\* Counted speaks of the rows only.
LEMMA CountedStays ==
  ASSUME rows' = rows PROVE AllCounted' = AllCounted /\ \A c \in Chunk : Counted(c)' = Counted(c)
BY DEF AllCounted, Counted

\* The rows of the other chunks are left alone.
LEMMA OtherRows ==
  ASSUME TypeOK, NEW w \in Worker, NEW s, StartRun(w) \/ SetRow(w, s),
         NEW c \in Chunk, c # task[w].chunk
  PROVE  Counted(c)' = Counted(c)
<1>1. rows'[c] = rows[c]
  BY DEF TypeOK, StartRun, SetRow
<1>2. QED
  BY <1>1 DEF Counted

\* The newest row, rewritten.
LEMMA LastRowWritten ==
  ASSUME TypeOK, NEW w \in Worker, NEW s \in RowStatus, SetRow(w, s),
         rows[task[w].chunk] # <<>>, task[w].row = Len(rows[task[w].chunk])
  PROVE  LET c == task[w].chunk IN
         rows'[c] # <<>> /\ Len(rows'[c]) = Len(rows[c]) /\ rows'[c][Len(rows'[c])] = s
<1> DEFINE c == task[w].chunk
           r == [rows[c] EXCEPT ![task[w].row] = s]
<1>1. c \in Chunk /\ rows[c] \in Seq(RowStatus)
  BY DEF TypeOK, Task
<1>2. rows'[c] = r
  BY <1>1 DEF SetRow, TypeOK
<1>3. Len(rows[c]) \in Nat /\ Len(rows[c]) > 0 /\ DOMAIN rows[c] = 1 .. Len(rows[c])
  BY <1>1, EmptySeq, LenProperties
<1>4. r \in Seq(RowStatus) /\ Len(r) = Len(rows[c]) /\ r[Len(rows[c])] = s
  BY <1>1, <1>3, ExceptSeq
<1>5. QED
  BY <1>2, <1>3, <1>4

\* What a task keeps when it moves to another step.
LEMMA TaskMoved ==
  ASSUME TypeOK, NEW w \in Worker, NEW s, GoTo(w, s) \/ LeaveFor(w, s)
  PROVE  /\ task'[w].at = s /\ task'[w].chunk = task[w].chunk /\ task'[w].attempt = task[w].attempt
         /\ GoTo(w, s) => task'[w].row = task[w].row
<1>1. task \in [Worker -> Task] /\ DOMAIN task[w] = {"at", "chunk", "attempt", "row", "outcome", "count"}
  BY DEF TypeOK, Task
<1>2. CASE GoTo(w, s)
  <2>1. task'[w] = [task[w] EXCEPT !.at = s]
    BY <1>1, <1>2 DEF GoTo
  <2>2. QED
    BY <1>1, <2>1
<1>3. CASE LeaveFor(w, s) /\ ~GoTo(w, s)
  <2>1. task'[w] = [Idle EXCEPT !.at = s, !.chunk = task[w].chunk, !.attempt = task[w].attempt]
    BY <1>1, <1>3 DEF LeaveFor
  <2>2. QED
    BY <1>3, <2>1 DEF Idle
<1>4. QED
  BY <1>2, <1>3

\* A step of the pull that leaves the newest row to the next one.
LEMMA AttendedPull ==
  ASSUME Steady, TypeOK, Attended, NEW w \in Worker,
         \/ StartRun(w) \/ \E o \in PullOutcomes : PullReturns(w, o)
         \/ PullThrows(w) \/ StartFails(w)
  PROVE  Settles(w)' /\ JobsGoOn'
<1> DEFINE c == task[w].chunk
<1>1. c \in Chunk /\ rows[c] \in Seq(RowStatus) /\ task[w].at # "idle" /\ HoldsJob(w)
  BY DEF TypeOK, Task, Attended, Settles, StartRun, PullReturns, PullThrows, StartFails
<1>2. CASE StartRun(w)
  <2>1. /\ task'[w].at = "pull" /\ task'[w].chunk = c
        /\ task'[w].attempt = task[w].attempt /\ task'[w].row = Len(rows[c]) + 1
    BY <1>2 DEF StartRun, TypeOK, Task
  <2>2. rows'[c] = Append(rows[c], "running")
    BY <1>1, <1>2 DEF StartRun, TypeOK
  <2>3. rows'[c] # <<>> /\ Len(rows'[c]) = Len(rows[c]) + 1
    BY <1>1, <2>2, AppendProperties DEF RowStatus
  <2>4. Settles(w)'
    BY <1>1, <1>2, <2>1, <2>3
    DEF Settles, HoldsJob, WritesLastRow, InHand, CountsItsChunk, LeavesMore, StartRun, queue
  <2>5. \A d \in Chunk : job[d] = "done" /\ Counted(d) => Counted(d)'
    BY <1>1, <1>2, OtherRows DEF HoldsJob
  <2>6. JobsGoOn'
    BY <1>2, <2>5, JobsStay DEF Attended, StartRun, run, queue
  <2>7. QED
    BY <2>4, <2>6
<1>3. ASSUME NEW o \in PullOutcomes, PullReturns(w, o) PROVE Settles(w)' /\ JobsGoOn'
  <2>1. /\ task'[w].at = "finish" /\ task'[w].chunk = c
        /\ task'[w].attempt = task[w].attempt /\ task'[w].row = task[w].row
    BY <1>3 DEF PullReturns, TypeOK, Task
  <2>2. WritesLastRow(w) /\ InHand(w) /\ rows' = rows
    BY <1>3 DEF Attended, Settles, PullReturns, InHand
  <2>3. Settles(w)'
    BY <1>1, <1>3, <2>1, <2>2
    DEF Settles, HoldsJob, WritesLastRow, InHand, CountsItsChunk, LeavesMore, PullReturns, queue
  <2>4. JobsGoOn'
    BY <1>3, <2>2, CountedStays, JobsStay DEF Attended, PullReturns, run, queue
  <2>5. QED
    BY <2>3, <2>4
<1>4. QED
  BY <1>2, <1>3 DEF Steady, PullThrows, StartFails

\* A step that finishes the row.
LEMMA AttendedFinish ==
  ASSUME Steady, TypeOK, Attended, NEW w \in Worker,
         Finish(w) \/ FinishFails(w) \/ Refinish(w)
  PROVE  Settles(w)' /\ JobsGoOn'
<1> DEFINE c == task[w].chunk
<1>1. c \in Chunk /\ task[w].at # "idle" /\ HoldsJob(w) /\ WritesLastRow(w) /\ InHand(w)
  BY DEF TypeOK, Task, Attended, Settles, Finish, FinishFails, Refinish, InHand
<1>2. PICK s \in RowStatus \ {"running"} : SetRow(w, s)
  <2>1. task[w].outcome \in Outcome
    BY DEF TypeOK, Task
  <2>2. FinalStatus(task[w].outcome) \in RowStatus \ {"running"}
    BY <2>1 DEF FinalStatus, Outcome, RowStatus
  <2>3. QED
    BY <2>2 DEF Finish, FinishFails, Refinish, Steady, RowStatus
<1>3. rows'[c] # <<>> /\ Len(rows'[c]) = Len(rows[c]) /\ rows'[c][Len(rows'[c])] # "running"
  BY <1>1, <1>2, LastRowWritten DEF WritesLastRow
<1>4. PICK at \in {"wrapup", "select", "caught", "refinish"} :
        IF at = "refinish" THEN GoTo(w, at) ELSE LeaveFor(w, at)
  <2>1. task[w].outcome \in Outcome
    BY DEF TypeOK, Task
  <2>2. CASE Finish(w)
    BY <2>1, <2>2 DEF Finish, Outcome
  <2>3. QED
    BY <2>2 DEF FinishFails, Refinish
<1>5. /\ task'[w].at = at /\ task'[w].chunk = c /\ task'[w].attempt = task[w].attempt
      /\ at = "refinish" => task'[w].row = task[w].row
  BY <1>4, TaskMoved
<1>6. UNCHANGED <<producer, added, status, queue>>
  BY DEF Finish, FinishFails, Refinish, run
<1>7. Settles(w)'
  BY <1>1, <1>3, <1>5, <1>6
  DEF Settles, HoldsJob, WritesLastRow, InHand, CountsItsChunk, LeavesMore, queue
<1>8. \A d \in Chunk : job[d] = "done" /\ Counted(d) => Counted(d)'
  BY <1>1, <1>2, OtherRows DEF HoldsJob
<1>9. JobsGoOn'
  BY <1>6, <1>8, JobsStay DEF Attended, queue
<1>10. QED
  BY <1>7, <1>9

\* After the pull: the refresh jobs, the look at the chunk's newest row, and
\* the catch block with its verdict.
LEMMA AttendedVerdict ==
  ASSUME Steady, TypeOK, Attended, NEW w \in Worker,
         WrapUp(w) \/ SelectChunkRun(w) \/ Caught(w) \/ SoftFail(w)
  PROVE  Settles(w)' /\ JobsGoOn'
<1> DEFINE c == task[w].chunk
<1>1. /\ c \in Chunk /\ rows[c] \in Seq(RowStatus)
      /\ task[w].at # "idle" /\ HoldsJob(w) /\ WritesLastRow(w)
  BY DEF TypeOK, Task, Attended, Settles, WrapUp, SelectChunkRun, Caught, SoftFail
<1>2. UNCHANGED <<producer, added, rows, queue>> /\ (status' = "running" => status = "running")
  BY DEF WrapUp, SelectChunkRun, Caught, SoftFail, MarkFailed, run
<1>3. JobsGoOn'
  BY <1>2, CountedStays, JobsStay DEF Attended, queue
<1>4. CASE WrapUp(w)
  <2>1. task'[w].at = "select" /\ task'[w].chunk = c /\ task'[w].attempt = task[w].attempt
    BY <1>4, TaskMoved DEF WrapUp, Steady
  <2>2. QED
    BY <1>1, <1>2, <1>3, <1>4, <2>1
    DEF Settles, HoldsJob, WritesLastRow, InHand, CountsItsChunk, LeavesMore, WrapUp, queue
<1>5. CASE SelectChunkRun(w)
  <2> DEFINE last == rows[c][Len(rows[c])]
  <2>1. rows[c] # <<>> /\ last # "running"
    BY <1>1, <1>5 DEF SelectChunkRun, WritesLastRow
  <2>2. Len(rows[c]) \in DOMAIN rows[c] /\ last \in RowStatus
    BY <1>1, <2>1, EmptySeq, LenProperties
  <2>3. CASE last = "failed"
    <3>1. task'[w].at = "softfail" /\ task'[w].chunk = c /\ task'[w].attempt = task[w].attempt
      BY <1>5, <2>3, TaskMoved DEF SelectChunkRun
    <3>2. QED
      BY <1>1, <1>2, <1>3, <3>1
      DEF Settles, HoldsJob, WritesLastRow, InHand, CountsItsChunk, LeavesMore, queue
  <2>4. CASE last # "failed"
    <3>1. task'[w].at = "count" /\ task'[w].chunk = c /\ task'[w].attempt = task[w].attempt
      BY <1>5, <2>4, TaskMoved DEF SelectChunkRun
    <3>2. last \in {"success", "skipped"}
      BY <2>1, <2>2, <2>4 DEF RowStatus
    <3>3. Counted(c)
      BY <2>2, <3>2 DEF Counted
    <3>4. Counted(c)'
      BY <1>1, <1>2, <3>1, <3>3, CountedStays
    <3>5. QED
      BY <1>1, <1>2, <1>3, <3>1, <3>4
      DEF Settles, HoldsJob, WritesLastRow, InHand, CountsItsChunk, LeavesMore, queue
  <2>5. QED
    BY <2>3, <2>4
<1>6. CASE Caught(w) \/ SoftFail(w)
  <2>1. /\ task'[w].at \in {"return", "throw"} /\ task'[w].chunk = c
        /\ task'[w].attempt = task[w].attempt
        /\ task'[w].at = "return" => SoftFail(w)
        /\ task'[w].at = "throw" => Caught(w)
    BY <1>6, TaskMoved DEF Caught, SoftFail
  <2>2. LeavesMore(w)'
    BY <2>1 DEF LeavesMore, Caught, SoftFail, MarkFailed
  <2>3. QED
    BY <1>1, <1>2, <1>3, <2>1, <2>2
    DEF Settles, HoldsJob, WritesLastRow, InHand, CountsItsChunk, queue
<1>7. QED
  BY <1>4, <1>5, <1>6

\* The count, its write, the read back and the verdict on the whole run.
LEMMA AttendedCount ==
  ASSUME Steady, TypeOK, Attended, NEW w \in Worker,
         CountChunks(w) \/ WriteProgress(w) \/ ReadProgress(w) \/ CompleteIfDone(w)
  PROVE  Settles(w)' /\ JobsGoOn'
<1> DEFINE c == task[w].chunk
<1>1. c \in Chunk /\ task[w].at # "idle" /\ HoldsJob(w) /\ CountsItsChunk(w)
  BY DEF TypeOK, Task, Attended, Settles, CountChunks, WriteProgress, ReadProgress, CompleteIfDone
<1>2. /\ UNCHANGED <<producer, added, rows, queue>> /\ (status' = "running" => status = "running")
      /\ Counted(c)
  BY <1>1 DEF CountChunks, WriteProgress, ReadProgress, CompleteIfDone, run, CountsItsChunk
<1>3. task'[w].chunk = c /\ task'[w].attempt = task[w].attempt
  <2>1. CASE CountChunks(w)
    BY <2>1 DEF CountChunks, TypeOK, Task
  <2>2. CASE ~CountChunks(w)
    BY <2>2, TaskMoved DEF WriteProgress, ReadProgress, CompleteIfDone
  <2>3. QED
    BY <2>1, <2>2
<1>4. JobsGoOn' /\ Counted(c)' /\ AllCounted' = AllCounted
  <2>1. JobsGoOn'
    BY <1>2, CountedStays, JobsStay DEF Attended, queue
  <2>2. QED
    BY <1>1, <1>2, <1>3, <2>1, CountedStays
<1>5. HoldsJob(w)'
  BY <1>1, <1>2, <1>3 DEF HoldsJob, queue
<1>6. CASE CountChunks(w)
  <2>1. task'[w].at = "write" /\ task'[w].count = Cardinality(GoodChunks)
    BY <1>6 DEF CountChunks, GoodChunks, TypeOK, Task
  <2>2. AllCounted => Cardinality(GoodChunks) >= ChunksTotal
    <3>1. AllCounted => GoodChunks = Chunk
      BY DEF AllCounted, GoodChunks
    <3>2. QED
      BY <3>1, ChunkCardinality, ConstantsAssumption
  <2>3. QED
    BY <1>3, <1>4, <1>5, <2>1, <2>2
    DEF Settles, WritesLastRow, InHand, CountsItsChunk, LeavesMore
<1>7. CASE WriteProgress(w)
  <2>1. task'[w].at = "progress" /\ chunksCompleted' = task[w].count /\ task[w].at = "write"
    BY <1>7, TaskMoved DEF WriteProgress
  <2>2. AllCounted => task[w].count >= ChunksTotal
    BY <1>1, <2>1 DEF CountsItsChunk
  <2>3. QED
    BY <1>3, <1>4, <1>5, <2>1, <2>2
    DEF Settles, WritesLastRow, InHand, CountsItsChunk, LeavesMore
<1>8. CASE ReadProgress(w)
  <2>1. /\ task'[w].at = IF chunksCompleted >= ChunksTotal THEN "complete" ELSE "return"
        /\ UNCHANGED run /\ task[w].at = "progress"
    BY <1>8, TaskMoved DEF ReadProgress
  <2>2. AllCounted => chunksCompleted >= ChunksTotal
    BY <1>1, <2>1 DEF CountsItsChunk
  <2>3. QED
    BY <1>3, <1>4, <1>5, <2>1, <2>2
    DEF Settles, WritesLastRow, InHand, CountsItsChunk, LeavesMore, run
<1>9. CASE CompleteIfDone(w)
  <2>1. task'[w].at = "return" /\ task[w].at = "complete"
    BY <1>9, TaskMoved DEF CompleteIfDone
  <2>2. status' # "running"
    BY <1>1, <1>9, <2>1 DEF CompleteIfDone, CountsItsChunk
  <2>3. QED
    BY <1>3, <1>4, <1>5, <2>1, <2>2
    DEF Settles, WritesLastRow, InHand, CountsItsChunk, LeavesMore
<1>10. QED
  BY <1>6, <1>7, <1>8, <1>9

\* The job settled: with no verdict there is another chunk, or another attempt.
LEMMA AttendedSettle ==
  ASSUME Steady, TypeOK, Attended, NEW w \in Worker, Return(w) \/ Throw(w)
  PROVE  Settles(w)' /\ JobsGoOn'
<1> DEFINE c == task[w].chunk
<1>1. c \in Chunk /\ task[w].at # "idle" /\ HoldsJob(w) /\ LeavesMore(w) /\ JobsGoOn
  BY DEF TypeOK, Task, Attended, Settles, Return, Throw
<1>2. UNCHANGED <<producer, added, status, rows, stalls>>
  BY DEF Return, Throw, run
<1>3. Settles(w)'
  BY DEF Return, Throw, TypeOK, Idle, Settles
<1>4. NoWorker # w /\ NoWorker \notin Worker
  BY ConstantsAssumption
<1>5. CASE lock[c] # w
  <2>1. job' = job /\ lock' = lock
    <3>1. CASE Return(w)
      BY <1>1, <1>5, <3>1 DEF Return, TypeOK
    <3>2. CASE Throw(w)
      BY <1>5, <3>2 DEF Throw
    <3>3. QED
      BY <3>1, <3>2
  <2>2. QED
    BY <1>1, <1>2, <1>3, <2>1, CountedStays, JobsStay
<1>6. CASE lock[c] = w
  <2>1. job[c] = "active" /\ task[w].attempt = attemptsMade[c]
    BY <1>1, <1>6 DEF HoldsJob
  <2>2. /\ job'[c] # "active" /\ job'[c] # "none"
        /\ \A d \in Chunk \ {c} : job'[d] = job[d] /\ lock'[d] = lock[d]
    BY <1>1, <1>6, <2>1 DEF Return, Throw, TypeOK
  <2>3. \A d \in Chunk : Counted(d)' = Counted(d)
    BY <1>2, CountedStays
  <2>4. ASSUME status = "running"
        PROVE  /\ job'[c] # "failed" /\ (job'[c] = "done" => Counted(c))
               /\ \E d \in Chunk : job'[d] \in {"none", "waiting", "active"}
    <3>1. CASE Return(w)
      <4>1. job'[c] = "done" /\ Counted(c) /\ ~AllCounted
        BY <1>1, <1>6, <2>4, <3>1 DEF Return, TypeOK, LeavesMore
      <4>2. PICK d \in Chunk : ~Counted(d)
        BY <4>1 DEF AllCounted
      <4>3. d # c /\ job[d] \notin {"failed", "done"} /\ job[d] \in JobState
        BY <1>1, <2>4, <4>1, <4>2 DEF JobsGoOn, TypeOK
      <4>4. job'[d] \in {"none", "waiting", "active"}
        BY <2>2, <4>3 DEF JobState
      <4>5. QED
        BY <4>1, <4>4
    <3>2. CASE Throw(w)
      <4>1. ~(attemptsMade[c] + 1 >= MaxAttempts)
        BY <1>1, <2>1, <2>4, <3>2 DEF Throw, LeavesMore
      <4>2. job'[c] = "waiting"
        BY <1>1, <1>6, <3>2, <4>1 DEF Throw, TypeOK
      <4>3. QED
        BY <1>1, <4>2
    <3>3. QED
      BY <3>1, <3>2
  <2>5. /\ \A d \in Chunk : job'[d] = "active" /\ lock'[d] = NoWorker => stalls'[d] < MaxStalled
        /\ \A d \in Chunk : job'[d] = "none" <=> d >= added'
        /\ producer' = "done" => added' = ChunksTotal
    BY <1>1, <1>2, <2>1, <2>2 DEF JobsGoOn
  <2>6. status' = "running" =>
          \A d \in Chunk : job'[d] # "failed" /\ (job'[d] = "done" => Counted(d)')
    BY <1>1, <1>2, <2>2, <2>3, <2>4 DEF JobsGoOn
  <2>7. QED
    BY <1>2, <1>3, <2>4, <2>5, <2>6 DEF JobsGoOn
<1>7. QED
  BY <1>5, <1>6

\* The request adds the chunks that nobody has seen yet.
LEMMA AttendedProduce ==
  ASSUME TypeOK, Dormant, Attended, Produce \/ ProducerDies
  PROVE  Attended'
<1>1. UNCHANGED <<rows, attemptsMade, stalls, lock, task, chunksCompleted>>
  BY DEF Produce, InsertRun, AddChunk, Respond, ProducerDies, run, queue
<1>2. AllCounted' = AllCounted /\ \A c \in Chunk : Counted(c)' = Counted(c)
  BY <1>1, CountedStays
<1>3. CASE InsertRun
  <2>1. /\ \A c \in Chunk : job'[c] = "none"
        /\ \A w \in Worker : task'[w].at = "idle"
        /\ producer' = "adding" /\ added' = added
    BY <1>1, <1>3 DEF Dormant, InsertRun, queue
  <2>2. 0 \in Chunk
    BY ConstantsAssumption DEF Chunk
  <2>3. \A c \in Chunk : c >= added'
    BY <1>3, <2>1 DEF Attended, JobsGoOn, InsertRun, queue
  <2>4. JobsGoOn'
    BY <2>1, <2>2, <2>3 DEF JobsGoOn
  <2>5. QED
    BY <2>1, <2>4 DEF Attended, Settles
<1>4. CASE AddChunk
  <2>1. added \in Chunk /\ job[added] = "none" /\ added' = added + 1
    BY <1>4, ConstantsAssumption DEF AddChunk, TypeOK, Chunk, Attended, JobsGoOn
  <2>2. /\ job'[added] = "waiting" /\ UNCHANGED <<producer, status>> /\ producer = "adding"
        /\ \A c \in Chunk \ {added} : job'[c] = job[c]
    BY <1>4, <2>1 DEF AddChunk, TypeOK, run
  <2>3. ASSUME NEW w \in Worker PROVE Settles(w)'
    <3>1. task[w].chunk \in Chunk /\ Settles(w)
      BY DEF TypeOK, Task, Attended
    <3>2. task[w].at # "idle" => HoldsJob(w)'
      BY <1>1, <2>1, <2>2, <3>1 DEF Settles, HoldsJob
    <3>3. task[w].at # "idle" => Counted(task[w].chunk)' = Counted(task[w].chunk)
      BY <1>1 DEF Counted
    <3>4. QED
      BY <1>1, <1>2, <2>2, <3>1, <3>2, <3>3
      DEF Settles, WritesLastRow, InHand, CountsItsChunk, LeavesMore
  <2>4. JobsGoOn'
    <3>1. \A c \in Chunk : job'[c] = "none" <=> c >= added'
      BY <2>1, <2>2 DEF Attended, JobsGoOn, Chunk
    <3>2. QED
      BY <1>1, <1>2, <2>1, <2>2, <3>1 DEF Attended, JobsGoOn
  <2>5. QED
    BY <2>3, <2>4 DEF Attended
<1>5. CASE Respond \/ ProducerDies
  <2>1. /\ UNCHANGED <<added, status, job>>
        /\ producer' = "died" \/ (producer' = "done" /\ added = ChunksTotal)
    BY <1>5 DEF Respond, ProducerDies, run, queue
  <2>2. ASSUME NEW w \in Worker PROVE Settles(w)'
    <3>1. Counted(task[w].chunk)' = Counted(task[w].chunk) /\ Settles(w)
      BY <1>1 DEF Counted, Attended
    <3>2. QED
      BY <1>1, <1>2, <2>1, <3>1
      DEF Settles, HoldsJob, WritesLastRow, InHand, CountsItsChunk, LeavesMore
  <2>3. QED
    BY <1>1, <1>2, <2>1, <2>2 DEF Attended, JobsGoOn
<1>6. QED
  BY <1>3, <1>4, <1>5 DEF Produce

\* A job delivered, or put back after its lock was lost.
LEMMA AttendedQueue ==
  ASSUME Steady, TypeOK, Attended, NEW c \in Chunk,
         \/ \E w \in Worker : Deliver(w, c) \/ (Crash(w) /\ task[w].chunk = c)
         \/ LoseLock(c) \/ RecoverStalled(c)
  PROVE  Attended'
<1>1. UNCHANGED <<producer, added, status, chunksCompleted, rows, attemptsMade>>
  BY DEF Deliver, Crash, LoseLock, RecoverStalled, run
<1>2. AllCounted' = AllCounted /\ \A d \in Chunk : Counted(d)' = Counted(d)
  BY <1>1, CountedStays
<1> DEFINE Moved ==
      /\ job[c] \in {"waiting", "active"} /\ job'[c] \in {"waiting", "active"}
      /\ job'[c] = "active" /\ lock'[c] = NoWorker => stalls'[c] < MaxStalled
      /\ \A d \in Chunk \ {c} : job'[d] = job[d] /\ lock'[d] = lock[d] /\ stalls'[d] = stalls[d]
<1>3. Moved
  <2>1. CASE \E w \in Worker : Deliver(w, c)
    BY <2>1, ConstantsAssumption DEF Deliver, TypeOK
  <2>2. ASSUME NEW w \in Worker, Crash(w), task[w].chunk = c
        PROVE  Moved
    <3>1. UNCHANGED <<job, stalls>> /\ (lock[c] = w => stalls[c] < MaxStalled)
      BY <2>2, ConstantsAssumption DEF Crash, Steady, TypeOK
    <3>2. lock' = [lock EXCEPT ![c] = IF @ = w THEN NoWorker ELSE @] /\ task[w].at # "idle"
      BY <2>2 DEF Crash
    <3>3. job[c] \in {"waiting", "active"}
      BY <2>2, <3>2 DEF Attended, Settles, HoldsJob
    <3>4. QED
      BY <3>1, <3>2, <3>3 DEF TypeOK, Attended, JobsGoOn
  <2>3. CASE LoseLock(c)
    BY <2>3, ConstantsAssumption DEF LoseLock, Steady, TypeOK
  <2>4. CASE RecoverStalled(c)
    <3>1. stalls[c] < MaxStalled
      BY <2>4 DEF RecoverStalled, Attended, JobsGoOn
    <3>2. QED
      BY <2>4, <3>1, ConstantsAssumption DEF RecoverStalled, TypeOK
  <2>5. QED
    BY <2>1, <2>2, <2>3, <2>4
<1>4. JobsGoOn'
  BY <1>1, <1>2, <1>3 DEF Attended, JobsGoOn
<1>5. ASSUME NEW w \in Worker PROVE Settles(w)'
  <2>1. Settles(w) /\ task[w].chunk \in Chunk
    BY DEF Attended, TypeOK, Task
  <2>2. CASE \E v \in Worker : Deliver(v, c)
    <3>1. Deliver(w, c)
      BY <2>2 DEF Steady, OneWorker
    <3>2. /\ task'[w].at = "start" /\ task'[w].chunk = c /\ task'[w].attempt = attemptsMade[c]
          /\ job'[c] = "active"
      BY <3>1 DEF Deliver, TypeOK, Idle
    <3>3. QED
      BY <1>1, <3>2
      DEF Settles, HoldsJob, WritesLastRow, InHand, CountsItsChunk, LeavesMore
  <2>3. CASE \E v \in Worker : Crash(v)
    <3>1. Crash(w)
      BY <2>3 DEF Steady, OneWorker
    <3>2. QED
      BY <3>1 DEF Crash, TypeOK, Idle, Settles
  <2>4. CASE LoseLock(c) \/ RecoverStalled(c)
    <3>1. task' = task /\ (lock'[c] = NoWorker \/ lock'[c] = lock[c])
      BY <2>4 DEF LoseLock, RecoverStalled, TypeOK
    <3>2. lock'[c] = NoWorker
      BY <2>4 DEF LoseLock, RecoverStalled, TypeOK
    <3>3. task[w].at # "idle" => HoldsJob(w)'
      BY <1>1, <1>3, <2>1, <3>1, <3>2, ConstantsAssumption DEF Settles, HoldsJob
    <3>4. Counted(task[w].chunk)' = Counted(task[w].chunk)
      BY <1>1, <3>1 DEF Counted
    <3>5. QED
      BY <1>1, <1>2, <2>1, <3>1, <3>3, <3>4
      DEF Settles, WritesLastRow, InHand, CountsItsChunk, LeavesMore
  <2>5. QED
    BY <2>2, <2>3, <2>4
<1>6. QED
  BY <1>4, <1>5 DEF Attended

LEMMA AttendedStep ==
  ASSUME Steady, TypeOK, Dormant, Attended, [Next]_vars
  PROVE  Attended'
<1>1. ASSUME NEW w \in Worker, Settles(w)', JobsGoOn' PROVE Attended'
  BY <1>1 DEF Attended, Steady, OneWorker
<1>2. CASE Produce \/ ProducerDies
  BY <1>2, AttendedProduce
<1>3. ASSUME NEW w \in Worker, NEW c \in Chunk, Deliver(w, c) PROVE Attended'
  BY <1>3, AttendedQueue
<1>4. ASSUME NEW w \in Worker, Handle(w) PROVE Attended'
  <2>1. CASE StartRun(w) \/ \E o \in PullOutcomes : PullReturns(w, o)
    BY <1>1, <2>1, AttendedPull
  <2>2. CASE Finish(w) \/ Refinish(w)
    BY <1>1, <2>2, AttendedFinish
  <2>3. CASE WrapUp(w) \/ SelectChunkRun(w) \/ Caught(w) \/ SoftFail(w)
    BY <1>1, <2>3, AttendedVerdict
  <2>4. CASE CountChunks(w) \/ WriteProgress(w) \/ ReadProgress(w) \/ CompleteIfDone(w)
    BY <1>1, <2>4, AttendedCount
  <2>5. CASE Return(w) \/ Throw(w)
    BY <1>1, <2>5, AttendedSettle
  <2>6. QED
    BY <1>4, <2>1, <2>2, <2>3, <2>4, <2>5 DEF Handle
<1>5. ASSUME NEW w \in Worker, Fail(w) PROVE Attended'
  <2>1. CASE Crash(w)
    <3>1. task[w].chunk \in Chunk
      BY DEF TypeOK, Task
    <3>2. QED
      BY <2>1, <3>1, AttendedQueue
  <2>2. CASE FinishFails(w)
    BY <1>1, <2>2, AttendedFinish
  <2>3. QED
    BY <1>5, <2>1, <2>2 DEF Fail, Steady, StartFails, PullThrows, HandlerThrows
<1>6. ASSUME NEW c \in Chunk, LoseLock(c) \/ RecoverStalled(c) PROVE Attended'
  BY <1>6, AttendedQueue
<1>7. CASE Stopped \/ UNCHANGED vars
  <2>1. UNCHANGED <<producer, added, status, chunksCompleted, rows, job, attemptsMade,
                    stalls, lock, task>>
    BY <1>7 DEF Stopped, vars, run, queue
  <2>2. AllCounted' = AllCounted /\ \A c \in Chunk : Counted(c)' = Counted(c)
    BY <2>1, CountedStays
  <2>3. JobsGoOn'
    BY <2>1, <2>2 DEF Attended, JobsGoOn
  <2>4. ASSUME NEW w \in Worker PROVE Settles(w)'
    <3>1. Counted(task[w].chunk)' = Counted(task[w].chunk) /\ Settles(w)
      BY <2>1 DEF Counted, Attended
    <3>2. QED
      BY <2>1, <2>2, <3>1
      DEF Settles, HoldsJob, WritesLastRow, InHand, CountsItsChunk, LeavesMore
  <2>5. QED
    BY <2>3, <2>4 DEF Attended
<1>8. QED
  BY <1>2, <1>3, <1>4, <1>5, <1>6, <1>7 DEF Next

\* A run whose chunks were all added is not left "running" when the last job
\* has settled: with one ingestion worker, no failing statement, and no job
\* found stalled oftener than the queue forgives.  Crashes, lost locks, lost
\* answers, errors of the source, retries and a request that dies are allowed.
THEOREM NobodyIsStranded == ASSUME Steady PROVE Spec => []NotStranded
<1>1. Init => Attended
  <2> SUFFICES ASSUME Init PROVE Attended
    OBVIOUS
  <2>1. \A w \in Worker : Settles(w)
    BY DEF Init, Idle, Settles
  <2>2. JobsGoOn
    BY DEF Init, JobsGoOn, Chunk
  <2>3. QED
    BY <2>1, <2>2 DEF Attended
<1>2. Accounting /\ Attended /\ [Next]_vars => Attended'
  BY AttendedStep DEF Accounting
<1>3. Attended => NotStranded
  <2> SUFFICES ASSUME Attended, producer = "done", Quiet, status = "running" PROVE FALSE
    BY DEF NotStranded
  <2>1. PICK c \in Chunk : job[c] \in {"none", "waiting", "active"}
    BY DEF Attended, JobsGoOn
  <2>2. job[c] = "none"
    BY <2>1 DEF Quiet
  <2>3. QED
    BY <2>2, ConstantsAssumption DEF Attended, JobsGoOn, Chunk
<1>4. QED
  BY <1>1, <1>2, <1>3, AccountsAreSound, PTL DEF Spec
=============================================================================
