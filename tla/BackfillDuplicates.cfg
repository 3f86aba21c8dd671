SPECIFICATION Spec
CONSTANTS
  ChunksTotal = 2
  Worker = {w1, w2}
  NoWorker = none
  MaxAttempts = 1
  MaxStalled = 1
  StallBudget = 1
  PullOutcomes = {"success", "hard"}
  Faults = {"lock", "db", "producer"}
SYMMETRY Workers
INVARIANTS TypeOK Accounting CompletedIsBacked
PROPERTIES TerminalIsFinal KeepsPromise
