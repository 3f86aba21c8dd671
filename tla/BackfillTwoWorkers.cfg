SPECIFICATION Spec
CONSTANTS
  ChunksTotal = 2
  Worker = {w1, w2}
  NoWorker = none
  MaxAttempts = 3
  MaxStalled = 1
  StallBudget = 0
  PullOutcomes = {"success"}
  Faults = {}
INVARIANT NotStranded
