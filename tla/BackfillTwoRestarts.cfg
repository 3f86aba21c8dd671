SPECIFICATION FairSpec
CONSTANTS
  ChunksTotal = 1
  Worker = {w1}
  NoWorker = none
  MaxAttempts = 3
  MaxStalled = 1
  StallBudget = 2
  PullOutcomes = {"success"}
  Faults = {"crash"}
PROPERTY EventuallySettled
