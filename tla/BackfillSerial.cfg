SPECIFICATION FairSpec
CONSTANTS
  ChunksTotal = 2
  Worker = {w1}
  NoWorker = none
  MaxAttempts = 2
  MaxStalled = 1
  StallBudget = 1
  PullOutcomes = {"success", "skipped", "soft", "hard"}
  Faults = {"crash", "lostack"}
INVARIANTS CompletedIsStored NotStranded
PROPERTIES ProgressNeverRegresses EventuallySettled
