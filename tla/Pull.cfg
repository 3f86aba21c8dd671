SPECIFICATION FairSpec
CONSTANTS
  a1 = a1
  a2 = a2
  Worker = {w1, w2}
  Capacity = 2
  RefillPerSecond = 2
  Second = 3
  TimeToLive = 1
  NoDeadline = none
  Idle = 1
  Late = 1
  MaxSkew = 1
  Account = {a1, a2}
  Scenes <- AllScenes
  CallBudget = 3
  FaultBudget = 1
  MaxZones = 3
INVARIANTS WakesInTime WindowIsLastPeriod BucketsHold BoardWindowsMatch EachDayOnce SuccessMeansStored Paced AccountsListed
PROPERTIES KeepsRate EveryJobEnds
CHECK_DEADLOCK FALSE
