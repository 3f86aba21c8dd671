SPECIFICATION FairSpec
CONSTANTS
  Config = {web, tv}
  Cron = {hourly, daily}
  NoCron = none
  Replica = {r1, r2}
  Puller = {p1}
  NoConfig = nothing
  EditBudget = 1
  PullBudget = 1
  FaultBudget = 1
PROPERTIES TicksAreRight Converges
