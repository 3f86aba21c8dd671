SPECIFICATION FairSpec
CONSTANTS
  p1 = p1
  p2 = p2
  station = station
  english = english
  french = french
  Node = {station, english, french}
  NoNode = none
  MaxDepth = 4
  Nobody = nobody
  InitialParent <- TwoChannels
  Puller = {p1, p2}
  Accounts <- OneEach
  Refresher = {q1, q2}
  PullBudget = 1
  TreeBudget = 1
  FaultBudget = 1
  Faults = {"pull", "redis", "refresh"}
INVARIANT RefreshCovers
PROPERTIES RollupNeverRegresses OnlyCirclesHang
CHECK_DEADLOCK FALSE
