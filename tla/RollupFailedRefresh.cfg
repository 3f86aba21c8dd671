SPECIFICATION FairSpec
CONSTANTS
  p1 = p1
  p2 = p2
  station = station
  english = english
  french = french
  Node = {station, english, french}
  NoNode = none
  MaxDepth = 32
  Nobody = nobody
  InitialParent <- TwoChannels
  Puller = {p1}
  Accounts <- OneChannel
  Refresher = {q1}
  PullBudget = 2
  TreeBudget = 0
  FaultBudget = 1
  Faults = {"refresh"}
INVARIANT SettledIsFresh
