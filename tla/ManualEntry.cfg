SPECIFICATION FairSpec
CONSTANTS
  station = station
  english = english
  Node = {station, english}
  NoNode = none
  MaxDepth = 2
  Clerk = {c1, c2}
  Nobody = nobody
  Value = {1}
  Dims = {survey, panel}
  InitialParent <- OneChannel
  EntryBudget = 2
  TreeBudget = 2
  FaultBudget = 1
INVARIANTS TypeOK BoardMatches NoDeadlock
PROPERTY EveryEntryAnswered
CHECK_DEADLOCK FALSE
