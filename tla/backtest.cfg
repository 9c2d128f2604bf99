SPECIFICATION FairSpec
CONSTANTS
  Delivery = {d1, d2}
  Mortal = {d1}
  Overlap = FALSE
  PublishFails = {"RUNNING"}
  Watcher = {w1}
  Deleter = {x1}
  MaxData = 2
  Steps = 2
  d1 = d1
  d2 = d2
  w1 = w1
  w2 = w2
  x1 = x1
INVARIANTS
  ResultMatchesData
PROPERTIES
  DoneStays
  JobEnds
  WatcherLearns
CHECK_DEADLOCK FALSE
