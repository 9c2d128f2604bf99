SPECIFICATION FairSpec
CONSTANTS
  Line = {"grid"}
  Buys = {"grid"}
  GapLines = {}
  Code <- MCCode
  Rank <- MCRank
  PlanQty <- Two
  Price <- One
  Base <- MCBase
  Cap = 0
  Beat = {b1}
  Watch = {w1}
  User = {u1}
  Requests = {"retry"}
  PlanOutcomes = {"today", "other"}
  Faults = {"reject_rate"}
  MaxBatch = 3
  b1 = b1
  b2 = b2
  w1 = w1
  w2 = w2
  u1 = u1
  u2 = u2
PROPERTIES
  DayIsRecorded
  OrdersAreRecorded
CHECK_DEADLOCK FALSE
