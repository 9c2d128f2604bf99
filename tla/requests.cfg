SPECIFICATION Spec
CONSTANTS
  Line = {"grid", "sell"}
  Buys = {"grid"}
  GapLines = {"grid"}
  Code <- MCCode
  Rank <- MCRank
  PlanQty <- One
  Price <- One
  Base <- MCBase
  Cap = 0
  Beat = {b1}
  Watch = {}
  User = {u1, u2}
  Requests = {"retry", "reorder", "cancel", "sync", "import", "skip", "unskip", "resume", "flag"}
  PlanOutcomes = {"today"}
  Faults = {"reject_rate", "cancel_fail"}
  MaxBatch = 3
  b1 = b1
  b2 = b2
  w1 = w1
  w2 = w2
  u1 = u1
  u2 = u2
INVARIANTS
  NotOverexposed
  OnRecord
PROPERTIES
  PromiseKept
SYMMETRY Interchangeable
CHECK_DEADLOCK FALSE
