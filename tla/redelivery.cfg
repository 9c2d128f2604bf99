SPECIFICATION Spec
CONSTANTS
  Line = {"grid", "sell"}
  Buys = {"grid"}
  GapLines = {"grid"}
  Code <- MCCode
  Rank <- MCRank
  PlanQty <- One
  Price <- One
  Base <- MCBase
  Cap = 0
  Beat = {b1, b2}
  Watch = {w1}
  User = {}
  Requests = {}
  PlanOutcomes = {"today", "other", "empty"}
  Faults = {"open_none", "reject", "reject_rate", "balance_down", "drift", "crash", "lost_ack", "plan_error"}
  MaxBatch = 2
  b1 = b1
  b2 = b2
  w1 = w1
  w2 = w2
  u1 = u1
  u2 = u2
INVARIANTS
  OneRunADay
  RunWithinPlan
SYMMETRY Interchangeable
CHECK_DEADLOCK FALSE
