SPECIFICATION Spec
CONSTANTS
  Line = {"grid", "lev"}
  Buys = {"grid", "lev"}
  GapLines = {"grid"}
  Code <- MCCode
  Rank <- MCRank
  PlanQty <- Two
  Price <- MCPrice
  Base <- MCBase
  Cap = 7
  Beat = {}
  Watch = {w1}
  User = {u1}
  Requests = {"retry"}
  PlanOutcomes = {"today"}
  Faults = {"reject", "plan_error", "lost_ack", "crash", "slow_retry", "redis_down"}
  MaxBatch = 2
  b1 = b1
  b2 = b2
  w1 = w1
  w2 = w2
  u1 = u1
  u2 = u2
INVARIANTS
  CapPerBatch
CHECK_DEADLOCK FALSE
