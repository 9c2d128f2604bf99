SPECIFICATION Spec
CONSTANTS
  s1 = s1
  s2 = s2
  x = x
  r1 = r1
  w1 = w1
  Screens = {s1, s2}
  Executor = x
  LastDay = 3
  Weekend = {}
  Holiday = {2}
  Backdate = {0, 2}
  MaxTrade = 1
  MaxShown = 2
  Lasts = 2
  Reader = {r1}
  Writer = {w1}
  Batchwise = {w1}
  LimitKey = 1
  LimitLedger = 1
  WaitMax = 1
  Retries = 2
  IssueGap = 2
  NapTime = 3
  Life = 6
  Margin = 1
  a1 = a1
  ka = ka
  ke = ke
  Account = {a1}
  AppKey = {ka, ke}
  EnvKey = ke
  NoKey = "none"
  DayLength = 8
  WarmAt = 2
  Delay = 2
  Closes = 6
  GoneBefore = 1
  LastTime = 19
INVARIANTS
  TakenOnce
PROPERTIES
  PlanSettles
  ShownAsSent
  NotStaleSilently
  CallEnds
  IssuedOnce
CHECK_DEADLOCK FALSE
