SPECIFICATION OrdersSpec
CONSTANTS
  l1 = l1
  l2 = l2
  m1 = m1
  m2 = m2
  t = t
  c = c
  s = s
  b = b
  Line = {l1}
  Asks = {}
  Maker = {}
  Trader = {t}
  Canceller = {}
  Screen = {}
  Batch = b
  Casts <- Direct
  Qty = 2
  LastPhase = 4
  Unsure = FALSE
CHECK_DEADLOCK FALSE
PROPERTIES
  FilledStays
