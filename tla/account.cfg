SPECIFICATION Spec
CONSTANTS
  l1 = l1
  l2 = l2
  m1 = m1
  m2 = m2
  t = t
  c = c
  s = s
  b = b
  Line = {l1, l2}
  Asks <- OneOrBoth
  Maker = {m1, m2}
  Trader = {t}
  Canceller = {c}
  Screen = {s}
  Batch = b
  Casts <- Pairs
  Qty = 2
  LastPhase = 2
  Unsure = TRUE
  k1 = k1
  k2 = k2
  Keepers = {k1, k2}
  Nightly = {k2}
  Forms <- MCForms
  Name = "A"
  Execs <- MCExecs
  Openings = {0, 1}
  LastDay = 2
  BatchDays = 1
  MaxEntries = 3
  Habits <- MCHabits
  Deals <- MCDeals
  Task = w
  Users = {u1, u2}
  u1 = u1
  u2 = u2
  w = w
  d1 = d1
  d2 = d2
  e1 = e1
  e2 = e2
  put = put
  log = log
  Afternoon = {d1, d2}
  Evening = {e1, e2}
  Screens = {put}
  Others = {log}
  Parties <- MCParties
  Drift = 1
  Runs = 2
  MaxChoice = 1
  Roles <- MCRoles
INVARIANTS
  ReservedOnce
  FinalStatusTrue
  BooksAgree
  GapFilledOnce
  AlignExact
  ToldOnce
PROPERTIES
  NothingUndone
SYMMETRY Alike
CHECK_DEADLOCK FALSE
