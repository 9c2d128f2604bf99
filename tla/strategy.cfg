SPECIFICATION DailySpec
CONSTANTS
  Bars <- MCBars
  FirstOk = 2
  LastBar = 5
  Starts = {1, 3}
  Capital = 200
  Seeds <- MCSeeds
  FlagSets <- MCFlags
  EmaxBull = 26
  EmaxNeutral = 13
  EmaxBear = 4
  Band = 1
  Buffer = 1
  Weights <- MCWeights
  BootDays = 2
  BootFrac = 3
  StratRatio = 12
  Multiple = 2
  HoldDiv = 20
  TrendBars <- MCTrendBars
  WarmBars = 2
  LastTrendBar = 7
  TrendCapital = 200
  TrendSeeds <- MCTrendSeeds
  Mult = 3
  ShockDays = 1
  Reserve = 1
  FeeDiv = 200
  fund = fund
  lev = lev
  share = share
  us = us
  t1 = t1
  t2 = t2
  v1 = v1
  g1 = g1
  g2 = g2
  Pair = {fund, lev}
  Stock = {share}
  Foreign = {us}
  Casts <- MCCasts
  LastDate = 3
  Closed = {2}
  Refused <- MCRefused
  PageDays = 1
  Slack = 1
  Batch = {t1, t2}
  Viewer = {v1}
  Signal = {g1, g2}
  MaxRuns = 2
  MaxViews = 1
SYMMETRY Alike
INVARIANTS
  BarsFinal
  EveryShareOffered
  BuysWithinWallet
  LeverageBounded
  RegimeIsHistory
  LiveUntilStrayed
  FeesAreOwed
  LiveSheetAgrees
PROPERTIES
  LeverageLeaves
  SignalTrue
CHECK_DEADLOCK FALSE
