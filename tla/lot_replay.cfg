SPECIFICATION PlannerSpec
CONSTANTS
  Bars <- MCBars
  FirstOk = 2
  LastBar = 5
  Starts = {1, 3}
  Capital = 200
  Seeds <- MCSeeds
  FlagSets <- MCFlags
  EmaxBull = 26
  EmaxNeutral = 13
  EmaxBear = 4
  Band = 1
  Buffer = 1
  Weights <- MCWeights
  BootDays = 2
  BootFrac = 3
  StratRatio = 12
  Multiple = 2
  HoldDiv = 20
INVARIANT LiveEqualsBacktest
CHECK_DEADLOCK FALSE
