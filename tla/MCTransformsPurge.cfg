SPECIFICATION Spec
CONSTANTS
  Forever = 1000000
  FeatureConfigs <- MCDefaultOnly
  Lengths = {100, 40000}
  DayBars = 276
  None = None
INVARIANT PurgeCoversWindows
CHECK_DEADLOCK FALSE
