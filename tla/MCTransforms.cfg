SPECIFICATION Spec
CONSTANTS
  Forever = 1000000
  FeatureConfigs <- MCConfigs
  Lengths = {100, 40000}
  DayBars = 276
  None = None
INVARIANTS KeptRowsAreSettled LiveBufferHoldsWindows
CHECK_DEADLOCK FALSE
