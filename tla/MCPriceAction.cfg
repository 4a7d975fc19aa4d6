SPECIFICATION Spec
CONSTANTS
  AtrPeriod = 2
  MaxAge = 2
  MaxTracked = 2
  MinSize = 1
  Displacement = 2
  K = 1
  Memory = 2
  Tolerance = 1
  Lookback = 1
  Markets <- MCMarkets
INVARIANTS TrackedZonesAreLive NoZoneIsMissed SwingsAreConfirmed TrendComparesPivots EventsAreOfPivots DirectionFollowsPivots BreaksAreOfOldLevels SweptLevelsWereThere LastSweepIsDescribed ScoreFollowsTheReversal
PROPERTY ShiftsAlternate
CHECK_DEADLOCK FALSE
