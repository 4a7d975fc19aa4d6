SPECIFICATION AuditSpec
CONSTANTS
  Transition = 8
  OffsetBefore = 0
  OffsetAfter = 1
  Time = {3, 4, 5, 7, 8, 10, 11}
  Timeframes = {"15m", "4h", "1d"}
  Width <- MCWidth
  H4Anchor = 0
  DayLength = 4
  DailyAnchor = 2
  DropIncompleteLastBar = TRUE
  BaseLookback = 2
  HtfLookback = 1
  MaxWarmupBars = 1
  AuditMargin = 1
  MaxCutoffs = 2
INVARIANTS TypeOK RunningIsBarInProgress CausalColumnsReplay
PROPERTIES MatrixIsPointInTime CompletedBarsAreFinal
CHECK_DEADLOCK FALSE
