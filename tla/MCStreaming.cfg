SPECIFICATION RetrySpec
CONSTANTS
  Transition = 0
  OffsetBefore = 0
  OffsetAfter = 0
  Time = {0, 1, 2, 3, 4, 5}
  Timeframes = {"15m", "4h"}
  Width <- MCWidth
  H4Anchor = 1
  DayLength = 4
  DailyAnchor = 2
  DropIncompleteLastBar = TRUE
  BaseLookback = 2
  HtfLookback = 1
  MaxWarmupBars = 1
  BufferQuarters = 5
  BufferPad = 1
  MaxRedeliveries = 1
INVARIANT TypeOK
PROPERTY LiveIsPointInTime
CHECK_DEADLOCK FALSE
