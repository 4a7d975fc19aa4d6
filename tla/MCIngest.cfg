SPECIFICATION Spec
CONSTANTS
  Duration = 2
  DuplicatePolicy = "keep_last"
  DropNullRows = TRUE
  DropNonPositivePrices = TRUE
  DropOhlcInconsistent = TRUE
  ClipOhlcInconsistent = FALSE
  DropOffGrid = TRUE
  MaxForwardFillBars = 1
  Closes = {2, 3, 6, 8, 12, 14}
  MarketOpen = {0, 2, 4, 6, 10, 12}
  MaxNullPercent = 50
  MinCompleteness = 60
  FailOnError = TRUE
  MaxRows = 3
INVARIANTS CleanedIsFrame OnlyShortGapsAreFilled GapReportAddsUp
PROPERTY LastGoodRowWins
