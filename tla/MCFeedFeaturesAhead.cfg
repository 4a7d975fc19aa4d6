SPECIFICATION Spec
CONSTANTS
  DayLength = 8
  Windows <- MCWindows
  Transition = 52
  OffsetBefore <- MCWinter
  OffsetAfter <- MCSummer
  WeekOpenDay = 6
  WeekOpenTime = 6
  WeekCloseDay = 4
  WeekCloseTime = 5
  BreakStart = 5
  BreakEnd = 6
  Holidays = {}
  DailyAnchor = 5
  Time <- MCTime
  MaxMissing = 2
  GapFlagBars = 2
  SessionVolDays = 2
  MinBaseline = 2
INVARIANT FeaturesAreCausal
CHECK_DEADLOCK FALSE
