---------------------------- MODULE TradingDays ----------------------------
(***************************************************************************)
(* The days the bars of a feed fall into across weekends, maintenance      *)
(* breaks and a change of the clocks: for the resampler                    *)
(* (data/resample.py) and for the trading calendar (core/calendar.py).     *)
(***************************************************************************)
EXTENDS Feed

CONSTANT DailyAnchor  \* daily_anchor_time, in base bars after local midnight

Daily == INSTANCE Resample WITH Timeframes <- {"1d"}, Width <- <<>>, H4Anchor <- 0,
                                DropIncompleteLastBar <- TRUE

ASSUME DaysAssumption == Daily!ResampleAssumption

\* Of every bar there may be, by its close: its daily bar, its trading day, and
\* what the wall clock of the market says.
DailyBar == [stamp \in Stamps |-> Daily!DailyBounds(stamp - 1)]
Day      == [stamp \in Stamps |-> Cal!TradingDay(stamp)]
Wall     == [stamp \in Stamps |-> Cal!WallClock(stamp)]

-----------------------------------------------------------------------------
\* The dates on which the days are regular: the clocks go forward, by less than a
\* day, or are not changed ...
SpringForward == OffsetBefore <= OffsetAfter /\ OffsetAfter - OffsetBefore < DayLength

\* ... and the market is shut from the anchor of the daily bars until its day
\* begins, for no less time than the clocks skip, and when they are changed.
QuietAnchor ==
  /\ 0 <= DailyAnchor /\ DailyAnchor < BreakEnd
  /\ OffsetAfter - OffsetBefore <= BreakEnd - DailyAnchor
  /\ \A o \in Time : Cal!IsOpen(o) =>
       /\ o # Transition - 1
       /\ (Cal!WallClock(o) - DailyAnchor) % DayLength >= BreakEnd - DailyAnchor

-----------------------------------------------------------------------------
\* core/calendar.py: the trading day rolls at the daily open time, so the bars
\* from then on belong to the next local date's trading day, on every date.
TradingDayRollsAtOpen ==
  \A stamp \in history : Day[stamp] = (Wall[stamp] + DayLength - BreakEnd) \div DayLength

\* data/resample.py: "the boundary stays at 17:00 New York year-round".  Two
\* bars are in the same daily bar exactly when the local clock does not pass
\* the anchor between them, and the bar covers them.
AnchoredDay(stamp) == (Cal!WallClock(stamp - 1) - DailyAnchor) \div DayLength

DaysAreLocal ==
  \A s, t \in history :
    /\ DailyBar[s].open < s /\ s <= DailyBar[s].close
    /\ DailyBar[s] = DailyBar[t] <=> AnchoredDay(s) = AnchoredDay(t)

\* The previous-day levels of features/liquidity.py and the daily context bars
\* cut the feed into the same days, although one rolls when the market closes
\* and the other when it opens again.
DaysAgree == \A s, t \in history : DailyBar[s] = DailyBar[t] <=> Day[s] = Day[t]
=============================================================================
