-------------------------- MODULE MCFeedFeatures ---------------------------
(***************************************************************************)
(* Days, levels and time features over a week end, with a day of eight     *)
(* bars, for one of which the market closes, and three sessions that       *)
(* overlap as the real ones do: Asia and London in one bar, London and New *)
(* York in one, nobody in the last bar of a day.                           *)
(***************************************************************************)
EXTENDS Liquidity, TimeFeatures, TradingDays

Window(start, end, transition, before, after) ==
  [start |-> start, end |-> end, weekdays |-> 0 .. 4,
   transition |-> transition, before |-> before, after |-> after]

\* The clocks of New York change on the Sunday, those of London and Tokyo do not.
MCWindows ==
  [ASIA   |-> Window(1, 4, 0, 0, 0),
   LONDON |-> Window(3, 6, 0, 0, 0),
   NY     |-> Window(2, 5, Transition, OffsetBefore, OffsetAfter)]

\* From Thursday to Tuesday, in UTC.
MCTime == 26 .. 68
MCSummer == -2
MCWinter == -3

\* The daily bars of the hours in which the market is open.
OpenDaily == INSTANCE Resample WITH
  Time <- {o \in Time : Cal!IsOpen(o)}, Timeframes <- {"1d"}, Width <- <<>>, H4Anchor <- 0,
  DropIncompleteLastBar <- TRUE

\* The theorems about the feed suppose this of the calendar and of the sessions.
ASSUME MCHypotheses ==
  /\ DaysNeverGoBack /\ SessionsAreUnbroken
  /\ OpenDaily!QuietDailyAnchor /\ OpenDaily!WellFormedGrid("1d")
  /\ OffsetBefore < OffsetAfter => SpringForward /\ QuietAnchor
=============================================================================
