------------------------------ MODULE Calendar ------------------------------
(***************************************************************************)
(* The trading calendar (core/calendar.py): when the market is open, and   *)
(* which trading day an instant belongs to.  Local days are numbered from  *)
(* a Monday that is day 0.                                                 *)
(***************************************************************************)
EXTENDS TimeGrid, LocalTime

CONSTANTS DayLength,                  \* a day, in base bars
          WeekOpenDay, WeekOpenTime,  \* weekday, and base bars after local midnight
          WeekCloseDay, WeekCloseTime,
          BreakStart, BreakEnd,       \* the daily maintenance break
          Holidays                    \* local days on which the market is closed

CalendarAssumption ==
  /\ ZoneAssumption
  /\ DayLength \in Nat \ {0}
  /\ {WeekOpenDay, WeekCloseDay} \subseteq 0 .. 6
  /\ {WeekOpenTime, WeekCloseTime, BreakStart, BreakEnd} \subseteq 0 .. DayLength
  /\ Holidays \subseteq Int

LocalDay(t)    == WallClock(t) \div DayLength
LocalMinute(t) == WallClock(t) % DayLength
Weekday(t)     == LocalDay(t) % 7

\* is_open: whether the bar that opens at o is one the market trades.  The
\* week may wrap; the break is not looked for on the two days it starts and
\* ends on.
IsOpen(o) ==
  LET weekMinute(day, minute) == day * DayLength + minute
      now    == weekMinute(Weekday(o), LocalMinute(o))
      opens  == weekMinute(WeekOpenDay, WeekOpenTime)
      closes == weekMinute(WeekCloseDay, WeekCloseTime)
  IN  /\ IF opens > closes THEN now >= opens \/ now < closes
                           ELSE now >= opens /\ now < closes
      /\ ~ /\ BreakStart <= LocalMinute(o) /\ LocalMinute(o) < BreakEnd
           /\ Weekday(o) \notin {WeekOpenDay, WeekCloseDay}
      /\ LocalDay(o) \notin Holidays

\* expected_bars: what a complete feed holds between two bars.
ExpectedBars(first, last) == {o \in first .. last : IsOpen(o)}

\* Variant: the day rolls at a fixed UTC time.
TradingDayUtc(t) == (t + OffsetAfter + DayLength - BreakEnd) \div DayLength

\* trading_day: the local date, or the one after it from the end of the break
\* on.  The day is added to the instant of local midnight, as a length of
\* time, and the date is read off the result.
TradingDay(t) ==
  LET midnight == Localize(LocalDay(t) * DayLength)
      rolled   == IF LocalMinute(t) >= BreakEnd THEN DayLength ELSE 0
  IN  LocalDay(midnight + rolled)
=============================================================================
