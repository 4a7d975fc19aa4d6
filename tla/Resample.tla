------------------------------ MODULE Resample ------------------------------
(***************************************************************************)
(* Higher-timeframe construction (data/resample.py).                       *)
(*                                                                         *)
(* A higher-timeframe (HTF) bar is the record of the interval it covers    *)
(* and the set of base bars it aggregates: its open, high, low, close,     *)
(* volume and n_base_bars are functions of that set.                       *)
(***************************************************************************)
EXTENDS TimeGrid, LocalTime

CONSTANTS Time,                   \* instants at which a base bar may open
          Timeframes,             \* the higher timeframes that are built
          Width,                  \* length of each intraday timeframe, in base bars
          H4Anchor,               \* h4_anchor_offset_minutes, in base bars
          DayLength,              \* a day, in base bars
          DailyAnchor,            \* daily_anchor_time, in base bars after local midnight
          DropIncompleteLastBar   \* drop_incomplete_last_bar

Intraday == Timeframes \ {"1d"}

ResampleAssumption ==
  /\ ZoneAssumption
  /\ Time \subseteq Int
  /\ Width \in [Intraday -> Nat \ {0}]
  /\ H4Anchor \in Int
  /\ DayLength \in Nat \ {0}
  /\ DailyAnchor \in Int
  /\ DropIncompleteLastBar \in BOOLEAN

-----------------------------------------------------------------------------

\* Variant: the anchor as a fixed UTC time.
DailyBoundsUtc(o) ==
  LET day == FloorTo(o - DailyAnchor + OffsetAfter, DayLength, 0) - OffsetAfter
  IN  [open |-> day + DailyAnchor, close |-> day + DayLength + DailyAnchor]

\* _daily_bounds: the trading day of a base bar.  The anchor is subtracted
\* from the instant; the date is read off the wall clock of the result, and
\* the two ends are wall-clock times made into instants again.
DailyBounds(o) ==
  LET day == FloorTo(WallClock(o - DailyAnchor), DayLength, 0)
  IN  [open  |-> Localize(day + DailyAnchor),
       close |-> Localize(day + DayLength + DailyAnchor)]

\* The intraday half of _group_key.
IntradayBounds(tf, o) ==
  LET start == FloorTo(o, Width[tf], IF tf = "4h" THEN H4Anchor ELSE 0)
  IN  [open |-> start, close |-> start + Width[tf]]

\* _group_key: the interval a base bar is aggregated into.
GroupKey(tf, o) == IF tf = "1d" THEN DailyBounds(o) ELSE IntradayBounds(tf, o)

HtfBar(tf, frame, key) ==
  [open  |-> key.open,
   close |-> key.close,
   bars  |-> {o \in BarsOf(frame) : GroupKey(tf, o).open = key.open}]

\* groupby(_group_open).agg(...)
Aggregated(tf, frame) == {HtfBar(tf, frame, GroupKey(tf, o)) : o \in BarsOf(frame)}

IsLastOf(bar, aggregated) == \A other \in aggregated : other.open <= bar.open

\* Variant: the unfinished last bar is returned.
ResampleBarsUnfinished(tf, frame) == Aggregated(tf, frame)

\* resample_bars.  The empty set stands for the ResampleError raised when no
\* complete bar is left.
ResampleBars(tf, frame) ==
  LET aggregated == Aggregated(tf, frame)
      dropped(bar) == /\ DropIncompleteLastBar
                      /\ IsLastOf(bar, aggregated)
                      /\ bar.close > EndOf(frame)
  IN  {bar \in aggregated : ~dropped(bar)}

\* resample_many, and whether it returns rather than raises.
ResampleMany(frame) == [tf \in Timeframes |-> ResampleBars(tf, frame)]
CanResample(frame) ==
  Len(frame) > 0 /\ \A tf \in Timeframes : ResampleBars(tf, frame) # {}

-----------------------------------------------------------------------------
(***************************************************************************)
(* What the rest of the system takes for granted of the grouping: the      *)
(* intervals cut the time line, and a base bar lies inside the interval it *)
(* is aggregated into.                                                     *)
(***************************************************************************)
WellFormedGrid(tf) ==
  \A o \in Time :
    LET key == GroupKey(tf, o)
    IN  /\ key.open \in Int /\ key.close \in Int
        /\ key.open <= o /\ CloseOf(o) <= key.close
        /\ \A p \in Time : key.open <= p /\ p < key.close => GroupKey(tf, p) = key

\* What a daily timeframe needs of the anchor and of the hours in which there are
\* bars: the trading date of a bar is the same whether the anchor is subtracted
\* before its wall clock is read or after, and the anchor is no wall clock that
\* comes twice.  Both fail only in the hours around a change of the clocks.
QuietDailyAnchor ==
  \A o \in Time :
    LET day == FloorTo(WallClock(o - DailyAnchor), DayLength, 0)
    IN  /\ FloorTo(WallClock(o) - DailyAnchor, DayLength, 0) = day
        /\ \A wall \in {day + DailyAnchor, day + DayLength + DailyAnchor} :
             wall <= Transition + OffsetAfter \/ Transition + OffsetBefore <= wall
=============================================================================
