------------------------------- MODULE Sweeps -------------------------------
(***************************************************************************)
(* Liquidity sweeps (features/liquidity.py): _detect_sweeps and the pass   *)
(* of _score_after_sweep, one bar at a time.                               *)
(*                                                                         *)
(* A bar carries the reference levels there are when it closes; which they *)
(* are is the business of Liquidity.  Prices are integers; the average     *)
(* true range is undefined for the first bars and one unit from then on.   *)
(***************************************************************************)
EXTENDS Integers, FiniteSetsExt, SequencesExt

CONSTANTS AtrPeriod,  \* bars before the average true range is defined
          Tolerance,  \* sweep_tolerance_atr
          Lookback    \* sweep_lookback

SweepsAssumption == AtrPeriod \in Nat \ {0} /\ {Tolerance, Lookback} \subseteq Nat

VARIABLES bars,   \* the history: records [high, low, close, levels]
          sweep,  \* the last sweep: its bar (0 if none), direction and close
          score   \* what is emitted of it at this bar: its age, direction and
                  \* how far price has come away from the swept side since

vars == <<bars, sweep, score>>

NoSweep == [index |-> 0, dir |-> 0, close |-> 0]
NoScore == [age |-> -1, dir |-> 0, away |-> 0]

-----------------------------------------------------------------------------
\* Variant: the levels of the bar itself.
SweepableNow(history, i) == history[i].levels

\* levels.shift(1): the levels there were when the bar before closed.
Sweepable(history, i) == IF i = 1 THEN {} ELSE history[i - 1].levels

\* pierced_up, pierced_down
SweptHigh(history, i) ==
  /\ i >= AtrPeriod
  /\ \E level \in Sweepable(history, i) :
       history[i].high > level + Tolerance /\ history[i].close < level

SweptLow(history, i) ==
  /\ i >= AtrPeriod
  /\ \E level \in Sweepable(history, i) :
       history[i].low < level - Tolerance /\ history[i].close > level

Swept(history, i) == SweptHigh(history, i) \/ SweptLow(history, i)

\* Variant: a new sweep does not replace one that is still scored.
SweepAtFirst(history, i) ==
  IF Swept(history, i) /\ (sweep.index = 0 \/ i - sweep.index > Lookback)
  THEN [index |-> i, dir |-> IF SweptHigh(history, i) THEN 1 ELSE -1, close |-> history[i].close]
  ELSE sweep

\* The last sweep after bar i.  A bar that sweeps both sides counts as a sweep
\* of the high.
SweepAt(history, i) ==
  IF Swept(history, i)
  THEN [index |-> i, dir |-> IF SweptHigh(history, i) THEN 1 ELSE -1, close |-> history[i].close]
  ELSE sweep

\* Variant: measured from the swept side's price on.
ScoreTowards(hunt, i, close) ==
  IF hunt.index = 0 THEN NoScore
  ELSE IF i - hunt.index > Lookback THEN [NoScore EXCEPT !.age = i - hunt.index]
  ELSE [age |-> i - hunt.index, dir |-> hunt.dir, away |-> Max({0, hunt.dir * (close - hunt.close)})]

\* sweep_age goes on counting; direction and displacement end with the lookback.
Score(hunt, i, close) ==
  IF hunt.index = 0 THEN NoScore
  ELSE IF i - hunt.index > Lookback THEN [NoScore EXCEPT !.age = i - hunt.index]
  ELSE [age |-> i - hunt.index, dir |-> hunt.dir, away |-> Max({0, -hunt.dir * (close - hunt.close)})]

Init == bars = <<>> /\ sweep = NoSweep /\ score = NoScore

NextBar(bar) ==
  /\ bars' = Append(bars, bar)
  /\ sweep' = SweepAt(bars', Len(bars'))
  /\ score' = Score(sweep', Len(bars'), bar.close)

-----------------------------------------------------------------------------
\* "Only levels that existed before this bar can be swept by it": a bar reported
\* as a sweep went through a level that was there when the bar before it closed,
\* and closed on the side it came from.
SweptLevelsWereThere ==
  bars # <<>> /\ score.age = 0 =>
    LET n == Len(bars)
    IN  n > 1 /\ \E level \in bars[n - 1].levels :
          IF score.dir = 1 THEN bars[n].close < level /\ level < bars[n].high
                           ELSE bars[n].low < level /\ level < bars[n].close

\* sweep_age and sweep_direction are those of the most recent sweep of the whole
\* history, in either direction, and the direction is none when it is too old.
LastSweepIsDescribed ==
  LET sweeps == {i \in DOMAIN bars : Swept(bars, i)}
  IN  IF sweeps = {} THEN score = NoScore
      ELSE /\ score.age = Len(bars) - Max(sweeps)
           /\ score.dir = IF score.age > Lookback THEN 0
                          ELSE IF SweptHigh(bars, Max(sweeps)) THEN 1 ELSE -1

\* stop_hunt_score: "it starts at zero and builds as the move develops".  Price
\* that has come away from the swept side scores, price gone through it does not.
ScoreFollowsTheReversal ==
  score.away > 0 =>
    /\ score.age \in 1 .. Lookback
    /\ LET close == bars[Len(bars) - score.age].close
       IN  IF score.dir = 1 THEN bars[Len(bars)].close < close
                            ELSE bars[Len(bars)].close > close
=============================================================================
