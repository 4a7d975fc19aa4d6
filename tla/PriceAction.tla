---------------------------- MODULE PriceAction ----------------------------
(***************************************************************************)
(* The price-action features of one frame: the engine (features/engine.py) *)
(* runs the forward passes of features/fvg.py, order_blocks.py,            *)
(* structure.py and liquidity.py over the same bars, so that after each    *)
(* bar all four have taken it.                                             *)
(***************************************************************************)
EXTENDS Integers, Sequences

CONSTANTS AtrPeriod, MaxAge, MaxTracked, MinSize, Displacement,
          K, Memory, Tolerance, Lookback,
          Markets  \* bound: the kinds of history: records [shapes, length] of the
                   \* bars that may come and how many of them do

VARIABLES market,  \* the kind of history this is
          bars,    \* the history: records [open, low, high, close, levels]
          gaps,
          blocks,
          lastIndex, last, trend, events, direction, bos, mss,
          sweep, score

vars == <<market, bars, gaps, blocks, lastIndex, last, trend, events, direction, bos, mss,
          sweep, score>>

Gaps   == INSTANCE FairValueGaps
Blocks == INSTANCE OrderBlocks
Swings == INSTANCE Structure
Hunts  == INSTANCE Sweeps

ASSUME PriceActionAssumption ==
  /\ Gaps!GapsAssumption /\ Blocks!BlocksAssumption
  /\ Swings!StructureAssumption /\ Hunts!SweepsAssumption
  /\ \A m \in Markets : m.length \in Nat /\ \A bar \in m.shapes :
       /\ {bar.open, bar.low, bar.high, bar.close} \cup bar.levels \subseteq Int
       /\ bar.low <= bar.open /\ bar.open <= bar.high
       /\ bar.low <= bar.close /\ bar.close <= bar.high

-----------------------------------------------------------------------------
Init ==
  /\ market \in Markets
  /\ Gaps!Init /\ Blocks!Init /\ Swings!Init /\ Hunts!Init

NextBar(bar) ==
  /\ Len(bars) < market.length
  /\ Gaps!NextBar(bar) /\ Blocks!NextBar(bar) /\ Swings!NextBar(bar) /\ Hunts!NextBar(bar)
  /\ UNCHANGED market

Next == \E bar \in market.shapes : NextBar(bar)

Spec == Init /\ [][Next]_vars

-----------------------------------------------------------------------------
\* The zones the forward passes of fvg.py and order_blocks.py track are zones of
\* the history, none of them expired or traded through, each with the deepest
\* point price has come back to.
TrackedZonesAreLive == Gaps!TrackedGapsAreLive /\ Blocks!TrackedBlocksAreLive

\* The lists forget a live zone only when max_tracked others are nearer to the
\* close, and the list of gaps has the nearest first.
NoZoneIsMissed == Gaps!NoGapIsMissed /\ Blocks!NoBlockIsMissed

\* The confirmation-delay rule of structure.py: the swings known are those whose
\* K bars on either side have closed.
SwingsAreConfirmed == Swings!SwingsAreConfirmed

\* hh, lh, hl and ll compare the last two pivots of a kind.
TrendComparesPivots == Swings!TrendComparesPivots

\* The event memory of structure.py is of the last pivots of the whole history, a
\* higher low as bullish as a higher high.
EventsAreOfPivots == Swings!EventsAreOfPivots

\* structure_direction is what the last pivots of both kinds say.
DirectionFollowsPivots == Swings!DirectionFollowsPivots

\* No bar breaks a swing of the last K bars, its own included.
BreaksAreOfOldLevels == Swings!BreaksAreOfOldLevels

\* Every structure shift is a break of structure, and shifts alternate.
ShiftsAlternate == Swings!ShiftsAlternate

\* A bar sweeps only levels that were there when the bar before it closed.
SweptLevelsWereThere == Hunts!SweptLevelsWereThere

\* What is emitted of a sweep is of the last one of all history.
LastSweepIsDescribed == Hunts!LastSweepIsDescribed

\* stop_hunt_score is positive only after price has come away from the swept
\* side.
ScoreFollowsTheReversal == Hunts!ScoreFollowsTheReversal
=============================================================================
