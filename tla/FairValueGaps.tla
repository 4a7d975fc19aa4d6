--------------------------- MODULE FairValueGaps ---------------------------
(***************************************************************************)
(* Fair value gaps (features/fvg.py): the forward pass of _track_gaps, one *)
(* bar at a time, for a history that may be anything.                      *)
(***************************************************************************)
EXTENDS Zones

CONSTANT MinSize  \* min_size_atr

VARIABLES bars,  \* the history: records [open, low, high, close]
          gaps   \* the gaps tracked on each side, the nearest first

vars == <<bars, gaps>>

GapsAssumption == ZonesAssumption /\ MinSize \in Nat

-----------------------------------------------------------------------------
\* The gap that bar i completes, as a list of one or none: bar i trades
\* entirely above bar i - 2.
NewGap(seen, i) ==
  IF /\ i >= 3
     /\ seen[i].low > seen[i - 2].high
     /\ seen[i].low - seen[i - 2].high >= MinSize
  THEN <<[bottom |-> seen[i - 2].high, top |-> seen[i].low, created |-> i, extreme |-> seen[i].low]>>
  ELSE <<>>

Init == bars = <<>> /\ gaps = [side \in Sides |-> <<>>]

NextBar(bar) ==
  /\ bars' = Append(bars, bar)
  /\ LET i == Len(bars')
     IN  gaps' = IF ~AtrDefined(i) THEN gaps
                 ELSE [side \in Sides |->
                         LET seen == Seen(side, bars')
                         IN  Tracked(gaps[side] \o NewGap(seen, i), i, seen[i])]

-----------------------------------------------------------------------------
\* What the pass is to compute, read off the history as it stood at bar n: the
\* gaps formed at most MaxAge bars before and never traded through since.
GapsFormed(side, n) ==
  LET seen == Seen(side, bars)
  IN  {[gap EXCEPT !.extreme = LowestSince(seen, gap.created, n)] :
         gap \in UNION {ToSet(NewGap(seen, c)) : c \in {i \in 1 .. n : AtrDefined(i)}}}

LiveGaps(side, n) == Live(GapsFormed(side, n), n)

\* The tracked gaps are gaps, none of them filled or expired, each with the
\* deepest point price has come back to; no gap is tracked twice.
TrackedGapsAreLive ==
  \A side \in Sides :
    /\ ToSet(gaps[side]) \subseteq LiveGaps(side, Len(bars))
    /\ \A k, l \in DOMAIN gaps[side] : k # l => gaps[side][k] # gaps[side][l]

\* A live gap that is not tracked was crowded out at some bar since it was made, by
\* as many gaps as are tracked and nearer to price; the nearest is first.
NoGapIsMissed ==
  \A side \in Sides :
    LET seen == Seen(side, bars)
    IN  /\ \A gap \in LiveGaps(side, Len(bars)) \ ToSet(gaps[side]) :
             \E n \in gap.created .. Len(bars) : CrowdedOut(gap, LiveGaps(side, n), seen[n])
        /\ \A k, l \in DOMAIN gaps[side] : k < l =>
             Distance(gaps[side][k], seen[Len(bars)]) <= Distance(gaps[side][l], seen[Len(bars)])
=============================================================================
