----------------------------- MODULE Structure -----------------------------
(***************************************************************************)
(* Market structure (features/structure.py): swings confirmed K bars late, *)
(* the direction they give, breaks of structure and structure shifts, as   *)
(* the forward pass of _scan_structure computes them.                      *)
(*                                                                         *)
(* The two kinds of pivot are confirmed alike, with the signs of the       *)
(* prices swapped for the lows; what is remembered of them are the prices  *)
(* as they are: the code's last_high and last_low are here last["high"]    *)
(* and last["low"], and a higher low is as bullish as a higher high.  Bars *)
(* are numbered from 1; index 0 is the code's -1.                          *)
(***************************************************************************)
EXTENDS Integers, FiniteSetsExt, SequencesExt

CONSTANTS K,       \* swing_k
          Memory   \* structure_memory

StructureAssumption == K \in Nat \ {0} /\ Memory \in Nat \ {0, 1}

Kinds == {"high", "low"}

VARIABLES bars,       \* the history: records [low, high, close]
          lastIndex,  \* the bar of the last confirmed pivot of each kind
          last,       \* its price
          trend,      \* how it compares with the one before: 1, -1, 0 or 0 at first
          events,     \* +1 and -1 for the last pivots of either kind
          direction,
          bos,        \* the last break of structure: its bar and direction
          mss         \* the last structure shift

vars == <<bars, lastIndex, last, trend, events, direction, bos, mss>>

-----------------------------------------------------------------------------
Sign(x) == IF x > 0 THEN 1 ELSE IF x < 0 THEN -1 ELSE 0

\* A bar's extreme of a kind, upwards positive for the highs and downwards for
\* the lows, and its price.
Extreme(kind, bar) == IF kind = "high" THEN bar.high ELSE -bar.low

Price(kind, bar) == IF kind = "high" THEN bar.high ELSE bar.low

\* Variant: only the bars after a pivot are looked at.
ConfirmsOneSided(kind, history, i) ==
  /\ i > 2 * K
  /\ \A j \in i - K .. i : Extreme(kind, history[j]) <= Extreme(kind, history[i - K])

\* confirmed_high, confirmed_low: bar i confirms bar i - K as a pivot when
\* nothing in the 2K + 1 bars up to i goes beyond it.
Confirms(kind, history, i) ==
  /\ i > 2 * K
  /\ \A j \in i - 2 * K .. i : Extreme(kind, history[j]) <= Extreme(kind, history[i - K])

\* Variant: a low is bullish when it is beyond the one before, which is lower.
EventOutwards(kind, price) ==
  IF (IF kind = "high" THEN price > last[kind] ELSE price < last[kind]) THEN 1 ELSE -1

\* The structural event a new pivot of either kind is: +1 only for a higher one.
Event(kind, price) == IF price > last[kind] THEN 1 ELSE -1

\* Variant: the oldest are kept, del events[memory:].
RecalledOldest(all) == SubSeq(all, 1, Min({Len(all), Memory}))

\* del events[:-memory]: the newest are kept.
Recalled(all) == SubSeq(all, Max({1, Len(all) - Memory + 1}), Len(all))

\* Variant: an equal pivot counts as a lower one here, too.
TrendNeverFlat(kind, price) == IF price > last[kind] THEN 1 ELSE -1

TrendOf(kind, price) == Sign(price - last[kind])

Init ==
  /\ bars = <<>>
  /\ lastIndex = [kind \in Kinds |-> 0] /\ last = [kind \in Kinds |-> 0]
  /\ trend = [kind \in Kinds |-> 0]
  /\ events = <<>> /\ direction = 0
  /\ bos = [index |-> 0, dir |-> 0] /\ mss = [index |-> 0, dir |-> 0]

\* Pivots of both kinds are registered, the high one first.
RegisterPivots(i) ==
  LET new   == {kind \in Kinds : Confirms(kind, bars', i)}
      price == [kind \in Kinds |-> Price(kind, bars'[i - K])]
      news(kind) == IF kind \in new /\ lastIndex[kind] # 0 THEN <<Event(kind, price[kind])>> ELSE <<>>
  IN  /\ lastIndex' = [kind \in Kinds |-> IF kind \in new THEN i - K ELSE lastIndex[kind]]
      /\ last' = [kind \in Kinds |-> IF kind \in new THEN price[kind] ELSE last[kind]]
      /\ trend' = [kind \in Kinds |->
                     IF news(kind) = <<>> THEN trend[kind] ELSE TrendOf(kind, price[kind])]
      /\ events' = Recalled(events \o news("high") \o news("low"))

\* Agreeing trends decide the direction, else the balance of the events.
Direct ==
  direction' = IF trend'["high"] = 1 /\ trend'["low"] = 1 THEN 1
               ELSE IF trend'["high"] = -1 /\ trend'["low"] = -1 THEN -1
               ELSE IF Len(events') >= 2 THEN Sign(FoldSeq(+, 0, events'))
               ELSE 0

\* Variant: the break is of the levels as they were before this bar's pivots.
BreakOfOldStructure(i) ==
  LET close == bars'[i].close
      up    == lastIndex["high"] # 0 /\ close > last["high"]
      down  == lastIndex["low"] # 0 /\ close < last["low"]
      dir   == IF up THEN 1 ELSE -1
  IN  IF ~up /\ ~down THEN UNCHANGED <<bos, mss>>
      ELSE /\ bos' = [index |-> i, dir |-> dir]
           /\ mss' = IF bos.dir # dir THEN [index |-> i, dir |-> dir] ELSE mss

\* Variant: every break of structure is taken for a shift.
BreakIsShift(i) ==
  LET close == bars'[i].close
      up    == lastIndex'["high"] # 0 /\ close > last'["high"]
      down  == lastIndex'["low"] # 0 /\ close < last'["low"]
  IN  IF ~up /\ ~down THEN UNCHANGED <<bos, mss>>
      ELSE /\ bos' = [index |-> i, dir |-> IF up THEN 1 ELSE -1]
           /\ mss' = bos'

\* A close beyond the last confirmed high, or else low; a shift when the break
\* before it was not in the same direction.
BreakOfStructure(i) ==
  LET close == bars'[i].close
      up    == lastIndex'["high"] # 0 /\ close > last'["high"]
      down  == lastIndex'["low"] # 0 /\ close < last'["low"]
      dir   == IF up THEN 1 ELSE -1
  IN  IF ~up /\ ~down THEN UNCHANGED <<bos, mss>>
      ELSE /\ bos' = [index |-> i, dir |-> dir]
           /\ mss' = IF bos.dir # dir THEN [index |-> i, dir |-> dir] ELSE mss

NextBar(bar) ==
  /\ bars' = Append(bars, bar)
  /\ RegisterPivots(Len(bars'))
  /\ Direct
  /\ BreakOfStructure(Len(bars'))

-----------------------------------------------------------------------------
\* The pivots of a history: the bars that K bars on either side do not exceed.
Pivots(kind) ==
  {j \in K + 1 .. Len(bars) - K :
     \A l \in j - K .. j + K : Extreme(kind, bars[l]) <= Extreme(kind, bars[j])}

\* The confirmation-delay rule: the swings known at a bar are exactly the pivots
\* at least K bars old, the last of which is reported, and neither a swing nor a
\* break was ever taken from anything that came later.
SwingsAreConfirmed ==
  \A kind \in Kinds :
    IF Pivots(kind) = {} THEN lastIndex[kind] = 0
    ELSE /\ lastIndex[kind] = Max(Pivots(kind))
         /\ last[kind] = Price(kind, bars[lastIndex[kind]])

\* hh, lh, hl and ll compare the last two pivots of a kind.
TrendComparesPivots ==
  \A kind \in Kinds :
    LET earlier == Pivots(kind) \ {lastIndex[kind]}
        value(j) == Price(kind, bars[j])
    IN  IF earlier = {} THEN trend[kind] = 0
        ELSE trend[kind] = Sign(value(lastIndex[kind]) - value(Max(earlier)))

\* The pivots with another of their kind before them: only those compare.  They
\* are registered in the order of their bars, the high one first.
Moves ==
  UNION {LET pivots == Pivots(kind)
         IN  {[kind |-> kind, bar |-> j] : j \in {p \in pivots : \E q \in pivots : q < p}}
           : kind \in Kinds}

Before(move, other) ==
  \/ move.bar < other.bar
  \/ move.bar = other.bar /\ move.kind = "high" /\ other.kind = "low"

\* How many of them were registered after this one.
Later(moves, move) == Cardinality({other \in moves : Before(move, other)})

\* By how much a pivot is higher than the one of its kind before it.
Rise(move) ==
  LET before == Max({j \in Pivots(move.kind) : j < move.bar})
  IN  Price(move.kind, bars[move.bar]) - Price(move.kind, bars[before])

\* The event memory is of the last pivots of the whole history, of both kinds, in
\* the order in which they were registered: +1 for those higher than the one of
\* their kind before, -1 for the others, and no more than Memory of them.
EventsAreOfPivots ==
  LET moves == Moves
  IN  /\ Len(events) = Min({Cardinality(moves), Memory})
      /\ \A move \in moves : Later(moves, move) < Len(events) =>
           events[Len(events) - Later(moves, move)] = (IF Rise(move) > 0 THEN 1 ELSE -1)

\* The direction of structure is up after a higher high with a higher low, down
\* after a lower high with a lower low, and else what most of the last Memory
\* pivots say, if two or more say anything.
DirectionFollowsPivots ==
  LET moves  == Moves
      newest == {move \in moves : \A other \in moves :
                   other.kind = move.kind => other.bar <= move.bar}
      recent == {move \in moves : Later(moves, move) < Memory}
      rises  == {move \in recent : Rise(move) > 0}
      both(agree(_)) == Cardinality(newest) = 2 /\ \A move \in newest : agree(Rise(move))
  IN  direction = IF both(LAMBDA r : r > 0) THEN 1
                  ELSE IF both(LAMBDA r : r < 0) THEN -1
                  ELSE IF Cardinality(recent) < 2 THEN 0
                  ELSE Sign(2 * Cardinality(rises) - Cardinality(recent))

\* Every shift is a break, and shifts alternate: one is only ever followed by
\* one of the other direction.
ShiftsAlternate ==
  [][mss' # mss => mss' = bos' /\ mss'.dir # mss.dir]_vars

\* A break is of a level that was known before the bar that breaks it or is K
\* bars old when it does: no bar breaks a swing of the last K bars, its own
\* included.
BreaksAreOfOldLevels ==
  bos.index = Len(bars) /\ bars # <<>> =>
    LET kind == IF bos.dir = 1 THEN "high" ELSE "low"
    IN  /\ lastIndex[kind] \in 1 .. Len(bars) - K
        /\ bos.dir * (bars[Len(bars)].close - last[kind]) > 0
=============================================================================
