-------------------------- MODULE PriceAction_proofs --------------------------
(***************************************************************************)
(* The forward passes of fvg.py, order_blocks.py, structure.py and         *)
(* liquidity.py agree with the whole history they have seen, for histories *)
(* of any length and of any bars, and for every setting.                   *)
(***************************************************************************)
EXTENDS PriceAction, SequenceTheorems, FiniteSetTheorems, WellFoundedInduction, TLAPS

Shapes == UNION {m.shapes : m \in Markets}

\* The pivots of a history.
PivotsOf(kind, h) ==
  {j \in K + 1 .. Len(h) - K :
     \A l \in j - K .. j + K : Swings!Extreme(kind, h[l]) <= Swings!Extreme(kind, h[j])}

\* What is remembered of the pivots of a kind: the last one ...
KnowsLast(kind) ==
  IF PivotsOf(kind, bars) = {} THEN lastIndex[kind] = 0
  ELSE /\ lastIndex[kind] \in PivotsOf(kind, bars)
       /\ \A j \in PivotsOf(kind, bars) : j <= lastIndex[kind]
       /\ last[kind] = Swings!Price(kind, bars[lastIndex[kind]])

\* ... and how it compares with the one before.
KnowsTrend(kind) ==
  LET earlier == PivotsOf(kind, bars) \ {lastIndex[kind]}
  IN  IF earlier = {} THEN trend[kind] = 0
      ELSE \E m \in earlier :
             /\ \A j \in earlier : j <= m
             /\ trend[kind] = Swings!Sign(Swings!Price(kind, bars[lastIndex[kind]])
                                            - Swings!Price(kind, bars[m]))

\* The pivots that compare with one before, how many of them were registered
\* after one of them, and the event one of them is.
MovesOf(h) ==
  UNION {{[kind |-> kind, bar |-> j] :
             j \in {p \in PivotsOf(kind, h) : \E q \in PivotsOf(kind, h) : q < p}}
           : kind \in Swings!Kinds}

Newer(moves, move) == Cardinality({other \in moves : Swings!Before(move, other)})

IsEvent(h, move, e) ==
  \E b \in PivotsOf(move.kind, h) :
    /\ b < move.bar
    /\ \A j \in PivotsOf(move.kind, h) : j < move.bar => j <= b
    /\ e = IF Swings!Price(move.kind, h[move.bar]) > Swings!Price(move.kind, h[b])
           THEN 1 ELSE -1

\* A list of events is of the moves registered last, in that order.
AreEvents(h, moves, list) ==
  \A move \in moves : Newer(moves, move) < Len(list) =>
    IsEvent(h, move, list[Len(list) - Newer(moves, move)])

KnowsEvents ==
  /\ events \in Seq(Int) /\ IsFiniteSet(MovesOf(bars))
  /\ Len(events) = IF Cardinality(MovesOf(bars)) <= Memory
                   THEN Cardinality(MovesOf(bars)) ELSE Memory
  /\ AreEvents(bars, MovesOf(bars), events)

\* The last break of structure: a shift had its direction, and if it is of the
\* newest bar it is a break of the swing that was last confirmed.
KnowsBreak ==
  /\ mss.dir = bos.dir
  /\ bos.index \in 0 .. Len(bars)
  /\ bos.index = Len(bars) /\ bars # <<>> =>
       LET kind == IF bos.dir = 1 THEN "high" ELSE "low"
       IN  /\ lastIndex[kind] # 0
           /\ bos.dir \in {1, -1}
           /\ IF bos.dir = 1 THEN bars[Len(bars)].close > last["high"]
                             ELSE bars[Len(bars)].close < last["low"]

\* The last sweep, and what is emitted of it.
SweepsOf(h) == {i \in DOMAIN h : Hunts!Swept(h, i)}

SweepOf(h, i) ==
  [index |-> i, dir |-> IF Hunts!SweptHigh(h, i) THEN 1 ELSE -1, close |-> h[i].close]

KnowsSweep ==
  /\ IF SweepsOf(bars) = {} THEN sweep = Hunts!NoSweep
     ELSE \E i \in SweepsOf(bars) : (\A j \in SweepsOf(bars) : j <= i) /\ sweep = SweepOf(bars, i)
  /\ score = IF bars = <<>> THEN Hunts!NoScore
             ELSE Hunts!Score(sweep, Len(bars), bars[Len(bars)].close)

IInv ==
  /\ market \in Markets /\ bars \in Seq(Shapes)
  /\ lastIndex \in [Swings!Kinds -> Int]
  /\ \A kind \in Swings!Kinds : KnowsLast(kind) /\ KnowsTrend(kind)
  /\ KnowsEvents /\ KnowsBreak /\ KnowsSweep

-----------------------------------------------------------------------------
LEMMA Constants ==
  /\ K \in Nat \ {0} /\ AtrPeriod \in Nat \ {0} /\ Tolerance \in Nat /\ Lookback \in Nat
  /\ MaxAge \in Nat /\ MaxTracked \in Nat \ {0} /\ Memory \in Nat \ {0}
  /\ \A bar \in Shapes : /\ bar.low \in Int /\ bar.high \in Int /\ bar.close \in Int
                         /\ bar.levels \subseteq Int
BY PriceActionAssumption
DEF PriceActionAssumption, Gaps!GapsAssumption, Gaps!ZonesAssumption,
    Swings!StructureAssumption, Hunts!SweepsAssumption, Shapes

\* A bar that is appended changes none of those before it.
LEMMA AppendedBar ==
  ASSUME NEW S, NEW h \in Seq(S), NEW bar \in S
  PROVE  /\ Append(h, bar) \in Seq(S) /\ Append(h, bar) # <<>>
         /\ Len(h) \in Nat /\ Len(Append(h, bar)) = Len(h) + 1
         /\ DOMAIN h = 1 .. Len(h) /\ DOMAIN Append(h, bar) = 1 .. Len(h) + 1
         /\ \A i \in 1 .. Len(h) : Append(h, bar)[i] = h[i]
         /\ Append(h, bar)[Len(h) + 1] = bar
BY AppendProperties, LenProperties, EmptySeq

\* It makes a pivot of the bar K before it, or of none.
LEMMA PivotsGrow ==
  ASSUME NEW h \in Seq(Shapes), NEW bar \in Shapes, NEW kind
  PROVE  LET g == Append(h, bar)
             i == Len(h) + 1
         IN  /\ \A j \in PivotsOf(kind, h) : j \in 1 .. Len(h) /\ j < i - K
             /\ Swings!Confirms(kind, g, i) => i - K \in 2 .. Len(h)
             /\ PivotsOf(kind, g) = PivotsOf(kind, h)
                  \cup (IF Swings!Confirms(kind, g, i) THEN {i - K} ELSE {})
<1> DEFINE g == Append(h, bar)
           i == Len(h) + 1
           high(f, j) == Swings!Extreme(kind, f[j])
<1>1. /\ K \in Nat \ {0} /\ Len(h) \in Nat /\ Len(g) = i
      /\ \A j \in 1 .. Len(h) : g[j] = h[j]
  BY Constants, AppendedBar
<1> HIDE DEF g
<1>2. \A j \in 1 .. Len(h) : high(g, j) = high(h, j)
  BY <1>1
<1> HIDE DEF high
<1>3. \A f : PivotsOf(kind, f) = {j \in K + 1 .. Len(f) - K :
                                    \A l \in j - K .. j + K : high(f, l) <= high(f, j)}
  BY DEF PivotsOf, high
<1>4. Swings!Confirms(kind, g, i) <=>
        i > 2 * K /\ \A l \in i - 2 * K .. i : high(g, l) <= high(g, i - K)
  BY DEF Swings!Confirms, high
<1>5. ASSUME NEW j \in K + 1 .. Len(h) - K
      PROVE  j \in PivotsOf(kind, g) <=> j \in PivotsOf(kind, h)
  <2>1. j \in K + 1 .. Len(g) - K /\ j \in 1 .. Len(h)
    BY <1>1
  <2>2. \A l \in j - K .. j + K : l \in 1 .. Len(h)
    BY <1>1
  <2> QED
    BY <1>2, <1>3, <2>1, <2>2
<1>6. i - K \in PivotsOf(kind, g) <=> Swings!Confirms(kind, g, i)
  <2>1. i - K \in K + 1 .. Len(g) - K <=> i > 2 * K
    BY <1>1
  <2>2. (i - K) - K = i - 2 * K /\ (i - K) + K = i
    BY <1>1
  <2> QED
    BY <1>3, <1>4, <2>1, <2>2
<1>7. \A j : j \in K + 1 .. Len(g) - K => j \in K + 1 .. Len(h) - K \/ j = i - K
  BY <1>1
<1>8. PivotsOf(kind, g) = PivotsOf(kind, h)
        \cup (IF Swings!Confirms(kind, g, i) THEN {i - K} ELSE {})
  BY <1>3, <1>5, <1>6, <1>7
<1>9. \A j \in PivotsOf(kind, h) : j \in 1 .. Len(h) /\ j < i - K
  BY <1>1, <1>3
<1>10. Swings!Confirms(kind, g, i) => i - K \in 2 .. Len(h)
  BY <1>1, <1>4
<1> QED
  BY <1>8, <1>9, <1>10 DEF g

\* What a bar does to the memory of one kind of pivot.
LEMMA PivotStep ==
  ASSUME IInv, NEW bar \in Shapes, Swings!NextBar(bar), NEW kind \in Swings!Kinds
  PROVE  LET i == Len(bars) + 1
             new == Swings!Confirms(kind, bars', i)
             price == Swings!Price(kind, bars'[i - K])
         IN  /\ lastIndex'[kind] = IF new THEN i - K ELSE lastIndex[kind]
             /\ last'[kind] = IF new THEN price ELSE last[kind]
             /\ trend'[kind] = IF new /\ lastIndex[kind] # 0
                               THEN Swings!Sign(price - last[kind]) ELSE trend[kind]
<1>1. bars' = Append(bars, bar) /\ Len(bars') = Len(bars) + 1
  BY AppendedBar DEF Swings!NextBar, IInv
<1> DEFINE i == Len(bars) + 1
           new == {k \in Swings!Kinds : Swings!Confirms(k, bars', i)}
           price == [k \in Swings!Kinds |-> Swings!Price(k, bars'[i - K])]
           news(k) == IF k \in new /\ lastIndex[k] # 0
                      THEN <<Swings!Event(k, price[k])>> ELSE <<>>
<1>2. Swings!RegisterPivots(i)
  BY <1>1 DEF Swings!NextBar
<1>3. /\ lastIndex' = [k \in Swings!Kinds |-> IF k \in new THEN i - K ELSE lastIndex[k]]
      /\ last' = [k \in Swings!Kinds |-> IF k \in new THEN price[k] ELSE last[k]]
      /\ trend' = [k \in Swings!Kinds |-> IF news(k) = <<>> THEN trend[k]
                                          ELSE Swings!TrendOf(k, price[k])]
  BY <1>2 DEF Swings!RegisterPivots
<1>4. kind \in new <=> Swings!Confirms(kind, bars', i)
  OBVIOUS
<1>5. price[kind] = Swings!Price(kind, bars'[i - K])
  OBVIOUS
<1>6. news(kind) = <<>> <=> ~(kind \in new /\ lastIndex[kind] # 0)
  <2>1. \A e : <<e>> # <<>>
    OBVIOUS
  <2> QED
    BY <2>1
<1> HIDE DEF new, price, news
<1>7. trend'[kind] = IF news(kind) = <<>> THEN trend[kind]
                     ELSE Swings!Sign(price[kind] - last[kind])
  BY <1>3 DEF Swings!TrendOf
<1> QED
  BY <1>3, <1>4, <1>5, <1>6, <1>7

LEMMA SwingsStep ==
  ASSUME IInv, NEW bar \in Shapes, Swings!NextBar(bar)
  PROVE  /\ lastIndex' \in [Swings!Kinds -> Int]
         /\ \A kind \in Swings!Kinds : KnowsLast(kind)' /\ KnowsTrend(kind)'
<1> DEFINE i == Len(bars) + 1
<1>1. /\ bars \in Seq(Shapes) /\ bars' = Append(bars, bar)
      /\ Len(bars) \in Nat /\ K \in Nat \ {0}
      /\ \A j \in 1 .. Len(bars) : bars'[j] = bars[j]
  BY AppendedBar, Constants DEF Swings!NextBar, IInv
<1>2. lastIndex' \in [Swings!Kinds -> Int]
  <2>1. lastIndex' = [k \in Swings!Kinds |-> IF Swings!Confirms(k, bars', Len(bars'))
                                             THEN Len(bars') - K ELSE lastIndex[k]]
    BY DEF Swings!NextBar, Swings!RegisterPivots
  <2>2. lastIndex \in [Swings!Kinds -> Int] /\ Len(bars') \in Int
    BY <1>1, AppendedBar DEF IInv
  <2> QED
    BY <1>1, <2>1, <2>2
<1>3. ASSUME NEW kind \in Swings!Kinds
      PROVE  KnowsLast(kind)' /\ KnowsTrend(kind)'
  <2> DEFINE old == PivotsOf(kind, bars)
             all == PivotsOf(kind, bars')
             new == Swings!Confirms(kind, bars', i)
             value(j) == Swings!Price(kind, bars'[j])
  <2>1. /\ \A j \in old : j \in 1 .. Len(bars) /\ j < i - K
        /\ new => i - K \in 2 .. Len(bars)
        /\ all = old \cup (IF new THEN {i - K} ELSE {})
    BY <1>1, PivotsGrow
  <2>2. /\ lastIndex'[kind] = IF new THEN i - K ELSE lastIndex[kind]
        /\ last'[kind] = IF new THEN value(i - K) ELSE last[kind]
        /\ trend'[kind] = IF new /\ lastIndex[kind] # 0
                          THEN Swings!Sign(value(i - K) - last[kind]) ELSE trend[kind]
    BY PivotStep
  <2>3. IF old = {} THEN lastIndex[kind] = 0
        ELSE /\ lastIndex[kind] \in old /\ \A j \in old : j <= lastIndex[kind]
             /\ last[kind] = value(lastIndex[kind])
    <3>1. KnowsLast(kind)
      BY DEF IInv
    <3> QED
      BY <1>1, <2>1, <3>1 DEF KnowsLast
  <2>4. IF old \ {lastIndex[kind]} = {} THEN trend[kind] = 0
        ELSE \E m \in old \ {lastIndex[kind]} :
               /\ \A j \in old \ {lastIndex[kind]} : j <= m
               /\ trend[kind] = Swings!Sign(value(lastIndex[kind]) - value(m))
    <3>1. KnowsTrend(kind)
      BY DEF IInv
    <3>2. \A j \in old : value(j) = Swings!Price(kind, bars[j])
      BY <1>1, <2>1
    <3>3. old # {} => lastIndex[kind] \in old
      BY <2>3
    <3> HIDE DEF value, old
    <3> QED
      BY <3>1, <3>2, <3>3 DEF KnowsTrend, old
  <2> HIDE DEF old, all, new, value, i
  <2>5. i - K \in Int /\ \A j \in old : j \in Int
    BY <1>1, <2>1 DEF i
  <2>6. KnowsLast(kind)'
    <3>1. IF all = {} THEN lastIndex'[kind] = 0
          ELSE /\ lastIndex'[kind] \in all /\ \A j \in all : j <= lastIndex'[kind]
               /\ last'[kind] = value(lastIndex'[kind])
      <4>1. CASE new
        BY <2>1, <2>2, <2>5, <4>1
      <4>2. CASE ~new
        BY <2>1, <2>2, <2>3, <4>2
      <4> QED
        BY <4>1, <4>2
    <3> QED
      BY <3>1 DEF KnowsLast, all, value
  <2>7. KnowsTrend(kind)'
    <3> DEFINE earlier == all \ {lastIndex'[kind]}
    <3>1. IF earlier = {} THEN trend'[kind] = 0
          ELSE \E m \in earlier :
                 /\ \A j \in earlier : j <= m
                 /\ trend'[kind] = Swings!Sign(value(lastIndex'[kind]) - value(m))
      <4>1. CASE ~new
        BY <2>1, <2>2, <2>4, <4>1
      <4>2. CASE new /\ old = {}
        <5>1. earlier = {} /\ trend'[kind] = trend[kind]
          BY <2>1, <2>2, <2>3, <4>2
        <5> QED
          BY <2>4, <4>2, <5>1
      <4>3. CASE new /\ old # {}
        <5>1. earlier = old
          <6>1. i - K \notin old
            BY <2>1, <2>5
          <6> QED
            BY <2>1, <2>2, <4>3, <6>1
        <5>2. lastIndex[kind] # 0
          BY <2>1, <2>3, <4>3
        <5>3. trend'[kind] = Swings!Sign(value(lastIndex'[kind]) - value(lastIndex[kind]))
          BY <2>2, <2>3, <4>3, <5>2
        <5> HIDE DEF earlier
        <5> QED
          BY <2>3, <4>3, <5>1, <5>3
      <4> QED
        BY <4>1, <4>2, <4>3
    <3> QED
      BY <3>1 DEF KnowsTrend, all, value
  <2> QED
    BY <2>6, <2>7
<1> QED
  BY <1>2, <1>3

\* The greatest element of a set is the one that is not exceeded.
LEMMA GreatestIsMax ==
  ASSUME NEW S, S \subseteq Int, NEW m \in S, \A j \in S : j <= m
  PROVE  Swings!Max(S) = m /\ Hunts!Max(S) = m
<1>1. \A n \in S : (\A j \in S : n >= j) <=> n = m
  <2> SUFFICES ASSUME NEW n \in S PROVE (\A j \in S : n >= j) <=> n = m
    OBVIOUS
  <2>1. n \in Int /\ m \in Int /\ n <= m
    OBVIOUS
  <2> QED
    BY <2>1
<1>2. (CHOOSE n \in S : \A j \in S : n >= j) = m
  BY <1>1
<1> QED
  BY <1>2 DEF Swings!Max, Hunts!Max

-----------------------------------------------------------------------------
\* A move that is registered after all the others is the newest.
LEMMA NewestMove ==
  ASSUME NEW S, IsFiniteSet(S), NEW x, x \notin S, ~Swings!Before(x, x),
         \A m \in S : Swings!Before(m, x) /\ ~Swings!Before(x, m)
  PROVE  /\ IsFiniteSet(S \cup {x}) /\ Cardinality(S) \in Nat
         /\ Cardinality(S \cup {x}) = Cardinality(S) + 1
         /\ Newer(S \cup {x}, x) = 0
         /\ \A m \in S : Newer(S, m) \in Nat /\ Newer(S \cup {x}, m) = Newer(S, m) + 1
<1>1. /\ IsFiniteSet(S \cup {x}) /\ Cardinality(S) \in Nat
      /\ Cardinality(S \cup {x}) = Cardinality(S) + 1
  BY FS_AddElement, FS_CardinalityType
<1>2. Newer(S \cup {x}, x) = 0
  <2>1. {other \in S \cup {x} : Swings!Before(x, other)} = {}
    OBVIOUS
  <2> QED
    BY <2>1, FS_EmptySet DEF Newer
<1>3. ASSUME NEW m \in S
      PROVE  Newer(S, m) \in Nat /\ Newer(S \cup {x}, m) = Newer(S, m) + 1
  <2> DEFINE after == {other \in S : Swings!Before(m, other)}
  <2>1. {other \in S \cup {x} : Swings!Before(m, other)} = after \cup {x}
    OBVIOUS
  <2>2. IsFiniteSet(after)
    BY FS_Subset
  <2>3. x \notin after
    OBVIOUS
  <2> HIDE DEF after
  <2>4. Cardinality(after \cup {x}) = Cardinality(after) + 1 /\ Cardinality(after) \in Nat
    BY <2>2, <2>3, FS_AddElement, FS_CardinalityType
  <2> QED
    BY <2>1, <2>4 DEF Newer, after
<1> QED
  BY <1>1, <1>2, <1>3

\* Its event goes at the end of the list.
LEMMA EventAdded ==
  ASSUME NEW h, NEW S, IsFiniteSet(S), NEW x, x \notin S, ~Swings!Before(x, x),
         \A m \in S : Swings!Before(m, x) /\ ~Swings!Before(x, m),
         NEW list \in Seq(Int), AreEvents(h, S, list), NEW e \in Int, IsEvent(h, x, e)
  PROVE  /\ list \o <<e>> \in Seq(Int) /\ Len(list \o <<e>>) = Len(list) + 1
         /\ AreEvents(h, S \cup {x}, list \o <<e>>)
<1> DEFINE T == S \cup {x}
           longer == list \o <<e>>
<1>1. /\ longer \in Seq(Int) /\ Len(longer) = Len(list) + 1 /\ Len(list) \in Nat
      /\ longer[Len(list) + 1] = e
      /\ \A k \in 1 .. Len(list) : longer[k] = list[k]
  <2>1. longer = Append(list, e)
    BY AppendIsConcat
  <2> QED
    BY <2>1, AppendProperties, LenProperties
<1>2. Newer(T, x) = 0 /\ \A m \in S : Newer(S, m) \in Nat /\ Newer(T, m) = Newer(S, m) + 1
  BY NewestMove
<1> HIDE DEF longer
<1>3. ASSUME NEW m \in T, Newer(T, m) < Len(longer)
      PROVE  IsEvent(h, m, longer[Len(longer) - Newer(T, m)])
  <2>1. CASE m = x
    BY <1>1, <1>2, <2>1
  <2>2. CASE m \in S
    <3> DEFINE n == Newer(S, m)
    <3>1. n \in Nat /\ Newer(T, m) = n + 1
      BY <1>2, <2>2
    <3>2. n + 1 < Len(longer)
      BY <1>3, <3>1
    <3> HIDE DEF n, T
    <3>3. n < Len(list) /\ Len(longer) - (n + 1) = Len(list) - n
          /\ Len(list) - n \in 1 .. Len(list)
      <4>1. Len(list) \in Nat /\ Len(longer) = Len(list) + 1 /\ n \in Nat
        BY <1>1, <3>1
      <4> QED
        BY <3>2, <4>1
    <3>4. IsEvent(h, m, list[Len(list) - n])
      BY <2>2, <3>3 DEF AreEvents, n
    <3>5. longer[Len(list) - n] = list[Len(list) - n]
      BY <1>1, <3>3
    <3> QED
      BY <3>1, <3>3, <3>4, <3>5
  <2> QED
    BY <2>1, <2>2
<1> QED
  BY <1>1, <1>3 DEF AreEvents, longer

\* Forgetting the oldest leaves the newest where they were, from the end.
LEMMA EventsRecalled ==
  ASSUME NEW h, NEW S, IsFiniteSet(S), NEW list \in Seq(Int), AreEvents(h, S, list)
  PROVE  /\ Swings!Recalled(list) \in Seq(Int)
         /\ Len(Swings!Recalled(list)) = IF Len(list) <= Memory THEN Len(list) ELSE Memory
         /\ AreEvents(h, S, Swings!Recalled(list))
<1> DEFINE first == IF Len(list) <= Memory THEN 1 ELSE Len(list) - Memory + 1
           kept == SubSeq(list, first, Len(list))
<1>1. Memory \in Nat \ {0} /\ Len(list) \in Nat
  BY Constants, LenProperties
<1>2. Swings!Max({1, Len(list) - Memory + 1}) = first
  <2> DEFINE S2 == {1, Len(list) - Memory + 1}
  <2>1. S2 \subseteq Int /\ first \in S2 /\ \A j \in S2 : j <= first
    BY <1>1
  <2> HIDE DEF first, S2
  <2>2. Swings!Max(S2) = first
    BY <2>1, GreatestIsMax
  <2> QED
    BY <2>2 DEF S2
<1>3. Swings!Recalled(list) = kept
  BY <1>2 DEF Swings!Recalled
<1>4. first \in 1 .. Len(list) + 1
  BY <1>1
<1>5. /\ kept \in Seq(Int) /\ Len(kept) = Len(list) - first + 1
      /\ \A k \in 1 .. Len(kept) : kept[k] = list[first + k - 1]
  <2>1. \A k \in first .. Len(list) : list[k] \in Int
    BY <1>1, <1>4, ElementOfSeq
  <2> HIDE DEF first
  <2> QED
    BY <1>1, <1>4, <2>1, SubSeqProperties
<1>6. Len(kept) = IF Len(list) <= Memory THEN Len(list) ELSE Memory
  BY <1>1, <1>5
<1> HIDE DEF kept, first
<1>7. ASSUME NEW m \in S, Newer(S, m) < Len(kept)
      PROVE  IsEvent(h, m, kept[Len(kept) - Newer(S, m)])
  <2> DEFINE n == Newer(S, m)
  <2>1. n \in Nat
    <3>1. IsFiniteSet({other \in S : Swings!Before(m, other)})
      BY FS_Subset
    <3> QED
      BY <3>1, FS_CardinalityType DEF Newer
  <2>9. n < Len(kept)
    BY <1>7
  <2> HIDE DEF n
  <2>10. Len(kept) = Len(list) - first + 1 /\ Len(kept) \in Nat /\ first \in Nat \ {0}
    BY <1>1, <1>4, <1>5, LenProperties
  <2>2. n < Len(list) /\ first + (Len(kept) - n) - 1 = Len(list) - n
        /\ Len(kept) - n \in 1 .. Len(kept)
    BY <1>1, <2>1, <2>9, <2>10
  <2>3. kept[Len(kept) - n] = list[Len(list) - n]
    BY <1>5, <2>2
  <2>4. IsEvent(h, m, list[Len(list) - n])
    BY <2>2 DEF AreEvents, n
  <2> QED
    BY <2>3, <2>4 DEF n
<1> QED
  BY <1>3, <1>5, <1>6, <1>7 DEF AreEvents

\* One bar makes moves of the pivots it confirms that have one before them, and
\* leaves the others and their events as they were.
LEMMA MovesGrow ==
  ASSUME NEW h \in Seq(Shapes), NEW bar \in Shapes
  PROVE  LET g == Append(h, bar)
             i == Len(h) + 1
         IN  /\ \A m \in MovesOf(h) : m.bar \in Int /\ m.bar < i - K
             /\ \A m \in MovesOf(h) : \A e : IsEvent(h, m, e) => IsEvent(g, m, e)
             /\ MovesOf(g) = MovesOf(h)
                  \cup {[kind |-> kind, bar |-> i - K] :
                          kind \in {k \in Swings!Kinds : /\ Swings!Confirms(k, g, i)
                                                        /\ PivotsOf(k, h) # {}}}
<1> DEFINE g == Append(h, bar)
           i == Len(h) + 1
           Conf(k) == Swings!Confirms(k, g, i)
           New == {[kind |-> kind, bar |-> i - K] :
                     kind \in {k \in Swings!Kinds : Conf(k) /\ PivotsOf(k, h) # {}}}
<1>1. ASSUME NEW k
      PROVE  /\ \A j \in PivotsOf(k, h) : j \in 1 .. Len(h) /\ j < i - K
             /\ PivotsOf(k, g) = PivotsOf(k, h) \cup (IF Conf(k) THEN {i - K} ELSE {})
  BY PivotsGrow
<1>2. /\ K \in Nat /\ Len(h) \in Nat /\ i - K \in Int
      /\ \A j \in 1 .. Len(h) : g[j] = h[j]
  BY Constants, AppendedBar
<1> HIDE DEF g, i, Conf
<1> DEFINE second(k, f) == {p \in PivotsOf(k, f) : \E q \in PivotsOf(k, f) : q < p}
<1>3. ASSUME NEW k
      PROVE  second(k, g) = second(k, h) \cup (IF Conf(k) /\ PivotsOf(k, h) # {}
                                               THEN {i - K} ELSE {})
  <2>1. \A j \in PivotsOf(k, h) : j \in Int /\ j < i - K
    BY <1>1
  <2>2. PivotsOf(k, g) = PivotsOf(k, h) \cup (IF Conf(k) THEN {i - K} ELSE {})
    BY <1>1
  <2> DEFINE old == PivotsOf(k, h)
             all == PivotsOf(k, g)
  <2> HIDE DEF old, all
  <2>3. /\ \A j \in old : j \in Int /\ j < i - K
        /\ all = old \cup (IF Conf(k) THEN {i - K} ELSE {})
    BY <2>1, <2>2 DEF old, all
  <2>4. {p \in all : \E q \in all : q < p}
          = {p \in old : \E q \in old : q < p}
              \cup (IF Conf(k) /\ old # {} THEN {i - K} ELSE {})
    BY <1>2, <2>3
  <2> QED
    BY <2>4 DEF old, all
<1>4. \A f : \A m : m \in MovesOf(f) <=> \E k \in Swings!Kinds : \E j \in second(k, f) :
                                           m = [kind |-> k, bar |-> j]
  BY DEF MovesOf
<1> HIDE DEF second
<1>5. MovesOf(g) = MovesOf(h) \cup New
  <2>1. ASSUME NEW m \in MovesOf(g) PROVE m \in MovesOf(h) \cup New
    <3>1. PICK k \in Swings!Kinds : \E j \in second(k, g) : m = [kind |-> k, bar |-> j]
      BY <1>4
    <3>2. PICK j \in second(k, g) : m = [kind |-> k, bar |-> j]
      BY <3>1
    <3> QED
      BY <1>3, <1>4, <3>2
  <2>2. ASSUME NEW m \in MovesOf(h) PROVE m \in MovesOf(g)
    <3>1. PICK k \in Swings!Kinds : \E j \in second(k, h) : m = [kind |-> k, bar |-> j]
      BY <1>4
    <3>2. PICK j \in second(k, h) : m = [kind |-> k, bar |-> j]
      BY <3>1
    <3> QED
      BY <1>3, <1>4, <3>2
  <2>3. ASSUME NEW m \in New PROVE m \in MovesOf(g)
    <3>1. PICK k \in Swings!Kinds : /\ Conf(k) /\ PivotsOf(k, h) # {}
                                    /\ m = [kind |-> k, bar |-> i - K]
      OBVIOUS
    <3>2. i - K \in second(k, g)
      BY <1>3, <3>1
    <3> QED
      BY <1>4, <3>1, <3>2
  <2> QED
    BY <2>1, <2>2, <2>3
<1>6. ASSUME NEW m \in MovesOf(h)
      PROVE  /\ m.bar < i - K /\ m.kind \in Swings!Kinds /\ m.bar \in 1 .. Len(h)
  <2>1. PICK k \in Swings!Kinds : \E j \in second(k, h) : m = [kind |-> k, bar |-> j]
    BY <1>4
  <2>2. PICK j \in second(k, h) : m = [kind |-> k, bar |-> j]
    BY <2>1
  <2>3. j \in PivotsOf(k, h)
    BY <2>2 DEF second
  <2> QED
    BY <1>1, <2>2, <2>3
<1>7. ASSUME NEW m \in MovesOf(h), NEW e, IsEvent(h, m, e)
      PROVE  IsEvent(g, m, e)
  <2>1. PICK b \in PivotsOf(m.kind, h) :
          /\ b < m.bar
          /\ \A j \in PivotsOf(m.kind, h) : j < m.bar => j <= b
          /\ e = IF Swings!Price(m.kind, h[m.bar]) > Swings!Price(m.kind, h[b])
                 THEN 1 ELSE -1
    BY <1>7 DEF IsEvent
  <2>2. b \in PivotsOf(m.kind, g) /\ h[m.bar] = g[m.bar] /\ h[b] = g[b]
    BY <1>1, <1>2, <1>6
  <2>3. \A j \in PivotsOf(m.kind, g) : j < m.bar => j \in PivotsOf(m.kind, h)
    <3>1. ~(i - K < m.bar)
      BY <1>2, <1>6
    <3> QED
      BY <1>1, <3>1
  <2> QED
    BY <2>1, <2>2, <2>3 DEF IsEvent
<1> QED
  BY <1>5, <1>6, <1>7 DEF g, i, Conf

\* The list of the events gains those of the pivots one bar confirms, and forgets
\* the oldest of what is then too many.
LEMMA EventsStep ==
  ASSUME IInv, NEW bar \in Shapes, Swings!NextBar(bar)
  PROVE  KnowsEvents'
<1> DEFINE i == Len(bars) + 1
           at == i - K
           g == bars'
           x(k) == [kind |-> k, bar |-> at]
           price(k) == Swings!Price(k, g[at])
           isNew(k) == Swings!Confirms(k, g, i) /\ lastIndex[k] # 0
           event(k) == IF price(k) > last[k] THEN 1 ELSE -1
           news(k) == IF isNew(k) THEN <<event(k)>> ELSE <<>>
           old == MovesOf(bars)
           made(k) == IF isNew(k) THEN {x(k)} ELSE {}
<1>1. /\ bars \in Seq(Shapes) /\ g = Append(bars, bar) /\ Len(g) = i
      /\ Len(bars) \in Nat /\ K \in Nat \ {0} /\ at \in Int
      /\ \A j \in 1 .. Len(bars) : g[j] = bars[j]
  BY AppendedBar, Constants DEF Swings!NextBar, IInv
<1>2. events' = Swings!Recalled(events \o news("high") \o news("low"))
  <2>1. Swings!RegisterPivots(i)
    BY <1>1 DEF Swings!NextBar
  <2> DEFINE confirmed == {k \in Swings!Kinds : Swings!Confirms(k, g, i)}
             prices == [k \in Swings!Kinds |-> Swings!Price(k, g[i - K])]
             added(k) == IF k \in confirmed /\ lastIndex[k] # 0
                         THEN <<Swings!Event(k, prices[k])>> ELSE <<>>
  <2>2. events' = Swings!Recalled(events \o added("high") \o added("low"))
    BY <2>1 DEF Swings!RegisterPivots
  <2>3. ASSUME NEW k \in Swings!Kinds PROVE added(k) = news(k)
    <3>1. prices[k] = price(k) /\ (k \in confirmed <=> Swings!Confirms(k, g, i))
      OBVIOUS
    <3>2. Swings!Event(k, prices[k]) = event(k)
      BY <3>1 DEF Swings!Event
    <3> HIDE DEF prices, confirmed, event
    <3> QED
      BY <3>1, <3>2
  <2>4. added("high") = news("high") /\ added("low") = news("low")
    BY <2>3 DEF Swings!Kinds
  <2> HIDE DEF added, news
  <2> QED
    BY <2>2, <2>4
<1>3. ASSUME NEW k \in Swings!Kinds
      PROVE  /\ lastIndex[k] # 0 <=> PivotsOf(k, bars) # {}
             /\ isNew(k) => IsEvent(g, x(k), event(k))
  <2>1. KnowsLast(k)
    BY DEF IInv
  <2>2. /\ \A j \in PivotsOf(k, bars) : j \in 1 .. Len(bars) /\ j < at
        /\ PivotsOf(k, g) = PivotsOf(k, bars)
             \cup (IF Swings!Confirms(k, g, i) THEN {at} ELSE {})
    BY <1>1, PivotsGrow
  <2>3. lastIndex[k] # 0 <=> PivotsOf(k, bars) # {}
    BY <2>1, <2>2 DEF KnowsLast
  <2> SUFFICES ASSUME isNew(k) PROVE IsEvent(g, x(k), event(k))
    BY <2>3
  <2> DEFINE b == lastIndex[k]
  <2>4. /\ b \in PivotsOf(k, bars) /\ \A j \in PivotsOf(k, bars) : j <= b
        /\ last[k] = Swings!Price(k, bars[b])
    BY <2>1, <2>3 DEF KnowsLast
  <2>5. g[b] = bars[b] /\ b < at /\ b \in PivotsOf(k, g)
    BY <1>1, <2>2, <2>4
  <2>6. \A j \in PivotsOf(k, g) : j < at => j <= b
    BY <1>1, <2>2, <2>4
  <2>7. x(k).kind = k /\ x(k).bar = at
    OBVIOUS
  <2>8. event(k) = IF Swings!Price(k, g[at]) > Swings!Price(k, g[b]) THEN 1 ELSE -1
    BY <2>4, <2>5
  <2> HIDE DEF x, b, event, at, g
  <2> QED
    BY <2>5, <2>6, <2>7, <2>8 DEF IsEvent
<1>4. /\ \A m \in old : m.bar \in Int /\ m.bar < at
      /\ \A m \in old : \A e : IsEvent(bars, m, e) => IsEvent(g, m, e)
      /\ MovesOf(g) = old \cup made("high") \cup made("low")
  <2>1. /\ \A m \in old : m.bar \in Int /\ m.bar < at
        /\ \A m \in old : \A e : IsEvent(bars, m, e) => IsEvent(g, m, e)
        /\ MovesOf(g) = old
             \cup {x(k) : k \in {l \in Swings!Kinds : /\ Swings!Confirms(l, g, i)
                                                    /\ PivotsOf(l, bars) # {}}}
    BY <1>1, MovesGrow
  <2>2. {x(k) : k \in {l \in Swings!Kinds : /\ Swings!Confirms(l, g, i)
                                           /\ PivotsOf(l, bars) # {}}}
          = {x(k) : k \in {l \in Swings!Kinds : isNew(l)}}
    BY <1>3
  <2> HIDE DEF isNew, x, old, g
  <2>3. {x(k) : k \in {l \in Swings!Kinds : isNew(l)}} = made("high") \cup made("low")
    BY DEF Swings!Kinds
  <2> QED
    BY <2>1, <2>2, <2>3
<1>5. /\ events \in Seq(Int) /\ IsFiniteSet(old) /\ AreEvents(bars, old, events)
      /\ Len(events) = IF Cardinality(old) <= Memory THEN Cardinality(old) ELSE Memory
  BY DEF IInv, KnowsEvents
<1>6. AreEvents(g, old, events)
  <2> HIDE DEF g, old
  <2> QED
    BY <1>4, <1>5 DEF AreEvents
<1>7. /\ \A k \in Swings!Kinds : event(k) \in Int
      /\ \A k : x(k).bar = at /\ x(k).kind = k
  OBVIOUS
<1> HIDE DEF x, event, isNew, at, g, i, old
<1>8. /\ \A k : ~Swings!Before(x(k), x(k))
      /\ \A k : x(k) \notin old
      /\ \A m \in old : \A k : Swings!Before(m, x(k)) /\ ~Swings!Before(x(k), m)
      /\ Swings!Before(x("high"), x("low")) /\ ~Swings!Before(x("low"), x("high"))
      /\ x("low") # x("high")
  <2>1. at \in Int /\ ~(at < at) /\ "high" # "low"
    BY <1>1
  <2>2. ASSUME NEW k PROVE ~Swings!Before(x(k), x(k)) /\ x(k) \notin old
    <3>1. ~Swings!Before(x(k), x(k))
      BY <1>7, <2>1 DEF Swings!Before
    <3>2. x(k) \notin old
      BY <1>4, <1>7, <2>1
    <3> QED
      BY <3>1, <3>2
  <2>3. ASSUME NEW m \in old, NEW k
        PROVE  Swings!Before(m, x(k)) /\ ~Swings!Before(x(k), m)
    <3>1. m.bar \in Int /\ m.bar < at /\ at # m.bar /\ ~(at < m.bar)
      BY <1>4, <2>1
    <3> QED
      BY <1>7, <3>1 DEF Swings!Before
  <2>4. /\ Swings!Before(x("high"), x("low")) /\ ~Swings!Before(x("low"), x("high"))
        /\ x("low") # x("high")
    BY <1>7, <2>1 DEF Swings!Before
  <2> QED
    BY <2>2, <2>3, <2>4
<1> DEFINE list1 == events \o news("high")
           list2 == list1 \o news("low")
           S1 == old \cup made("high")
           S2 == S1 \cup made("low")
<1>9. \A list \in Seq(Int) : list \o <<>> = list
  BY ConcatEmptySeq
<1>10. /\ list1 \in Seq(Int) /\ IsFiniteSet(S1) /\ AreEvents(g, S1, list1)
       /\ IF isNew("high") THEN /\ Len(list1) = Len(events) + 1
                                /\ Cardinality(S1) = Cardinality(old) + 1
                           ELSE list1 = events /\ S1 = old
  <2>1. CASE isNew("high")
    <3>1. news("high") = <<event("high")>> /\ made("high") = {x("high")}
      BY <2>1
    <3>2. IsEvent(g, x("high"), event("high")) /\ event("high") \in Int
      BY <1>3, <1>7, <2>1 DEF Swings!Kinds
    <3>3. /\ events \o <<event("high")>> \in Seq(Int)
          /\ Len(events \o <<event("high")>>) = Len(events) + 1
          /\ AreEvents(g, old \cup {x("high")}, events \o <<event("high")>>)
      BY <1>5, <1>6, <1>8, <3>2, EventAdded
    <3>4. /\ IsFiniteSet(old \cup {x("high")})
          /\ Cardinality(old \cup {x("high")}) = Cardinality(old) + 1
      BY <1>5, <1>8, FS_AddElement
    <3> QED
      BY <2>1, <3>1, <3>3, <3>4
  <2>2. CASE ~isNew("high")
    <3>1. list1 = events /\ S1 = old
      BY <1>5, <1>9, <2>2
    <3> HIDE DEF list1, S1
    <3> QED
      BY <1>5, <1>6, <2>2, <3>1
  <2> QED
    BY <2>1, <2>2
<1>11. /\ x("low") \notin S1
       /\ \A m \in S1 : Swings!Before(m, x("low")) /\ ~Swings!Before(x("low"), m)
  BY <1>8
<1> HIDE DEF list1, S1
<1>12. /\ list2 \in Seq(Int) /\ IsFiniteSet(S2) /\ AreEvents(g, S2, list2)
       /\ IF isNew("low") THEN /\ Len(list2) = Len(list1) + 1
                               /\ Cardinality(S2) = Cardinality(S1) + 1
                          ELSE list2 = list1 /\ S2 = S1
  <2>1. CASE isNew("low")
    <3>1. news("low") = <<event("low")>> /\ made("low") = {x("low")}
      BY <2>1
    <3>2. IsEvent(g, x("low"), event("low")) /\ event("low") \in Int
      BY <1>3, <1>7, <2>1 DEF Swings!Kinds
    <3>3. /\ list1 \o <<event("low")>> \in Seq(Int)
          /\ Len(list1 \o <<event("low")>>) = Len(list1) + 1
          /\ AreEvents(g, S1 \cup {x("low")}, list1 \o <<event("low")>>)
      BY <1>8, <1>10, <1>11, <3>2, EventAdded
    <3>4. /\ IsFiniteSet(S1 \cup {x("low")})
          /\ Cardinality(S1 \cup {x("low")}) = Cardinality(S1) + 1
      BY <1>10, <1>11, FS_AddElement
    <3> QED
      BY <2>1, <3>1, <3>3, <3>4
  <2>2. CASE ~isNew("low")
    <3>1. list2 = list1 /\ S2 = S1
      BY <1>9, <1>10, <2>2
    <3> HIDE DEF list2, S2
    <3> QED
      BY <1>10, <2>2, <3>1
  <2> QED
    BY <2>1, <2>2
<1>13. S2 = MovesOf(g) /\ events' = Swings!Recalled(list2)
  BY <1>2, <1>4 DEF S1, list1
<1> HIDE DEF list2, S2
<1>14. /\ events' \in Seq(Int)
       /\ Len(events') = IF Len(list2) <= Memory THEN Len(list2) ELSE Memory
       /\ AreEvents(g, S2, events')
  BY <1>12, <1>13, EventsRecalled
<1>15. Len(events') = IF Cardinality(S2) <= Memory THEN Cardinality(S2) ELSE Memory
  <2>1. Len(events) \in Nat /\ Cardinality(old) \in Nat /\ Memory \in Nat \ {0}
    BY <1>5, Constants, LenProperties, FS_CardinalityType
  <2>2. PICK a \in {0, 1} : Len(list1) = Len(events) + a /\ Cardinality(S1) = Cardinality(old) + a
    <3>1. CASE isNew("high")
      BY <1>10, <3>1
    <3>2. CASE ~isNew("high")
      <4>1. Len(list1) = Len(events) + 0 /\ Cardinality(S1) = Cardinality(old) + 0
        BY <1>10, <2>1, <3>2
      <4> QED
        BY <4>1
    <3> QED
      BY <3>1, <3>2
  <2>3. PICK b \in {0, 1} : Len(list2) = Len(list1) + b /\ Cardinality(S2) = Cardinality(S1) + b
    <3>1. CASE isNew("low")
      BY <1>12, <3>1
    <3>2. CASE ~isNew("low")
      <4>1. Len(list2) = Len(list1) + 0 /\ Cardinality(S2) = Cardinality(S1) + 0
        <5>1. list2 = list1 /\ S2 = S1
          BY <1>12, <3>2
        <5>2. Len(list1) \in Nat /\ Cardinality(S1) \in Nat
          BY <2>1, <2>2
        <5> QED
          BY <5>1, <5>2
      <4> QED
        BY <4>1
    <3> QED
      BY <3>1, <3>2
  <2>4. /\ Len(events) = IF Cardinality(old) <= Memory THEN Cardinality(old) ELSE Memory
        /\ Len(events') = IF Len(list2) <= Memory THEN Len(list2) ELSE Memory
    BY <1>5, <1>14
  <2>5. /\ Len(list2) = Len(events) + a + b /\ Cardinality(S2) = Cardinality(old) + a + b
        /\ a \in Nat /\ b \in Nat
    BY <2>1, <2>2, <2>3
  <2>6. CASE Cardinality(old) <= Memory
    <3>1. Len(events) = Cardinality(old)
      BY <2>4, <2>6
    <3> QED
      BY <2>1, <2>4, <2>5, <3>1
  <2>7. CASE ~(Cardinality(old) <= Memory)
    <3>1. Len(events) = Memory
      BY <2>4, <2>7
    <3>2. Memory <= Len(list2) /\ ~(Cardinality(S2) <= Memory)
      BY <2>1, <2>5, <2>7, <3>1
    <3>3. Len(list2) <= Memory => Len(list2) = Memory
      BY <2>1, <2>5, <3>1, <3>2
    <3> QED
      BY <2>4, <3>2, <3>3
  <2> QED
    BY <2>6, <2>7
<1> QED
  BY <1>12, <1>13, <1>14, <1>15 DEF KnowsEvents, g

\* A break is a close beyond a swing that is remembered; it is a shift unless
\* the break before it had its direction.
LEMMA BreakStep ==
  ASSUME IInv, NEW bar \in Shapes, Swings!NextBar(bar)
  PROVE  /\ KnowsBreak'
         /\ mss' # mss => mss' = bos' /\ mss'.dir # mss.dir
<1> DEFINE i == Len(bars) + 1
           up == lastIndex'["high"] # 0 /\ bar.close > last'["high"]
           down == lastIndex'["low"] # 0 /\ bar.close < last'["low"]
           dir == IF up THEN 1 ELSE -1
<1>1. /\ bars' = Append(bars, bar) /\ Len(bars') = i /\ bars'[i] = bar /\ bars' # <<>>
      /\ Len(bars) \in Nat
  BY AppendedBar DEF Swings!NextBar, IInv
<1>2. mss.dir = bos.dir /\ bos.index \in 0 .. Len(bars)
  BY DEF IInv, KnowsBreak
<1>3. IF ~up /\ ~down THEN UNCHANGED <<bos, mss>>
      ELSE /\ bos' = [index |-> i, dir |-> dir]
           /\ mss' = IF bos.dir # dir THEN [index |-> i, dir |-> dir] ELSE mss
  BY <1>1 DEF Swings!NextBar, Swings!BreakOfStructure
<1> HIDE DEF i
<1>4. i \in Nat /\ Len(bars) < i
  BY <1>1 DEF i
<1>5. CASE ~up /\ ~down
  <2>1. bos' = bos /\ mss' = mss
    BY <1>3, <1>5
  <2>2. bos'.index # Len(bars') /\ bos'.index \in 0 .. Len(bars')
    BY <1>1, <1>2, <1>4, <2>1
  <2> QED
    BY <1>2, <2>1, <2>2 DEF KnowsBreak
<1>6. CASE up \/ down
  <2>1. /\ bos' = [index |-> i, dir |-> dir]
        /\ mss' = IF bos.dir # dir THEN [index |-> i, dir |-> dir] ELSE mss
    BY <1>3, <1>6
  <2>2. mss'.dir = dir /\ bos'.dir = dir /\ bos'.index = i
    BY <1>2, <2>1
  <2>3. IF dir = 1 THEN up ELSE down
    BY <1>6
  <2>4. dir \in {1, -1}
    OBVIOUS
  <2>5. KnowsBreak'
    BY <1>1, <1>4, <2>2, <2>3, <2>4 DEF KnowsBreak
  <2>6. mss' # mss => mss' = bos' /\ mss'.dir # mss.dir
    BY <1>2, <2>1, <2>2
  <2> QED
    BY <2>5, <2>6
<1> QED
  BY <1>5, <1>6

-----------------------------------------------------------------------------
\* Whether a bar sweeps a level depends on that bar and the one before.
LEMMA SweepsGrow ==
  ASSUME NEW h \in Seq(Shapes), NEW bar \in Shapes
  PROVE  LET g == Append(h, bar)
             i == Len(h) + 1
         IN  /\ \A j \in 1 .. Len(h) : /\ Hunts!SweptHigh(g, j) <=> Hunts!SweptHigh(h, j)
                                       /\ Hunts!Swept(g, j) <=> Hunts!Swept(h, j)
             /\ SweepsOf(g) = SweepsOf(h) \cup (IF Hunts!Swept(g, i) THEN {i} ELSE {})
             /\ \A j \in SweepsOf(h) : j \in 1 .. Len(h)
<1> DEFINE g == Append(h, bar)
           i == Len(h) + 1
<1>1. /\ Len(h) \in Nat /\ DOMAIN h = 1 .. Len(h) /\ DOMAIN g = 1 .. i
      /\ \A j \in 1 .. Len(h) : g[j] = h[j]
  BY AppendedBar
<1> HIDE DEF g
<1>2. ASSUME NEW j \in 1 .. Len(h)
      PROVE  /\ Hunts!SweptHigh(g, j) <=> Hunts!SweptHigh(h, j)
             /\ Hunts!Swept(g, j) <=> Hunts!Swept(h, j)
  <2>1. g[j] = h[j] /\ Hunts!Sweepable(g, j) = Hunts!Sweepable(h, j)
    <3>1. j # 1 => j - 1 \in 1 .. Len(h)
      BY <1>1
    <3> QED
      BY <1>1, <3>1 DEF Hunts!Sweepable
  <2> QED
    BY <2>1 DEF Hunts!Swept, Hunts!SweptHigh, Hunts!SweptLow
<1>3. \A j : j \in 1 .. i <=> j \in 1 .. Len(h) \/ j = i
  BY <1>1
<1> QED
  BY <1>1, <1>2, <1>3 DEF SweepsOf, g

LEMMA SweepStep ==
  ASSUME IInv, NEW bar \in Shapes, Hunts!NextBar(bar)
  PROVE  KnowsSweep'
<1> DEFINE i == Len(bars) + 1
           old == SweepsOf(bars)
           all == SweepsOf(bars')
           swept == Hunts!Swept(bars', i)
<1>1. /\ bars \in Seq(Shapes) /\ bars' = Append(bars, bar) /\ bars' # <<>> /\ Len(bars') = i
      /\ Len(bars) \in Nat /\ bars'[i] = bar
      /\ \A j \in 1 .. Len(bars) : bars'[j] = bars[j]
  BY AppendedBar DEF Hunts!NextBar, IInv
<1>2. /\ \A j \in 1 .. Len(bars) : Hunts!SweptHigh(bars', j) <=> Hunts!SweptHigh(bars, j)
      /\ all = old \cup (IF swept THEN {i} ELSE {})
      /\ \A j \in old : j \in 1 .. Len(bars)
  BY <1>1, SweepsGrow
<1>3. sweep' = IF swept THEN SweepOf(bars', i) ELSE sweep
  BY <1>1 DEF Hunts!NextBar, Hunts!SweepAt, SweepOf
<1>4. IF old = {} THEN sweep = Hunts!NoSweep
      ELSE \E j \in old : (\A l \in old : l <= j) /\ sweep = SweepOf(bars, j)
  BY DEF IInv, KnowsSweep
<1>5. \A j \in old : SweepOf(bars', j) = SweepOf(bars, j)
  BY <1>1, <1>2 DEF SweepOf
<1> HIDE DEF old, all, swept
<1>6. IF all = {} THEN sweep' = Hunts!NoSweep
      ELSE \E j \in all : (\A l \in all : l <= j) /\ sweep' = SweepOf(bars', j)
  <2>1. CASE swept
    <3>1. i \in all /\ \A l \in all : l <= i
      BY <1>1, <1>2, <2>1
    <3> QED
      BY <1>3, <2>1, <3>1
  <2>2. CASE ~swept
    BY <1>2, <1>3, <1>4, <1>5, <2>2
  <2> QED
    BY <2>1, <2>2
<1>7. score' = Hunts!Score(sweep', Len(bars'), bars'[Len(bars')].close)
  BY <1>1 DEF Hunts!NextBar
<1> QED
  BY <1>1, <1>6, <1>7 DEF KnowsSweep, all, Hunts!NoSweep, Hunts!NoScore

-----------------------------------------------------------------------------
\* The inductive invariant, which is a strengthening of the properties below:
\* what is remembered is the latest of its kind in the whole history.
LEMMA InitialMemory == Init => IInv
<1> SUFFICES ASSUME Init PROVE IInv
  OBVIOUS
<1>1. /\ market \in Markets /\ bars = <<>> /\ bars \in Seq(Shapes) /\ Len(bars) = 0
      /\ DOMAIN bars = {}
  BY EmptySeq DEF Init, Swings!Init
<1>2. /\ lastIndex = [kind \in Swings!Kinds |-> 0] /\ trend = [kind \in Swings!Kinds |-> 0]
      /\ bos = [index |-> 0, dir |-> 0] /\ mss = [index |-> 0, dir |-> 0]
      /\ sweep = Hunts!NoSweep /\ score = Hunts!NoScore
  BY DEF Init, Swings!Init, Hunts!Init
<1>3. \A kind : PivotsOf(kind, bars) = {}
  BY <1>1, Constants DEF PivotsOf
<1>4. SweepsOf(bars) = {}
  BY <1>1 DEF SweepsOf
<1>5. KnowsEvents
  <2>1. MovesOf(bars) = {}
    BY <1>3 DEF MovesOf
  <2>2. events = <<>> /\ events \in Seq(Int) /\ Len(events) = 0
    BY EmptySeq DEF Init, Swings!Init
  <2>3. IsFiniteSet({}) /\ Cardinality({}) = 0
    BY FS_EmptySet
  <2> QED
    BY <2>1, <2>2, <2>3, Constants DEF KnowsEvents, AreEvents
<1> QED
  BY <1>1, <1>2, <1>3, <1>4, <1>5 DEF IInv, KnowsLast, KnowsTrend, KnowsBreak, KnowsSweep

LEMMA MemoryStep ==
  ASSUME IInv, [Next]_vars
  PROVE  /\ IInv'
         /\ mss' # mss => mss' = bos' /\ mss'.dir # mss.dir
<1>1. CASE Next
  <2>1. PICK bar \in market.shapes : NextBar(bar)
    BY <1>1 DEF Next
  <2>2. /\ bar \in Shapes /\ market' = market /\ market \in Markets
        /\ Swings!NextBar(bar) /\ Hunts!NextBar(bar)
    BY <2>1 DEF NextBar, IInv, Shapes
  <2>3. bars' \in Seq(Shapes)
    BY <2>2, AppendedBar DEF Swings!NextBar, IInv
  <2>4. /\ lastIndex' \in [Swings!Kinds -> Int]
        /\ \A kind \in Swings!Kinds : KnowsLast(kind)' /\ KnowsTrend(kind)'
    BY <2>2, SwingsStep
  <2>5. KnowsBreak' /\ (mss' # mss => mss' = bos' /\ mss'.dir # mss.dir)
    BY <2>2, BreakStep
  <2>6. KnowsSweep'
    BY <2>2, SweepStep
  <2>7. KnowsEvents'
    BY <2>2, EventsStep
  <2> QED
    BY <2>2, <2>3, <2>4, <2>5, <2>6, <2>7 DEF IInv, Swings!Kinds
<1>2. CASE UNCHANGED vars
  <2>1. IInv'
    BY <1>2 DEF IInv, vars, KnowsLast, KnowsTrend, KnowsEvents, KnowsBreak, KnowsSweep
  <2> QED
    BY <1>2, <2>1 DEF vars
<1> QED
  BY <1>1, <1>2

\* Whatever the history, IInv holds after every bar of it.
THEOREM MemoryIsOfTheHistory == Spec => []IInv
<1>1. IInv /\ [Next]_vars => IInv'
  BY MemoryStep
<1> QED
  BY <1>1, InitialMemory, PTL DEF Spec

-----------------------------------------------------------------------------
LEMMA PivotsAreBars ==
  ASSUME NEW kind, bars \in Seq(Shapes)
  PROVE  /\ Swings!Pivots(kind) = PivotsOf(kind, bars)
         /\ PivotsOf(kind, bars) \subseteq 2 .. Len(bars) - K
         /\ PivotsOf(kind, bars) \subseteq Int
<1>1. K \in Nat \ {0} /\ Len(bars) \in Nat
  BY Constants, LenProperties
<1> QED
  BY <1>1 DEF Swings!Pivots, PivotsOf

\* The confirmation delay: the swings structure.py knows are those of the whole
\* history whose K bars on either side have closed, at every bar.
THEOREM SwingsAreAlwaysConfirmed == Spec => []SwingsAreConfirmed
<1>1. IInv => SwingsAreConfirmed
  <2> SUFFICES ASSUME IInv, NEW kind \in Swings!Kinds
               PROVE  IF Swings!Pivots(kind) = {} THEN lastIndex[kind] = 0
                      ELSE /\ lastIndex[kind] = Swings!Max(Swings!Pivots(kind))
                           /\ last[kind] = Swings!Price(kind, bars[lastIndex[kind]])
    BY DEF SwingsAreConfirmed, Swings!SwingsAreConfirmed
  <2>1. KnowsLast(kind) /\ Swings!Pivots(kind) = PivotsOf(kind, bars)
        /\ PivotsOf(kind, bars) \subseteq Int
    BY PivotsAreBars DEF IInv
  <2>2. PivotsOf(kind, bars) # {} =>
          lastIndex[kind] = Swings!Max(PivotsOf(kind, bars))
    BY <2>1, GreatestIsMax DEF KnowsLast
  <2> QED
    BY <2>1, <2>2 DEF KnowsLast
<1> QED
  BY <1>1, MemoryIsOfTheHistory, PTL

\* hh, lh, hl and ll of structure.py always compare the last two pivots of all
\* history.
THEOREM TrendAlwaysComparesPivots == Spec => []TrendComparesPivots
<1>1. IInv => TrendComparesPivots
  <2> SUFFICES ASSUME IInv, NEW kind \in Swings!Kinds
               PROVE  LET earlier == Swings!Pivots(kind) \ {lastIndex[kind]}
                          value(j) == Swings!Price(kind, bars[j])
                      IN  IF earlier = {} THEN trend[kind] = 0
                          ELSE trend[kind] = Swings!Sign(value(lastIndex[kind])
                                                           - value(Swings!Max(earlier)))
    BY DEF TrendComparesPivots, Swings!TrendComparesPivots
  <2> DEFINE earlier == PivotsOf(kind, bars) \ {lastIndex[kind]}
  <2>1. KnowsTrend(kind) /\ Swings!Pivots(kind) = PivotsOf(kind, bars) /\ earlier \subseteq Int
    BY PivotsAreBars DEF IInv
  <2>2. ASSUME earlier # {}
        PROVE  trend[kind] = Swings!Sign(Swings!Price(kind, bars[lastIndex[kind]])
                                           - Swings!Price(kind, bars[Swings!Max(earlier)]))
    <3>1. PICK m \in earlier :
            /\ \A j \in earlier : j <= m
            /\ trend[kind] = Swings!Sign(Swings!Price(kind, bars[lastIndex[kind]])
                                           - Swings!Price(kind, bars[m]))
      BY <2>1, <2>2 DEF KnowsTrend
    <3>2. Swings!Max(earlier) = m
      <4> HIDE DEF earlier
      <4> QED
        BY <2>1, <3>1, GreatestIsMax
    <3> QED
      BY <3>1, <3>2
  <2>3. earlier = {} => trend[kind] = 0
    BY <2>1 DEF KnowsTrend
  <2> QED
    BY <2>1, <2>2, <2>3
<1> QED
  BY <1>1, MemoryIsOfTheHistory, PTL

\* The event memory of structure.py is, after every bar, of the last pivots of
\* all history that have one of their kind before them, in the order in which
\* they were confirmed, and +1 for just those that are higher than that one.
THEOREM EventsAreAlwaysOfPivots == Spec => []EventsAreOfPivots
<1>1. IInv => EventsAreOfPivots
  <2> SUFFICES ASSUME IInv PROVE Swings!EventsAreOfPivots
    BY DEF EventsAreOfPivots
  <2> DEFINE S == MovesOf(bars)
  <2>1. \A k : /\ Swings!Pivots(k) = PivotsOf(k, bars)
               /\ PivotsOf(k, bars) \subseteq 2 .. Len(bars) - K
               /\ PivotsOf(k, bars) \subseteq Int
    BY PivotsAreBars DEF IInv
  <2>2. Swings!Moves = S
    BY <2>1 DEF Swings!Moves, MovesOf
  <2>3. \A T : Swings!Cardinality(T) = Cardinality(T)
    BY DEF Swings!Cardinality, Cardinality
  <2>4. \A m : Swings!Later(S, m) = Newer(S, m)
    BY <2>3 DEF Swings!Later, Newer
  <2>5. Swings!Min({Cardinality(S), Memory})
          = IF Cardinality(S) <= Memory THEN Cardinality(S) ELSE Memory
    <3>1. Cardinality(S) \in Nat /\ Memory \in Nat
      BY Constants, FS_CardinalityType DEF IInv, KnowsEvents
    <3> HIDE DEF S
    <3> QED
      BY <3>1 DEF Swings!Min
  <2>6. ASSUME NEW m \in S, NEW e, IsEvent(bars, m, e)
        PROVE  e = IF Swings!Rise(m) > 0 THEN 1 ELSE -1
    <3>1. m.kind \in Swings!Kinds /\ m.bar \in PivotsOf(m.kind, bars)
      BY DEF MovesOf
    <3>2. PICK b \in PivotsOf(m.kind, bars) :
            /\ b < m.bar
            /\ \A j \in PivotsOf(m.kind, bars) : j < m.bar => j <= b
            /\ e = IF Swings!Price(m.kind, bars[m.bar]) > Swings!Price(m.kind, bars[b])
                   THEN 1 ELSE -1
      BY <2>6 DEF IsEvent
    <3> DEFINE earlier == {j \in Swings!Pivots(m.kind) : j < m.bar}
    <3>3. earlier \subseteq Int /\ b \in earlier /\ \A j \in earlier : j <= b
      BY <2>1, <3>2
    <3>4. Swings!Max(earlier) = b
      <4> HIDE DEF earlier
      <4> QED
        BY <3>3, GreatestIsMax
    <3>5. \A j \in PivotsOf(m.kind, bars) : Swings!Price(m.kind, bars[j]) \in Int
      <4>1. K \in Nat /\ bars \in Seq(Shapes) /\ Len(bars) \in Nat
        BY Constants, LenProperties DEF IInv
      <4> SUFFICES ASSUME NEW j \in PivotsOf(m.kind, bars)
                   PROVE  Swings!Price(m.kind, bars[j]) \in Int
        OBVIOUS
      <4>2. j \in 1 .. Len(bars)
        BY <2>1, <4>1
      <4>3. bars[j] \in Shapes
        BY <4>1, <4>2, ElementOfSeq
      <4> QED
        BY <4>3, Constants DEF Swings!Price
    <3>6. Swings!Rise(m) = Swings!Price(m.kind, bars[m.bar]) - Swings!Price(m.kind, bars[b])
      BY <3>4 DEF Swings!Rise
    <3> HIDE DEF earlier
    <3>7. /\ Swings!Price(m.kind, bars[m.bar]) \in Int
          /\ Swings!Price(m.kind, bars[b]) \in Int
      BY <3>1, <3>2, <3>5
    <3> QED
      BY <3>2, <3>6, <3>7
  <2>7. /\ Len(events) = IF Cardinality(S) <= Memory THEN Cardinality(S) ELSE Memory
        /\ AreEvents(bars, S, events)
    BY DEF IInv, KnowsEvents
  <2> HIDE DEF S
  <2>8. Len(events) = Swings!Min({Swings!Cardinality(S), Memory})
    BY <2>3, <2>5, <2>7
  <2>9. \A m \in S : Swings!Later(S, m) < Len(events) =>
          events[Len(events) - Swings!Later(S, m)] = (IF Swings!Rise(m) > 0 THEN 1 ELSE -1)
    BY <2>4, <2>6, <2>7 DEF AreEvents
  <2> QED
    BY <2>2, <2>8, <2>9 DEF Swings!EventsAreOfPivots
<1> QED
  BY <1>1, MemoryIsOfTheHistory, PTL

\* No bar breaks a swing that is not K bars old (structure.py).
THEOREM BreaksAreAlwaysOfOldLevels == Spec => []BreaksAreOfOldLevels
<1>1. IInv => BreaksAreOfOldLevels
  <2> SUFFICES ASSUME IInv, bos.index = Len(bars), bars # <<>>
               PROVE  LET kind == IF bos.dir = 1 THEN "high" ELSE "low"
                      IN  /\ lastIndex[kind] \in 1 .. Len(bars) - K
                          /\ bos.dir * (bars[Len(bars)].close - last[kind]) > 0
    BY DEF BreaksAreOfOldLevels, Swings!BreaksAreOfOldLevels
  <2> DEFINE kind == IF bos.dir = 1 THEN "high" ELSE "low"
  <2>1. /\ lastIndex[kind] # 0 /\ bos.dir \in {1, -1}
        /\ IF bos.dir = 1 THEN bars[Len(bars)].close > last["high"]
                          ELSE bars[Len(bars)].close < last["low"]
    BY DEF IInv, KnowsBreak
  <2>2. kind \in Swings!Kinds /\ KnowsLast(kind) /\ bars \in Seq(Shapes)
        /\ Len(bars) \in 1 .. Len(bars) /\ K \in Nat /\ Len(bars) \in Nat
    BY Constants, EmptySeq, LenProperties DEF IInv, Swings!Kinds
  <2>3. lastIndex[kind] \in 2 .. Len(bars) - K /\ last[kind] = Swings!Price(kind, bars[lastIndex[kind]])
    BY <2>1, <2>2, PivotsAreBars DEF KnowsLast
  <2>4. last[kind] \in Int /\ bars[Len(bars)].close \in Int
    <3>1. lastIndex[kind] \in 1 .. Len(bars)
      BY <2>2, <2>3
    <3>2. bars[lastIndex[kind]] \in Shapes /\ bars[Len(bars)] \in Shapes
      BY <2>2, <3>1, ElementOfSeq
    <3> QED
      BY <2>3, <3>2, Constants DEF Swings!Price
  <2>5. bos.dir * (bars[Len(bars)].close - last[kind]) > 0
    <3>1. CASE bos.dir = 1
      BY <2>1, <2>4, <3>1
    <3>2. CASE bos.dir = -1
      BY <2>1, <2>4, <3>2
    <3> QED
      BY <2>1, <3>1, <3>2
  <2> QED
    BY <2>2, <2>3, <2>5
<1> QED
  BY <1>1, MemoryIsOfTheHistory, PTL

\* Structure shifts of structure.py are breaks and alternate, in every history.
THEOREM ShiftsAlwaysAlternate == Spec => ShiftsAlternate
<1>1. IInv /\ [Next]_vars =>
        [mss' # mss => mss' = bos' /\ mss'.dir # mss.dir]_(Swings!vars)
  BY MemoryStep
<1> QED
  BY <1>1, MemoryIsOfTheHistory, PTL DEF Spec, ShiftsAlternate, Swings!ShiftsAlternate

-----------------------------------------------------------------------------
\* The greater of zero and a number.
LEMMA PositivePart ==
  ASSUME NEW x \in Int, Hunts!Max({0, x}) > 0
  PROVE  x > 0
<1>1. CASE x <= 0
  <2>1. Hunts!Max({0, x}) = 0
    BY <1>1, GreatestIsMax
  <2> QED
    BY <1>1, <2>1
<1> QED
  BY <1>1

\* What is remembered of the last sweep, with the facts about bars it needs.
LEMMA SweepFacts ==
  ASSUME IInv, sweep.index # 0 \/ SweepsOf(bars) # {}
  PROVE  /\ sweep.index \in SweepsOf(bars) /\ sweep.index \in 1 .. Len(bars)
         /\ sweep = SweepOf(bars, sweep.index)
         /\ \A j \in SweepsOf(bars) : j <= sweep.index
         /\ bars \in Seq(Shapes) /\ Len(bars) \in Nat /\ bars # <<>>
         /\ SweepsOf(bars) \subseteq Int
         /\ \A j \in 1 .. Len(bars) : bars[j] \in Shapes
         /\ score = Hunts!Score(sweep, Len(bars), bars[Len(bars)].close)
<1>1. bars \in Seq(Shapes) /\ Len(bars) \in Nat /\ DOMAIN bars = 1 .. Len(bars)
  BY LenProperties DEF IInv
<1>2. SweepsOf(bars) # {}
  BY DEF IInv, KnowsSweep, Hunts!NoSweep
<1>3. PICK i \in SweepsOf(bars) : (\A j \in SweepsOf(bars) : j <= i) /\ sweep = SweepOf(bars, i)
  BY <1>2 DEF IInv, KnowsSweep
<1>4. sweep.index = i
  BY <1>3 DEF SweepOf
<1>5. i \in 1 .. Len(bars) /\ SweepsOf(bars) \subseteq Int
  BY <1>1, <1>3 DEF SweepsOf
<1>6. bars # <<>>
  BY <1>1, <1>5, EmptySeq
<1>7. score = Hunts!Score(sweep, Len(bars), bars[Len(bars)].close)
  BY <1>6 DEF IInv, KnowsSweep
<1> QED
  BY <1>1, <1>3, <1>4, <1>5, <1>6, <1>7, ElementOfSeq

\* A bar liquidity.py reports as a sweep went through a level that was there
\* before it, and closed on the side it came from.
THEOREM SweptLevelsWereAlwaysThere == Spec => []SweptLevelsWereThere
<1>1. IInv => SweptLevelsWereThere
  <2> SUFFICES ASSUME IInv, bars # <<>>, score.age = 0
               PROVE  Len(bars) > 1 /\ \E level \in bars[Len(bars) - 1].levels :
                        IF score.dir = 1
                        THEN bars[Len(bars)].close < level /\ level < bars[Len(bars)].high
                        ELSE bars[Len(bars)].low < level /\ level < bars[Len(bars)].close
    BY DEF SweptLevelsWereThere, Hunts!SweptLevelsWereThere
  <2> DEFINE n == Len(bars)
  <2>1. score = Hunts!Score(sweep, n, bars[n].close)
    BY DEF IInv, KnowsSweep
  <2>2. sweep.index # 0
    BY <2>1 DEF Hunts!Score, Hunts!NoScore
  <2>3. /\ sweep.index \in SweepsOf(bars) /\ sweep.index \in 1 .. n
        /\ sweep = SweepOf(bars, sweep.index) /\ n \in Nat
        /\ \A j \in 1 .. n : bars[j] \in Shapes
    BY <2>2, SweepFacts
  <2>4. score.age = n - sweep.index /\ (n - sweep.index > Lookback \/ score.dir = sweep.dir)
    BY <2>1, <2>2 DEF Hunts!Score, Hunts!NoScore
  <2>5. sweep.index = n /\ score.dir = sweep.dir
    BY <2>3, <2>4, Constants
  <2>6. Hunts!Swept(bars, n) /\ score.dir = IF Hunts!SweptHigh(bars, n) THEN 1 ELSE -1
    <3>1. sweep.dir = IF Hunts!SweptHigh(bars, sweep.index) THEN 1 ELSE -1
      BY <2>3 DEF SweepOf
    <3> QED
      BY <2>3, <2>5, <3>1 DEF SweepsOf
  <2>7. Hunts!Sweepable(bars, n) # {} => n > 1 /\ Hunts!Sweepable(bars, n) = bars[n - 1].levels
    <3>1. n >= 1 /\ n \in Nat
      BY <2>3
    <3> HIDE DEF n
    <3> QED
      BY <3>1 DEF Hunts!Sweepable
  <2>8. ASSUME n > 1
        PROVE  /\ bars[n].low \in Int /\ bars[n].high \in Int /\ bars[n].close \in Int
               /\ bars[n - 1].levels \subseteq Int
    <3>1. n \in 1 .. n /\ n - 1 \in 1 .. n
      BY <2>3, <2>8
    <3> QED
      BY <2>3, <3>1, Constants
  <2>9. CASE Hunts!SweptHigh(bars, n)
    <3>1. PICK level \in Hunts!Sweepable(bars, n) :
            bars[n].high > level + Tolerance /\ bars[n].close < level
      BY <2>9 DEF Hunts!SweptHigh
    <3> QED
      BY <2>6, <2>7, <2>8, <2>9, <3>1, Constants
  <2>10. CASE ~Hunts!SweptHigh(bars, n)
    <3>1. PICK level \in Hunts!Sweepable(bars, n) :
            bars[n].low < level - Tolerance /\ bars[n].close > level
      BY <2>6, <2>10 DEF Hunts!Swept, Hunts!SweptLow
    <3> QED
      BY <2>6, <2>7, <2>8, <2>10, <3>1, Constants
  <2> QED
    BY <2>9, <2>10
<1> QED
  BY <1>1, MemoryIsOfTheHistory, PTL

\* What liquidity.py emits of a sweep is always of the last one of all history.
THEOREM LastSweepIsAlwaysDescribed == Spec => []LastSweepIsDescribed
<1>1. IInv => LastSweepIsDescribed
  <2> SUFFICES ASSUME IInv
               PROVE  IF SweepsOf(bars) = {} THEN score = Hunts!NoScore
                      ELSE LET i == Hunts!Max(SweepsOf(bars))
                           IN  /\ score.age = Len(bars) - i
                               /\ score.dir = IF score.age > Lookback THEN 0
                                              ELSE IF Hunts!SweptHigh(bars, i) THEN 1 ELSE -1
    BY DEF LastSweepIsDescribed, Hunts!LastSweepIsDescribed, SweepsOf
  <2>1. CASE SweepsOf(bars) = {}
    BY <2>1 DEF IInv, KnowsSweep, Hunts!NoSweep, Hunts!Score
  <2>2. CASE SweepsOf(bars) # {}
    <3>1. /\ sweep.index \in SweepsOf(bars) /\ sweep.index \in 1 .. Len(bars)
          /\ sweep = SweepOf(bars, sweep.index)
          /\ \A j \in SweepsOf(bars) : j <= sweep.index
          /\ SweepsOf(bars) \subseteq Int /\ Len(bars) \in Nat
          /\ score = Hunts!Score(sweep, Len(bars), bars[Len(bars)].close)
      BY <2>2, SweepFacts
    <3>2. Hunts!Max(SweepsOf(bars)) = sweep.index
      BY <3>1, GreatestIsMax
    <3>3. sweep.dir = IF Hunts!SweptHigh(bars, sweep.index) THEN 1 ELSE -1
      BY <3>1 DEF SweepOf
    <3>4. /\ score.age = Len(bars) - sweep.index
          /\ score.dir = IF Len(bars) - sweep.index > Lookback THEN 0 ELSE sweep.dir
      BY <3>1 DEF Hunts!Score, Hunts!NoScore
    <3> QED
      BY <2>2, <3>2, <3>3, <3>4
  <2> QED
    BY <2>1, <2>2
<1> QED
  BY <1>1, MemoryIsOfTheHistory, PTL

\* stop_hunt_score of liquidity.py is positive only after price has come away
\* from the swept side, in every history.
THEOREM ScoreAlwaysFollowsTheReversal == Spec => []ScoreFollowsTheReversal
<1>1. IInv => ScoreFollowsTheReversal
  <2> SUFFICES ASSUME IInv, score.away > 0
               PROVE  /\ score.age \in 1 .. Lookback
                      /\ LET close == bars[Len(bars) - score.age].close
                         IN  IF score.dir = 1 THEN bars[Len(bars)].close < close
                                              ELSE bars[Len(bars)].close > close
    BY DEF ScoreFollowsTheReversal, Hunts!ScoreFollowsTheReversal
  <2> DEFINE n == Len(bars)
             i == sweep.index
             now == bars[n].close
             then == bars[i].close
  <2>1. i # 0
    BY DEF IInv, KnowsSweep, Hunts!Score, Hunts!NoScore
  <2>2. /\ i \in 1 .. n /\ n \in Nat /\ sweep = SweepOf(bars, i)
        /\ \A j \in 1 .. n : bars[j] \in Shapes
        /\ score = Hunts!Score(sweep, n, now)
    BY <2>1, SweepFacts
  <2>3. sweep.dir \in {1, -1} /\ sweep.close = then
    BY <2>2 DEF SweepOf
  <2>4. now \in Int /\ then \in Int
    <3>1. n \in 1 .. n
      BY <2>2
    <3> QED
      BY <2>2, <3>1, Constants
  <2>5. /\ ~(n - i > Lookback) /\ score.age = n - i /\ score.dir = sweep.dir
        /\ score.away = Hunts!Max({0, -sweep.dir * (now - then)})
    BY <2>1, <2>2, <2>3 DEF Hunts!Score, Hunts!NoScore
  <2> HIDE DEF n, i, now, then
  <2>6. -sweep.dir * (now - then) > 0
    <3>1. -sweep.dir * (now - then) \in Int
      BY <2>3, <2>4
    <3> QED
      BY <2>5, <3>1, PositivePart
  <2>7. IF score.dir = 1 THEN now < then ELSE now > then
    BY <2>3, <2>4, <2>5, <2>6
  <2>8. score.age \in 1 .. Lookback
    <3>1. i # n
      BY <2>4, <2>7 DEF now, then
    <3> QED
      BY <2>2, <2>5, <3>1, Constants
  <2>9. n - score.age = i
    BY <2>2, <2>5
  <2> QED
    BY <2>7, <2>8, <2>9 DEF n, now, then
<1> QED
  BY <1>1, MemoryIsOfTheHistory, PTL

-----------------------------------------------------------------------------
\* Price zones: what the proofs about fvg.py and order_blocks.py rest on.  Least
\* numbers, the lowest low and the sorting of a list come first.
MinOf(S) == CHOOSE x \in S : \A y \in S : x <= y

LEMMA LeastNumber ==
  ASSUME NEW T, T \subseteq Nat, T # {}
  PROVE  \E n \in T : \A m \in T : n <= m
<1>1. PICK n \in T : \A m \in T : ~ (<<m, n>> \in OpToRel(<, Nat))
  BY NatLessThanWellFounded, WFMin
<1>2. \A m \in T : ~(m < n)
  BY <1>1 DEF OpToRel
<1> QED
  BY <1>2

LEMMA LeastIs ==
  ASSUME NEW T, T \subseteq Int, NEW m \in T, \A n \in T : m <= n
  PROVE  MinOf(T) = m
<1>1. MinOf(T) \in T /\ \A n \in T : MinOf(T) <= n
  BY DEF MinOf
<1>2. MinOf(T) <= m /\ m <= MinOf(T) /\ m \in Int /\ MinOf(T) \in Int
  BY <1>1
<1> QED
  BY <1>2

Lowest(low, c, n) == MinOf({low[i] : i \in c .. n})

\* There is a lowest low.
LEMMA LowestExists ==
  ASSUME NEW low, NEW c \in Int, NEW n \in Int, c <= n, \A i \in c .. n : low[i] \in Int
  PROVE  \E i \in c .. n : \A j \in c .. n : low[i] <= low[j]
<1> DEFINE Has(k) == \E i \in c .. c + k : \A j \in c .. c + k : low[i] <= low[j]
           bad == {k \in 0 .. n - c : ~Has(k)}
<1>1. Has(0)
  <2>1. c \in c .. c + 0 /\ \A j \in c .. c + 0 : j = c
    OBVIOUS
  <2>2. low[c] <= low[c]
    OBVIOUS
  <2> QED
    BY <2>1, <2>2
<1>2. ASSUME NEW k \in 1 .. n - c, Has(k - 1)
      PROVE  Has(k)
  <2>1. PICK i \in c .. c + (k - 1) : \A j \in c .. c + (k - 1) : low[i] <= low[j]
    BY <1>2
  <2>2. /\ \A j \in c .. c + k : j \in c .. n /\ (j \in c .. c + (k - 1) \/ j = c + k)
        /\ i \in c .. n /\ c + k \in c .. n /\ c + k \in c .. c + k /\ i \in c .. c + k
    OBVIOUS
  <2>3. CASE low[c + k] <= low[i]
    <3>1. \A j \in c .. c + k : low[c + k] <= low[j]
      <4> TAKE j \in c .. c + k
      <4>1. j \in c .. c + (k - 1) => low[i] <= low[j]
        BY <2>1
      <4>2. low[i] \in Int /\ low[j] \in Int /\ low[c + k] \in Int
        BY <2>2
      <4> QED
        BY <2>2, <2>3, <4>1, <4>2
    <3> QED
      BY <2>2, <3>1
  <2>4. CASE ~(low[c + k] <= low[i])
    <3>1. low[i] <= low[c + k]
      BY <2>2, <2>4
    <3>2. \A j \in c .. c + k : low[i] <= low[j]
      BY <2>1, <2>2, <3>1
    <3> QED
      BY <2>2, <3>2
  <2> QED
    BY <2>3, <2>4
<1> HIDE DEF Has
<1>3. bad = {}
  <2> SUFFICES ASSUME bad # {} PROVE FALSE
    OBVIOUS
  <2>1. bad \subseteq Nat
    OBVIOUS
  <2>2. PICK k \in bad : \A m \in bad : k <= m
    BY <2>1, LeastNumber
  <2>3. k \in 0 .. n - c /\ ~Has(k)
    OBVIOUS
  <2>4. k # 0
    BY <1>1, <2>3
  <2>5. k \in 1 .. n - c /\ k - 1 \in 0 .. n - c /\ ~(k <= k - 1)
    BY <2>3, <2>4
  <2>6. Has(k - 1)
    BY <2>2, <2>5
  <2> QED
    BY <1>2, <2>3, <2>5, <2>6
<1>4. n - c \in 0 .. n - c /\ c + (n - c) = n
  OBVIOUS
<1>5. Has(n - c)
  BY <1>3, <1>4
<1> QED
  BY <1>4, <1>5 DEF Has

\* The lowest low, bar by bar.
LEMMA LowestStep ==
  ASSUME NEW low, NEW c \in Int, NEW n \in Int, c <= n, \A i \in c .. n + 1 : low[i] \in Int
  PROVE  /\ Lowest(low, c, n) \in Int
         /\ Lowest(low, c, n + 1) =
              IF low[n + 1] < Lowest(low, c, n) THEN low[n + 1] ELSE Lowest(low, c, n)
<1> DEFINE lows == {low[i] : i \in c .. n}
           more == {low[i] : i \in c .. n + 1}
<1>1. PICK i \in c .. n : \A j \in c .. n : low[i] <= low[j]
  <2>1. \A i \in c .. n : low[i] \in Int
    OBVIOUS
  <2> QED
    BY <2>1, LowestExists
<1>2. lows \subseteq Int /\ low[i] \in lows /\ \A m \in lows : low[i] <= m
  BY <1>1
<1>3. Lowest(low, c, n) = low[i]
  <2> HIDE DEF lows
  <2>1. MinOf(lows) = low[i]
    BY <1>2, LeastIs
  <2> QED
    BY <2>1 DEF Lowest, lows
<1>4. /\ more \subseteq Int /\ low[i] \in more /\ low[n + 1] \in more
      /\ \A m \in more : m \in lows \/ m = low[n + 1]
  <2>1. \A j \in c .. n + 1 : j \in c .. n \/ j = n + 1
    OBVIOUS
  <2>2. i \in c .. n + 1 /\ n + 1 \in c .. n + 1
    OBVIOUS
  <2> QED
    BY <2>1, <2>2
<1>5. Lowest(low, c, n + 1) = MinOf(more)
  BY DEF Lowest
<1> HIDE DEF lows, more
<1>6. CASE low[n + 1] < low[i]
  <2>1. \A m \in more : low[n + 1] <= m
    BY <1>2, <1>4, <1>6
  <2>2. MinOf(more) = low[n + 1]
    BY <1>4, <2>1, LeastIs
  <2> QED
    BY <1>2, <1>3, <1>5, <1>6, <2>2
<1>7. CASE ~(low[n + 1] < low[i])
  <2>1. \A m \in more : low[i] <= m
    BY <1>2, <1>4, <1>7
  <2>2. MinOf(more) = low[i]
    BY <1>4, <2>1, LeastIs
  <2> QED
    BY <1>2, <1>3, <1>5, <1>7, <2>2
<1> QED
  BY <1>6, <1>7

LEMMA LowestOfOne ==
  ASSUME NEW low, NEW c \in Int, low[c] \in Int
  PROVE  Lowest(low, c, c) = low[c]
<1>1. {low[i] : i \in c .. c} = {low[c]}
  OBVIOUS
<1>2. MinOf({low[c]}) = low[c]
  BY LeastIs
<1> QED
  BY <1>1, <1>2 DEF Lowest

-----------------------------------------------------------------------------
Before(d, k, l) == d[k] < d[l] \/ (d[k] = d[l] /\ k < l)

Sorts(p, d, n) == \A k, l \in 1 .. n : k < l => Before(d, p[k], p[l])

\* A finite set of positions can be sorted by what a function says of them.
LEMMA SortedEnumeration ==
  ASSUME NEW T, IsFiniteSet(T), T \subseteq Nat, NEW d, \A k \in T : d[k] \in Nat
  PROVE  \E p \in [1 .. Cardinality(T) -> T] : Sorts(p, d, Cardinality(T))
<1> DEFINE Sorted(S) == \E p \in [1 .. Cardinality(S) -> S] : Sorts(p, d, Cardinality(S))
           bad == {n \in Nat : \E S \in SUBSET T : Cardinality(S) = n /\ ~Sorted(S)}
<1>1. \A S \in SUBSET T : IsFiniteSet(S) /\ Cardinality(S) \in Nat
  BY FS_Subset, FS_CardinalityType
<1>2. bad = {}
  <2> SUFFICES ASSUME bad # {} PROVE FALSE
    OBVIOUS
  <2>1. PICK n \in bad : \A m \in bad : n <= m
    <3>1. bad \subseteq Nat
      OBVIOUS
    <3> QED
      BY <3>1, LeastNumber
  <2>2. PICK S \in SUBSET T : Cardinality(S) = n /\ ~Sorted(S)
    OBVIOUS
  <2>3. S # {}
    <3> SUFFICES ASSUME S = {} PROVE FALSE
      OBVIOUS
    <3>1. Cardinality(S) = 0
      BY FS_EmptySet
    <3> DEFINE p == [k \in 1 .. 0 |-> 0]
    <3>2. p \in [1 .. 0 -> S] /\ Sorts(p, d, 0)
      BY DEF Sorts
    <3> QED
      BY <2>2, <3>1, <3>2
  <2>4. PICK first \in S : \A k \in S : k = first \/ Before(d, first, k)
    <3> DEFINE values == {d[k] : k \in S}
    <3>1. values \subseteq Nat /\ values # {}
      BY <2>3
    <3>2. PICK least \in values : \A other \in values : least <= other
      BY <3>1, LeastNumber
    <3> DEFINE there == {k \in S : d[k] = least}
    <3>3. there \subseteq Nat /\ there # {}
      BY <3>2
    <3>4. PICK k \in there : \A l \in there : k <= l
      BY <3>3, LeastNumber
    <3>5. ASSUME NEW l \in S PROVE l = k \/ Before(d, k, l)
      <4>1. least <= d[l] /\ d[k] = least /\ d[l] \in Nat /\ d[k] \in Nat /\ k \in Nat /\ l \in Nat
        BY <3>2
      <4>2. d[l] = least => k <= l
        BY <3>4
      <4> QED
        BY <4>1, <4>2 DEF Before
    <3> QED
      BY <3>5
  <2> DEFINE rest == S \ {first}
  <2>5. rest \in SUBSET T /\ Cardinality(rest) = n - 1 /\ n \in Nat \ {0}
    <3>1. IsFiniteSet(S) /\ n \in Nat /\ Cardinality(rest) \in Nat
      BY <1>1, <2>2
    <3>2. Cardinality(rest) = Cardinality(S) - 1
      BY <3>1, FS_RemoveElement
    <3> QED
      BY <2>2, <3>1, <3>2
  <2>6. n - 1 \notin bad
    BY <2>1, <2>5
  <2>7. PICK p \in [1 .. n - 1 -> rest] : Sorts(p, d, n - 1)
    <3>1. n - 1 \in Nat
      BY <2>5
    <3>2. Sorted(rest)
      BY <2>5, <2>6, <3>1
    <3> QED
      BY <2>5, <3>2
  <2> DEFINE q == [k \in 1 .. n |-> IF k = 1 THEN first ELSE p[k - 1]]
  <2>8. q \in [1 .. n -> S]
    BY <2>5, <2>7
  <2>9. Sorts(q, d, n)
    <3> SUFFICES ASSUME NEW k \in 1 .. n, NEW l \in 1 .. n, k < l
                 PROVE  Before(d, q[k], q[l])
      BY DEF Sorts
    <3>1. l - 1 \in 1 .. n - 1 /\ q[l] = p[l - 1] /\ q[l] \in rest
      BY <2>5, <2>7
    <3>2. CASE k = 1
      BY <2>4, <3>1, <3>2
    <3>3. CASE k # 1
      <4>1. k - 1 \in 1 .. n - 1 /\ q[k] = p[k - 1] /\ k - 1 < l - 1
        BY <2>5, <3>3
      <4> QED
        BY <2>7, <3>1, <4>1 DEF Sorts
    <3> QED
      BY <3>2, <3>3
  <2> QED
    BY <2>2, <2>8, <2>9
<1>3. Sorted(T)
  BY <1>1, <1>2
<1> QED
  BY <1>3

\* All of a set, and nothing twice.
Enumerates(p, T) ==
  /\ \A k, l \in 1 .. Cardinality(T) : k # l => p[k] # p[l]
  /\ \A t \in T : \E k \in 1 .. Cardinality(T) : p[k] = t

\* What is sorted is all of it, and nothing twice.
LEMMA SortedIsAll ==
  ASSUME NEW T, IsFiniteSet(T), T \subseteq Nat, NEW d, \A k \in T : d[k] \in Nat,
         NEW p \in [1 .. Cardinality(T) -> T], Sorts(p, d, Cardinality(T))
  PROVE  Enumerates(p, T)
<1> DEFINE n == Cardinality(T)
<1>1. n \in Nat
  BY FS_CardinalityType
<1>2. ASSUME NEW k \in 1 .. n, NEW l \in 1 .. n, k < l
      PROVE  p[k] # p[l]
  <2>1. Before(d, p[k], p[l]) /\ p[k] \in Nat /\ d[p[k]] \in Nat
    BY <1>2 DEF Sorts
  <2> QED
    BY <2>1 DEF Before
<1>3. \A k, l \in 1 .. n : k # l => p[k] # p[l]
  BY <1>1, <1>2
<1> HIDE DEF n
<1>4. p \in Injection(1 .. n, T)
  BY <1>3 DEF Injection, IsInjective, n
<1>5. Cardinality(1 .. n) = n
  BY <1>1, FS_Interval
<1>6. p \in Surjection(1 .. n, T)
  <2>1. Cardinality(1 .. n) = Cardinality(T)
    BY <1>5 DEF n
  <2> QED
    BY <1>4, <2>1, FS_Injection
<1> QED
  BY <1>3, <1>6 DEF Surjection, n, Enumerates

-----------------------------------------------------------------------------
Zone == [bottom : Int, top : Int, created : Int, extreme : Int]

Reach(zone, low) == [zone EXCEPT !.extreme = IF low < @ THEN low ELSE @]

Stays(zone, n, low) == n - zone.created <= MaxAge /\ Reach(zone, low).extreme > zone.bottom

\* A bar brings at most one zone into being, that starts at the bar's low.
Births(born, low, n) ==
  \A c \in 1 .. n :
    /\ low[c] \in Int
    /\ \A zone \in born[c] : zone \in Zone /\ zone.created = c /\ zone.extreme = low[c]
    /\ \A zone, other \in born[c] : zone = other

LiveAt(born, low, n) ==
  {zone \in {[birth EXCEPT !.extreme = Lowest(low, birth.created, n)] :
                birth \in UNION {born[c] : c \in 1 .. n}} :
     n - zone.created <= MaxAge /\ zone.extreme > zone.bottom}

LEMMA LiveMembers ==
  ASSUME NEW n \in Nat, NEW low, NEW born, Births(born, low, n), NEW zone
  PROVE  zone \in LiveAt(born, low, n) <=>
           \E c \in 1 .. n : \E birth \in born[c] :
             /\ zone = [birth EXCEPT !.extreme = Lowest(low, c, n)]
             /\ n - c <= MaxAge /\ Lowest(low, c, n) > birth.bottom
<1>1. \A c \in 1 .. n : \A birth \in born[c] : birth \in Zone /\ birth.created = c
  BY DEF Births
<1>2. \A birth \in Zone : \A x : LET other == [birth EXCEPT !.extreme = x]
                                IN  /\ other.extreme = x /\ other.created = birth.created
                                    /\ other.bottom = birth.bottom
  BY DEF Zone
<1> DEFINE births == UNION {born[c] : c \in 1 .. n}
<1>3. zone \in LiveAt(born, low, n) <=>
        \E birth \in births :
             /\ zone = [birth EXCEPT !.extreme = Lowest(low, birth.created, n)]
             /\ n - zone.created <= MaxAge /\ zone.extreme > zone.bottom
  BY DEF LiveAt
<1>4. \A birth : birth \in births <=> \E c \in 1 .. n : birth \in born[c]
  OBVIOUS
<1> HIDE DEF births
<1>5. ASSUME NEW c \in 1 .. n, NEW birth \in born[c],
             zone = [birth EXCEPT !.extreme = Lowest(low, c, n)]
      PROVE  /\ zone.extreme = Lowest(low, c, n) /\ zone.created = c
             /\ zone.bottom = birth.bottom /\ birth.created = c
  BY <1>1, <1>2, <1>5
<1> QED
  BY <1>1, <1>3, <1>4, <1>5

\* The live zones, bar by bar: those that were live or are new, and stay.
Continues(born, low, n) ==
  /\ \A zone \in LiveAt(born, low, n) \cup born[n + 1] :
       /\ zone \in Zone
       /\ Stays(zone, n + 1, low[n + 1]) =>
            Reach(zone, low[n + 1]) \in LiveAt(born, low, n + 1)
  /\ \A zone \in LiveAt(born, low, n + 1) :
       \E old \in LiveAt(born, low, n) \cup born[n + 1] :
         Stays(old, n + 1, low[n + 1]) /\ zone = Reach(old, low[n + 1])
  /\ \A zone, other \in LiveAt(born, low, n) :
       zone.created \in 1 .. n /\ (zone.created = other.created => zone = other)

LEMMA LiveStep ==
  ASSUME NEW n \in Nat, NEW low, NEW born, Births(born, low, n + 1)
  PROVE  Continues(born, low, n)
<1> DEFINE lowest(c, m) == Lowest(low, c, m)
           at(birth, x) == [birth EXCEPT !.extreme = x]
<1>1. Births(born, low, n) /\ n + 1 \in 1 .. n + 1 /\ n + 1 \in Nat /\ MaxAge \in Nat
  BY Constants DEF Births
<1>2. \A c \in 1 .. n :
        /\ lowest(c, n) \in Int
        /\ lowest(c, n + 1) = IF low[n + 1] < lowest(c, n) THEN low[n + 1] ELSE lowest(c, n)
  <2> TAKE c \in 1 .. n
  <2>1. c \in Int /\ c <= n /\ \A i \in c .. n + 1 : low[i] \in Int
    BY DEF Births
  <2> QED
    BY <2>1, LowestStep
<1>3. lowest(n + 1, n + 1) = low[n + 1] /\ low[n + 1] \in Int
  BY <1>1, LowestOfOne DEF Births
<1> HIDE DEF lowest
<1>4. \A c \in 1 .. n + 1 : \A birth \in born[c] :
        birth \in Zone /\ birth.created = c /\ birth.extreme = low[c] /\ low[c] \in Int
  BY DEF Births
<1>5. \A birth \in Zone : \A x \in Int :
        /\ at(birth, x) \in Zone
        /\ at(birth, x).extreme = x /\ at(birth, x).created = birth.created
        /\ at(birth, x).bottom = birth.bottom
        /\ Reach(at(birth, x), low[n + 1]) = at(birth, IF low[n + 1] < x THEN low[n + 1] ELSE x)
        /\ birth.extreme = x => at(birth, x) = birth
  BY DEF Zone, Reach
<1> HIDE DEF at
<1>6. \A zone : zone \in LiveAt(born, low, n) <=>
        \E c \in 1 .. n : \E birth \in born[c] :
          zone = at(birth, lowest(c, n)) /\ n - c <= MaxAge /\ lowest(c, n) > birth.bottom
  BY <1>1, LiveMembers DEF at, lowest
<1>7. \A zone : zone \in LiveAt(born, low, n + 1) <=>
        \E c \in 1 .. n + 1 : \E birth \in born[c] :
          /\ zone = at(birth, lowest(c, n + 1))
          /\ n + 1 - c <= MaxAge /\ lowest(c, n + 1) > birth.bottom
  BY <1>1, LiveMembers DEF at, lowest
\* A zone that was made before this bar ...
<1>8. ASSUME NEW c \in 1 .. n, NEW birth \in born[c]
      PROVE  /\ at(birth, lowest(c, n)) \in Zone
             /\ Reach(at(birth, lowest(c, n)), low[n + 1]) = at(birth, lowest(c, n + 1))
             /\ Stays(at(birth, lowest(c, n)), n + 1, low[n + 1]) <=>
                  n + 1 - c <= MaxAge /\ lowest(c, n + 1) > birth.bottom
             /\ lowest(c, n + 1) > birth.bottom => lowest(c, n) > birth.bottom
  <2>1. /\ birth \in Zone /\ birth.created = c /\ lowest(c, n) \in Int /\ birth.bottom \in Int
        /\ lowest(c, n + 1) = IF low[n + 1] < lowest(c, n) THEN low[n + 1] ELSE lowest(c, n)
        /\ lowest(c, n + 1) \in Int
    BY <1>2, <1>3, <1>4 DEF Zone
  <2>2. /\ at(birth, lowest(c, n)) \in Zone
        /\ at(birth, lowest(c, n)).created = c /\ at(birth, lowest(c, n)).bottom = birth.bottom
        /\ Reach(at(birth, lowest(c, n)), low[n + 1]) = at(birth, lowest(c, n + 1))
        /\ at(birth, lowest(c, n + 1)).extreme = lowest(c, n + 1)
    <3>1. /\ at(birth, lowest(c, n)) \in Zone
          /\ at(birth, lowest(c, n)).created = c /\ at(birth, lowest(c, n)).bottom = birth.bottom
          /\ at(birth, lowest(c, n + 1)).extreme = lowest(c, n + 1)
      BY <1>5, <2>1
    <3>2. Reach(at(birth, lowest(c, n)), low[n + 1])
            = at(birth, IF low[n + 1] < lowest(c, n) THEN low[n + 1] ELSE lowest(c, n))
      BY <1>5, <2>1, ZenonT(30)
    <3> QED
      BY <2>1, <3>1, <3>2
  <2>3. lowest(c, n + 1) > birth.bottom => lowest(c, n) > birth.bottom
    BY <1>3, <2>1
  <2> QED
    BY <2>2, <2>3 DEF Stays
\* ... and one that this bar makes.
<1>9. ASSUME NEW birth \in born[n + 1]
      PROVE  /\ birth \in Zone /\ Reach(birth, low[n + 1]) = birth
             /\ birth = at(birth, lowest(n + 1, n + 1))
             /\ Stays(birth, n + 1, low[n + 1]) <=>
                  n + 1 - (n + 1) <= MaxAge /\ lowest(n + 1, n + 1) > birth.bottom
  <2>1. birth \in Zone /\ birth.created = n + 1 /\ birth.extreme = low[n + 1]
    BY <1>1, <1>4
  <2>2. birth = at(birth, low[n + 1])
    BY <1>3, <1>5, <2>1
  <2>3. Reach(birth, low[n + 1]) = birth
    BY <1>3, <1>5, <2>1, <2>2
  <2> QED
    BY <1>3, <2>1, <2>2, <2>3 DEF Stays
<1>10. ASSUME NEW zone \in LiveAt(born, low, n) \cup born[n + 1]
       PROVE  /\ zone \in Zone
              /\ Stays(zone, n + 1, low[n + 1]) =>
                   Reach(zone, low[n + 1]) \in LiveAt(born, low, n + 1)
  <2>1. CASE zone \in born[n + 1]
    BY <1>1, <1>7, <1>9, <2>1
  <2>2. CASE zone \in LiveAt(born, low, n)
    <3>1. PICK c \in 1 .. n : \E birth \in born[c] : zone = at(birth, lowest(c, n))
      BY <1>6, <2>2
    <3>2. PICK birth \in born[c] : zone = at(birth, lowest(c, n))
      BY <3>1
    <3>3. c \in 1 .. n + 1
      OBVIOUS
    <3> QED
      BY <1>7, <1>8, <3>2, <3>3
  <2> QED
    BY <2>1, <2>2
<1>11. ASSUME NEW zone \in LiveAt(born, low, n + 1)
       PROVE  \E old \in LiveAt(born, low, n) \cup born[n + 1] :
                Stays(old, n + 1, low[n + 1]) /\ zone = Reach(old, low[n + 1])
  <2>1. PICK c \in 1 .. n + 1 : \E birth \in born[c] :
          /\ zone = at(birth, lowest(c, n + 1))
          /\ n + 1 - c <= MaxAge /\ lowest(c, n + 1) > birth.bottom
    BY <1>7
  <2>2. PICK birth \in born[c] :
          /\ zone = at(birth, lowest(c, n + 1))
          /\ n + 1 - c <= MaxAge /\ lowest(c, n + 1) > birth.bottom
    BY <2>1
  <2>3. CASE c = n + 1
    BY <1>9, <2>2, <2>3
  <2>4. CASE c # n + 1
    <3>1. c \in 1 .. n /\ n - c <= MaxAge
      BY <1>1, <2>2, <2>4
    <3>2. at(birth, lowest(c, n)) \in LiveAt(born, low, n)
      BY <1>6, <1>8, <2>2, <3>1
    <3> QED
      BY <1>8, <2>2, <3>1, <3>2
  <2> QED
    BY <2>3, <2>4
<1>12. ASSUME NEW zone \in LiveAt(born, low, n), NEW other \in LiveAt(born, low, n)
       PROVE  zone.created \in 1 .. n /\ (zone.created = other.created => zone = other)
  <2> DEFINE From(z, c) == \E birth \in born[c] : z = at(birth, lowest(c, n))
  <2>1. (\E c \in 1 .. n : From(zone, c)) /\ (\E c \in 1 .. n : From(other, c))
    BY <1>6
  <2>2. ASSUME NEW z, NEW c \in 1 .. n, From(z, c)
        PROVE  z.created = c
    <3>1. PICK birth \in born[c] : z = at(birth, lowest(c, n))
      BY <2>2
    <3>2. birth \in Zone /\ birth.created = c /\ lowest(c, n) \in Int
      BY <1>2, <1>4
    <3> QED
      BY <1>5, <3>1, <3>2
  <2>3. \A c \in 1 .. n : \A z, y : From(z, c) /\ From(y, c) => z = y
    <3>1. \A c \in 1 .. n : \A x, y \in born[c] : x = y
      BY DEF Births
    <3> QED
      BY <3>1
  <2> HIDE DEF From
  <2> QED
    BY <2>1, <2>2, <2>3
<1> QED
  BY <1>10, <1>11, <1>12 DEF Continues

-----------------------------------------------------------------------------
Members(s) == {s[k] : k \in DOMAIN s}

Apart(s) == \A k, l \in DOMAIN s : k # l => s[k].created # s[l].created

Dist(zone, close) == IF close > zone.top THEN close - zone.top ELSE zone.top - close

Ordered(s, close) == \A k, l \in DOMAIN s : k < l => Dist(s[k], close) <= Dist(s[l], close)

\* The list that is tracked: of the zones that stay, the nearest.
IsTracked(result, zones, n, low, close) ==
  LET kept == {k \in DOMAIN zones : Stays(zones[k], n, low)}
      m    == Cardinality(kept)
  IN  \E p \in [1 .. m -> kept] :
        /\ Sorts(p, [k \in DOMAIN zones |-> Dist(zones[k], close)], m)
        /\ result = [k \in 1 .. (IF m <= MaxTracked THEN m ELSE MaxTracked) |->
                        Reach(zones[p[k]], low)]

LEMMA Joined ==
  ASSUME NEW n \in Nat, NEW low, NEW born, Births(born, low, n + 1),
         NEW old \in Seq(Zone), Members(old) \subseteq LiveAt(born, low, n), Apart(old),
         NEW fresh \in Seq(Zone), Len(fresh) <= 1, Members(fresh) = born[n + 1]
  PROVE  LET zones == old \o fresh
         IN  /\ DOMAIN zones = 1 .. Len(zones) /\ Len(zones) \in Nat
             /\ \A k \in DOMAIN zones : zones[k] \in Zone
             /\ Members(zones) = Members(old) \cup born[n + 1]
             /\ Apart(zones)
<1> DEFINE zones == old \o fresh
           s == Len(old)
<1>1. /\ s \in Nat /\ Len(fresh) \in 0 .. 1
      /\ DOMAIN old = 1 .. s /\ DOMAIN fresh = 1 .. Len(fresh)
      /\ \A k \in 1 .. s : old[k] \in Zone
      /\ \A k \in 1 .. Len(fresh) : fresh[k] \in Zone
  <2>1. /\ s \in Nat /\ Len(fresh) \in Nat
        /\ DOMAIN old = 1 .. s /\ DOMAIN fresh = 1 .. Len(fresh)
    BY LenProperties
  <2>2. Len(fresh) \in 0 .. 1
    BY <2>1
  <2> QED
    BY <2>1, <2>2, ElementOfSeq
<1>2. /\ zones \in Seq(Zone) /\ Len(zones) = s + Len(fresh)
      /\ \A k \in 1 .. s + Len(fresh) : zones[k] = IF k <= s THEN old[k] ELSE fresh[k - s]
  BY ConcatProperties
<1>3. DOMAIN zones = 1 .. Len(zones) /\ Len(zones) \in Nat
  BY <1>1, <1>2, LenProperties
<1> HIDE DEF zones, s
<1>4. \A k \in DOMAIN zones : \/ k \in 1 .. s /\ zones[k] = old[k]
                              \/ k = s + 1 /\ Len(fresh) = 1 /\ zones[k] = fresh[1]
  BY <1>1, <1>2, <1>3
<1>5. /\ \A k \in 1 .. s : k \in DOMAIN zones /\ zones[k] = old[k]
      /\ \A k \in 1 .. Len(fresh) : k = 1 /\ s + 1 \in DOMAIN zones /\ zones[s + 1] = fresh[1]
  BY <1>1, <1>2, <1>3
<1>6. Members(zones) = Members(old) \cup born[n + 1]
  <2>1. /\ Members(old) = {old[k] : k \in 1 .. s}
        /\ born[n + 1] = {fresh[k] : k \in 1 .. Len(fresh)}
        /\ Members(zones) = {zones[k] : k \in DOMAIN zones}
    BY <1>1 DEF Members
  <2>2. ASSUME NEW z \in Members(zones) PROVE z \in Members(old) \cup born[n + 1]
    BY <1>1, <1>4, <2>1
  <2>3. ASSUME NEW z \in Members(old) \cup born[n + 1] PROVE z \in Members(zones)
    BY <1>5, <2>1
  <2> QED
    BY <2>2, <2>3
<1>7. Apart(zones)
  <2>1. \A k \in 1 .. s : old[k].created \in 1 .. n
    <3>1. \A k \in 1 .. s : old[k] \in LiveAt(born, low, n)
      BY <1>1 DEF Members
    <3> QED
      BY <3>1, LiveStep DEF Continues
  <2>2. Len(fresh) = 1 => fresh[1].created = n + 1
    <3>1. n + 1 \in 1 .. n + 1
      OBVIOUS
    <3>2. Len(fresh) = 1 => fresh[1] \in born[n + 1]
      BY <1>1 DEF Members
    <3> QED
      BY <3>1, <3>2 DEF Births
  <2>3. \A i \in 1 .. n : i # n + 1
    OBVIOUS
  <2>4. \A k, l \in 1 .. s : k # l => old[k].created # old[l].created
    BY <1>1 DEF Apart
  <2> QED
    BY <1>4, <2>1, <2>2, <2>3, <2>4 DEF Apart
<1>8. \A k \in DOMAIN zones : zones[k] \in Zone
  BY <1>1, <1>4
<1> QED
  BY <1>3, <1>6, <1>7, <1>8 DEF zones

\* There are enough live zones nearer to the close to fill the list without this one.
Crowded(zone, live, close) ==
  \E others \in SUBSET live :
    /\ Cardinality(others) = MaxTracked
    /\ \A other \in others :
         other.created # zone.created /\ Dist(other, close) <= Dist(zone, close)

\* One bar's work on the list: from old to new.  A zone the new one lacks is crowded
\* out by this bar, or the old one lacked it.
Carries(old, new, low, born, n, close) ==
  /\ new \in Seq(Zone) /\ Members(new) \subseteq LiveAt(born, low, n + 1)
  /\ Apart(new) /\ Ordered(new, close)
  /\ \A zone \in LiveAt(born, low, n + 1) \ Members(new) :
       /\ zone.created \in 1 .. n + 1
       /\ \/ Crowded(zone, LiveAt(born, low, n + 1), close)
          \/ \E lacked \in LiveAt(born, low, n) \ Members(old) :
               lacked.created = zone.created /\ lacked.top = zone.top

LEMMA TrackedStep ==
  ASSUME NEW n \in Nat, NEW low, NEW born, Births(born, low, n + 1),
         NEW old \in Seq(Zone), Members(old) \subseteq LiveAt(born, low, n), Apart(old),
         NEW fresh \in Seq(Zone), Len(fresh) <= 1, Members(fresh) = born[n + 1],
         NEW close \in Int,
         NEW new, IsTracked(new, old \o fresh, n + 1, low[n + 1], close)
  PROVE  Carries(old, new, low, born, n, close)
<1> DEFINE zones == old \o fresh
           live == LiveAt(born, low, n + 1)
           reach(z) == Reach(z, low[n + 1])
           kept == {k \in DOMAIN zones : Stays(zones[k], n + 1, low[n + 1])}
           m == Cardinality(kept)
           size == IF m <= MaxTracked THEN m ELSE MaxTracked
           d == [k \in DOMAIN zones |-> Dist(zones[k], close)]
<1>1. /\ DOMAIN zones = 1 .. Len(zones) /\ Len(zones) \in Nat
      /\ \A k \in DOMAIN zones : zones[k] \in Zone
      /\ Members(zones) = Members(old) \cup born[n + 1]
      /\ Apart(zones)
  BY Joined
<1>0. Continues(born, low, n)
  BY LiveStep
<1>2. PICK p \in [1 .. m -> kept] :
        Sorts(p, d, m) /\ new = [k \in 1 .. size |-> reach(zones[p[k]])]
  BY DEF IsTracked
<1> HIDE DEF zones
<1>3. /\ IsFiniteSet(kept) /\ m \in Nat /\ kept \subseteq Nat
      /\ size \in Nat /\ size <= m /\ DOMAIN new = 1 .. size
  <2>1. IsFiniteSet(1 .. Len(zones)) /\ kept \subseteq 1 .. Len(zones)
    BY <1>1, FS_Interval
  <2>2. IsFiniteSet(kept)
    BY <2>1, FS_Subset
  <2>3. m \in Nat
    BY <2>2, FS_CardinalityType
  <2> HIDE DEF kept, m
  <2> QED
    BY <1>1, <1>2, <2>1, <2>2, <2>3, Constants
<1>4. \A z \in Zone : /\ reach(z).created = z.created /\ reach(z).top = z.top
                      /\ \A x \in Int : Dist(z, x) \in Nat /\ Dist(reach(z), x) = Dist(z, x)
  <2> TAKE z \in Zone
  <2>1. reach(z).created = z.created /\ reach(z).top = z.top /\ z.top \in Int
    BY DEF Reach, Zone
  <2>2. \A x \in Int : Dist(z, x) \in Nat /\ Dist(reach(z), x) = Dist(z, x)
    BY <2>1 DEF Dist
  <2> QED
    BY <2>1, <2>2
<1>5. \A k \in kept : /\ zones[k] \in Zone /\ reach(zones[k]) \in live
                      /\ d[k] \in Nat /\ d[k] = Dist(reach(zones[k]), close)
  <2> TAKE k \in kept
  <2>1. zones[k] \in Zone /\ zones[k] \in LiveAt(born, low, n) \cup born[n + 1]
    BY <1>1 DEF Members
  <2>2. reach(zones[k]) \in live
    BY <1>0, <2>1 DEF Continues
  <2> QED
    BY <1>4, <2>1, <2>2
<1>6. \A z \in live : z \in Zone
  <2> TAKE z \in live
  <2>1. PICK y \in LiveAt(born, low, n) \cup born[n + 1] : z = reach(y)
    BY <1>0 DEF Continues
  <2>2. y \in Zone /\ low[n + 1] \in Int
    <3>1. n + 1 \in 1 .. n + 1
      OBVIOUS
    <3> QED
      BY <1>0, <3>1 DEF Births, Continues
  <2> QED
    BY <2>1, <2>2 DEF Reach, Zone
<1>7. /\ \A k, l \in 1 .. m : k # l => p[k] # p[l]
      /\ \A t \in kept : \E k \in 1 .. m : p[k] = t
  <2>1. \A k \in kept : d[k] \in Nat
    BY <1>5
  <2>2. p \in [1 .. Cardinality(kept) -> kept] /\ Sorts(p, d, Cardinality(kept))
    BY <1>2
  <2>3. IsFiniteSet(kept) /\ kept \subseteq Nat
    BY <1>3
  <2> HIDE DEF kept, d
  <2>4. Enumerates(p, kept)
    BY <2>1, <2>2, <2>3, SortedIsAll
  <2> QED
    BY <2>4 DEF Enumerates
<1>8. \A k \in 1 .. size : /\ k \in 1 .. m /\ p[k] \in kept /\ new[k] = reach(zones[p[k]])
                           /\ new[k] \in live
  <2> TAKE k \in 1 .. size
  <2>1. new[k] = reach(zones[p[k]])
    BY <1>2
  <2> HIDE DEF kept, d, m, size, reach, live
  <2>2. k \in 1 .. m /\ p[k] \in kept
    BY <1>2, <1>3
  <2> QED
    BY <1>5, <2>1, <2>2
<1>9. new \in Seq(Zone) /\ Members(new) \subseteq live
  <2> HIDE DEF kept, d, m, size, reach, live
  <2>1. new \in [1 .. size -> Zone]
    BY <1>2, <1>6, <1>8
  <2> QED
    BY <1>3, <1>8, <2>1 DEF Members
<1>10. Apart(new)
  <2> HIDE DEF kept, d, m, size, reach, live
  <2> SUFFICES ASSUME NEW k \in 1 .. size, NEW l \in 1 .. size, k # l
               PROVE  new[k].created # new[l].created
    BY <1>3 DEF Apart
  <2>1. zones[p[k]].created # zones[p[l]].created
    <3>1. p[k] # p[l] /\ p[k] \in DOMAIN zones /\ p[l] \in DOMAIN zones
      BY <1>7, <1>8 DEF kept
    <3> QED
      BY <1>1, <3>1 DEF Apart
  <2> QED
    BY <1>4, <1>5, <1>8, <2>1
<1>11. Ordered(new, close)
  <2> HIDE DEF kept, d, m, size, reach, live
  <2> SUFFICES ASSUME NEW k \in 1 .. size, NEW l \in 1 .. size, k < l
               PROVE  Dist(new[k], close) <= Dist(new[l], close)
    BY <1>3 DEF Ordered
  <2>1. Before(d, p[k], p[l])
    BY <1>2, <1>8 DEF Sorts
  <2>2. d[p[k]] <= d[p[l]]
    BY <1>5, <1>8, <2>1 DEF Before
  <2> QED
    BY <1>5, <1>8, <2>2
<1>12. ASSUME NEW z \in live \ Members(new)
       PROVE  /\ z.created \in 1 .. n + 1
              /\ \/ Crowded(z, live, close)
                 \/ \E lacked \in LiveAt(born, low, n) \ Members(old) :
                      lacked.created = z.created /\ lacked.top = z.top
  <2>1. PICK y \in LiveAt(born, low, n) \cup born[n + 1] :
          Stays(y, n + 1, low[n + 1]) /\ z = reach(y)
    BY <1>0 DEF Continues
  <2>2. y \in Zone /\ y.created = z.created /\ y.top = z.top
    BY <1>0, <1>4, <2>1 DEF Continues
  <2>3. z.created \in 1 .. n + 1
    <3>1. y \in LiveAt(born, low, n) => y.created \in 1 .. n
      BY <1>0 DEF Continues
    <3>2. n + 1 \in 1 .. n + 1 /\ (y \in born[n + 1] => y.created = n + 1)
      BY DEF Births
    <3>3. \A x \in 1 .. n : x \in 1 .. n + 1
      OBVIOUS
    <3> QED
      BY <2>1, <2>2, <3>1, <3>2, <3>3
  <2>4. CASE y \notin Members(zones)
    <3>1. y \in LiveAt(born, low, n) \ Members(old)
      BY <1>1, <2>1, <2>4
    <3> QED
      BY <2>2, <2>3, <3>1
  <2>5. CASE y \in Members(zones)
    <3>1. PICK k \in kept : y = zones[k]
      BY <2>1, <2>5 DEF Members
    <3>2. PICK l \in 1 .. m : p[l] = k
      BY <1>7
    <3> DEFINE others == {new[j] : j \in 1 .. size}
               f == [j \in 1 .. size |-> new[j]]
    <3> HIDE DEF kept, d, reach, live, size, m
    <3>3. l \notin 1 .. size
      <4> SUFFICES ASSUME l \in 1 .. size PROVE FALSE
        OBVIOUS
      <4>1. new[l] = z
        BY <1>8, <2>1, <3>1, <3>2
      <4> QED
        BY <1>3, <4>1 DEF Members
    <3>4. size = MaxTracked /\ \A j \in 1 .. size : j < l
      <4>1. size # m /\ l \in Nat /\ 1 <= l
        BY <1>3, <3>2, <3>3
      <4>2. size = MaxTracked
        BY <4>1 DEF size
      <4> QED
        BY <1>3, <3>2, <3>3, <4>1, <4>2
    <3>5. Cardinality(others) = MaxTracked
      <4>1. IsFiniteSet(1 .. size) /\ Cardinality(1 .. size) = size
        <5>1. size \in Nat
          BY <1>3
        <5> HIDE DEF others, f
        <5>2. 1 \in Int /\ size \in Int
          BY <5>1
        <5>3. /\ IsFiniteSet(1 .. size)
              /\ Cardinality(1 .. size) = IF 1 > size THEN 0 ELSE size - 1 + 1
          BY <5>2, FS_Interval
        <5> QED
          BY <5>1, <5>3
      <4>2. f \in Surjection(1 .. size, others)
        BY DEF Surjection
      <4>3. \A i, j \in 1 .. size : f[i] = f[j] => i = j
        BY <1>3, <1>10 DEF Apart
      <4>4. f \in Injection(1 .. size, others)
        BY <4>2, <4>3 DEF Injection, IsInjective, Surjection
      <4> QED
        BY <3>4, <4>1, <4>2, <4>4, FS_Surjection
    <3>6. ASSUME NEW j \in 1 .. size
          PROVE  /\ new[j] \in live /\ new[j].created # z.created
                 /\ Dist(new[j], close) <= Dist(z, close)
      <4>1. j \in 1 .. m /\ p[j] \in kept /\ new[j] = reach(zones[p[j]]) /\ new[j] \in live
        BY <1>8
      <4>2. p[j] # k
        BY <1>7, <3>2, <3>4, <4>1
      <4>3. zones[p[j]].created # zones[k].created
        <5>1. p[j] \in DOMAIN zones /\ k \in DOMAIN zones
          BY <4>1 DEF kept
        <5> QED
          BY <1>1, <4>2, <5>1 DEF Apart
      <4>4. new[j].created # z.created
        BY <1>4, <1>5, <2>2, <3>1, <4>1, <4>3
      <4>5. Before(d, p[j], p[l])
        BY <1>2, <3>2, <3>4, <4>1 DEF Sorts
      <4>6. d[p[j]] <= d[k]
        BY <1>5, <3>1, <3>2, <4>1, <4>5 DEF Before
      <4>7. Dist(new[j], close) = d[p[j]] /\ Dist(z, close) = d[k]
        BY <1>5, <2>1, <3>1, <4>1
      <4> QED
        BY <4>1, <4>4, <4>6, <4>7
    <3>7. others \in SUBSET live /\ \A other \in others :
            other.created # z.created /\ Dist(other, close) <= Dist(z, close)
      BY <3>6
    <3> HIDE DEF others
    <3> QED
      BY <2>3, <3>5, <3>7 DEF Crowded
  <2> QED
    BY <2>4, <2>5
<1> QED
  BY <1>9, <1>10, <1>11, <1>12 DEF Carries

-----------------------------------------------------------------------------
\* A history as one side sees it, its lows, and the zones each bar makes.
SeenBy(side, h) == Gaps!Seen(side, h)

Lows(side, h) == [c \in 1 .. Len(h) |-> SeenBy(side, h)[c].low]

GapBirths(side, h) ==
  [c \in 1 .. Len(h) |-> IF c >= AtrPeriod THEN Members(Gaps!NewGap(SeenBy(side, h), c)) ELSE {}]

BlockBirths(side, h) ==
  [c \in 1 .. Len(h) |-> IF c >= AtrPeriod THEN Members(Blocks!NewBlock(SeenBy(side, h), c)) ELSE {}]

Closes(side, h) == [c \in 1 .. Len(h) |-> SeenBy(side, h)[c].close]

\* A list is of the live zones, none twice, the nearest first, and those it lacks
\* were crowded out at some bar since they were made.
Tracks(list, low, born, n, close) ==
  /\ list \in Seq(Zone) /\ Members(list) \subseteq LiveAt(born, low, n)
  /\ Apart(list) /\ Ordered(list, close[n])
  /\ \A zone \in LiveAt(born, low, n) \ Members(list) :
       \E m \in zone.created .. n : Crowded(zone, LiveAt(born, low, m), close[m])

LEMMA SeenProperties ==
  ASSUME NEW h \in Seq(Shapes), NEW side \in Gaps!Sides
  PROVE  /\ DOMAIN SeenBy(side, h) = 1 .. Len(h) /\ Len(h) \in Nat
         /\ \A i \in 1 .. Len(h) :
              LET bar == SeenBy(side, h)[i]
              IN  bar.low \in Int /\ bar.high \in Int /\ bar.close \in Int
<1>1. /\ Len(h) \in Nat /\ DOMAIN h = 1 .. Len(h)
      /\ \A i \in 1 .. Len(h) : h[i].low \in Int /\ h[i].high \in Int /\ h[i].close \in Int
  BY LenProperties, ElementOfSeq, Constants
<1>2. DOMAIN SeenBy(side, h) = 1 .. Len(h)
  BY <1>1 DEF SeenBy, Gaps!Seen
<1>3. ASSUME NEW i \in 1 .. Len(h)
      PROVE  LET bar == SeenBy(side, h)[i]
             IN  bar.low \in Int /\ bar.high \in Int /\ bar.close \in Int
  <2>1. CASE side = "bull"
    BY <1>1, <2>1 DEF SeenBy, Gaps!Seen
  <2>2. CASE side # "bull"
    <3>1. SeenBy(side, h)[i] = Gaps!Mirror(h[i])
      BY <1>1, <2>2 DEF SeenBy, Gaps!Seen
    <3> QED
      BY <1>1, <3>1 DEF Gaps!Mirror
  <2> QED
    BY <2>1, <2>2
<1> QED
  BY <1>1, <1>2, <1>3

\* A new bar changes nothing of what a side has seen.
LEMMA SeenGrows ==
  ASSUME NEW h \in Seq(Shapes), NEW bar \in Shapes, NEW side \in Gaps!Sides
  PROVE  LET g == Append(h, bar)
         IN  /\ \A i \in 1 .. Len(h) : SeenBy(side, g)[i] = SeenBy(side, h)[i]
             /\ g \in Seq(Shapes) /\ Len(g) = Len(h) + 1
<1> DEFINE g == Append(h, bar)
<1>1. /\ g \in Seq(Shapes) /\ Len(g) = Len(h) + 1 /\ Len(h) \in Nat
      /\ DOMAIN h = 1 .. Len(h) /\ DOMAIN g = 1 .. Len(h) + 1
      /\ \A i \in 1 .. Len(h) : g[i] = h[i] /\ i \in 1 .. Len(h) + 1
  BY AppendedBar
<1> HIDE DEF g
<1>2. ASSUME NEW i \in 1 .. Len(h) PROVE SeenBy(side, g)[i] = SeenBy(side, h)[i]
  BY <1>1 DEF SeenBy, Gaps!Seen
<1> QED
  BY <1>1, <1>2 DEF g

LEMMA GapsBorn ==
  ASSUME NEW h \in Seq(Shapes), NEW side \in Gaps!Sides
  PROVE  /\ Births(GapBirths(side, h), Lows(side, h), Len(h))
         /\ \A i \in 1 .. Len(h) : LET fresh == Gaps!NewGap(SeenBy(side, h), i)
                                   IN  fresh \in Seq(Zone) /\ Len(fresh) <= 1
<1> DEFINE seen == SeenBy(side, h)
<1>1. /\ Len(h) \in Nat
      /\ \A i \in 1 .. Len(h) : seen[i].low \in Int /\ seen[i].high \in Int
  BY SeenProperties
<1> HIDE DEF seen
<1>2. ASSUME NEW c \in 1 .. Len(h)
      PROVE  LET fresh == Gaps!NewGap(seen, c)
             IN  /\ fresh \in Seq(Zone) /\ Len(fresh) <= 1
                 /\ \A z \in Members(fresh) : z \in Zone /\ z.created = c /\ z.extreme = seen[c].low
                 /\ \A z, y \in Members(fresh) : z = y
  <2> DEFINE fresh == Gaps!NewGap(seen, c)
             gap == [bottom |-> seen[c - 2].high, top |-> seen[c].low, created |-> c,
                     extreme |-> seen[c].low]
  <2>1. fresh = <<>> \/ (c >= 3 /\ fresh = <<gap>>)
    BY DEF Gaps!NewGap
  <2>2. CASE fresh = <<>>
    BY <2>2 DEF Members
  <2>3. CASE c >= 3 /\ fresh = <<gap>>
    <3>1. c - 2 \in 1 .. Len(h) /\ c \in Int
      BY <1>1, <2>3
    <3>2. gap \in Zone /\ gap.created = c /\ gap.extreme = seen[c].low
      BY <1>1, <3>1 DEF Zone
    <3> HIDE DEF gap
    <3>3. <<gap>> \in Seq(Zone) /\ Len(<<gap>>) = 1 /\ DOMAIN <<gap>> = {1} /\ <<gap>>[1] = gap
      BY <3>2
    <3>4. Members(<<gap>>) = {gap}
      BY <3>3 DEF Members
    <3> QED
      BY <2>3, <3>2, <3>3, <3>4
  <2> QED
    BY <2>1, <2>2, <2>3
<1>3. ASSUME NEW c \in 1 .. Len(h)
      PROVE  /\ Lows(side, h)[c] = seen[c].low
             /\ GapBirths(side, h)[c] = IF c >= AtrPeriod THEN Members(Gaps!NewGap(seen, c)) ELSE {}
  BY DEF Lows, GapBirths, seen
<1>4. Births(GapBirths(side, h), Lows(side, h), Len(h))
  BY <1>1, <1>2, <1>3 DEF Births
<1> QED
  BY <1>2, <1>4 DEF seen

LEMMA BlocksBorn ==
  ASSUME NEW h \in Seq(Shapes), NEW side \in Gaps!Sides
  PROVE  /\ Births(BlockBirths(side, h), Lows(side, h), Len(h))
         /\ \A i \in 1 .. Len(h) : LET fresh == Blocks!NewBlock(SeenBy(side, h), i)
                                   IN  fresh \in Seq(Zone) /\ Len(fresh) <= 1
<1> DEFINE seen == SeenBy(side, h)
<1>1. /\ Len(h) \in Nat
      /\ \A i \in 1 .. Len(h) : seen[i].low \in Int /\ seen[i].high \in Int
  BY SeenProperties
<1> HIDE DEF seen
<1>2. ASSUME NEW c \in 1 .. Len(h)
      PROVE  LET fresh == Blocks!NewBlock(seen, c)
             IN  /\ fresh \in Seq(Zone) /\ Len(fresh) <= 1
                 /\ \A z \in Members(fresh) : z \in Zone /\ z.created = c /\ z.extreme = seen[c].low
                 /\ \A z, y \in Members(fresh) : z = y
  <2> DEFINE fresh == Blocks!NewBlock(seen, c)
             candles == Blocks!Candles(seen, c)
             candle == seen[Blocks!Max(candles)]
             block == [bottom |-> candle.low, top |-> candle.high, created |-> c,
                       extreme |-> seen[c].low]
  <2>1. fresh = <<>> \/ (c >= 3 /\ candles # {} /\ fresh = <<block>>)
    BY DEF Blocks!NewBlock
  <2>2. CASE fresh = <<>>
    BY <2>2 DEF Members
  <2>3. CASE c >= 3 /\ candles # {} /\ fresh = <<block>>
    <3>1. c - 2 \in 1 .. Len(h) /\ c - 1 \in 1 .. Len(h) /\ c \in Int /\ c - 1 >= c - 2
      BY <1>1, <2>3
    <3>2. candles \subseteq {c - 1, c - 2}
      BY DEF Blocks!Candles
    <3>3. \E x \in candles : \A y \in candles : x >= y
      <4> HIDE DEF candles
      <4>1. CASE c - 1 \in candles
        <5>1. \A y \in candles : c - 1 >= y
          BY <3>1, <3>2
        <5> QED
          BY <4>1, <5>1
      <4>2. CASE c - 1 \notin candles
        <5>1. candles = {c - 2}
          BY <2>3, <3>2, <4>2
        <5>2. c - 2 >= c - 2
          BY <3>1
        <5> QED
          BY <5>1, <5>2
      <4> QED
        BY <4>1, <4>2
    <3>4. Blocks!Max(candles) \in candles
      BY <3>3 DEF Blocks!Max
    <3>5. Blocks!Max(candles) \in 1 .. Len(h)
      BY <3>1, <3>2, <3>4
    <3> HIDE DEF candles
    <3>6. block \in Zone /\ block.created = c /\ block.extreme = seen[c].low
      BY <1>1, <3>1, <3>5 DEF Zone
    <3> HIDE DEF block
    <3>7. <<block>> \in Seq(Zone) /\ Len(<<block>>) = 1 /\ DOMAIN <<block>> = {1}
          /\ <<block>>[1] = block
      BY <3>6
    <3>8. Members(<<block>>) = {block}
      BY <3>7 DEF Members
    <3> QED
      BY <2>3, <3>6, <3>7, <3>8
  <2> QED
    BY <2>1, <2>2, <2>3
<1>3. ASSUME NEW c \in 1 .. Len(h)
      PROVE  /\ Lows(side, h)[c] = seen[c].low
             /\ BlockBirths(side, h)[c] = IF c >= AtrPeriod THEN Members(Blocks!NewBlock(seen, c)) ELSE {}
  BY DEF Lows, BlockBirths, seen
<1>4. Births(BlockBirths(side, h), Lows(side, h), Len(h))
  BY <1>1, <1>2, <1>3 DEF Births
<1> QED
  BY <1>2, <1>4 DEF seen

\* What is live was made by one of the bars.
LEMMA LiveIsBorn ==
  ASSUME NEW n \in Nat, NEW low, NEW born, Births(born, low, n)
  PROVE  \A zone \in LiveAt(born, low, n) : zone.created \in 1 .. n
<1> TAKE zone \in LiveAt(born, low, n)
<1>1. PICK c \in 1 .. n : \E birth \in born[c] : zone = [birth EXCEPT !.extreme = Lowest(low, c, n)]
  BY LiveMembers
<1>2. PICK birth \in born[c] : zone = [birth EXCEPT !.extreme = Lowest(low, c, n)]
  BY <1>1
<1>3. birth \in Zone /\ birth.created = c
  BY DEF Births
<1> QED
  BY <1>2, <1>3 DEF Zone

\* What is live depends on the bars so far.
LEMMA LiveIsOfThePast ==
  ASSUME NEW n \in Nat, NEW low, NEW born, NEW lowToo, NEW bornToo, Births(born, low, n),
         \A c \in 1 .. n : low[c] = lowToo[c] /\ born[c] = bornToo[c],
         NEW m \in 0 .. n
  PROVE  LiveAt(born, low, m) = LiveAt(bornToo, lowToo, m)
<1>1. Births(born, low, m) /\ Births(bornToo, lowToo, m) /\ m \in Nat
  <2>1. \A c \in 1 .. m : c \in 1 .. n
    OBVIOUS
  <2> QED
    BY <2>1 DEF Births
<1>2. ASSUME NEW c \in 1 .. m
      PROVE  born[c] = bornToo[c] /\ Lowest(low, c, m) = Lowest(lowToo, c, m)
  <2>1. \A i \in c .. m : i \in 1 .. n
    OBVIOUS
  <2>2. {low[i] : i \in c .. m} = {lowToo[i] : i \in c .. m}
    BY <2>1
  <2>3. c \in 1 .. n
    OBVIOUS
  <2> QED
    BY <2>2, <2>3 DEF Lowest
<1> DEFINE From(z, b, l) ==
             \E c \in 1 .. m : \E birth \in b[c] :
               /\ z = [birth EXCEPT !.extreme = Lowest(l, c, m)]
               /\ m - c <= MaxAge /\ Lowest(l, c, m) > birth.bottom
<1>3. \A z : z \in LiveAt(born, low, m) <=> From(z, born, low)
  BY <1>1, LiveMembers
<1>4. \A z : z \in LiveAt(bornToo, lowToo, m) <=> From(z, bornToo, lowToo)
  BY <1>1, LiveMembers
<1>5. \A z : From(z, born, low) <=> From(z, bornToo, lowToo)
  BY <1>2
<1> QED
  BY <1>3, <1>4, <1>5

\* The work of fvg.py and of order_blocks.py on a list, as one operator.
LEMMA GapsTracked ==
  ASSUME NEW zones \in Seq(Zone), NEW i \in Int, NEW bar, bar.low \in Int, bar.close \in Int
  PROVE  IsTracked(Gaps!Tracked(zones, i, bar), zones, i, bar.low, bar.close)
<1> DEFINE kept == {k \in DOMAIN zones : Stays(zones[k], i, bar.low)}
           m == Cardinality(kept)
           d == [k \in DOMAIN zones |-> Dist(zones[k], bar.close)]
           sorted(p) == \A k, l \in 1 .. m : k < l => Gaps!Nearer(zones, bar, p[k], p[l])
           order == CHOOSE p \in [1 .. m -> kept] : sorted(p)
<1>1. /\ Len(zones) \in Nat /\ DOMAIN zones = 1 .. Len(zones)
      /\ \A k \in DOMAIN zones : zones[k] \in Zone
  BY LenProperties, ElementOfSeq
<1>2. \A z \in Zone : /\ Gaps!Reached(z, bar) = Reach(z, bar.low)
                      /\ Gaps!Reached(z, bar).bottom = z.bottom
                      /\ Gaps!Distance(z, bar) = Dist(z, bar.close)
                      /\ Dist(z, bar.close) \in Nat
  BY DEF Gaps!Reached, Reach, Gaps!Distance, Dist, Zone
<1>3. Gaps!Kept(zones, i, bar) = kept
  BY <1>1, <1>2 DEF Gaps!Kept, Gaps!Unexpired, Gaps!Unspent, Stays
<1>4. /\ IsFiniteSet(kept) /\ m \in Nat /\ kept \subseteq Nat
      /\ \A k \in kept : k \in DOMAIN zones /\ d[k] \in Nat
  <2>1. IsFiniteSet(1 .. Len(zones)) /\ kept \subseteq 1 .. Len(zones)
    BY <1>1, FS_Interval
  <2>2. IsFiniteSet(kept)
    BY <2>1, FS_Subset
  <2>3. m \in Nat
    BY <2>2, FS_CardinalityType
  <2> HIDE DEF m
  <2> QED
    BY <1>1, <1>2, <2>1, <2>2, <2>3
<1>5. Gaps!Cardinality(kept) = m
  BY DEF Gaps!Cardinality, Cardinality
<1>6. Gaps!Min({m, MaxTracked}) = IF m <= MaxTracked THEN m ELSE MaxTracked
  <2> HIDE DEF m
  <2>1. \A S : Gaps!Min(S) = MinOf(S)
    BY DEF Gaps!Min, MinOf
  <2>2. MinOf({m, MaxTracked}) = IF m <= MaxTracked THEN m ELSE MaxTracked
    <3> DEFINE both == {m, MaxTracked}
               least == IF m <= MaxTracked THEN m ELSE MaxTracked
    <3>1. both \subseteq Int /\ least \in both /\ \A x \in both : least <= x
      BY <1>4, Constants
    <3> HIDE DEF both, least
    <3>2. MinOf(both) = least
      BY <3>1, LeastIs
    <3> QED
      BY <3>2 DEF both, least
  <2> QED
    BY <2>1, <2>2
<1>7. \A p \in [1 .. m -> kept] : sorted(p) <=> Sorts(p, d, m)
  <2> SUFFICES ASSUME NEW p \in [1 .. m -> kept], NEW k \in 1 .. m, NEW l \in 1 .. m
               PROVE  Gaps!Nearer(zones, bar, p[k], p[l]) <=> Before(d, p[k], p[l])
    BY DEF Sorts
  <2>1. p[k] \in kept /\ p[l] \in kept
    OBVIOUS
  <2>2. \A q \in kept : d[q] = Gaps!Distance(zones[q], bar)
    BY <1>1, <1>2
  <2> HIDE DEF kept, d
  <2> QED
    BY <2>1, <2>2 DEF Gaps!Nearer, Before
<1>8. order \in [1 .. m -> kept] /\ Sorts(order, d, m)
  <2>1. \E p \in [1 .. m -> kept] : Sorts(p, d, m)
    <3>1. IsFiniteSet(kept) /\ kept \subseteq Nat /\ \A k \in kept : d[k] \in Nat
      BY <1>4
    <3> HIDE DEF kept, d
    <3> QED
      BY <3>1, SortedEnumeration
  <2> HIDE DEF kept, m, d, sorted
  <2> QED
    BY <1>7, <2>1
<1>9. Gaps!Tracked(zones, i, bar) =
        [k \in 1 .. Gaps!Min({m, MaxTracked}) |-> Gaps!Reached(zones[order[k]], bar)]
  <2> HIDE DEF kept
  <2> QED
    BY <1>3, <1>5 DEF Gaps!Tracked
<1>10. \A k \in 1 .. (IF m <= MaxTracked THEN m ELSE MaxTracked) :
         Gaps!Reached(zones[order[k]], bar) = Reach(zones[order[k]], bar.low)
  <2> TAKE k \in 1 .. (IF m <= MaxTracked THEN m ELSE MaxTracked)
  <2>1. order[k] \in kept
    <3>1. k \in 1 .. m
      <4> HIDE DEF m
      <4> QED
        BY <1>4, Constants
    <3> HIDE DEF kept, m, order
    <3> QED
      BY <1>8, <3>1
  <2> HIDE DEF order, m
  <2> QED
    BY <1>1, <1>2, <2>1
<1> HIDE DEF order
<1>11. Gaps!Tracked(zones, i, bar) =
         [k \in 1 .. (IF m <= MaxTracked THEN m ELSE MaxTracked) |->
            Reach(zones[order[k]], bar.low)]
  BY <1>6, <1>9, <1>10
<1> QED
  BY <1>8, <1>11 DEF IsTracked

LEMMA BlocksTracked ==
  ASSUME NEW zones, NEW i, NEW bar
  PROVE  Blocks!Tracked(zones, i, bar) = Gaps!Tracked(zones, i, bar)
BY DEF Gaps!Tracked, Gaps!Kept, Gaps!Unexpired, Gaps!Unspent, Gaps!Reached, Gaps!Nearer,
       Gaps!Distance, Gaps!Min, Gaps!Cardinality,
       Blocks!Tracked, Blocks!Kept, Blocks!Unexpired, Blocks!Unspent, Blocks!Reached,
       Blocks!Nearer, Blocks!Distance, Blocks!Min, Blocks!Cardinality

\* What the pass is to compute, as the live zones of the lists of births.
GapsIn(side, h, n) ==
  LET seen == Gaps!Seen(side, h)
  IN  Gaps!Live({[gap EXCEPT !.extreme = Gaps!LowestSince(seen, gap.created, n)] :
                   gap \in UNION {Gaps!ToSet(Gaps!NewGap(seen, c)) :
                                    c \in {i \in 1 .. n : Gaps!AtrDefined(i)}}}, n)

BlocksIn(side, h, n) ==
  LET seen == Blocks!Seen(side, h)
  IN  Blocks!Live({[block EXCEPT !.extreme = Blocks!LowestSince(seen, block.created, n)] :
                     block \in UNION {Blocks!ToSet(Blocks!NewBlock(seen, c)) :
                                        c \in {i \in 1 .. n : Blocks!AtrDefined(i)}}}, n)

LEMMA LowestIsLowest ==
  ASSUME NEW h \in Seq(Shapes), NEW side \in Gaps!Sides, NEW n \in 0 .. Len(h), NEW c \in 1 .. n
  PROVE  /\ Gaps!LowestSince(SeenBy(side, h), c, n) = Lowest(Lows(side, h), c, n)
         /\ Blocks!LowestSince(SeenBy(side, h), c, n) = Lowest(Lows(side, h), c, n)
<1>1. Len(h) \in Nat
  BY SeenProperties
<1>2. \A i \in c .. n : i \in 1 .. Len(h)
  BY <1>1
<1>3. \A i \in 1 .. Len(h) : Lows(side, h)[i] = SeenBy(side, h)[i].low
  BY DEF Lows
<1>4. {SeenBy(side, h)[i].low : i \in c .. n} = {Lows(side, h)[i] : i \in c .. n}
  BY <1>2, <1>3
<1>5. \A S : Gaps!Min(S) = MinOf(S) /\ Blocks!Min(S) = MinOf(S)
  BY DEF Gaps!Min, Blocks!Min, MinOf
<1> QED
  BY <1>4, <1>5 DEF Gaps!LowestSince, Blocks!LowestSince, Lowest

LEMMA LiveGapsAre ==
  ASSUME NEW h \in Seq(Shapes), NEW side \in Gaps!Sides, NEW n \in 0 .. Len(h)
  PROVE  GapsIn(side, h, n) = LiveAt(GapBirths(side, h), Lows(side, h), n)
<1> DEFINE seen == SeenBy(side, h)
           born == GapBirths(side, h)
           births == UNION {born[c] : c \in 1 .. n}
<1>1. UNION {Gaps!ToSet(Gaps!NewGap(seen, c)) : c \in {i \in 1 .. n : Gaps!AtrDefined(i)}} = births
  <2>1. Len(h) \in Nat
    BY SeenProperties
  <2>2. \A c \in 1 .. n : born[c] = IF Gaps!AtrDefined(c) THEN Gaps!ToSet(Gaps!NewGap(seen, c)) ELSE {}
    BY <2>1 DEF GapBirths, Gaps!AtrDefined, Gaps!ToSet, Members
  <2> HIDE DEF born, seen
  <2> QED
    BY <2>2
<1>2. \A birth \in births : /\ birth.created \in 1 .. n
                          /\ Gaps!LowestSince(seen, birth.created, n)
                               = Lowest(Lows(side, h), birth.created, n)
  <2>1. \A c \in 1 .. n : \A birth \in born[c] : birth.created = c
    <3>1. Births(born, Lows(side, h), Len(h))
      BY GapsBorn
    <3>2. Len(h) \in Nat /\ \A c \in 1 .. n : c \in 1 .. Len(h)
      BY SeenProperties
    <3> HIDE DEF born
    <3> QED
      BY <3>1, <3>2 DEF Births
  <2>2. \A birth \in births : birth.created \in 1 .. n
    <3> HIDE DEF born
    <3> QED
      BY <2>1
  <2> HIDE DEF births
  <2> QED
    BY <2>2, LowestIsLowest
<1> HIDE DEF births
<1>3. {[gap EXCEPT !.extreme = Gaps!LowestSince(seen, gap.created, n)] : gap \in births}
        = {[gap EXCEPT !.extreme = Lowest(Lows(side, h), gap.created, n)] : gap \in births}
  BY <1>2
<1> QED
  BY <1>1, <1>3 DEF GapsIn, Gaps!Live, LiveAt, SeenBy, births

LEMMA LiveBlocksAre ==
  ASSUME NEW h \in Seq(Shapes), NEW side \in Gaps!Sides, NEW n \in 0 .. Len(h)
  PROVE  BlocksIn(side, h, n) = LiveAt(BlockBirths(side, h), Lows(side, h), n)
<1> DEFINE seen == SeenBy(side, h)
           born == BlockBirths(side, h)
           births == UNION {born[c] : c \in 1 .. n}
<1>1. UNION {Blocks!ToSet(Blocks!NewBlock(seen, c)) : c \in {i \in 1 .. n : Blocks!AtrDefined(i)}}
        = births
  <2>1. Len(h) \in Nat
    BY SeenProperties
  <2>2. \A c \in 1 .. n :
          born[c] = IF Blocks!AtrDefined(c) THEN Blocks!ToSet(Blocks!NewBlock(seen, c)) ELSE {}
    BY <2>1 DEF BlockBirths, Blocks!AtrDefined, Blocks!ToSet, Members
  <2> HIDE DEF born, seen
  <2> QED
    BY <2>2
<1>2. \A birth \in births : /\ birth.created \in 1 .. n
                          /\ Blocks!LowestSince(seen, birth.created, n)
                               = Lowest(Lows(side, h), birth.created, n)
  <2>1. \A c \in 1 .. n : \A birth \in born[c] : birth.created = c
    <3>1. Births(born, Lows(side, h), Len(h))
      BY BlocksBorn
    <3>2. Len(h) \in Nat /\ \A c \in 1 .. n : c \in 1 .. Len(h)
      BY SeenProperties
    <3> HIDE DEF born
    <3> QED
      BY <3>1, <3>2 DEF Births
  <2>2. \A birth \in births : birth.created \in 1 .. n
    <3> HIDE DEF born
    <3> QED
      BY <2>1
  <2> HIDE DEF births
  <2> QED
    BY <2>2, LowestIsLowest
<1> HIDE DEF births
<1>3. {[block EXCEPT !.extreme = Blocks!LowestSince(seen, block.created, n)] : block \in births}
        = {[block EXCEPT !.extreme = Lowest(Lows(side, h), block.created, n)] : block \in births}
  BY <1>2
<1>4. Blocks!Seen(side, h) = seen
  BY DEF Blocks!Seen, Gaps!Seen, Blocks!Mirror, Gaps!Mirror, SeenBy
<1> QED
  BY <1>1, <1>3, <1>4, SMTT(30) DEF BlocksIn, Blocks!Live, LiveAt, births

-----------------------------------------------------------------------------
\* A bar leaves a list alone because nothing has ever been made, or tracks what
\* was there and what it makes.
Handled(list, next, low, born, n, now) ==
  \/ next = list /\ \A c \in 1 .. n + 1 : born[c] = {}
  \/ \E fresh \in Seq(Zone) :
       /\ Len(fresh) <= 1 /\ Members(fresh) = born[n + 1]
       /\ IsTracked(next, list \o fresh, n + 1, low[n + 1], now)

\* One bar's work on a list that tracks the zones of the history so far.
LEMMA ListStep ==
  ASSUME NEW n \in Nat, NEW low, NEW born, NEW close, NEW lowToo, NEW bornToo, NEW closeToo,
         Births(bornToo, lowToo, n + 1),
         \A c \in 1 .. n : low[c] = lowToo[c] /\ born[c] = bornToo[c] /\ close[c] = closeToo[c],
         NEW list, Tracks(list, low, born, n, close),
         closeToo[n + 1] \in Int, NEW next,
         Handled(list, next, lowToo, bornToo, n, closeToo[n + 1])
  PROVE  Tracks(next, lowToo, bornToo, n + 1, closeToo)
<1> DEFINE live(m) == LiveAt(bornToo, lowToo, m)
           now == closeToo[n + 1]
<1>1. \A m \in 0 .. n : LiveAt(born, low, m) = live(m)
  <2>1. Births(bornToo, lowToo, n)
    BY DEF Births
  <2>2. \A c \in 1 .. n : lowToo[c] = low[c] /\ bornToo[c] = born[c]
    OBVIOUS
  <2>3. ASSUME NEW m \in 0 .. n PROVE LiveAt(bornToo, lowToo, m) = LiveAt(born, low, m)
    BY <2>1, <2>2, LiveIsOfThePast
  <2> QED
    BY <2>3
<1>0. Continues(bornToo, lowToo, n)
  BY LiveStep
<1>2. /\ list \in Seq(Zone) /\ Members(list) \subseteq live(n) /\ Apart(list)
      /\ \A zone \in live(n) \ Members(list) :
           \E m \in zone.created .. n : m \in 1 .. n /\ Crowded(zone, live(m), closeToo[m])
  <2>1. n \in 0 .. n /\ \A m \in 1 .. n : m \in 0 .. n
    OBVIOUS
  <2>2. \A zone \in live(n) : \A m \in zone.created .. n : m \in 1 .. n
    <3> TAKE zone \in live(n)
    <3>1. zone.created \in 1 .. n
      BY <1>0 DEF Continues
    <3> QED
      BY <3>1
  <2>3. list \in Seq(Zone) /\ Members(list) \subseteq live(n) /\ Apart(list)
    BY <1>1, <2>1 DEF Tracks
  <2>4. ASSUME NEW zone \in live(n) \ Members(list)
        PROVE  \E m \in zone.created .. n : m \in 1 .. n /\ Crowded(zone, live(m), closeToo[m])
    <3>1. PICK m \in zone.created .. n : Crowded(zone, LiveAt(born, low, m), close[m])
      BY <1>1, <2>1 DEF Tracks
    <3>2. m \in 1 .. n /\ m \in 0 .. n
      BY <2>1, <2>2
    <3>3. LiveAt(born, low, m) = live(m) /\ close[m] = closeToo[m]
      BY <1>1, <3>2
    <3> QED
      BY <3>1, <3>2, <3>3
  <2> QED
    BY <2>3, <2>4
<1>3. CASE next = list /\ \A c \in 1 .. n + 1 : bornToo[c] = {}
  <2>1. \A m \in 0 .. n + 1 : live(m) = {}
    <3> TAKE m \in 0 .. n + 1
    <3>1. UNION {bornToo[c] : c \in 1 .. m} = {}
      BY <1>3
    <3> QED
      BY <3>1 DEF LiveAt
  <2>2. live(n) = {} /\ live(n + 1) = {}
    BY <2>1
  <2>3. Members(list) = {} /\ DOMAIN list = {}
    <3>1. Members(list) \subseteq {}
      BY <1>2, <2>2
    <3>2. \A k \in DOMAIN list : list[k] \in Members(list)
      BY DEF Members
    <3> QED
      BY <3>1, <3>2
  <2> QED
    BY <1>2, <1>3, <2>2, <2>3 DEF Tracks, Apart, Ordered
<1>4. CASE \E fresh \in Seq(Zone) :
             /\ Len(fresh) <= 1 /\ Members(fresh) = bornToo[n + 1]
             /\ IsTracked(next, list \o fresh, n + 1, lowToo[n + 1], now)
  <2>1. PICK fresh \in Seq(Zone) :
          /\ Len(fresh) <= 1 /\ Members(fresh) = bornToo[n + 1]
          /\ IsTracked(next, list \o fresh, n + 1, lowToo[n + 1], now)
    BY <1>4
  <2>2. Carries(list, next, lowToo, bornToo, n, now)
    <3>1. Members(list) \subseteq LiveAt(bornToo, lowToo, n) /\ Apart(list) /\ list \in Seq(Zone)
      BY <1>2
    <3> QED
      BY <2>1, <3>1, TrackedStep
  <2>3. ASSUME NEW zone \in live(n + 1) \ Members(next)
        PROVE  \E m \in zone.created .. n + 1 : Crowded(zone, live(m), closeToo[m])
    <3>1. /\ zone.created \in 1 .. n + 1
          /\ \/ Crowded(zone, live(n + 1), now)
             \/ \E lacked \in live(n) \ Members(list) :
                  lacked.created = zone.created /\ lacked.top = zone.top
      BY <2>2 DEF Carries
    <3>2. CASE Crowded(zone, live(n + 1), now)
      <4>1. n + 1 \in zone.created .. n + 1
        BY <3>1
      <4> QED
        BY <3>2, <4>1
    <3>3. ASSUME NEW lacked \in live(n) \ Members(list),
                 lacked.created = zone.created, lacked.top = zone.top
          PROVE  \E m \in zone.created .. n + 1 : Crowded(zone, live(m), closeToo[m])
      <4>1. PICK m \in lacked.created .. n : m \in 1 .. n /\ Crowded(lacked, live(m), closeToo[m])
        BY <1>2
      <4>2. m \in zone.created .. n + 1
        BY <3>1, <3>3, <4>1
      <4>3. Crowded(zone, live(m), closeToo[m])
        BY <3>3, <4>1 DEF Crowded, Dist
      <4> QED
        BY <4>2, <4>3
    <3> QED
      BY <3>1, <3>2, <3>3
  <2>4. /\ next \in Seq(Zone) /\ Members(next) \subseteq live(n + 1)
        /\ Apart(next) /\ Ordered(next, now)
    BY <2>2 DEF Carries
  <2> QED
    BY <2>3, <2>4 DEF Tracks
<1> QED
  BY <1>3, <1>4 DEF Handled

\* The inductive invariant of the two lists of zones.
ZonesInv ==
  \A side \in Gaps!Sides :
    LET close == Closes(side, bars)
    IN  /\ Tracks(gaps[side], Lows(side, bars), GapBirths(side, bars), Len(bars), close)
        /\ Tracks(blocks[side], Lows(side, bars), BlockBirths(side, bars), Len(bars), close)

LEMMA ZonesInit ==
  ASSUME Init
  PROVE  ZonesInv
<1> SUFFICES ASSUME NEW side \in Gaps!Sides
             PROVE  LET close == Closes(side, bars)
                    IN  /\ Tracks(gaps[side], Lows(side, bars), GapBirths(side, bars), Len(bars), close)
                        /\ Tracks(blocks[side], Lows(side, bars), BlockBirths(side, bars), Len(bars), close)
  BY DEF ZonesInv
<1>1. bars = <<>> /\ gaps[side] = <<>> /\ blocks[side] = <<>>
  BY DEF Init, Gaps!Init, Blocks!Init, Blocks!Sides, Gaps!Sides
<1>2. <<>> \in Seq(Zone) /\ Members(<<>>) = {} /\ DOMAIN <<>> = {} /\ Len(<<>>) = 0
  BY DEF Members
<1>3. ASSUME NEW low, NEW born PROVE LiveAt(born, low, 0) = {}
  <2>1. UNION {born[c] : c \in 1 .. 0} = {}
    OBVIOUS
  <2> QED
    BY <2>1 DEF LiveAt
<1>4. ASSUME NEW low, NEW born, NEW close PROVE Tracks(<<>>, low, born, 0, close)
  BY <1>2, <1>3 DEF Tracks, Apart, Ordered
<1> QED
  BY <1>1, <1>2, <1>4

\* What a bar does to the two lists of a side.
LEMMA ZonesStep ==
  ASSUME IInv, ZonesInv, NEW bar \in Shapes, Gaps!NextBar(bar), Blocks!NextBar(bar)
  PROVE  ZonesInv'
<1> SUFFICES ASSUME NEW side \in Gaps!Sides
             PROVE  LET close == Closes(side, bars')
                    IN  /\ Tracks(gaps'[side], Lows(side, bars'), GapBirths(side, bars'), Len(bars'), close)
                        /\ Tracks(blocks'[side], Lows(side, bars'), BlockBirths(side, bars'), Len(bars'), close)
  BY DEF ZonesInv
<1> DEFINE n == Len(bars)
           g == bars'
           seen == SeenBy(side, g)
           low == Lows(side, g)
           close == Closes(side, g)
<1>1. /\ bars \in Seq(Shapes) /\ g = Append(bars, bar) /\ g \in Seq(Shapes)
      /\ n \in Nat /\ Len(g) = n + 1 /\ n + 1 \in 1 .. Len(g)
      /\ \A i \in 1 .. n : SeenBy(side, g)[i] = SeenBy(side, bars)[i]
  <2>1. bars \in Seq(Shapes) /\ g = Append(bars, bar)
    BY DEF IInv, Gaps!NextBar
  <2>2. n \in Nat
    BY <2>1, SeenProperties
  <2> QED
    BY <2>1, <2>2, SeenGrows
<1>2. /\ seen[n + 1].low \in Int /\ seen[n + 1].close \in Int
      /\ low[n + 1] = seen[n + 1].low /\ close[n + 1] = seen[n + 1].close
  BY <1>1, SeenProperties DEF Lows, Closes
<1>3. \A c \in 1 .. n : Lows(side, bars)[c] = low[c] /\ Closes(side, bars)[c] = close[c]
  BY <1>1 DEF Lows, Closes
<1>4. AtrPeriod \in Nat
  BY Constants
<1>5. Tracks(gaps'[side], low, GapBirths(side, g), n + 1, close)
  <2> DEFINE fresh == Gaps!NewGap(seen, n + 1)
             born == GapBirths(side, g)
             old == gaps[side]
  <2>1. Births(born, low, n + 1) /\ fresh \in Seq(Zone) /\ Len(fresh) <= 1
    BY <1>1, GapsBorn
  <2>2. \A c \in 1 .. n : GapBirths(side, bars)[c] = born[c]
    <3> TAKE c \in 1 .. n
    <3>1. Gaps!NewGap(seen, c) = Gaps!NewGap(SeenBy(side, bars), c)
      <4>1. seen[c] = SeenBy(side, bars)[c]
        BY <1>1
      <4>2. c >= 3 => seen[c - 2] = SeenBy(side, bars)[c - 2]
        BY <1>1
      <4> QED
        BY <4>1, <4>2 DEF Gaps!NewGap
    <3>2. c \in 1 .. n + 1
      BY <1>1
    <3> QED
      BY <1>1, <3>1, <3>2 DEF GapBirths
  <2>3. IF n + 1 >= AtrPeriod THEN gaps'[side] = Gaps!Tracked(old \o fresh, n + 1, seen[n + 1])
                              ELSE gaps'[side] = old
    BY <1>1 DEF Gaps!NextBar, Gaps!AtrDefined, SeenBy
  <2>4. Tracks(old, Lows(side, bars), GapBirths(side, bars), n, Closes(side, bars))
    BY DEF ZonesInv
  <2>7. ASSUME NEW next, Handled(old, next, low, born, n, seen[n + 1].close)
        PROVE  Tracks(next, low, born, n + 1, close)
    <3> DEFINE lowBefore == Lows(side, bars)
               bornBefore == GapBirths(side, bars)
               closeBefore == Closes(side, bars)
    <3>1. n \in Nat /\ close[n + 1] \in Int
      BY <1>1, <1>2
    <3>2. Handled(old, next, low, born, n, close[n + 1])
      BY <1>2, <2>7
    <3>3. \A c \in 1 .. n : /\ lowBefore[c] = low[c] /\ bornBefore[c] = born[c]
                            /\ closeBefore[c] = close[c]
      BY <1>3, <2>2
    <3>4. Tracks(old, lowBefore, bornBefore, n, closeBefore)
      BY <2>4
    <3>5. Births(born, low, n + 1)
      BY <2>1
    <3> HIDE DEF low, born, close, old, n, lowBefore, bornBefore, closeBefore
    <3> QED
      BY <3>1, <3>2, <3>3, <3>4, <3>5, ListStep
  <2>5. CASE n + 1 >= AtrPeriod
    <3>1. Members(fresh) = born[n + 1]
      BY <1>1, <2>5 DEF GapBirths
    <3>2. old \o fresh \in Seq(Zone)
      BY <2>1, <2>4, ConcatProperties DEF Tracks
    <3>3. IsTracked(Gaps!Tracked(old \o fresh, n + 1, seen[n + 1]), old \o fresh, n + 1,
                    seen[n + 1].low, seen[n + 1].close)
      <4> DEFINE all == old \o fresh
                 newest == seen[n + 1]
                 i == n + 1
      <4>1. all \in Seq(Zone) /\ i \in Int /\ newest.low \in Int /\ newest.close \in Int
        BY <1>1, <1>2, <3>2
      <4> HIDE DEF all, newest, i
      <4>2. IsTracked(Gaps!Tracked(all, i, newest), all, i, newest.low, newest.close)
        BY <4>1, GapsTracked
      <4> QED
        BY <4>2 DEF all, newest, i
    <3>4. Handled(old, gaps'[side], low, born, n, seen[n + 1].close)
      BY <1>2, <2>1, <2>3, <2>5, <3>1, <3>3 DEF Handled
    <3> QED
      BY <2>4, <2>7, <3>4
  <2>6. CASE ~(n + 1 >= AtrPeriod)
    <3>1. \A c \in 1 .. n + 1 : born[c] = {}
      BY <1>1, <1>4, <2>6 DEF GapBirths
    <3>2. Handled(old, gaps'[side], low, born, n, seen[n + 1].close)
      BY <2>3, <2>6, <3>1 DEF Handled
    <3> QED
      BY <2>4, <2>7, <3>2
  <2> QED
    BY <2>5, <2>6
<1>6. Tracks(blocks'[side], low, BlockBirths(side, g), n + 1, close)
  <2> DEFINE fresh == Blocks!NewBlock(seen, n + 1)
             born == BlockBirths(side, g)
             old == blocks[side]
  <2>1. Births(born, low, n + 1) /\ fresh \in Seq(Zone) /\ Len(fresh) <= 1
    BY <1>1, BlocksBorn
  <2>2. \A c \in 1 .. n : BlockBirths(side, bars)[c] = born[c]
    <3> TAKE c \in 1 .. n
    <3>1. Blocks!NewBlock(seen, c) = Blocks!NewBlock(SeenBy(side, bars), c)
      <4> DEFINE then == SeenBy(side, bars)
      <4>1. seen[c] = then[c]
        BY <1>1
      <4>2. CASE c >= 3
        <5>1. seen[c - 1] = then[c - 1] /\ seen[c - 2] = then[c - 2]
          BY <1>1, <4>2
        <5>2. \A j \in {c - 1, c - 2} : seen[j] = then[j]
          BY <5>1
        <5>3. Blocks!Candles(seen, c) = Blocks!Candles(then, c)
          <6> HIDE DEF seen, then
          <6> QED
            BY <5>2 DEF Blocks!Candles
        <5>4. Blocks!Candles(then, c) # {} =>
                seen[Blocks!Max(Blocks!Candles(then, c))] = then[Blocks!Max(Blocks!Candles(then, c))]
          <6> DEFINE candles == Blocks!Candles(then, c)
          <6>1. candles \subseteq {c - 1, c - 2} /\ c \in Int
            BY DEF Blocks!Candles
          <6>2. candles # {} => \E x \in candles : \A y \in candles : x >= y
            <7> HIDE DEF candles
            <7>1. c - 1 >= c - 1 /\ c - 1 >= c - 2 /\ c - 2 >= c - 2
              BY <6>1
            <7> QED
              BY <6>1, <7>1
          <6>3. candles # {} => Blocks!Max(candles) \in candles
            BY <6>2 DEF Blocks!Max
          <6> HIDE DEF candles, seen, then
          <6>4. candles # {} => seen[Blocks!Max(candles)] = then[Blocks!Max(candles)]
            BY <5>2, <6>1, <6>3
          <6> QED
            BY <6>4 DEF candles
        <5> DEFINE candles == Blocks!Candles(then, c)
                   made(s) == [bottom |-> s[Blocks!Max(candles)].low,
                               top |-> s[Blocks!Max(candles)].high, created |-> c,
                               extreme |-> s[c].low]
                   makes(s) == c >= 3 /\ s[c].close - s[c - 1].close >= Displacement /\ candles # {}
        <5>5. /\ Blocks!NewBlock(seen, c) = IF makes(seen) THEN <<made(seen)>> ELSE <<>>
              /\ Blocks!NewBlock(then, c) = IF makes(then) THEN <<made(then)>> ELSE <<>>
          BY <5>3 DEF Blocks!NewBlock
        <5> HIDE DEF seen, then, candles
        <5>6. makes(seen) <=> makes(then)
          BY <4>1, <5>1
        <5>7. makes(then) => made(seen) = made(then)
          BY <4>1, <5>4 DEF candles
        <5> HIDE DEF made, makes
        <5>8. Blocks!NewBlock(seen, c) = Blocks!NewBlock(then, c)
          BY <5>5, <5>6, <5>7
        <5> QED
          BY <5>8 DEF then
      <4>3. CASE ~(c >= 3)
        BY <4>3 DEF Blocks!NewBlock
      <4> QED
        BY <4>2, <4>3
    <3>2. c \in 1 .. n + 1
      BY <1>1
    <3> QED
      BY <1>1, <3>1, <3>2 DEF BlockBirths
  <2>3. IF n + 1 >= AtrPeriod THEN blocks'[side] = Blocks!Tracked(old \o fresh, n + 1, seen[n + 1])
                              ELSE blocks'[side] = old
    <3>1. Blocks!Seen(side, g) = seen /\ side \in Blocks!Sides
      BY DEF Blocks!Seen, Gaps!Seen, Blocks!Mirror, Gaps!Mirror, SeenBy, Blocks!Sides, Gaps!Sides
    <3> QED
      BY <1>1, <3>1 DEF Blocks!NextBar, Blocks!AtrDefined
  <2>4. Tracks(old, Lows(side, bars), BlockBirths(side, bars), n, Closes(side, bars))
    BY DEF ZonesInv
  <2>7. ASSUME NEW next, Handled(old, next, low, born, n, seen[n + 1].close)
        PROVE  Tracks(next, low, born, n + 1, close)
    <3> DEFINE lowBefore == Lows(side, bars)
               bornBefore == BlockBirths(side, bars)
               closeBefore == Closes(side, bars)
    <3>1. n \in Nat /\ close[n + 1] \in Int
      BY <1>1, <1>2
    <3>2. Handled(old, next, low, born, n, close[n + 1])
      BY <1>2, <2>7
    <3>3. \A c \in 1 .. n : /\ lowBefore[c] = low[c] /\ bornBefore[c] = born[c]
                            /\ closeBefore[c] = close[c]
      BY <1>3, <2>2
    <3>4. Tracks(old, lowBefore, bornBefore, n, closeBefore)
      BY <2>4
    <3>5. Births(born, low, n + 1)
      BY <2>1
    <3> HIDE DEF low, born, close, old, n, lowBefore, bornBefore, closeBefore
    <3> QED
      BY <3>1, <3>2, <3>3, <3>4, <3>5, ListStep
  <2>5. CASE n + 1 >= AtrPeriod
    <3>1. Members(fresh) = born[n + 1]
      BY <1>1, <2>5 DEF BlockBirths
    <3>2. old \o fresh \in Seq(Zone)
      BY <2>1, <2>4, ConcatProperties DEF Tracks
    <3>3. IsTracked(Blocks!Tracked(old \o fresh, n + 1, seen[n + 1]), old \o fresh, n + 1,
                    seen[n + 1].low, seen[n + 1].close)
      <4> DEFINE all == old \o fresh
                 newest == seen[n + 1]
                 i == n + 1
      <4>1. all \in Seq(Zone) /\ i \in Int /\ newest.low \in Int /\ newest.close \in Int
        BY <1>1, <1>2, <3>2
      <4> HIDE DEF all, newest, i
      <4>2. IsTracked(Blocks!Tracked(all, i, newest), all, i, newest.low, newest.close)
        BY <4>1, GapsTracked, BlocksTracked
      <4> QED
        BY <4>2 DEF all, newest, i
    <3>4. Handled(old, blocks'[side], low, born, n, seen[n + 1].close)
      BY <1>2, <2>1, <2>3, <2>5, <3>1, <3>3 DEF Handled
    <3> QED
      BY <2>4, <2>7, <3>4
  <2>6. CASE ~(n + 1 >= AtrPeriod)
    <3>1. \A c \in 1 .. n + 1 : born[c] = {}
      BY <1>1, <1>4, <2>6 DEF BlockBirths
    <3>2. Handled(old, blocks'[side], low, born, n, seen[n + 1].close)
      BY <2>3, <2>6, <3>1 DEF Handled
    <3> QED
      BY <2>4, <2>7, <3>2
  <2> QED
    BY <2>5, <2>6
<1> QED
  BY <1>1, <1>5, <1>6

\* Being crowded out, in the properties' words.
LEMMA CrowdedIs ==
  ASSUME NEW zone, NEW live, NEW bar, Crowded(zone, live, bar.close)
  PROVE  Gaps!CrowdedOut(zone, live, bar) /\ Blocks!CrowdedOut(zone, live, bar)
<1>1. PICK others \in SUBSET live :
        /\ Cardinality(others) = MaxTracked
        /\ \A other \in others :
             other.created # zone.created /\ Dist(other, bar.close) <= Dist(zone, bar.close)
  BY DEF Crowded
<1>2. Gaps!Cardinality(others) = MaxTracked /\ Blocks!Cardinality(others) = MaxTracked
  BY <1>1 DEF Gaps!Cardinality, Blocks!Cardinality, Cardinality
<1>3. \A z : /\ Gaps!Distance(z, bar) = Dist(z, bar.close)
            /\ Blocks!Distance(z, bar) = Dist(z, bar.close)
  BY DEF Gaps!Distance, Blocks!Distance, Dist
<1> QED
  BY <1>1, <1>2, <1>3 DEF Gaps!CrowdedOut, Blocks!CrowdedOut

\* The zones that are live in the history, in the properties' words.
LEMMA LiveSets ==
  ASSUME IInv, NEW side \in Gaps!Sides
  PROVE  /\ Len(bars) \in 0 .. Len(bars)
         /\ \A n \in 0 .. Len(bars) :
              /\ Gaps!LiveGaps(side, n) = LiveAt(GapBirths(side, bars), Lows(side, bars), n)
              /\ Blocks!LiveBlocks(side, n) = LiveAt(BlockBirths(side, bars), Lows(side, bars), n)
<1>1. bars \in Seq(Shapes) /\ Len(bars) \in Nat
  BY LenProperties DEF IInv
<1>2. \A n : /\ Gaps!LiveGaps(side, n) = GapsIn(side, bars, n)
            /\ Blocks!LiveBlocks(side, n) = BlocksIn(side, bars, n)
  BY DEF Gaps!LiveGaps, Gaps!GapsFormed, GapsIn, Blocks!LiveBlocks, Blocks!BlocksMade, BlocksIn
<1> QED
  BY <1>1, <1>2, LiveGapsAre, LiveBlocksAre

\* The lists of zones are those of the history.
THEOREM ZonesAreOfTheHistory == Spec => [](IInv /\ ZonesInv)
<1>1. IInv /\ ZonesInv /\ [Next]_vars => ZonesInv'
  <2> SUFFICES ASSUME IInv, ZonesInv, [Next]_vars PROVE ZonesInv'
    OBVIOUS
  <2>1. CASE UNCHANGED vars
    BY <2>1 DEF vars, ZonesInv
  <2>2. ASSUME NEW bar \in market.shapes, NextBar(bar) PROVE ZonesInv'
    <3>1. bar \in Shapes
      BY DEF IInv, Shapes
    <3> QED
      BY <2>2, <3>1, ZonesStep DEF NextBar
  <2> QED
    BY <2>1, <2>2 DEF Next
<1>2. Init => ZonesInv
  BY ZonesInit
<1> QED
  BY <1>1, <1>2, MemoryIsOfTheHistory, PTL DEF Spec

-----------------------------------------------------------------------------
\* The gaps that fvg.py tracks and the blocks that order_blocks.py tracks are, in
\* every history and for every max_age_bars and max_tracked, zones of that
\* history which have neither expired nor been traded through.
THEOREM TrackedZonesAreAlwaysLive == Spec => []TrackedZonesAreLive
<1>1. IInv /\ ZonesInv => TrackedZonesAreLive
  <2> SUFFICES ASSUME IInv, ZonesInv, NEW side \in Gaps!Sides
               PROVE  /\ Gaps!ToSet(gaps[side]) \subseteq Gaps!LiveGaps(side, Len(bars))
                      /\ \A k, l \in DOMAIN gaps[side] : k # l => gaps[side][k] # gaps[side][l]
                      /\ Blocks!ToSet(blocks[side]) \subseteq Blocks!LiveBlocks(side, Len(bars))
    <3>1. Gaps!Sides = Blocks!Sides
      BY DEF Gaps!Sides, Blocks!Sides
    <3> QED
      BY <3>1 DEF TrackedZonesAreLive, Gaps!TrackedGapsAreLive, Blocks!TrackedBlocksAreLive
  <2>1. /\ Gaps!LiveGaps(side, Len(bars)) = LiveAt(GapBirths(side, bars), Lows(side, bars), Len(bars))
        /\ Blocks!LiveBlocks(side, Len(bars)) = LiveAt(BlockBirths(side, bars), Lows(side, bars), Len(bars))
    <3>1. Len(bars) \in 0 .. Len(bars)
      BY LiveSets
    <3> QED
      BY <3>1, LiveSets
  <2>2. Gaps!ToSet(gaps[side]) = Members(gaps[side]) /\ Blocks!ToSet(blocks[side]) = Members(blocks[side])
    BY DEF Gaps!ToSet, Blocks!ToSet, Members
  <2>3. /\ Members(gaps[side]) \subseteq LiveAt(GapBirths(side, bars), Lows(side, bars), Len(bars))
        /\ Members(blocks[side]) \subseteq LiveAt(BlockBirths(side, bars), Lows(side, bars), Len(bars))
        /\ Apart(gaps[side])
    BY DEF ZonesInv, Tracks
  <2>4. \A k, l \in DOMAIN gaps[side] : k # l => gaps[side][k] # gaps[side][l]
    BY <2>3 DEF Apart
  <2> QED
    BY <2>1, <2>2, <2>3, <2>4
<1> QED
  BY <1>1, ZonesAreOfTheHistory, PTL

\* In every history and for every max_tracked, a live gap that fvg.py does not track
\* and a live block that order_blocks.py does not were crowded out, at some bar since
\* they were made, by max_tracked others at least as near to the close; and the gaps
\* that are tracked have the nearest first.
THEOREM NoZoneIsEverMissed == Spec => []NoZoneIsMissed
<1>1. IInv /\ ZonesInv => NoZoneIsMissed
  <2> SUFFICES ASSUME IInv, ZonesInv PROVE Gaps!NoGapIsMissed /\ Blocks!NoBlockIsMissed
    BY DEF NoZoneIsMissed
  <2>1. Len(bars) \in Nat /\ Gaps!Sides = Blocks!Sides
    BY LenProperties DEF IInv, Gaps!Sides, Blocks!Sides
  <2>2. \A z, bar : Gaps!Distance(z, bar) = Dist(z, bar.close)
    BY DEF Gaps!Distance, Dist
  <2>3. ASSUME NEW side \in Gaps!Sides
        PROVE  /\ \A gap \in Gaps!LiveGaps(side, Len(bars)) \ Gaps!ToSet(gaps[side]) :
                    \E n \in gap.created .. Len(bars) :
                      Gaps!CrowdedOut(gap, Gaps!LiveGaps(side, n), Gaps!Seen(side, bars)[n])
               /\ \A k, l \in DOMAIN gaps[side] : k < l =>
                    LET now == Gaps!Seen(side, bars)[Len(bars)]
                    IN  Gaps!Distance(gaps[side][k], now) <= Gaps!Distance(gaps[side][l], now)
               /\ \A block \in Blocks!LiveBlocks(side, Len(bars)) \ Blocks!ToSet(blocks[side]) :
                    \E n \in block.created .. Len(bars) :
                      Blocks!CrowdedOut(block, Blocks!LiveBlocks(side, n), Blocks!Seen(side, bars)[n])
    <3> DEFINE liveGaps(n) == LiveAt(GapBirths(side, bars), Lows(side, bars), n)
               liveBlocks(n) == LiveAt(BlockBirths(side, bars), Lows(side, bars), n)
               seen == SeenBy(side, bars)
    <3>1. /\ Tracks(gaps[side], Lows(side, bars), GapBirths(side, bars), Len(bars), Closes(side, bars))
          /\ Tracks(blocks[side], Lows(side, bars), BlockBirths(side, bars), Len(bars), Closes(side, bars))
      BY DEF ZonesInv
    <3>2. /\ Len(bars) \in 0 .. Len(bars)
          /\ \A n \in 0 .. Len(bars) : /\ Gaps!LiveGaps(side, n) = liveGaps(n)
                                        /\ Blocks!LiveBlocks(side, n) = liveBlocks(n)
      BY LiveSets
    <3>3. /\ \A z \in liveGaps(Len(bars)) : z.created \in 1 .. Len(bars)
          /\ \A z \in liveBlocks(Len(bars)) : z.created \in 1 .. Len(bars)
      <4>1. /\ Births(GapBirths(side, bars), Lows(side, bars), Len(bars))
            /\ Births(BlockBirths(side, bars), Lows(side, bars), Len(bars))
        BY GapsBorn, BlocksBorn DEF IInv
      <4> QED
        BY <2>1, <4>1, LiveIsBorn
    <3>4. /\ Gaps!ToSet(gaps[side]) = Members(gaps[side])
          /\ Blocks!ToSet(blocks[side]) = Members(blocks[side])
      BY DEF Gaps!ToSet, Blocks!ToSet, Members
    <3>5. Gaps!Seen(side, bars) = seen /\ Blocks!Seen(side, bars) = seen
      BY DEF Blocks!Seen, Gaps!Seen, Blocks!Mirror, Gaps!Mirror, SeenBy
    <3>6. \A n \in 1 .. Len(bars) : Closes(side, bars)[n] = seen[n].close
      BY DEF Closes
    <3> HIDE DEF seen
    <3>7. ASSUME NEW gap \in liveGaps(Len(bars)) \ Members(gaps[side])
          PROVE  \E n \in gap.created .. Len(bars) :
                   Gaps!CrowdedOut(gap, Gaps!LiveGaps(side, n), seen[n])
      <4>1. PICK n \in gap.created .. Len(bars) : Crowded(gap, liveGaps(n), Closes(side, bars)[n])
        BY <3>1 DEF Tracks
      <4>2. n \in 1 .. Len(bars) /\ n \in 0 .. Len(bars)
        BY <2>1, <3>3
      <4>3. Crowded(gap, Gaps!LiveGaps(side, n), seen[n].close)
        BY <3>2, <3>6, <4>1, <4>2
      <4> DEFINE there == Gaps!LiveGaps(side, n)
                 bar == seen[n]
      <4>4. Crowded(gap, there, bar.close)
        BY <4>3
      <4> HIDE DEF there, bar
      <4>5. Gaps!CrowdedOut(gap, there, bar)
        BY <4>4, CrowdedIs
      <4> QED
        BY <4>1, <4>5 DEF there, bar
    <3>8. ASSUME NEW block \in liveBlocks(Len(bars)) \ Members(blocks[side])
          PROVE  \E n \in block.created .. Len(bars) :
                   Blocks!CrowdedOut(block, Blocks!LiveBlocks(side, n), seen[n])
      <4>1. PICK n \in block.created .. Len(bars) : Crowded(block, liveBlocks(n), Closes(side, bars)[n])
        BY <3>1 DEF Tracks
      <4>2. n \in 1 .. Len(bars) /\ n \in 0 .. Len(bars)
        BY <2>1, <3>3
      <4>3. Crowded(block, Blocks!LiveBlocks(side, n), seen[n].close)
        BY <3>2, <3>6, <4>1, <4>2
      <4> DEFINE there == Blocks!LiveBlocks(side, n)
                 bar == seen[n]
      <4>4. Crowded(block, there, bar.close)
        BY <4>3
      <4> HIDE DEF there, bar
      <4>5. Blocks!CrowdedOut(block, there, bar)
        BY <4>4, CrowdedIs
      <4> QED
        BY <4>1, <4>5 DEF there, bar
    <3>9. ASSUME NEW k \in DOMAIN gaps[side], NEW l \in DOMAIN gaps[side], k < l
          PROVE  Gaps!Distance(gaps[side][k], seen[Len(bars)])
                   <= Gaps!Distance(gaps[side][l], seen[Len(bars)])
      <4>1. Len(bars) \in 1 .. Len(bars)
        <5>1. gaps[side][k] \in liveGaps(Len(bars))
          BY <3>1 DEF Tracks, Members
        <5>2. gaps[side][k].created \in 1 .. Len(bars)
          BY <3>3, <5>1
        <5> QED
          BY <2>1, <5>2
      <4>2. Dist(gaps[side][k], Closes(side, bars)[Len(bars)])
              <= Dist(gaps[side][l], Closes(side, bars)[Len(bars)])
        BY <3>1, <3>9 DEF Tracks, Ordered
      <4> QED
        BY <2>2, <3>6, <4>1, <4>2
    <3> QED
      BY <3>2, <3>4, <3>5, <3>7, <3>8, <3>9
  <2> QED
    BY <2>1, <2>3 DEF Gaps!NoGapIsMissed, Blocks!NoBlockIsMissed
<1> QED
  BY <1>1, ZonesAreOfTheHistory, PTL

=============================================================================
