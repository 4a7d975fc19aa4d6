------------------------ MODULE FeatureEngine_proofs ------------------------
(***************************************************************************)
(* Facts about the grids, the resampler, the as-of join and the rows the   *)
(* engine computes, for every frame and every value of the constants.      *)
(***************************************************************************)
EXTENDS FeatureEngine, SequenceTheorems, WellFoundedInduction, TLAPS

\* The floor of a stamp starts an interval that contains it.
LEMMA FloorBounds ==
  ASSUME NEW stamp \in Int, NEW width \in Nat \ {0}, NEW origin \in Int
  PROVE  /\ FloorTo(stamp, width, origin) \in Int
         /\ FloorTo(stamp, width, origin) <= stamp
         /\ stamp < FloorTo(stamp, width, origin) + width
<1> DEFINE q == (stamp - origin) \div width
<1>1. q \in Int
  OBVIOUS
<1>2. q * width <= stamp - origin /\ stamp - origin < q * width + width
  BY SMT
<1> QED
  BY <1>1, <1>2 DEF FloorTo

\* Every stamp of an interval has the same floor.
LEMMA FloorUnique ==
  ASSUME NEW stamp \in Int, NEW other \in Int, NEW width \in Nat \ {0}, NEW origin \in Int,
         FloorTo(stamp, width, origin) <= other,
         other < FloorTo(stamp, width, origin) + width
  PROVE  FloorTo(other, width, origin) = FloorTo(stamp, width, origin)
<1> DEFINE q == (stamp - origin) \div width
           p == (other - origin) \div width
<1>1. q \in Int /\ p \in Int
  OBVIOUS
<1>2. p * width <= other - origin /\ other - origin < p * width + width
  BY SMT
<1>3. q * width <= other - origin /\ other - origin < q * width + width
  BY DEF FloorTo
<1> HIDE DEF q, p
<1>4. ~(p <= q - 1)
  <2> SUFFICES ASSUME p <= q - 1 PROVE FALSE
    OBVIOUS
  <2>1. (q - 1 - p) * width >= 0
    BY <1>1
  <2>2. p * width + width <= q * width
    BY <2>1, <1>1
  <2> QED
    BY <2>2, <1>1, <1>2, <1>3
<1>5. ~(q <= p - 1)
  <2> SUFFICES ASSUME q <= p - 1 PROVE FALSE
    OBVIOUS
  <2>1. (p - 1 - q) * width >= 0
    BY <1>1
  <2>2. q * width + width <= p * width
    BY <2>1, <1>1
  <2> QED
    BY <2>2, <1>1, <1>2, <1>3
<1>6. p = q
  BY <1>1, <1>4, <1>5
<1> QED
  BY <1>6 DEF FloorTo, p, q

\* Every intraday timeframe has a well-formed grid, whatever its anchor.
THEOREM IntradayGridIsWellFormed ==
  ASSUME ResampleAssumption, NEW tf \in Intraday
  PROVE  WellFormedGrid(tf)
<1> DEFINE origin == IF tf = "4h" THEN H4Anchor ELSE 0
           start(o) == FloorTo(o, Width[tf], origin)
<1>1. /\ Time \subseteq Int /\ Width[tf] \in Nat \ {0} /\ origin \in Int /\ tf # "1d"
  BY DEF ResampleAssumption, Intraday
<1> SUFFICES ASSUME NEW o \in Time
             PROVE  /\ start(o) \in Int /\ start(o) + Width[tf] \in Int
                    /\ start(o) <= o /\ o + 1 <= start(o) + Width[tf]
                    /\ \A p \in Time : start(o) <= p /\ p < start(o) + Width[tf]
                                          => start(p) = start(o)
  BY <1>1 DEF WellFormedGrid, GroupKey, IntradayBounds, CloseOf
<1>2. start(o) \in Int /\ start(o) <= o /\ o < start(o) + Width[tf]
  BY <1>1, FloorBounds
<1>3. ASSUME NEW p \in Time, start(o) <= p, p < start(o) + Width[tf]
      PROVE  start(p) = start(o)
  BY <1>1, <1>3, FloorUnique
<1> QED
  BY <1>1, <1>2, <1>3

\* A wall clock that does not come twice is read from the instant it is localized to
\* on, and not before.
LEMMA LocalizeIsFirst ==
  ASSUME ZoneAssumption, NEW wall \in Int, NEW t \in Int,
         wall <= Transition + OffsetAfter \/ Transition + OffsetBefore <= wall
  PROVE  Localize(wall) \in Int /\ (Localize(wall) <= t <=> wall <= WallClock(t))
<1>1. Transition \in Int /\ OffsetBefore \in Int /\ OffsetAfter \in Int
  BY DEF ZoneAssumption
<1>2. CASE wall - OffsetBefore < Transition
  BY <1>1, <1>2 DEF Localize, WallClock, UtcOffset
<1>3. CASE Transition <= wall - OffsetBefore /\ Transition <= wall - OffsetAfter
  BY <1>1, <1>3 DEF Localize, WallClock, UtcOffset
<1>4. CASE Transition <= wall - OffsetBefore /\ wall - OffsetAfter < Transition
  BY <1>1, <1>4 DEF Localize, WallClock, UtcOffset
<1> QED
  BY <1>1, <1>2, <1>3, <1>4

\* So has the daily timeframe, across a change of the clocks in spring or in autumn,
\* as long as there are no bars at the hours at which that matters.
THEOREM DailyGridIsWellFormed ==
  ASSUME ResampleAssumption, QuietDailyAnchor
  PROVE  WellFormedGrid("1d")
<1> DEFINE day(o) == FloorTo(WallClock(o - DailyAnchor), DayLength, 0)
           from(o) == day(o) + DailyAnchor
           to(o) == day(o) + DayLength + DailyAnchor
           Single(wall) == wall <= Transition + OffsetAfter \/ Transition + OffsetBefore <= wall
<1>1. /\ ZoneAssumption /\ Time \subseteq Int /\ DayLength \in Nat \ {0} /\ DailyAnchor \in Int
      /\ Transition \in Int /\ OffsetBefore \in Int /\ OffsetAfter \in Int
  BY DEF ResampleAssumption, ZoneAssumption
<1>2. ASSUME NEW o \in Time
      PROVE  /\ GroupKey("1d", o) = [open |-> Localize(from(o)), close |-> Localize(to(o))]
             /\ FloorTo(WallClock(o) - DailyAnchor, DayLength, 0) = day(o)
             /\ Single(from(o)) /\ Single(to(o))
  BY DEF GroupKey, DailyBounds, QuietDailyAnchor
<1>3. \A t \in Int : WallClock(t) \in Int
  BY <1>1 DEF WallClock, UtcOffset
<1>4. ASSUME NEW o \in Time
      PROVE  /\ day(o) \in Int /\ from(o) \in Int /\ to(o) \in Int
             /\ from(o) <= WallClock(o) /\ WallClock(o) < to(o)
  <2>1. WallClock(o) - DailyAnchor \in Int
    BY <1>1, <1>3
  <2>2. /\ day(o) \in Int /\ day(o) <= WallClock(o) - DailyAnchor
        /\ WallClock(o) - DailyAnchor < day(o) + DayLength
    BY <1>1, <1>2, <2>1, FloorBounds
  <2> HIDE DEF day
  <2> QED
    BY <1>1, <1>3, <2>2
<1> HIDE DEF from, to, Single
<1>5. ASSUME NEW o \in Time, NEW t \in Int
      PROVE  /\ Localize(from(o)) \in Int /\ (Localize(from(o)) <= t <=> from(o) <= WallClock(t))
             /\ Localize(to(o)) \in Int /\ (Localize(to(o)) <= t <=> to(o) <= WallClock(t))
  BY <1>1, <1>2, <1>4, LocalizeIsFirst DEF Single
<1>6. ASSUME NEW o \in Time
      PROVE  Localize(from(o)) <= o /\ o + 1 <= Localize(to(o))
  <2>1. o \in Int /\ WallClock(o) \in Int
    BY <1>1, <1>3
  <2>2. Localize(from(o)) <= o /\ ~(Localize(to(o)) <= o) /\ Localize(to(o)) \in Int
    BY <1>4, <1>5, <2>1
  <2> QED
    BY <2>1, <2>2
<1>7. ASSUME NEW o \in Time, NEW p \in Time, Localize(from(o)) <= p, p < Localize(to(o))
      PROVE  GroupKey("1d", p) = GroupKey("1d", o)
  <2>1. p \in Int /\ WallClock(p) \in Int /\ Localize(to(o)) \in Int /\ ~(Localize(to(o)) <= p)
    BY <1>1, <1>3, <1>5, <1>7
  <2>2. from(o) <= WallClock(p) /\ WallClock(p) < to(o)
    BY <1>4, <1>5, <1>7, <2>1
  <2>3. day(p) = day(o)
    <3>1. /\ WallClock(o) - DailyAnchor \in Int /\ WallClock(p) - DailyAnchor \in Int
          /\ 0 \in Int
      BY <1>1, <1>3
    <3>2. /\ FloorTo(WallClock(o) - DailyAnchor, DayLength, 0) = day(o)
          /\ FloorTo(WallClock(p) - DailyAnchor, DayLength, 0) = day(p)
          /\ day(o) \in Int
      BY <1>2, <1>4
    <3> HIDE DEF day
    <3>3. day(o) <= WallClock(p) - DailyAnchor /\ WallClock(p) - DailyAnchor < day(o) + DayLength
      BY <1>1, <2>1, <2>2, <3>2 DEF from, to
    <3> QED
      BY <1>1, <3>1, <3>2, <3>3, FloorUnique
  <2>4. from(p) = from(o) /\ to(p) = to(o)
    BY <2>3 DEF from, to
  <2> QED
    BY <1>2, <2>4
<1>8. ASSUME NEW o \in Time
      PROVE  LET key == GroupKey("1d", o)
             IN  /\ key.open \in Int /\ key.close \in Int
                 /\ key.open <= o /\ CloseOf(o) <= key.close
                 /\ \A p \in Time : key.open <= p /\ p < key.close => GroupKey("1d", p) = key
  <2>1. /\ GroupKey("1d", o).open = Localize(from(o)) /\ GroupKey("1d", o).close = Localize(to(o))
    BY <1>2
  <2>2. o \in Int /\ Localize(from(o)) \in Int /\ Localize(to(o)) \in Int
    BY <1>1, <1>5
  <2> QED
    BY <1>6, <1>7, <2>1, <2>2 DEF CloseOf
<1> QED
  BY <1>8 DEF WellFormedGrid

-----------------------------------------------------------------------------
\* A nonempty set of numbers has a least one.
LEMMA LeastNumber ==
  ASSUME NEW T, T \subseteq Nat, T # {}
  PROVE  \E n \in T : \A m \in T : n <= m
<1>1. IsWellFoundedOn(OpToRel(<, Nat), Nat)
  BY NatLessThanWellFounded
<1>2. PICK n \in T : \A m \in T : ~ (<<m, n>> \in OpToRel(<, Nat))
  BY <1>1, WFMin
<1>3. \A m \in T : ~(m < n)
  BY <1>2 DEF OpToRel
<1> QED
  BY <1>3

\* What a prefix of a frame is.
LEMMA PrefixElements ==
  ASSUME NEW S, NEW s \in Seq(S), NEW n \in 1 .. Len(s)
  PROVE  /\ Prefix(s, n) \in Seq(S)
         /\ Len(Prefix(s, n)) = n
         /\ \A i \in 1 .. n : Prefix(s, n)[i] = s[i]
         /\ BarsOf(Prefix(s, n)) = {s[i] : i \in 1 .. n}
<1>1. \A i \in 1 .. n : s[i] \in S
  OBVIOUS
<1>2. /\ Prefix(s, n) \in Seq(S)
      /\ Len(Prefix(s, n)) = n
      /\ \A i \in 1 .. n : Prefix(s, n)[i] = s[i]
  BY <1>1, SubSeqProperties DEF Prefix
<1>3. DOMAIN Prefix(s, n) = 1 .. n
  BY <1>2
<1> QED
  BY <1>2, <1>3 DEF BarsOf

\* A prefix of a prefix.
LEMMA PrefixOfPrefix ==
  ASSUME NEW S, NEW s \in Seq(S), NEW n \in 1 .. Len(s), NEW i \in 1 .. n
  PROVE  Prefix(Prefix(s, n), i) = Prefix(s, i)
<1>1. /\ Prefix(s, n) \in Seq(S) /\ Len(Prefix(s, n)) = n
      /\ \A k \in 1 .. n : Prefix(s, n)[k] = s[k]
  BY PrefixElements
<1>2. /\ Prefix(Prefix(s, n), i) \in Seq(S) /\ Len(Prefix(Prefix(s, n), i)) = i
      /\ \A k \in 1 .. i : Prefix(Prefix(s, n), i)[k] = Prefix(s, n)[k]
  BY <1>1, PrefixElements
<1>3. /\ Prefix(s, i) \in Seq(S) /\ Len(Prefix(s, i)) = i
      /\ \A k \in 1 .. i : Prefix(s, i)[k] = s[k]
  BY PrefixElements
<1>4. \A k \in 1 .. i : Prefix(Prefix(s, n), i)[k] = Prefix(s, i)[k]
  BY <1>1, <1>2, <1>3
<1> QED
  BY <1>2, <1>3, <1>4, SeqEqual

\* The bars of a frame that are known at the close of its ith bar.
LEMMA KnownBars ==
  ASSUME NEW s \in Seq(Time), Time \subseteq Int, IsBarFrame(s),
         NEW n \in 1 .. Len(s), NEW i \in 1 .. n
  PROVE  /\ BarsOf(Prefix(s, i)) = {o \in BarsOf(Prefix(s, n)) : CloseOf(o) <= CloseOf(s[i])}
         /\ BarsOf(Prefix(s, n)) \subseteq Time
         /\ EndOf(Prefix(s, i)) = CloseOf(s[i])
         /\ CloseOf(s[i]) \in Int
<1>1. /\ n \in Nat /\ i \in Nat /\ 1 <= i /\ i <= n /\ n <= Len(s)
      /\ DOMAIN s = 1 .. Len(s) /\ Len(s) \in Nat
  OBVIOUS
<1>2. /\ BarsOf(Prefix(s, n)) = {s[k] : k \in 1 .. n}
      /\ BarsOf(Prefix(s, i)) = {s[k] : k \in 1 .. i}
      /\ Len(Prefix(s, i)) = i /\ Prefix(s, i)[i] = s[i]
  <2>1. i \in 1 .. Len(s) /\ i \in 1 .. i
    BY <1>1
  <2> QED
    BY <2>1, PrefixElements
<1>3. \A k \in 1 .. n : s[k] \in Time /\ s[k] \in Int
  <2>1. \A k \in 1 .. Len(s) : s[k] \in Time
    BY ElementOfSeq
  <2>2. \A k \in 1 .. n : k \in 1 .. Len(s)
    BY <1>1
  <2> QED
    BY <2>1, <2>2
<1>4. ASSUME NEW k \in 1 .. n PROVE s[k] <= s[i] <=> k <= i
  <2>1. k \in DOMAIN s /\ i \in DOMAIN s /\ s[k] \in Int /\ s[i] \in Int
    BY <1>1, <1>3
  <2>2. k < i => s[k] < s[i]
    BY <2>1 DEF IsBarFrame
  <2>3. i < k => s[i] < s[k]
    BY <2>1 DEF IsBarFrame
  <2> QED
    BY <1>1, <2>1, <2>2, <2>3
<1>5. i \in 1 .. n /\ s[i] \in Int
  BY <1>1, <1>3
<1>6. {s[k] : k \in 1 .. i} = {o \in {s[k] : k \in 1 .. n} : CloseOf(o) <= CloseOf(s[i])}
  <2>1. \A k \in 1 .. n : CloseOf(s[k]) <= CloseOf(s[i]) <=> k <= i
    BY <1>3, <1>4, <1>5 DEF CloseOf
  <2>2. \A k : k \in 1 .. i <=> k \in 1 .. n /\ k <= i
    BY <1>1
  <2> QED
    BY <2>1, <2>2
<1> QED
  BY <1>2, <1>3, <1>5, <1>6 DEF EndOf, CloseOf

-----------------------------------------------------------------------------
\* The resampled bars closed by the close of bar i do not depend on the bars
\* after it, and none of them is the dropped one.
THEOREM ResampledPrefix ==
  ASSUME ResampleAssumption, NEW tf, WellFormedGrid(tf),
         NEW s \in Seq(Time), IsBarFrame(s),
         NEW n \in 1 .. Len(s), NEW i \in 1 .. n
  PROVE  {bar \in ResampleBars(tf, Prefix(s, n)) : bar.close <= CloseOf(s[i])}
           = ClosedBars(tf, Prefix(s, i))
<1> DEFINE t == CloseOf(s[i])
           B == BarsOf(Prefix(s, n))
           K == BarsOf(Prefix(s, i))
           key(o) == GroupKey(tf, o)
<1>1. Time \subseteq Int
  BY DEF ResampleAssumption
<1>2. /\ K = {o \in B : CloseOf(o) <= t} /\ B \subseteq Time
      /\ EndOf(Prefix(s, i)) = t /\ t \in Int
  BY <1>1, KnownBars
<1>3. EndOf(Prefix(s, n)) = CloseOf(s[n]) /\ CloseOf(s[n]) \in Int /\ t <= CloseOf(s[n])
  <2>1. EndOf(Prefix(s, n)) = CloseOf(s[n]) /\ CloseOf(s[n]) \in Int
    BY <1>1, KnownBars
  <2>2. s[i] \in Int /\ s[n] \in Int /\ s[i] <= s[n]
    <3>1. /\ s[i] \in Int /\ s[n] \in Int /\ i \in DOMAIN s /\ n \in DOMAIN s
          /\ i \in Int /\ n \in Int /\ i <= n
      <4>1. Len(s) \in Nat /\ DOMAIN s = 1 .. Len(s)
        BY LenProperties
      <4>2. i \in 1 .. Len(s) /\ n \in 1 .. Len(s) /\ i \in Int /\ n \in Int /\ i <= n
        BY <4>1
      <4>3. s[i] \in Time /\ s[n] \in Time
        BY <4>2, ElementOfSeq
      <4> QED
        BY <1>1, <4>1, <4>2, <4>3
    <3>2. n = i \/ s[i] < s[n]
      BY <3>1 DEF IsBarFrame
    <3> QED
      BY <3>1, <3>2
  <2> QED
    BY <2>1, <2>2 DEF CloseOf
<1>4. \A o \in B : /\ key(o).open \in Int /\ key(o).close \in Int
                   /\ key(o).open <= o /\ CloseOf(o) <= key(o).close /\ o \in Int
  BY <1>1, <1>2 DEF WellFormedGrid
\* The members of an interval that has closed by t have all closed by then.
<1>5. ASSUME NEW o \in B, key(o).close <= t
      PROVE  HtfBar(tf, Prefix(s, n), key(o)) = HtfBar(tf, Prefix(s, i), key(o))
  <2>1. ASSUME NEW p \in B, key(p).open = key(o).open
        PROVE  CloseOf(p) <= t
    <3>1. key(p).close <= key(o).close \/ o < key(p).close
      BY <1>4, <2>1 DEF CloseOf
    <3>2. CASE key(p).close <= key(o).close
      BY <3>2, <1>4, <1>5, <1>2 DEF CloseOf
    <3>3. CASE o < key(p).close
      <4>1. key(o) = key(p)
        BY <3>3, <1>2, <1>4, <2>1 DEF WellFormedGrid
      <4> QED
        BY <4>1, <1>4, <1>5, <1>2 DEF CloseOf
    <3> QED
      BY <3>1, <3>2, <3>3
  <2>2. {p \in B : key(p).open = key(o).open} = {p \in K : key(p).open = key(o).open}
    BY <2>1, <1>2
  <2> QED
    BY <2>2 DEF HtfBar
<1>6. ASSUME NEW o \in B, key(o).close <= t
      PROVE  HtfBar(tf, Prefix(s, n), key(o)) \in ResampleBars(tf, Prefix(s, n))
  <2> DEFINE bar == HtfBar(tf, Prefix(s, n), key(o))
  <2>1. bar.close = key(o).close
    BY DEF HtfBar
  <2>2. ~(bar.close > EndOf(Prefix(s, n)))
    BY <2>1, <1>2, <1>3, <1>4, <1>6
  <2>3. bar \in Aggregated(tf, Prefix(s, n))
    BY DEF Aggregated
  <2>4. bar \in ResampleBars(tf, Prefix(s, n))
    <3> HIDE DEF bar
    <3> QED
      BY <2>2, <2>3 DEF ResampleBars
  <2> QED
    BY <2>4
<1>7. ASSUME NEW bar \in ResampleBars(tf, Prefix(s, n)), bar.close <= t
      PROVE  bar \in ClosedBars(tf, Prefix(s, i))
  <2>1. PICK o \in B : bar = HtfBar(tf, Prefix(s, n), key(o))
    BY DEF ResampleBars, Aggregated
  <2>2. key(o).close <= t
    BY <2>1, <1>7 DEF HtfBar
  <2>3. o \in K
    BY <2>2, <1>2, <1>4 DEF CloseOf
  <2>4. bar = HtfBar(tf, Prefix(s, i), key(o))
    BY <2>1, <2>2, <1>5
  <2> QED
    BY <2>2, <2>3, <2>4, <1>2 DEF ClosedBars
<1>8. ASSUME NEW bar \in ClosedBars(tf, Prefix(s, i))
      PROVE  bar \in ResampleBars(tf, Prefix(s, n)) /\ bar.close <= t
  <2>1. PICK o \in K : key(o).close <= t /\ bar = HtfBar(tf, Prefix(s, i), key(o))
    BY <1>2 DEF ClosedBars
  <2>2. o \in B
    BY <1>2
  <2>3. bar = HtfBar(tf, Prefix(s, n), key(o))
    BY <2>1, <2>2, <1>5
  <2>4. bar.close = key(o).close
    BY <2>3 DEF HtfBar
  <2> QED
    BY <2>1, <2>2, <2>3, <2>4, <1>6
<1> QED
  BY <1>7, <1>8

-----------------------------------------------------------------------------
\* The as-of join, with the HTF bars before the matched one, is exactly the
\* set of HTF bars closed by the decision time.
THEOREM AsofJoin ==
  ASSUME NEW htf, NEW t \in Int, \A bar \in htf : bar.close \in Int
  PROVE  /\ AlignedHtf(htf, t) = {bar \in htf : bar.close <= t}
         /\ NoFutureMatch(htf, t)
<1> DEFINE closed == {bar \in htf : bar.close <= t}
           ages == {t - bar.close : bar \in closed}
<1>1. ASSUME NEW bar \in closed
      PROVE  bar \in AlignedHtf(htf, t)
  <2>1. ages \subseteq Nat /\ ages # {}
    OBVIOUS
  <2>2. PICK youngest \in ages : \A age \in ages : youngest <= age
    BY <2>1, LeastNumber
  <2>3. PICK match \in closed : youngest = t - match.close
    OBVIOUS
  <2>4. ASSUME NEW other \in closed
        PROVE  other.close <= match.close
    <3>1. t - match.close <= t - other.close
      BY <2>2, <2>3
    <3>2. match.close \in Int /\ other.close \in Int
      OBVIOUS
    <3> QED
      BY <3>1, <3>2
  <2>5. match \in AsofMatch(htf, t)
    BY <2>4 DEF AsofMatch
  <2> QED
    BY <2>4, <2>5 DEF AlignedHtf
<1>2. ASSUME NEW bar \in AlignedHtf(htf, t)
      PROVE  bar \in closed
  BY DEF AlignedHtf, AsofMatch
<1> QED
  BY <1>1, <1>2 DEF NoFutureMatch

\* The ends of a resampled bar are instants.
LEMMA ResampledEnds ==
  ASSUME ResampleAssumption, NEW tf, WellFormedGrid(tf),
         NEW s \in Seq(Time), IsBarFrame(s), NEW n \in 1 .. Len(s)
  PROVE  \A bar \in ResampleBars(tf, Prefix(s, n)) : bar.close \in Int
<1>1. Time \subseteq Int
  BY DEF ResampleAssumption
<1>2. BarsOf(Prefix(s, n)) \subseteq Time
  <2>1. n \in 1 .. n
    OBVIOUS
  <2> QED
    BY <1>1, <2>1, KnownBars
<1>3. SUFFICES ASSUME NEW bar \in ResampleBars(tf, Prefix(s, n))
               PROVE  bar.close \in Int
  OBVIOUS
<1>4. PICK o \in BarsOf(Prefix(s, n)) : bar = HtfBar(tf, Prefix(s, n), GroupKey(tf, o))
  BY DEF ResampleBars, Aggregated
<1>5. GroupKey(tf, o).close \in Int
  BY <1>2 DEF WellFormedGrid
<1> QED
  BY <1>4, <1>5 DEF HtfBar

\* What a row takes from an HTF frame resampled from the first m bars is what
\* was closed at its own time.
THEOREM AlignedIsClosed ==
  ASSUME ResampleAssumption, NEW tf, WellFormedGrid(tf),
         NEW s \in Seq(Time), IsBarFrame(s),
         NEW m \in 1 .. Len(s), NEW i \in 1 .. m
  PROVE  /\ AlignedHtf(ResampleBars(tf, Prefix(s, m)), CloseOf(s[i]))
              = ClosedBars(tf, Prefix(s, i))
         /\ NoFutureMatch(ResampleBars(tf, Prefix(s, m)), CloseOf(s[i]))
<1>1. CloseOf(s[i]) \in Int
  <2>1. Time \subseteq Int
    BY DEF ResampleAssumption
  <2>2. m \in 1 .. Len(s) /\ i \in 1 .. m
    OBVIOUS
  <2> QED
    BY <2>1, <2>2, KnownBars
<1>2. \A bar \in ResampleBars(tf, Prefix(s, m)) : bar.close \in Int
  BY ResampledEnds
<1> DEFINE htf == ResampleBars(tf, Prefix(s, m))
           t == CloseOf(s[i])
<1>3. {bar \in htf : bar.close <= t} = ClosedBars(tf, Prefix(s, i))
  BY ResampledPrefix
<1>4. t \in Int /\ \A bar \in htf : bar.close \in Int
  BY <1>1, <1>2
<1> HIDE DEF htf, t
<1>5. AlignedHtf(htf, t) = {bar \in htf : bar.close <= t} /\ NoFutureMatch(htf, t)
  BY <1>4, AsofJoin
<1>6. AlignedHtf(htf, t) = ClosedBars(tf, Prefix(s, i)) /\ NoFutureMatch(htf, t)
  BY <1>3, <1>5
<1> QED
  BY <1>6 DEF htf, t

\* The running features of row i of a frame are those of the interval its bar
\* belongs to.
LEMMA RunningIsInProgress ==
  ASSUME ResampleAssumption, NEW tf \in Intraday,
         NEW s \in Seq(Time), NEW i \in 1 .. Len(s)
  PROVE  RunningBars(tf, s, i) = BarsInProgress(tf, Prefix(s, i))
<1> DEFINE start(o) == FloorTo(o, Width[tf], 0)
<1>1. Time \subseteq Int /\ Width[tf] \in Nat \ {0}
  BY DEF ResampleAssumption
<1>2. /\ BarsOf(Prefix(s, i)) = {s[k] : k \in 1 .. i}
      /\ Len(Prefix(s, i)) = i /\ Prefix(s, i)[i] = s[i]
  <2>1. i \in 1 .. i
    OBVIOUS
  <2> QED
    BY <2>1, PrefixElements
<1>3. \A k \in 1 .. i : s[k] \in Int /\ s[i] \in Int
  <2>1. \A k \in 1 .. Len(s) : s[k] \in Time
    BY ElementOfSeq
  <2>2. \A k \in 1 .. i : k \in 1 .. Len(s)
    BY LenProperties
  <2> QED
    BY <1>1, <2>1, <2>2
<1>4. ASSUME NEW k \in 1 .. i
      PROVE  start(s[k]) = start(s[i]) <=> start(s[i]) <= s[k] /\ s[k] < start(s[i]) + Width[tf]
  <2>1. /\ start(s[k]) <= s[k] /\ s[k] < start(s[k]) + Width[tf]
        /\ s[k] \in Int /\ s[i] \in Int
    <3>1. s[k] \in Int /\ s[i] \in Int /\ 0 \in Int
      BY <1>3
    <3> QED
      BY <1>1, <3>1, FloorBounds
  <2>2. start(s[i]) <= s[k] /\ s[k] < start(s[i]) + Width[tf] => start(s[k]) = start(s[i])
    BY <1>1, <1>3, FloorUnique
  <2> QED
    BY <2>1, <2>2
<1>5. RunningBars(tf, s, i) = {s[j] : j \in {k \in 1 .. i : start(s[k]) = start(s[i])}}
  BY DEF RunningBars
<1>6. BarsInProgress(tf, Prefix(s, i))
        = {o \in {s[k] : k \in 1 .. i} : start(s[i]) <= o /\ o < start(s[i]) + Width[tf]}
  BY <1>2 DEF BarsInProgress
<1> HIDE DEF start
<1> QED
  BY <1>4, <1>5, <1>6

-----------------------------------------------------------------------------
\* Replay equivalence of one row: but for the columns computed from the whole
\* index, row i of a frame of n bars, with a context resampled from m bars, is
\* what the first i bars determine, and the leak assertion does not fire.
THEOREM RowIsReading ==
  ASSUME EngineAssumption, NEW s \in Seq(Time), IsBarFrame(s),
         NEW n \in 1 .. Len(s), NEW m \in 1 .. Len(s), NEW i \in 1 .. n, i <= m
  PROVE  /\ CausalPart(Row(Prefix(s, n), ResampleMany(Prefix(s, m)), i))
              = Reading(Prefix(s, i))
         /\ NoLeakage(Prefix(s, n), ResampleMany(Prefix(s, m)), i)
<1> DEFINE frame == Prefix(s, n)
           known == Prefix(s, i)
           ctx == ResampleMany(Prefix(s, m))
<1>1. /\ ResampleAssumption /\ \A tf \in Timeframes : WellFormedGrid(tf)
      /\ i \in 1 .. Len(s) /\ i \in 1 .. m
  BY DEF EngineAssumption
<1>2. frame \in Seq(Time) /\ Len(frame) = n /\ frame[i] = s[i]
  BY PrefixElements
<1>3. Prefix(frame, i) = known
  BY PrefixOfPrefix
<1>4. DOMAIN ctx = Timeframes /\ \A tf \in Timeframes : ctx[tf] = ResampleBars(tf, Prefix(s, m))
  BY DEF ResampleMany
<1>5. ASSUME NEW tf \in Timeframes
      PROVE  /\ AlignedHtf(ctx[tf], CloseOf(s[i])) = ClosedBars(tf, known)
             /\ NoFutureMatch(ctx[tf], CloseOf(s[i]))
  <2>1. WellFormedGrid(tf)
    BY <1>1
  <2>2. /\ AlignedHtf(ResampleBars(tf, Prefix(s, m)), CloseOf(s[i])) = ClosedBars(tf, known)
        /\ NoFutureMatch(ResampleBars(tf, Prefix(s, m)), CloseOf(s[i]))
    BY <1>1, <2>1, AlignedIsClosed
  <2> QED
    BY <1>4, <2>2
<1>6. ASSUME NEW tf \in Intraday
      PROVE  RunningBars(tf, frame, i) = BarsInProgress(tf, known)
  <2>1. i \in 1 .. Len(frame)
    BY <1>2
  <2>2. RunningBars(tf, frame, i) = BarsInProgress(tf, Prefix(frame, i))
    BY <1>1, <1>2, <2>1, RunningIsInProgress
  <2> QED
    BY <1>3, <2>2
<1> HIDE DEF frame, known, ctx
<1>7. CausalPart(Row(frame, ctx, i)) = Reading(known)
  <2>1. [tf \in DOMAIN ctx |-> AlignedHtf(ctx[tf], CloseOf(frame[i]))]
           = [tf \in Timeframes |-> ClosedBars(tf, known)]
    BY <1>2, <1>4, <1>5
  <2>2. [tf \in Intraday |-> RunningBars(tf, frame, i)]
           = [tf \in Intraday |-> BarsInProgress(tf, known)]
    BY <1>6
  <2> QED
    BY <1>3, <2>1, <2>2 DEF Row, CausalPart, Reading
<1>8. NoLeakage(frame, ctx, i)
  BY <1>2, <1>4, <1>5 DEF NoLeakage
<1> QED
  BY <1>7, <1>8 DEF frame, known, ctx

-----------------------------------------------------------------------------
\* The whole frame is a prefix of itself.
LEMMA PrefixOfAll ==
  ASSUME NEW S, NEW s \in Seq(S)
  PROVE  Prefix(s, Len(s)) = s
<1>1. CASE Len(s) = 0
  BY <1>1, SMT DEF Prefix
<1>2. CASE Len(s) # 0
  <2>1. Len(s) \in 1 .. Len(s)
    BY <1>2, LenProperties
  <2> QED
    BY <2>1, PrefixElements, SeqEqual
<1> QED
  BY <1>1, <1>2

\* A frame that the market has closed one more bar of.
LEMMA AppendedFrame ==
  ASSUME Time \subseteq Int, NEW s \in Seq(Time), IsBarFrame(s), NEW o \in Time,
         s # <<>> => EndOf(s) <= o
  PROVE  /\ Append(s, o) \in Seq(Time)
         /\ Len(Append(s, o)) = Len(s) + 1
         /\ IsBarFrame(Append(s, o))
         /\ \A i \in 1 .. Len(s) : Prefix(Append(s, o), i) = Prefix(s, i)
<1> DEFINE h == Append(s, o)
<1>1. /\ h \in Seq(Time) /\ Len(h) = Len(s) + 1 /\ h[Len(s) + 1] = o
      /\ \A i \in 1 .. Len(s) : h[i] = s[i]
      /\ Len(s) \in Nat /\ DOMAIN s = 1 .. Len(s) /\ DOMAIN h = 1 .. Len(s) + 1
  BY AppendProperties, LenProperties
<1>2. \A i \in 1 .. Len(s) : s[i] \in Int
  BY ElementOfSeq
<1> HIDE DEF h
<1>3. ASSUME NEW i \in DOMAIN h, NEW j \in DOMAIN h, i < j
      PROVE  h[i] < h[j]
  <2>1. CASE j \in 1 .. Len(s)
    <3>1. i \in DOMAIN s /\ j \in DOMAIN s
      BY <1>1, <1>3, <2>1
    <3>2. s[i] < s[j]
      BY <1>3, <3>1 DEF IsBarFrame
    <3> QED
      BY <1>1, <3>1, <3>2
  <2>2. CASE j = Len(s) + 1
    <3>1. i \in 1 .. Len(s) /\ Len(s) \in 1 .. Len(s)
      BY <1>1, <1>3, <2>2
    <3>2. s[i] <= s[Len(s)]
      <4>1. i = Len(s) \/ i < Len(s)
        BY <1>1, <3>1
      <4>2. i < Len(s) => s[i] < s[Len(s)]
        BY <1>1, <3>1 DEF IsBarFrame
      <4> QED
        BY <1>2, <3>1, <4>1, <4>2
    <3>3. s[Len(s)] + 1 <= o
      <4>1. s # <<>>
        BY <3>1, EmptySeq
      <4> QED
        BY <4>1 DEF EndOf, CloseOf
    <3> QED
      BY <1>1, <1>2, <2>2, <3>1, <3>2, <3>3
  <2> QED
    BY <1>1, <2>1, <2>2
<1>4. ASSUME NEW i \in 1 .. Len(s)
      PROVE  Prefix(h, i) = Prefix(s, i)
  <2>1. i \in 1 .. Len(h) /\ \A k \in 1 .. i : k \in 1 .. Len(s)
    BY <1>1
  <2>2. /\ Prefix(h, i) \in Seq(Time) /\ Len(Prefix(h, i)) = i
        /\ \A k \in 1 .. i : Prefix(h, i)[k] = h[k]
    BY <1>1, <2>1, PrefixElements
  <2>3. /\ Prefix(s, i) \in Seq(Time) /\ Len(Prefix(s, i)) = i
        /\ \A k \in 1 .. i : Prefix(s, i)[k] = s[k]
    BY PrefixElements
  <2>4. \A k \in 1 .. i : Prefix(h, i)[k] = Prefix(s, i)[k]
    BY <1>1, <2>1, <2>2, <2>3
  <2> QED
    BY <2>2, <2>3, <2>4, SeqEqual
<1> QED
  BY <1>1, <1>3, <1>4 DEF h, IsBarFrame

\* With the incomplete last bar dropped, every bar returned has closed: a bar
\* that is not the last one is followed by a base bar outside its interval.
LEMMA ReturnedIsClosed ==
  ASSUME ResampleAssumption, DropIncompleteLastBar, NEW tf, WellFormedGrid(tf),
         NEW s \in Seq(Time), IsBarFrame(s), NEW n \in 1 .. Len(s)
  PROVE  \A bar \in ResampleBars(tf, Prefix(s, n)) : bar.close <= CloseOf(s[n])
<1> DEFINE B == BarsOf(Prefix(s, n))
           key(o) == GroupKey(tf, o)
<1>1. Time \subseteq Int /\ n \in 1 .. n
  BY DEF ResampleAssumption
<1>2. /\ B = {o \in B : CloseOf(o) <= CloseOf(s[n])}
      /\ B \subseteq Time
      /\ EndOf(Prefix(s, n)) = CloseOf(s[n]) /\ CloseOf(s[n]) \in Int
  BY <1>1, KnownBars
<1>3. \A o \in B : /\ key(o).open \in Int /\ key(o).close \in Int /\ o \in Int
                   /\ key(o).open <= o /\ CloseOf(o) <= key(o).close
  BY <1>1, <1>2 DEF WellFormedGrid
<1>4. SUFFICES ASSUME NEW bar \in ResampleBars(tf, Prefix(s, n))
               PROVE  bar.close <= CloseOf(s[n])
  OBVIOUS
<1>5. PICK o \in B : bar = HtfBar(tf, Prefix(s, n), key(o))
  BY DEF ResampleBars, Aggregated
<1>6. bar.close = key(o).close /\ bar.open = key(o).open
  BY <1>5 DEF HtfBar
<1>7. bar.close <= CloseOf(s[n]) \/ ~IsLastOf(bar, Aggregated(tf, Prefix(s, n)))
  BY <1>2, <1>3, <1>6 DEF ResampleBars
<1>8. CASE ~IsLastOf(bar, Aggregated(tf, Prefix(s, n)))
  <2>1. PICK other \in Aggregated(tf, Prefix(s, n)) : ~(other.open <= bar.open)
    BY <1>8 DEF IsLastOf
  <2>2. PICK p \in B : other = HtfBar(tf, Prefix(s, n), key(p))
    BY <2>1 DEF Aggregated
  <2>3. ~(key(p).open <= key(o).open)
    BY <1>6, <2>1, <2>2 DEF HtfBar
  <2>4. p < key(o).close => key(p) = key(o)
    BY <1>2, <1>3, <2>3 DEF WellFormedGrid
  <2>5. key(o).close <= p
    BY <1>3, <2>3, <2>4
  <2>6. CloseOf(p) <= CloseOf(s[n])
    BY <1>2
  <2> QED
    BY <1>2, <1>3, <1>6, <2>5, <2>6 DEF CloseOf
<1> QED
  BY <1>7, <1>8

\* A bar the resampler has returned stays as it is when the market closes one
\* more base bar.
THEOREM ReturnedIsFinal ==
  ASSUME ResampleAssumption, DropIncompleteLastBar, NEW tf, WellFormedGrid(tf),
         NEW s \in Seq(Time), IsBarFrame(s), s # <<>>,
         NEW o \in Time, EndOf(s) <= o
  PROVE  ResampleBars(tf, s) \subseteq ResampleBars(tf, Append(s, o))
<1> DEFINE h == Append(s, o)
           n == Len(s)
<1>1. /\ h \in Seq(Time) /\ Len(h) = n + 1 /\ IsBarFrame(h)
      /\ \A i \in 1 .. n : Prefix(h, i) = Prefix(s, i)
  BY AppendedFrame DEF ResampleAssumption
<1>2. n \in 1 .. n /\ n \in 1 .. Len(s) /\ n + 1 \in 1 .. Len(h) /\ n \in 1 .. n + 1 /\ n \in Nat
  BY <1>1, EmptySeq, LenProperties
<1>3. Prefix(s, n) = s /\ Prefix(h, n + 1) = h
  BY <1>1, PrefixOfAll
<1>4. h[n] = s[n]
  BY <1>2, AppendProperties
<1>5. {bar \in ResampleBars(tf, Prefix(s, n)) : bar.close <= CloseOf(s[n])}
         = ClosedBars(tf, Prefix(s, n))
  BY <1>2, ResampledPrefix
<1>6. \A bar \in ResampleBars(tf, Prefix(s, n)) : bar.close <= CloseOf(s[n])
  BY <1>2, ReturnedIsClosed
<1> HIDE DEF h, n
<1>7. {bar \in ResampleBars(tf, Prefix(h, n + 1)) : bar.close <= CloseOf(h[n])}
         = ClosedBars(tf, Prefix(h, n))
  BY <1>1, <1>2, ResampledPrefix
<1>8. Prefix(h, n) = Prefix(s, n)
  BY <1>1, <1>2
<1>9. ResampleBars(tf, s) \subseteq ResampleBars(tf, h)
  BY <1>3, <1>4, <1>5, <1>6, <1>7, <1>8
<1> QED
  BY <1>9 DEF h
=============================================================================
