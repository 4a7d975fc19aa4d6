-------------------------- MODULE Streaming_proofs --------------------------
(***************************************************************************)
(* Streaming parity for every history and every value of the constants:    *)
(* however the driver is primed, restarted and fed, the buffer it keeps is *)
(* long enough, so that its rows are those of the batch driver.  Bars that *)
(* are handed over twice do not change that, if they are no more than the  *)
(* bars the buffer has to spare.                                           *)
(***************************************************************************)
EXTENDS Streaming, FeatureEngine_proofs

-----------------------------------------------------------------------------
\* How many bars the last n bars of a frame are.
Kept(s, n) == IF Len(s) > n THEN n ELSE Len(s)

\* The length and the members of the last n bars of a frame.
LEMMA LatestElements ==
  ASSUME NEW S, NEW s \in Seq(S), NEW n \in Nat \ {0}
  PROVE  /\ Latest(s, n) \in Seq(S)
         /\ Len(Latest(s, n)) = Kept(s, n)
         /\ Kept(s, n) \in Nat /\ Kept(s, n) <= n /\ Kept(s, n) <= Len(s)
         /\ \A k \in 1 .. Kept(s, n) : Latest(s, n)[k] = s[Len(s) - Kept(s, n) + k]
<1> DEFINE kept == Kept(s, n)
           first == Len(s) - kept + 1
<1>1. Len(s) \in Nat
  BY LenProperties
<1>2. kept \in Nat /\ kept <= n /\ kept <= Len(s) /\ Latest(s, n) = SubSeq(s, first, Len(s))
  <2>1. kept \in Nat /\ kept <= n /\ kept <= Len(s)
    BY <1>1 DEF Kept
  <2>2. (IF Len(s) > n THEN Len(s) - n + 1 ELSE 1) = first
    BY <1>1 DEF Kept
  <2> HIDE DEF first
  <2>3. Latest(s, n) = SubSeq(s, first, Len(s))
    BY <2>2 DEF Latest
  <2> QED
    BY <2>1, <2>3
<1> HIDE DEF kept
<1>3. first \in Int /\ 1 <= first /\ first <= Len(s) + 1 /\ Len(s) \in Int
  BY <1>1, <1>2
<1>4. \A i \in first .. Len(s) : s[i] \in S
  <2>1. \A i \in first .. Len(s) : i \in 1 .. Len(s)
    BY <1>3
  <2> QED
    BY <2>1, ElementOfSeq
<1>5. /\ SubSeq(s, first, Len(s)) \in Seq(S)
      /\ Len(SubSeq(s, first, Len(s))) = IF first <= Len(s) THEN Len(s) - first + 1 ELSE 0
      /\ \A k \in 1 .. Len(s) - first + 1 : SubSeq(s, first, Len(s))[k] = s[first + k - 1]
  BY <1>3, <1>4, SubSeqProperties
<1>6. /\ Len(SubSeq(s, first, Len(s))) = kept
      /\ \A k \in 1 .. kept : k \in 1 .. Len(s) - first + 1
      /\ \A k \in 1 .. kept : first + k - 1 = Len(s) - kept + k
  BY <1>1, <1>2, <1>5
<1>7. \A k \in 1 .. kept : Latest(s, n)[k] = s[Len(s) - kept + k]
  BY <1>2, <1>5, <1>6
<1> QED
  BY <1>2, <1>5, <1>6, <1>7 DEF kept

\* Two frames that end alike have the same tail.
LEMMA CommonTail ==
  ASSUME NEW S, NEW s \in Seq(S), NEW t \in Seq(S), NEW n \in Nat \ {0},
         NEW r \in Nat, r <= Len(s), r <= Len(t),
         \A k \in 1 .. r : s[Len(s) - r + k] = t[Len(t) - r + k],
         n <= r \/ (r = Len(s) /\ r = Len(t))
  PROVE  Latest(s, n) = Latest(t, n)
<1> DEFINE kept == Kept(s, n)
<1>1. Len(s) \in Nat /\ Len(t) \in Nat
  BY LenProperties
<1>2. Kept(t, n) = kept /\ kept \in Nat /\ kept <= r /\ kept <= Len(s) /\ kept <= Len(t)
  BY <1>1 DEF Kept
<1> HIDE DEF kept
<1>3. /\ Latest(s, n) \in Seq(S) /\ Len(Latest(s, n)) = kept
      /\ \A k \in 1 .. kept : Latest(s, n)[k] = s[Len(s) - kept + k]
  BY LatestElements DEF kept
<1>4. /\ Latest(t, n) \in Seq(S) /\ Len(Latest(t, n)) = kept
      /\ \A k \in 1 .. kept : Latest(t, n)[k] = t[Len(t) - kept + k]
  BY <1>2, LatestElements
<1>5. ASSUME NEW k \in 1 .. kept
      PROVE  Latest(s, n)[k] = Latest(t, n)[k]
  <2> DEFINE l == r - kept + k
  <2>1. l \in 1 .. r /\ Len(s) - r + l = Len(s) - kept + k /\ Len(t) - r + l = Len(t) - kept + k
    BY <1>1, <1>2
  <2> HIDE DEF l
  <2>2. s[Len(s) - r + l] = t[Len(t) - r + l]
    BY <2>1
  <2> QED
    BY <1>3, <1>4, <2>1, <2>2
<1> QED
  BY <1>3, <1>4, <1>5, SeqEqual

\* A buffer of size b that takes in a bar drops its first one if it is full.
Cut(s, b) == IF Len(s) = b THEN 1 ELSE 0

LEMMA LatestOfAppend ==
  ASSUME NEW S, NEW s \in Seq(S), NEW o \in S, NEW b \in Nat \ {0}, Len(s) <= b
  PROVE  LET t == Latest(Append(s, o), b)
         IN  /\ t \in Seq(S) /\ Len(t) = Len(s) + 1 - Cut(s, b) /\ Len(t) <= b
             /\ t[Len(t)] = o
             /\ \A k \in 1 .. Len(t) - 1 : t[k] = s[k + Cut(s, b)]
<1> DEFINE a == Append(s, o)
           t == Latest(a, b)
           cut == Cut(s, b)
           n == Len(s) + 1 - cut
<1>1. /\ Len(s) \in Nat
      /\ a \in Seq(S) /\ Len(a) = Len(s) + 1 /\ a[Len(s) + 1] = o
      /\ \A k \in 1 .. Len(s) : a[k] = s[k]
  BY AppendProperties, LenProperties
<1> HIDE DEF a
<1>2. Kept(a, b) = n /\ n \in Nat /\ cut \in {0, 1} /\ 1 <= n /\ n <= b /\ Len(s) + 1 - n = cut
  <2>1. Len(a) \in Nat /\ Len(a) = Len(s) + 1 /\ Len(s) \in Nat
    BY <1>1
  <2>2. CASE Len(s) = b
    <3>1. cut = 1 /\ Len(a) > b
      BY <2>1, <2>2 DEF Cut
    <3>2. Kept(a, b) = b
      BY <3>1 DEF Kept
    <3> QED
      BY <2>1, <2>2, <3>1, <3>2
  <2>3. CASE Len(s) # b
    <3>1. cut = 0 /\ ~(Len(a) > b)
      BY <2>1, <2>3 DEF Cut
    <3>2. Kept(a, b) = Len(a)
      BY <3>1 DEF Kept
    <3> QED
      BY <2>1, <2>3, <3>1, <3>2
  <2> QED
    BY <2>2, <2>3
<1> HIDE DEF n, cut
<1>3. /\ t \in Seq(S) /\ Len(t) = n
      /\ \A k \in 1 .. n : t[k] = a[Len(a) - n + k]
  <2>1. a \in Seq(S) /\ b \in Nat \ {0}
    BY <1>1
  <2>2. /\ t \in Seq(S) /\ Len(t) = Kept(a, b)
        /\ \A k \in 1 .. Kept(a, b) : t[k] = a[Len(a) - Kept(a, b) + k]
    BY <2>1, LatestElements
  <2>3. Kept(a, b) = n
    BY <1>2
  <2> QED
    BY <2>2, <2>3
<1>4. \A k \in 1 .. n : t[k] = a[cut + k]
  <2>1. \A k \in 1 .. n : Len(a) - n + k = cut + k
    BY <1>1, <1>2
  <2> QED
    BY <1>3, <2>1
<1>5. t[n] = o
  <2>1. n \in 1 .. n /\ cut + n = Len(s) + 1
    BY <1>1, <1>2
  <2> QED
    BY <1>1, <1>4, <2>1
<1>6. \A k \in 1 .. n - 1 : t[k] = s[k + cut]
  <2> TAKE k \in 1 .. n - 1
  <2>1. k \in 1 .. n /\ k + cut \in 1 .. Len(s) /\ cut + k = k + cut
    BY <1>1, <1>2
  <2> QED
    BY <1>1, <1>4, <2>1
<1> QED
  BY <1>1, <1>2, <1>3, <1>5, <1>6 DEF t, a, n, cut

-----------------------------------------------------------------------------
\* The buffer covers every lookback with n bars to spare.
Slack(n) ==
  /\ BaseLookback + n <= BufferSize
  /\ \A tf \in Intraday : Width[tf] + n <= BufferSize

\* RequiredWarmup is the greatest of the lookbacks, and __init__ only ever adds
\* to it: the bars of the pad are bars to spare.
LEMMA PadIsSlack ==
  /\ BufferSize \in Nat \ {0}
  /\ \A n \in 0 .. BufferPad : Slack(n)
<1> DEFINE longest == IF RequiredWarmup > MaxWarmupBars THEN RequiredWarmup ELSE MaxWarmupBars
<1>1. /\ BaseLookback \in Nat \ {0} /\ HtfLookback \in Nat \ {0} /\ MaxWarmupBars \in Nat
      /\ DayLength \in Nat \ {0} /\ \A tf \in Intraday : Width[tf] \in Nat \ {0}
      /\ BufferQuarters \in Nat /\ BufferQuarters >= 4 /\ BufferPad \in Nat
  BY StreamingAssumption
  DEF StreamingAssumption, EngineAssumption, ResampleAssumption
<1>2. \A l \in Lookbacks : l \in Nat
  BY <1>1 DEF Lookbacks, WidthOf, Intraday
<1>3. RequiredWarmup \in Lookbacks /\ \A l \in Lookbacks : l <= RequiredWarmup
  BY StreamingAssumption DEF StreamingAssumption, EngineAssumption, RequiredWarmup
<1>4. longest \in Nat /\ RequiredWarmup <= longest /\ RequiredWarmup \in Nat
  BY <1>1, <1>2, <1>3
<1>5. BufferSize = (longest * BufferQuarters) \div 4 + BufferPad
  BY DEF BufferSize
<1> HIDE DEF longest
<1>6. longest <= (longest * BufferQuarters) \div 4 /\ (longest * BufferQuarters) \div 4 \in Nat
  <2>1. longest * (BufferQuarters - 4) >= 0
    BY <1>1, <1>4
  <2>2. longest * BufferQuarters >= longest * 4 /\ longest * BufferQuarters \in Nat
    BY <1>1, <1>4, <2>1
  <2> DEFINE product == longest * BufferQuarters
  <2> HIDE DEF product
  <2>3. product >= longest * 4 /\ product \in Nat
    BY <2>2 DEF product
  <2>4. longest <= product \div 4 /\ product \div 4 \in Nat
    BY <1>4, <2>3
  <2> QED
    BY <2>4 DEF product
<1>7. BufferSize \in Nat /\ RequiredWarmup + BufferPad <= BufferSize
  BY <1>1, <1>4, <1>5, <1>6
<1>8. BaseLookback <= RequiredWarmup
  BY <1>3 DEF Lookbacks
<1>9. ASSUME NEW tf \in Intraday
      PROVE  Width[tf] <= RequiredWarmup
  <2>1. HtfLookback * Width[tf] \in Lookbacks
    BY DEF Lookbacks, WidthOf, Intraday
  <2>2. HtfLookback * Width[tf] <= RequiredWarmup
    BY <1>3, <2>1
  <2>3. (HtfLookback - 1) * Width[tf] >= 0
    BY <1>1
  <2>4. Width[tf] <= HtfLookback * Width[tf] /\ HtfLookback * Width[tf] \in Nat /\ Width[tf] \in Nat
    BY <1>1, <2>3
  <2> QED
    BY <1>4, <2>2, <2>4
<1>10. ASSUME NEW n \in 0 .. BufferPad
       PROVE  Slack(n)
  <2>1. BaseLookback + n <= BufferSize
    BY <1>1, <1>4, <1>7, <1>8
  <2>2. ASSUME NEW tf \in Intraday
        PROVE  Width[tf] + n <= BufferSize
    <3> DEFINE w == Width[tf]
    <3>1. w \in Nat /\ w <= RequiredWarmup
      BY <1>1, <1>9
    <3> HIDE DEF w
    <3>2. w + n <= BufferSize
      BY <1>1, <1>4, <1>7, <3>1
    <3> QED
      BY <3>2 DEF w
  <2> QED
    BY <2>1, <2>2 DEF Slack
<1> QED
  BY <1>1, <1>4, <1>7, <1>8, <1>10

\* Bars are at least one base bar apart, so that many bars cover much time.
Spaced(s) == \A i, j \in DOMAIN s : i < j => s[j] - s[i] >= j - i

LEMMA AppendedSpaced ==
  ASSUME Time \subseteq Int, NEW s \in Seq(Time), Spaced(s), NEW o \in Time,
         s # <<>> => EndOf(s) <= o
  PROVE  Spaced(Append(s, o))
<1> DEFINE h == Append(s, o)
<1>1. /\ Len(h) = Len(s) + 1 /\ h[Len(s) + 1] = o
      /\ \A i \in 1 .. Len(s) : h[i] = s[i]
      /\ Len(s) \in Nat /\ DOMAIN s = 1 .. Len(s) /\ DOMAIN h = 1 .. Len(s) + 1
  BY AppendProperties, LenProperties
<1>2. \A i \in 1 .. Len(s) : s[i] \in Int
  BY ElementOfSeq
<1> HIDE DEF h
<1>3. ASSUME NEW i \in DOMAIN h, NEW j \in DOMAIN h, i < j
      PROVE  h[j] - h[i] >= j - i
  <2>1. CASE j \in 1 .. Len(s)
    <3>1. i \in DOMAIN s /\ j \in DOMAIN s
      BY <1>1, <1>3, <2>1
    <3>2. s[j] - s[i] >= j - i
      BY <1>3, <3>1 DEF Spaced
    <3> QED
      BY <1>1, <3>1, <3>2
  <2>2. CASE j = Len(s) + 1
    <3>1. i \in 1 .. Len(s) /\ Len(s) \in 1 .. Len(s)
      BY <1>1, <1>3, <2>2
    <3>2. s[Len(s)] - s[i] >= Len(s) - i
      <4>1. i = Len(s) \/ i < Len(s)
        BY <1>1, <3>1
      <4>2. i < Len(s) => s[Len(s)] - s[i] >= Len(s) - i
        BY <1>1, <3>1 DEF Spaced
      <4> QED
        BY <1>2, <3>1, <4>1, <4>2
    <3>3. s[Len(s)] + 1 <= o
      <4>1. s # <<>>
        BY <3>1, EmptySeq
      <4> QED
        BY <4>1 DEF EndOf, CloseOf
    <3> QED
      BY <1>1, <1>2, <2>2, <3>1, <3>2, <3>3
  <2> QED
    BY <1>1, <2>1, <2>2
<1> QED
  BY <1>3 DEF Spaced, h

-----------------------------------------------------------------------------
\* A row computed over a buffer is the one computed over the whole history, if
\* the buffer is a frame and ends like the history for as long as the row looks
\* back, whatever it begins with.
THEOREM BufferedRow ==
  ASSUME NEW s \in Seq(Time), IsBarFrame(s), Spaced(s),
         NEW j \in 1 .. Len(s), NEW m \in j .. Len(s),
         NEW tail \in Seq(Time), IsBarFrame(tail),
         NEW r \in 1 .. Len(tail), r <= j,
         \A k \in 1 .. r : tail[Len(tail) - r + k] = s[j - r + k],
         \/ BaseLookback <= r /\ \A tf \in Intraday : Width[tf] <= r
         \/ r = Len(tail) /\ r = j
  PROVE  /\ \A i \in DOMAIN tail : NoLeakage(tail, ResampleMany(Prefix(s, m)), i)
         /\ CausalPart(Row(tail, ResampleMany(Prefix(s, m)), Len(tail)))
              = Reading(Prefix(s, j))
<1> DEFINE known == Prefix(s, j)
           n == Len(tail)
           ctx == ResampleMany(Prefix(s, m))
<1>1. /\ EngineAssumption /\ ResampleAssumption /\ Time \subseteq Int
      /\ \A tf \in Timeframes : WellFormedGrid(tf)
      /\ BaseLookback \in Nat \ {0} /\ \A tf \in Intraday : Width[tf] \in Nat \ {0}
  BY StreamingAssumption
  DEF StreamingAssumption, EngineAssumption, ResampleAssumption
<1>2. /\ known \in Seq(Time) /\ Len(known) = j /\ \A i \in 1 .. j : known[i] = s[i]
      /\ BarsOf(known) = {s[i] : i \in 1 .. j}
  BY PrefixElements
<1>3. /\ Len(s) \in Nat /\ DOMAIN s = 1 .. Len(s) /\ j \in Nat /\ m \in 1 .. Len(s)
      /\ j \in 1 .. j /\ j <= m /\ j <= Len(s) /\ 1 <= j
  BY LenProperties
<1> HIDE DEF n
<1>15. n = Len(tail) /\ DOMAIN tail = 1 .. n /\ n \in Nat
  BY LenProperties DEF n
<1>16. n \in 1 .. n /\ r \in Nat /\ 1 <= r /\ r <= n
  <2>1. r \in 1 .. n
    BY <1>15
  <2> QED
    BY <1>15, <2>1
<1>4. \A i \in 1 .. j : s[i] \in Int /\ i \in DOMAIN s
  <2>1. \A i \in 1 .. j : i \in 1 .. Len(s)
    BY <1>3
  <2>2. \A i \in 1 .. Len(s) : s[i] \in Time
    BY ElementOfSeq
  <2> QED
    BY <1>1, <1>3, <2>1, <2>2
<1>5. \A k \in 1 .. n : tail[k] \in Int
  BY <1>1, ElementOfSeq DEF n
<1> HIDE DEF known
<1>6. tail[n] = s[j]
  <2>1. r \in 1 .. r /\ n - r + r = n /\ j - r + r = j
    BY <1>3, <1>15, <1>16
  <2> QED
    BY <1>15, <2>1
<1>7. DOMAIN ctx = Timeframes /\ \A tf \in Timeframes : ctx[tf] = ResampleBars(tf, Prefix(s, m))
  BY DEF ResampleMany
<1>8. ASSUME NEW tf \in Timeframes, NEW k \in 1 .. n
      PROVE  NoFutureMatch(ctx[tf], CloseOf(tail[k]))
  <2>1. CloseOf(tail[k]) \in Int
    BY <1>5 DEF CloseOf
  <2>2. \A bar \in ctx[tf] : bar.close \in Int
    BY <1>1, <1>3, <1>7, ResampledEnds
  <2> HIDE DEF ctx
  <2> QED
    BY <2>1, <2>2, AsofJoin
<1>9. \A i \in DOMAIN tail : NoLeakage(tail, ctx, i)
  <2> HIDE DEF ctx
  <2> QED
    BY <1>7, <1>8, <1>15 DEF NoLeakage
<1>10. Prefix(tail, n) = tail
  BY PrefixOfAll DEF n
<1>11. Latest(Prefix(tail, n), BaseLookback) = Latest(known, BaseLookback)
  <2>1. \A k \in 1 .. r : tail[Len(tail) - r + k] = known[Len(known) - r + k]
    <3> TAKE k \in 1 .. r
    <3>1. j - r + k \in 1 .. j
      BY <1>3
    <3> QED
      BY <1>2, <3>1
  <2>2. BaseLookback <= r \/ (r = Len(tail) /\ r = Len(known))
    BY <1>2
  <2>3. r <= Len(tail) /\ r <= Len(known)
    BY <1>2, <1>15, <1>16
  <2>4. Latest(tail, BaseLookback) = Latest(known, BaseLookback)
    <3>1. BaseLookback \in Nat \ {0} /\ known \in Seq(Time) /\ r \in Nat
      BY <1>1, <1>2, <1>16
    <3> QED
      BY <2>1, <2>2, <2>3, <3>1, CommonTail
  <2> QED
    BY <1>10, <2>4
<1>12. ASSUME NEW tf \in Timeframes
       PROVE  AlignedHtf(ctx[tf], CloseOf(s[j])) = ClosedBars(tf, known)
  <2>1. WellFormedGrid(tf) /\ j \in 1 .. m
    BY <1>1, <1>3
  <2>2. AlignedHtf(ResampleBars(tf, Prefix(s, m)), CloseOf(s[j])) = ClosedBars(tf, known)
    BY <1>1, <1>3, <2>1, AlignedIsClosed DEF known
  <2> QED
    BY <1>7, <2>2
\* A bar before the common tail is too old to be in the interval in progress.
<1>13. ASSUME NEW tf \in Intraday
       PROVE  RunningBars(tf, tail, n) = BarsInProgress(tf, known)
  <2> DEFINE start == FloorTo(s[j], Width[tf], 0)
  <2>1. RunningBars(tf, tail, n) = BarsInProgress(tf, Prefix(tail, n))
    BY <1>1, <1>16, RunningIsInProgress DEF n
  <2>2. BarsOf(tail) = {tail[k] : k \in 1 .. n}
    BY <1>15 DEF BarsOf
  <2>3. /\ s[j] \in Int /\ start \in Int /\ start <= s[j] /\ s[j] < start + Width[tf]
        /\ Width[tf] \in Nat
    <3>1. s[j] \in Int /\ 0 \in Int
      BY <1>3, <1>4
    <3> QED
      BY <1>1, <3>1, FloorBounds
  <2> HIDE DEF start
  <2>4. ASSUME NEW i \in 1 .. j, start <= s[i]
        PROVE  \E k \in 1 .. n : s[i] = tail[k]
    <3>1. i > j - r
      <4> SUFFICES ASSUME i <= j - r PROVE FALSE
        BY <1>3, <1>16
      <4>1. Width[tf] <= r /\ i < j
        BY <1>3, <1>16
      <4>2. s[j] - s[i] >= j - i
        BY <1>3, <1>16, <1>4, <4>1 DEF Spaced
      <4> QED
        BY <1>3, <1>16, <1>4, <2>3, <2>4, <4>1, <4>2, SMTT(30)
    <3>2. i - (j - r) \in 1 .. r /\ j - r + (i - (j - r)) = i
      BY <1>3, <1>16, <3>1
    <3>3. Len(tail) - r + (i - (j - r)) \in 1 .. n
      BY <1>3, <1>15, <1>16, <3>2
    <3> QED
      BY <3>2, <3>3
  <2>5. ASSUME NEW k \in 1 .. n, start <= tail[k]
        PROVE  \E i \in 1 .. j : s[i] = tail[k]
    <3>1. k > n - r
      <4> SUFFICES ASSUME k <= n - r PROVE FALSE
        BY <1>3, <1>16
      <4>0. k \in Nat /\ 1 <= k /\ r # n /\ n - r \in Nat
        BY <1>15, <1>16
      <4>1. Width[tf] <= r /\ n - r + 1 \in 1 .. n /\ k < n - r + 1 /\ 1 \in 1 .. r
            /\ j - r + 1 \in 1 .. j
        BY <1>3, <1>15, <1>16, <4>0
      <4>2. tail[n - r + 1] = s[j - r + 1]
        BY <1>15, <4>1
      <4>3. tail[k] < s[j - r + 1]
        BY <1>3, <1>16, <4>1, <1>15, <4>2 DEF IsBarFrame
      <4>4. s[j] - s[j - r + 1] >= r - 1
        <5>1. CASE r = 1
          BY <1>3, <1>16, <1>4, <5>1
        <5>2. CASE r > 1
          <6>1. j - r + 1 < j /\ j - (j - r + 1) = r - 1
            BY <1>3, <1>16, <5>2
          <6> QED
            BY <1>3, <1>16, <1>4, <4>1, <6>1 DEF Spaced
        <5> QED
          BY <1>3, <1>16, <5>1, <5>2
      <4>5. s[j - r + 1] \in Int /\ tail[k] \in Int
        BY <1>4, <1>5, <4>1
      <4> QED
        <5>1. s[j] \in Int /\ Width[tf] \in Int /\ r \in Int
          BY <1>16, <2>3
        <5>2. tail[k] + r - 1 < s[j]
          BY <4>3, <4>4, <4>5, <5>1, SMTT(30)
        <5> QED
          <6>1. start + (r - 1) < s[j] /\ s[j] < start + Width[tf] /\ Width[tf] <= r
            <7>1. start <= tail[k]
              BY <2>5
            <7>2. start + (r - 1) <= tail[k] + (r - 1)
              BY <2>3, <4>5, <5>1, <7>1
            <7> DEFINE u == tail[k]
            <7>3. u \in Int /\ u + (r - 1) < s[j]
              BY <4>5, <5>1, <5>2
            <7>4. start + (r - 1) <= u + (r - 1)
              BY <7>2
            <7> HIDE DEF u
            <7> QED
              BY <2>3, <4>1, <5>1, <7>3, <7>4
          <6> QED
            BY <2>3, <5>1, <6>1
    <3>2. k - (n - r) \in 1 .. r /\ n - r + (k - (n - r)) = k /\ j - r + (k - (n - r)) \in 1 .. j
      BY <1>3, <1>15, <1>16, <3>1
    <3> QED
      BY <1>15, <3>2
  <2>6. {o \in BarsOf(tail) : start <= o /\ o < start + Width[tf]}
          = {o \in BarsOf(known) : start <= o /\ o < start + Width[tf]}
    BY <1>2, <2>2, <2>4, <2>5
  <2>7. BarsInProgress(tf, tail) = {o \in BarsOf(tail) : start <= o /\ o < start + Width[tf]}
    BY <1>6 DEF BarsInProgress, start, n
  <2>8. BarsInProgress(tf, known) = {o \in BarsOf(known) : start <= o /\ o < start + Width[tf]}
    BY <1>2, <1>3 DEF BarsInProgress, start
  <2> QED
    BY <1>10, <2>1, <2>6, <2>7, <2>8
<1> HIDE DEF ctx
<1>14. CausalPart(Row(tail, ctx, n)) = Reading(known)
  <2>1. [tf \in DOMAIN ctx |-> AlignedHtf(ctx[tf], CloseOf(tail[n]))]
           = [tf \in Timeframes |-> ClosedBars(tf, known)]
    BY <1>6, <1>7, <1>12
  <2>2. [tf \in Intraday |-> RunningBars(tf, tail, n)]
           = [tf \in Intraday |-> BarsInProgress(tf, known)]
    BY <1>13
  <2> QED
    BY <1>11, <2>1, <2>2 DEF Row, CausalPart, Reading
<1> QED
  BY <1>9, <1>14 DEF ctx, known, n

-----------------------------------------------------------------------------
\* What is known of a buffer b when c bars of h have been given and d of them
\* handed over again.  Its last r bars are the last that were given in turn.
\* Before them are at most d bars handed over again, and where those begin, two
\* bars are out of order (the bars q and q + 1), unless older ones have scrolled
\* out of the buffer (q = 0).
Mended(b, h, c, d, r, q) ==
  /\ \A k \in 1 .. r : b[Len(b) - r + k] = h[c - r + k]
  /\ Len(b) - r - q <= d
  /\ q = 0 => Len(b) = BufferSize \/ (r = Len(b) /\ r = c)
  /\ q # 0 => q + 1 <= Len(b) - r /\ b[q] >= b[q + 1]

IsMended(b, h, c, d) ==
  \E r \in 0 .. Len(b) : r <= c /\ \E q \in 0 .. Len(b) - r : Mended(b, h, c, d, r, q)

\* A buffer that is a frame has nothing out of order: all but d of its bars are
\* the last ones given, and it holds fewer than it could only if it holds all.
LEMMA FrameIsMended ==
  ASSUME Time \subseteq Int, NEW b \in Seq(Time), IsBarFrame(b),
         NEW h, NEW c, NEW d, IsMended(b, h, c, d)
  PROVE  \E r \in 0 .. Len(b) :
           /\ r <= c
           /\ \A k \in 1 .. r : b[Len(b) - r + k] = h[c - r + k]
           /\ Len(b) - r <= d
           /\ Len(b) = BufferSize \/ (r = Len(b) /\ r = c)
<1>1. Len(b) \in Nat /\ DOMAIN b = 1 .. Len(b)
  BY LenProperties
<1>2. \A k \in 1 .. Len(b) : b[k] \in Int
  BY ElementOfSeq
<1>3. PICK r \in 0 .. Len(b) : r <= c /\ \E q \in 0 .. Len(b) - r : Mended(b, h, c, d, r, q)
  BY DEF IsMended
<1>4. PICK q \in 0 .. Len(b) - r : Mended(b, h, c, d, r, q)
  BY <1>3
<1>5. q = 0
  <2> SUFFICES ASSUME q # 0 PROVE FALSE
    OBVIOUS
  <2>1. q + 1 <= Len(b) - r /\ b[q] >= b[q + 1]
    BY <1>4 DEF Mended
  <2>2. q \in 1 .. Len(b) /\ q + 1 \in 1 .. Len(b) /\ q < q + 1
    BY <1>1, <1>3, <1>4, <2>1
  <2>3. b[q] < b[q + 1]
    BY <1>1, <2>2 DEF IsBarFrame
  <2>4. b[q] \in Int /\ b[q + 1] \in Int
    BY <1>2, <2>2
  <2> DEFINE u == b[q]
             v == b[q + 1]
  <2>5. u >= v /\ u < v /\ u \in Int /\ v \in Int
    BY <2>1, <2>3, <2>4
  <2> HIDE DEF u, v
  <2> QED
    BY <2>5
<1>6. Len(b) - r - 0 = Len(b) - r
  BY <1>1, <1>3
<1> QED
  BY <1>3, <1>4, <1>5, <1>6 DEF Mended

\* prime() leaves a buffer whose bars are all as given.
LEMMA PrimedIsMended ==
  ASSUME NEW h \in Seq(Time), NEW n \in 1 .. Len(h), NEW d \in Nat
  PROVE  LET b == Latest(Prefix(h, n), BufferSize)
         IN  b \in Seq(Time) /\ Len(b) <= BufferSize /\ IsMended(b, h, n, d)
<1> DEFINE b == Latest(Prefix(h, n), BufferSize)
           r == Kept(Prefix(h, n), BufferSize)
<1>1. BufferSize \in Nat \ {0} /\ Len(h) \in Nat /\ n \in Nat
  BY PadIsSlack, LenProperties
<1>2. /\ Prefix(h, n) \in Seq(Time) /\ Len(Prefix(h, n)) = n
      /\ \A i \in 1 .. n : Prefix(h, n)[i] = h[i]
  BY PrefixElements
<1>3. /\ b \in Seq(Time) /\ Len(b) = r /\ r \in Nat /\ r <= BufferSize /\ r <= n
      /\ \A k \in 1 .. r : b[k] = Prefix(h, n)[n - r + k]
  <2> DEFINE g == Prefix(h, n)
  <2> HIDE DEF g
  <2>1. /\ Latest(g, BufferSize) \in Seq(Time)
        /\ Len(Latest(g, BufferSize)) = Kept(g, BufferSize)
        /\ Kept(g, BufferSize) \in Nat
        /\ Kept(g, BufferSize) <= BufferSize /\ Kept(g, BufferSize) <= Len(g)
        /\ \A k \in 1 .. Kept(g, BufferSize) :
             Latest(g, BufferSize)[k] = g[Len(g) - Kept(g, BufferSize) + k]
    <3>1. g \in Seq(Time)
      BY <1>2 DEF g
    <3> QED
      BY <1>1, <3>1, LatestElements
  <2> QED
    BY <1>2, <2>1 DEF g
<1>4. r = BufferSize \/ r = n
  BY <1>1, <1>2 DEF Kept
<1> HIDE DEF b, r
<1>5. \A k \in 1 .. r : b[Len(b) - r + k] = h[n - r + k]
  <2> TAKE k \in 1 .. r
  <2>1. Len(b) - r + k = k /\ n - r + k \in 1 .. n
    BY <1>1, <1>3
  <2> QED
    BY <1>2, <1>3, <2>1
<1>6. Len(b) - r - 0 <= d /\ r \in 0 .. Len(b) /\ 0 \in 0 .. Len(b) - r
  BY <1>3
<1>7. Mended(b, h, n, d, r, 0)
  BY <1>3, <1>4, <1>5, <1>6 DEF Mended
<1>8. IsMended(b, h, n, d)
  BY <1>3, <1>6, <1>7 DEF IsMended
<1> QED
  BY <1>1, <1>3, <1>8 DEF b

\* The buffer update() keeps.
LEMMA UpdatedBuffer ==
  ASSUME NEW b \in Seq(Time), Len(b) <= BufferSize, NEW o \in Time
  PROVE  LET u == Latest(Append(b, o), BufferSize)
         IN  /\ u \in Seq(Time) /\ Len(u) = Len(b) + 1 - Cut(b, BufferSize)
             /\ Len(u) <= BufferSize /\ u[Len(u)] = o
             /\ \A k \in 1 .. Len(u) - 1 : u[k] = b[k + Cut(b, BufferSize)]
<1>1. BufferSize \in Nat \ {0}
  BY PadIsSlack
<1> QED
  BY <1>1, LatestOfAppend

\* A bar given in turn is one more of the last ones; the buffer, if it is full,
\* drops its oldest bar, which takes a bar handed over again with it or brings
\* the place where two bars are out of order closer to the beginning.
LEMMA MendedInTurn ==
  ASSUME NEW h \in Seq(Time), NEW c \in Nat, c + 1 \in 1 .. Len(h),
         NEW d \in Nat, NEW b \in Seq(Time), Len(b) <= BufferSize, IsMended(b, h, c, d)
  PROVE  IsMended(Latest(Append(b, h[c + 1]), BufferSize), h, c + 1, d)
<1> DEFINE t == Latest(Append(b, h[c + 1]), BufferSize)
           cut == Cut(b, BufferSize)
           L == Len(b)
           M == Len(t)
<1>1. BufferSize \in Nat \ {0} /\ L \in Nat /\ L <= BufferSize
  BY PadIsSlack, LenProperties
<1>2. /\ t \in Seq(Time) /\ M = L + 1 - cut /\ M <= BufferSize
      /\ t[M] = h[c + 1]
      /\ \A k \in 1 .. M - 1 : t[k] = b[k + cut]
  <2> DEFINE o == h[c + 1]
  <2>1. o \in Time
    BY ElementOfSeq
  <2> HIDE DEF o
  <2>2. LET u == Latest(Append(b, o), BufferSize)
        IN  /\ u \in Seq(Time) /\ Len(u) = Len(b) + 1 - Cut(b, BufferSize)
            /\ Len(u) <= BufferSize /\ u[Len(u)] = o
            /\ \A k \in 1 .. Len(u) - 1 : u[k] = b[k + Cut(b, BufferSize)]
    BY <2>1, UpdatedBuffer
  <2> QED
    BY <2>2 DEF o
<1>3. cut \in {0, 1} /\ (cut = 1 <=> L = BufferSize)
  BY DEF Cut
<1> HIDE DEF t, cut, L, M
<1>4. M \in Nat /\ M >= 1 /\ (cut = 1 => M = L /\ M = BufferSize)
  BY <1>1, <1>2, <1>3
<1>5. PICK r \in 0 .. L : r <= c /\ \E q \in 0 .. L - r : Mended(b, h, c, d, r, q)
  BY DEF IsMended, L
<1>6. PICK q \in 0 .. L - r : Mended(b, h, c, d, r, q)
  BY <1>5
<1>7. /\ \A k \in 1 .. r : b[L - r + k] = h[c - r + k]
      /\ L - r - q <= d
      /\ q = 0 => L = BufferSize \/ (r = L /\ r = c)
      /\ q # 0 => q + 1 <= L - r /\ b[q] >= b[q + 1]
  BY <1>6 DEF Mended, L
<1>8. CASE r + 1 <= M
  <2> DEFINE q2 == IF q = 0 THEN 0 ELSE q - cut
  <2>1. r + 1 \in 0 .. M /\ r + 1 <= c + 1
    BY <1>4, <1>5, <1>8
  <2>2. \A k \in 1 .. r + 1 : t[M - (r + 1) + k] = h[(c + 1) - (r + 1) + k]
    <3> TAKE k \in 1 .. r + 1
    <3>1. CASE k = r + 1
      <4>1. M - (r + 1) + k = M /\ (c + 1) - (r + 1) + k = c + 1
        BY <1>4, <1>5, <3>1
      <4> QED
        BY <1>2, <4>1
    <3>2. CASE k # r + 1
      <4>1. k \in 1 .. r /\ M - (r + 1) + k \in 1 .. M - 1
        BY <1>4, <1>5, <1>8, <3>2
      <4>2. M - (r + 1) + k + cut = L - r + k /\ (c + 1) - (r + 1) + k = c - r + k
        BY <1>1, <1>2, <1>3, <1>5
      <4> QED
        BY <1>2, <1>7, <4>1, <4>2
    <3> QED
      BY <3>1, <3>2
  <2>3. q2 \in 0 .. M - (r + 1)
    BY <1>1, <1>2, <1>3, <1>4, <1>5, <1>6, <1>7, <1>8
  <2>4. M - (r + 1) - q2 <= d
    BY <1>1, <1>2, <1>3, <1>4, <1>5, <1>6, <1>7, <1>8
  <2>5. q2 = 0 => M = BufferSize \/ (r + 1 = M /\ r + 1 = c + 1)
    BY <1>1, <1>2, <1>3, <1>4, <1>5, <1>6, <1>7
  <2>6. q2 # 0 => q2 + 1 <= M - (r + 1) /\ t[q2] >= t[q2 + 1]
    <3> SUFFICES ASSUME q2 # 0 PROVE q2 + 1 <= M - (r + 1) /\ t[q2] >= t[q2 + 1]
      OBVIOUS
    <3>1. q # 0 /\ q2 = q - cut /\ q + 1 <= L - r /\ b[q] >= b[q + 1]
      BY <1>7
    <3> HIDE DEF q2
    <3>2. /\ q2 + 1 <= M - (r + 1) /\ q2 \in 1 .. M - 1 /\ q2 + 1 \in 1 .. M - 1
          /\ q2 + cut = q /\ q2 + 1 + cut = q + 1
      BY <1>1, <1>2, <1>3, <1>4, <1>5, <1>6, <2>3, <3>1
    <3>3. t[q2] = b[q] /\ t[q2 + 1] = b[q + 1]
      BY <1>2, <3>2
    <3> QED
      BY <3>1, <3>2, <3>3
  <2> HIDE DEF q2
  <2>7. Mended(t, h, c + 1, d, r + 1, q2)
    BY <2>2, <2>4, <2>5, <2>6 DEF Mended, M
  <2> QED
    BY <2>1, <2>3, <2>7 DEF IsMended, t, M
\* All its bars are the last ones given, and the oldest makes room.
<1>9. CASE r + 1 > M
  <2>1. r = L /\ M = L /\ cut = 1 /\ M = BufferSize
    BY <1>1, <1>2, <1>3, <1>4, <1>5, <1>9
  <2>2. \A k \in 1 .. M : t[M - M + k] = h[(c + 1) - M + k]
    <3> TAKE k \in 1 .. M
    <3>1. M - M + k = k
      BY <1>4
    <3>2. CASE k = M
      <4>1. (c + 1) - M + k = c + 1
        BY <1>4, <3>2
      <4> QED
        BY <1>2, <3>1, <3>2, <4>1
    <3>3. CASE k # M
      <4>1. /\ k \in 1 .. M - 1 /\ k + cut \in 1 .. r /\ L - r + (k + cut) = k + cut
            /\ c - r + (k + cut) = (c + 1) - M + k
        BY <1>1, <1>4, <1>5, <2>1, <3>3
      <4> QED
        BY <1>2, <1>7, <3>1, <4>1
    <3> QED
      BY <3>2, <3>3
  <2>3. /\ M \in 0 .. M /\ M <= c + 1 /\ 0 \in 0 .. M - M /\ M - M - 0 <= d
    BY <1>4, <1>5, <2>1
  <2>4. Mended(t, h, c + 1, d, M, 0)
    BY <2>1, <2>2, <2>3 DEF Mended, M
  <2> QED
    BY <2>3, <2>4 DEF IsMended, t, M
<1> QED
  BY <1>4, <1>5, <1>8, <1>9

\* A bar handed over again is not younger than the last one given: from there on
\* the buffer is out of order.
LEMMA MendedByRetry ==
  ASSUME Time \subseteq Int, NEW h \in Seq(Time), IsBarFrame(h),
         NEW c \in 1 .. Len(h), NEW j \in 1 .. c,
         NEW d \in Nat, NEW b \in Seq(Time), Len(b) <= BufferSize, IsMended(b, h, c, d)
  PROVE  LET t == Latest(Append(b, h[j]), BufferSize)
         IN  IsMended(t, h, c, d + 1) /\ (IsBarFrame(t) => BufferSize <= d + 1)
<1> DEFINE o == h[j]
           t == Latest(Append(b, o), BufferSize)
           cut == Cut(b, BufferSize)
           L == Len(b)
           M == Len(t)
<1>1. BufferSize \in Nat \ {0} /\ L \in Nat /\ L <= BufferSize /\ Len(h) \in Nat
  BY PadIsSlack, LenProperties
<1>2. /\ c \in Nat /\ c >= 1 /\ c \in 1 .. Len(h) /\ j \in 1 .. Len(h)
      /\ j <= c /\ DOMAIN h = 1 .. Len(h)
  BY <1>1, LenProperties
<1>3. o \in Time /\ o \in Int /\ h[c] \in Int /\ h[c] >= o
  <2>1. h[j] \in Time /\ h[c] \in Time
    BY <1>2, ElementOfSeq
  <2>2. j = c \/ j < c
    BY <1>2
  <2>3. j < c => h[j] < h[c]
    BY <1>2 DEF IsBarFrame
  <2> DEFINE v == h[c]
  <2>4. o \in Int /\ v \in Int /\ (j < c => o < v) /\ (j = c => o = v)
    BY <2>1, <2>3
  <2>5. o \in Time
    BY <2>1
  <2> HIDE DEF o, v
  <2>6. v \in Int /\ v >= o
    BY <2>2, <2>4
  <2> QED
    BY <2>4, <2>5, <2>6 DEF v
<1> HIDE DEF o
<1>4. /\ t \in Seq(Time) /\ M = L + 1 - cut /\ M <= BufferSize
      /\ t[M] = o
      /\ \A k \in 1 .. M - 1 : t[k] = b[k + cut]
  <2>1. LET u == Latest(Append(b, o), BufferSize)
        IN  /\ u \in Seq(Time) /\ Len(u) = Len(b) + 1 - Cut(b, BufferSize)
            /\ Len(u) <= BufferSize /\ u[Len(u)] = o
            /\ \A k \in 1 .. Len(u) - 1 : u[k] = b[k + Cut(b, BufferSize)]
    BY <1>3, UpdatedBuffer
  <2> QED
    BY <2>1
<1>5. cut \in {0, 1} /\ (cut = 1 <=> L = BufferSize)
  BY DEF Cut
<1> HIDE DEF t, cut, L, M
<1>6. M \in Nat /\ M >= 1 /\ (cut = 1 => M = L /\ M = BufferSize)
  BY <1>1, <1>4, <1>5
<1>7. PICK r \in 0 .. L : r <= c /\ \E q \in 0 .. L - r : Mended(b, h, c, d, r, q)
  BY DEF IsMended, L
<1>8. PICK q \in 0 .. L - r : Mended(b, h, c, d, r, q)
  BY <1>7
<1>9. /\ \A k \in 1 .. r : b[L - r + k] = h[c - r + k]
      /\ L - r - q <= d
      /\ q = 0 => L = BufferSize \/ (r = L /\ r = c)
      /\ q # 0 => q + 1 <= L - r /\ b[q] >= b[q + 1]
  BY <1>8 DEF Mended, L
<1> DEFINE q2 == IF r > 0 THEN M - 1 ELSE IF q = 0 THEN 0 ELSE q - cut
<1>10. q2 \in 0 .. M - 0 /\ M - 0 - q2 <= d + 1
  BY <1>1, <1>4, <1>5, <1>6, <1>7, <1>8, <1>9
<1>11. q2 = 0 => M = BufferSize
  BY <1>1, <1>2, <1>4, <1>5, <1>6, <1>7, <1>8, <1>9
<1>12. q2 # 0 => q2 + 1 <= M - 0 /\ t[q2] >= t[q2 + 1]
  <2> SUFFICES ASSUME q2 # 0 PROVE q2 + 1 <= M - 0 /\ t[q2] >= t[q2 + 1]
    OBVIOUS
  <2>1. CASE r > 0
    <3>1. /\ q2 = M - 1 /\ q2 \in 1 .. M - 1 /\ q2 + 1 = M /\ q2 + cut = L
          /\ r \in 1 .. r /\ L - r + r = L /\ c - r + r = c
      BY <1>1, <1>2, <1>4, <1>5, <1>6, <1>7, <2>1
    <3>2. t[q2] = b[L] /\ b[L] = h[c]
      BY <1>4, <1>9, <3>1
    <3>3. t[q2 + 1] = o /\ q2 + 1 <= M - 0
      BY <1>4, <1>6, <3>1
    <3> QED
      BY <1>3, <3>2, <3>3
  <2>2. CASE ~(r > 0)
    <3>1. q # 0 /\ q2 = q - cut /\ r = 0 /\ q + 1 <= L - r /\ b[q] >= b[q + 1]
      BY <1>7, <1>9, <2>2
    <3>2. q2 \in Nat
      BY <1>6, <1>10
    <3> HIDE DEF q2
    <3>3. /\ q2 + 1 <= M - 0 /\ q2 \in 1 .. M - 1 /\ q2 + 1 \in 1 .. M - 1
          /\ q2 + cut = q /\ q2 + 1 + cut = q + 1
      BY <1>1, <1>4, <1>5, <1>6, <1>8, <3>1, <3>2
    <3>4. t[q2] = b[q] /\ t[q2 + 1] = b[q + 1]
      BY <1>4, <3>3
    <3> QED
      BY <3>1, <3>3, <3>4
  <2> QED
    BY <2>1, <2>2
<1> HIDE DEF q2
<1>13. \A k \in 1 .. 0 : t[M - 0 + k] = h[c - 0 + k]
  OBVIOUS
<1>14. Mended(t, h, c, d + 1, 0, q2)
  BY <1>10, <1>11, <1>12, <1>13 DEF Mended, M
<1>15. IsMended(t, h, c, d + 1)
  BY <1>2, <1>6, <1>10, <1>14 DEF IsMended, M
<1>16. IsBarFrame(t) => BufferSize <= d + 1
  <2> SUFFICES ASSUME IsBarFrame(t) PROVE BufferSize <= d + 1
    OBVIOUS
  <2>1. q2 = 0
    <3> SUFFICES ASSUME q2 # 0 PROVE FALSE
      OBVIOUS
    <3>1. /\ q2 \in 1 .. M /\ q2 + 1 \in 1 .. M /\ q2 < q2 + 1 /\ t[q2] >= t[q2 + 1]
          /\ DOMAIN t = 1 .. M
      BY <1>4, <1>6, <1>10, <1>12, LenProperties DEF M
    <3> DEFINE u == t[q2]
               v == t[q2 + 1]
    <3>2. u < v /\ u >= v
      BY <3>1 DEF IsBarFrame
    <3>3. u \in Int /\ v \in Int
      BY <1>4, <3>1, ElementOfSeq DEF M
    <3> HIDE DEF u, v
    <3> QED
      BY <3>2, <3>3
  <2> QED
    BY <1>6, <1>10, <1>11, <2>1
<1> QED
  BY <1>15, <1>16 DEF t, o

\* Whether a buffer is mended depends on the bars that were given, no others.
LEMMA SameHistory ==
  ASSUME NEW h, NEW g, NEW c \in Nat, NEW d, NEW b \in Seq(Time),
         \A i \in 1 .. c : g[i] = h[i], IsMended(b, h, c, d)
  PROVE  IsMended(b, g, c, d)
<1>1. Len(b) \in Nat
  BY LenProperties
<1>2. PICK r \in 0 .. Len(b) : r <= c /\ \E q \in 0 .. Len(b) - r : Mended(b, h, c, d, r, q)
  BY DEF IsMended
<1>3. PICK q \in 0 .. Len(b) - r : Mended(b, h, c, d, r, q)
  BY <1>2
<1>4. \A k \in 1 .. r : g[c - r + k] = h[c - r + k]
  <2>1. \A k \in 1 .. r : c - r + k \in 1 .. c
    BY <1>1, <1>2
  <2> QED
    BY <2>1
<1>5. Mended(b, g, c, d, r, q)
  BY <1>3, <1>4 DEF Mended
<1> QED
  BY <1>2, <1>3, <1>5 DEF IsMended

-----------------------------------------------------------------------------
\* The buffer is the tail of what the engine has been given, save for the bars
\* that were handed over again and are still in it.
BufferIsMended == primed => consumed >= 1 /\ IsMended(base, history, consumed, redelivered)

RowsAreReadings == \A i \in DOMAIN live : CausalPart(live[i]) = Reading(Prefix(history, i))

\* What every caller can rely on, and what one can who hands over again no more
\* bars than the buffer has to spare.
BufferInv == TypeOK /\ Spaced(history) /\ BufferIsMended

IInv == BufferInv /\ RowsAreReadings

\* update() returned no row, or rows its bars' known history determines.
Published ==
  /\ history' = history
  /\ \/ live' = live
     \/ /\ DOMAIN live' \subseteq 1 .. Len(history)
        /\ \A i \in DOMAIN live' : CausalPart(live'[i]) = Reading(Prefix(history, i))

RetryNext == Next \/ \E j \in 1 .. Len(history) : Redeliver(j)

\* The contract the refinement is stated against is the module's own.
LEMMA SameReading == \A known : PIT!Reading(known) = Reading(known)
  BY DEF Reading, PIT!Reading, Latest, PIT!Latest, ClosedBars, PIT!ClosedBars,
         BarsInProgress, PIT!BarsInProgress, Intraday, PIT!Intraday,
         HtfBar, PIT!HtfBar, GroupKey, PIT!GroupKey, IntradayBounds, PIT!IntradayBounds,
         DailyBounds, PIT!DailyBounds, FloorTo, PIT!FloorTo, WallClock, PIT!WallClock,
         Localize, PIT!Localize, UtcOffset, PIT!UtcOffset,
         BarsOf, PIT!BarsOf, EndOf, PIT!EndOf, CloseOf, PIT!CloseOf

LEMMA HistoryFacts ==
  ASSUME TypeOK
  PROVE  /\ Time \subseteq Int /\ history \in Seq(Time) /\ IsBarFrame(history)
         /\ Len(history) \in Nat /\ DOMAIN history = 1 .. Len(history)
         /\ BufferSize \in Nat \ {0}
<1>1. Time \subseteq Int
  BY StreamingAssumption DEF StreamingAssumption, EngineAssumption, ResampleAssumption
<1>2. history \in Seq(Time) /\ IsBarFrame(history)
  BY DEF TypeOK
<1> QED
  BY <1>1, <1>2, LenProperties, PadIsSlack

LEMMA InitIInv == Init => IInv
<1> SUFFICES ASSUME Init PROVE IInv
  OBVIOUS
<1>1. /\ history \in Seq(Time) /\ base \in Seq(Time) /\ Len(history) = 0 /\ Len(base) = 0
      /\ DOMAIN history = {} /\ DOMAIN live = {} /\ DOMAIN context = {}
  BY EmptySeq DEF Init, NoContext
<1>2. BufferSize \in Nat /\ MaxRedeliveries \in Nat
  BY PadIsSlack, StreamingAssumption DEF StreamingAssumption
<1>3. IsBarFrame(history) /\ Spaced(history) /\ RowsAreReadings
  BY <1>1 DEF IsBarFrame, Spaced, RowsAreReadings
<1>4. primed = FALSE /\ consumed = 0 /\ redelivered = 0
  BY DEF Init
<1>5. consumed \in 0 .. Len(history) /\ Len(base) <= BufferSize
      /\ redelivered \in 0 .. MaxRedeliveries
  BY <1>1, <1>2, <1>4
<1>6. primed \in BOOLEAN
  BY <1>4, Zenon
<1>7. TypeOK
  BY <1>1, <1>3, <1>5, <1>6, Zenon DEF TypeOK
<1> QED
  BY <1>3, <1>4, <1>7 DEF IInv, BufferInv, BufferIsMended

LEMMA CloseBarStep ==
  ASSUME BufferInv, NEW o \in Time, CloseBar(o)
  PROVE  BufferInv' /\ (RowsAreReadings => RowsAreReadings')
<1>1. /\ Time \subseteq Int /\ history \in Seq(Time) /\ IsBarFrame(history)
      /\ Len(history) \in Nat /\ BufferSize \in Nat \ {0}
  BY HistoryFacts DEF BufferInv
<1>2. /\ history # <<>> => EndOf(history) <= o
      /\ history' = Append(history, o)
      /\ UNCHANGED <<primed, base, context, consumed, live, redelivered>>
  BY DEF CloseBar
<1>3. /\ history' \in Seq(Time) /\ IsBarFrame(history')
      /\ Len(history') = Len(history) + 1
      /\ \A i \in 1 .. Len(history) : Prefix(history', i) = Prefix(history, i)
  BY <1>1, <1>2, AppendedFrame
<1>4. TypeOK'
  <2>1. /\ primed' = primed /\ base' = base /\ context' = context /\ live' = live
        /\ redelivered' = redelivered /\ consumed' = consumed
    BY <1>2
  <2>2. /\ consumed' \in 0 .. Len(history') /\ DOMAIN live' \subseteq 1 .. Len(history')
    BY <1>1, <1>3, <2>1 DEF BufferInv, TypeOK
  <2>3. BufferSize' = BufferSize
    BY DEF BufferSize
  <2> QED
    BY <1>3, <2>1, <2>2, <2>3, Zenon DEF BufferInv, TypeOK
<1>5. Spaced(history)'
  BY <1>1, <1>2, AppendedSpaced DEF BufferInv
<1>6. BufferIsMended'
  <2> SUFFICES ASSUME primed
               PROVE  consumed >= 1 /\ IsMended(base, history', consumed, redelivered)
    BY <1>2 DEF BufferIsMended, IsMended, Mended, BufferSize
  <2>1. /\ consumed \in 1 .. Len(history) /\ consumed >= 1
        /\ IsMended(base, history, consumed, redelivered) /\ base \in Seq(Time)
    BY <1>1 DEF BufferInv, TypeOK, BufferIsMended
  <2>2. \A i \in 1 .. Len(history) : history'[i] = history[i]
    BY <1>1, <1>2, AppendProperties
  <2>3. consumed \in Nat /\ \A i \in 1 .. consumed : history'[i] = history[i]
    BY <1>1, <2>1, <2>2
  <2> QED
    BY <2>1, <2>3, SameHistory
<1>7. RowsAreReadings => RowsAreReadings'
  BY <1>2, <1>3 DEF BufferInv, TypeOK, RowsAreReadings
<1> QED
  BY <1>4, <1>5, <1>6, <1>7 DEF BufferInv

LEMMA PrimeStep ==
  ASSUME BufferInv, NEW n \in 1 .. Len(history), NEW m \in n .. Len(history), Prime(n, m)
  PROVE  BufferInv' /\ (RowsAreReadings => RowsAreReadings')
<1>1. /\ history \in Seq(Time) /\ Len(history) \in Nat /\ BufferSize \in Nat \ {0}
      /\ redelivered \in Nat
  BY HistoryFacts, StreamingAssumption DEF BufferInv, TypeOK, StreamingAssumption
<1>2. /\ base' = Latest(Prefix(history, n), BufferSize)
      /\ DOMAIN context' = Timeframes /\ consumed' = n /\ primed' = TRUE
      /\ UNCHANGED <<history, live, redelivered>>
  BY DEF Prime, ResampleMany
<1>3. /\ base' \in Seq(Time) /\ Len(base') <= BufferSize
      /\ IsMended(base', history, n, redelivered)
  BY <1>1, <1>2, PrimedIsMended
<1>4. TypeOK'
  <2>1. /\ history' = history /\ live' = live /\ redelivered' = redelivered
        /\ consumed' \in 0 .. Len(history) /\ DOMAIN context' \subseteq Timeframes
    BY <1>1, <1>2
  <2>2. BufferSize' = BufferSize
    BY DEF BufferSize
  <2>3. primed' \in BOOLEAN
    BY <1>2, Zenon
  <2> QED
    BY <1>3, <2>1, <2>2, <2>3, Zenon DEF BufferInv, TypeOK
<1>5. BufferIsMended'
  <2>1. consumed' >= 1 /\ history' = history /\ redelivered' = redelivered /\ consumed' = n
    BY <1>1, <1>2
  <2> QED
    BY <1>3, <2>1 DEF BufferIsMended, IsMended, Mended, BufferSize
<1> QED
  BY <1>2, <1>4, <1>5 DEF BufferInv, RowsAreReadings

LEMMA RestartStep ==
  ASSUME BufferInv, Restart
  PROVE  BufferInv' /\ (RowsAreReadings => RowsAreReadings')
<1>1. base' = <<>> /\ base' \in Seq(Time) /\ Len(base') = 0 /\ DOMAIN context' = {}
  BY EmptySeq DEF Restart, NoContext
<1>2. BufferSize \in Nat \ {0} /\ Len(history) \in Nat
  BY HistoryFacts DEF BufferInv
<1>3. /\ consumed' = 0 /\ primed' = FALSE
      /\ history' = history /\ live' = live /\ redelivered' = redelivered
      /\ BufferSize' = BufferSize
  BY DEF Restart, BufferSize
<1>4. consumed' \in 0 .. Len(history') /\ Len(base') <= BufferSize'
  BY <1>1, <1>2, <1>3
<1>5. TypeOK'
  <2>1. primed' \in BOOLEAN
    BY <1>3, Zenon
  <2> QED
    BY <1>1, <1>3, <1>4, <2>1, Zenon DEF BufferInv, TypeOK
<1> QED
  BY <1>3, <1>5 DEF BufferInv, BufferIsMended, RowsAreReadings

\* An update, in turn or not, as far as the types are concerned.
LEMMA UpdateTypes ==
  ASSUME BufferInv, NEW j \in 1 .. Len(history), NEW ctx, DOMAIN ctx \subseteq Timeframes,
         Update(j, ctx), redelivered' \in 0 .. MaxRedeliveries
  PROVE  TypeOK' /\ consumed' = IF j > consumed THEN j ELSE consumed
<1>1. /\ history \in Seq(Time) /\ Len(history) \in Nat /\ BufferSize \in Nat \ {0}
      /\ base \in Seq(Time) /\ Len(base) <= BufferSize /\ consumed \in 0 .. Len(history)
      /\ DOMAIN context \subseteq Timeframes /\ DOMAIN live \subseteq 1 .. Len(history)
      /\ history[j] \in Time
  BY HistoryFacts, ElementOfSeq DEF BufferInv, TypeOK
<1>2. /\ base' = Latest(Append(base, history[j]), BufferSize)
      /\ context' = IF ctx # NoContext THEN ctx ELSE context
      /\ DOMAIN live' = DOMAIN live \/ DOMAIN live' = DOMAIN live \cup {j}
      /\ consumed' = IF j > consumed THEN j ELSE consumed
      /\ history' = history /\ primed' = primed
  BY DEF Update
<1>3. base' \in Seq(Time) /\ Len(base') <= BufferSize
  BY <1>1, <1>2, UpdatedBuffer
<1>4. /\ DOMAIN context' \subseteq Timeframes /\ DOMAIN live' \subseteq 1 .. Len(history)
      /\ consumed' \in 0 .. Len(history)
  BY <1>1, <1>2
<1>5. BufferSize' = BufferSize
  BY DEF BufferSize
<1> QED
  BY <1>2, <1>3, <1>4, <1>5, Zenon DEF BufferInv, TypeOK

\* An update in turn keeps the buffer mended.  The row it returns, if it returns
\* one, is the one its bar's known history determines.
LEMMA UpdateInTurnStep ==
  ASSUME BufferInv, NEW m \in 1 .. Len(history), UpdateInTurn(m)
  PROVE  /\ BufferInv'
         /\ Slack(redelivered) /\ RowsAreReadings => Published
<1> DEFINE j == consumed + 1
           ctx == ResampleMany(Prefix(history, m))
<1>1. /\ Time \subseteq Int /\ history \in Seq(Time) /\ IsBarFrame(history)
      /\ Len(history) \in Nat /\ BufferSize \in Nat \ {0} /\ Spaced(history)
      /\ consumed \in Nat /\ DOMAIN context \subseteq Timeframes
      /\ DOMAIN live \subseteq 1 .. Len(history)
      /\ base \in Seq(Time) /\ Len(base) <= BufferSize
      /\ redelivered \in 0 .. MaxRedeliveries /\ MaxRedeliveries \in Nat
  BY HistoryFacts, StreamingAssumption DEF BufferInv, TypeOK, StreamingAssumption
<1>2. /\ primed /\ consumed < m
      /\ base' = Latest(Append(base, history[j]), BufferSize)
      /\ context' = IF ctx # NoContext THEN ctx ELSE context
      /\ live' = IF IsBarFrame(base') /\ \A i \in DOMAIN base' : NoLeakage(base', context', i)
                 THEN [i \in DOMAIN live \cup {j} |->
                         IF i = j THEN Row(base', context', Len(base')) ELSE live[i]]
                 ELSE live
      /\ UNCHANGED <<history, primed, redelivered>>
      /\ Update(j, ctx)
  BY DEF UpdateInTurn, Update
<1>3. /\ j \in 1 .. Len(history) /\ m \in j .. Len(history)
      /\ consumed >= 1 /\ IsMended(base, history, consumed, redelivered)
  BY <1>1, <1>2 DEF BufferInv, BufferIsMended
<1>4. DOMAIN ctx = Timeframes
  BY DEF ResampleMany
<1>5. TypeOK' /\ consumed' = j
  <2>1. redelivered' \in 0 .. MaxRedeliveries
    BY <1>1, <1>2
  <2> HIDE DEF j, ctx
  <2>2. TypeOK' /\ consumed' = IF j > consumed THEN j ELSE consumed
    BY <1>2, <1>3, <1>4, <2>1, UpdateTypes
  <2> QED
    BY <1>1, <2>2 DEF j
<1>6. IsMended(base', history, j, redelivered)
  BY <1>1, <1>2, <1>3, MendedInTurn
<1>7. BufferIsMended'
  <2>1. consumed' >= 1 /\ history' = history /\ redelivered' = redelivered /\ consumed' = j
    BY <1>1, <1>2, <1>5
  <2> QED
    BY <1>6, <2>1 DEF BufferIsMended, IsMended, Mended, BufferSize
<1>8. context' = ctx \/ (Timeframes = {} /\ DOMAIN context' = {})
  <2>1. DOMAIN NoContext = {}
    BY DEF NoContext
  <2> HIDE DEF ctx
  <2> QED
    BY <1>1, <1>2, <1>4, <2>1
\* With no timeframe at all, the context is empty whatever its origin.
<1>9. Row(base', context', Len(base')) = Row(base', ctx, Len(base'))
  <2> HIDE DEF ctx
  <2>1. CASE context' = ctx
    BY <2>1
  <2>2. CASE Timeframes = {} /\ DOMAIN context' = {}
    BY <1>4, <2>2 DEF Row
  <2> QED
    BY <1>8, <2>1, <2>2
\* A buffer that is a frame ends like the history for long enough.
<1>10. ASSUME IsBarFrame(base'), Slack(redelivered)
       PROVE  CausalPart(Row(base', ctx, Len(base'))) = Reading(Prefix(history, j))
  <2> DEFINE tail == base'
  <2>1. tail \in Seq(Time) /\ Len(tail) \in Nat
    BY <1>5, LenProperties DEF TypeOK
  <2> HIDE DEF tail, j
  <2>2. PICK r \in 0 .. Len(tail) :
               /\ r <= j
               /\ \A k \in 1 .. r : tail[Len(tail) - r + k] = history[j - r + k]
               /\ Len(tail) - r <= redelivered
               /\ Len(tail) = BufferSize \/ (r = Len(tail) /\ r = j)
    BY <1>1, <1>6, <1>10, <2>1, FrameIsMended DEF tail
  <2>3. BaseLookback \in Nat \ {0} /\ \A tf \in Intraday : Width[tf] \in Nat
    BY StreamingAssumption
    DEF StreamingAssumption, EngineAssumption, ResampleAssumption
  <2>4. \/ BaseLookback <= r /\ \A tf \in Intraday : Width[tf] <= r
        \/ r = Len(tail) /\ r = j
    BY <1>1, <1>10, <2>1, <2>2, <2>3 DEF Slack
  <2>5. r \in 1 .. Len(tail)
    BY <1>3, <2>1, <2>2, <2>3, <2>4
  <2>6. CausalPart(Row(tail, ResampleMany(Prefix(history, m)), Len(tail)))
          = Reading(Prefix(history, j))
    BY <1>1, <1>3, <1>10, <2>1, <2>2, <2>4, <2>5, BufferedRow DEF tail
  <2> QED
    BY <2>6 DEF tail
<1> HIDE DEF ctx
<1>11. ASSUME Slack(redelivered), RowsAreReadings
       PROVE  Published
  <2> HIDE DEF j
  <2>1. CASE live' = live
    BY <1>2, <2>1 DEF Published
  <2>2. CASE live' # live
    <3>1. /\ IsBarFrame(base')
          /\ live' = [i \in DOMAIN live \cup {j} |->
                        IF i = j THEN Row(base', context', Len(base')) ELSE live[i]]
      BY <1>2, <2>2
    <3>2. CausalPart(Row(base', context', Len(base'))) = Reading(Prefix(history, j))
      BY <1>9, <1>10, <1>11, <3>1
    <3>3. DOMAIN live' = DOMAIN live \cup {j} /\ DOMAIN live' \subseteq 1 .. Len(history)
      BY <1>1, <1>3, <3>1
    <3>4. \A i \in DOMAIN live' : CausalPart(live'[i]) = Reading(Prefix(history, i))
      BY <1>11, <3>1, <3>2, <3>3 DEF RowsAreReadings
    <3> QED
      BY <1>2, <3>3, <3>4 DEF Published
  <2> QED
    BY <2>1, <2>2
<1> QED
  BY <1>2, <1>5, <1>7, <1>11 DEF BufferInv

\* A bar handed over again raises until older ones have scrolled out of the buffer.
LEMMA RedeliverStep ==
  ASSUME BufferInv, NEW j \in 1 .. Len(history), Redeliver(j)
  PROVE  BufferInv' /\ (Slack(redelivered') => live' = live)
<1>1. /\ Time \subseteq Int /\ history \in Seq(Time) /\ IsBarFrame(history)
      /\ Len(history) \in Nat /\ BufferSize \in Nat \ {0} /\ Spaced(history)
      /\ consumed \in 0 .. Len(history)
      /\ base \in Seq(Time) /\ Len(base) <= BufferSize
      /\ redelivered \in 0 .. MaxRedeliveries /\ MaxRedeliveries \in Nat
  BY HistoryFacts, StreamingAssumption DEF BufferInv, TypeOK, StreamingAssumption
<1>2. /\ primed /\ redelivered < MaxRedeliveries /\ j <= consumed
      /\ base' = Latest(Append(base, history[j]), BufferSize)
      /\ IsBarFrame(base') \/ live' = live
      /\ redelivered' = redelivered + 1
      /\ UNCHANGED <<history, primed>>
      /\ Update(j, NoContext)
  BY DEF Redeliver, Update
<1>3. TypeOK' /\ consumed' = consumed
  <2>1. redelivered' \in 0 .. MaxRedeliveries /\ DOMAIN NoContext \subseteq Timeframes
    BY <1>1, <1>2 DEF NoContext
  <2>2. TypeOK' /\ consumed' = IF j > consumed THEN j ELSE consumed
    BY <1>2, <2>1, UpdateTypes
  <2> QED
    BY <1>1, <1>2, <2>2
<1>4. /\ consumed \in 1 .. Len(history) /\ j \in 1 .. consumed /\ redelivered \in Nat
      /\ IsMended(base, history, consumed, redelivered)
  BY <1>1, <1>2 DEF BufferInv, BufferIsMended
<1>5. /\ IsMended(base', history, consumed, redelivered + 1)
      /\ IsBarFrame(base') => BufferSize <= redelivered + 1
  BY <1>1, <1>2, <1>4, MendedByRetry
<1>6. BufferIsMended'
  <2>1. consumed' >= 1 /\ history' = history /\ consumed' = consumed
    BY <1>1, <1>2, <1>3, <1>4
  <2> QED
    BY <1>2, <1>5, <2>1 DEF BufferIsMended, IsMended, Mended, BufferSize
<1>7. ASSUME Slack(redelivered')
      PROVE  live' = live
  <2>1. BaseLookback \in Nat \ {0} /\ BaseLookback + (redelivered + 1) <= BufferSize
    BY <1>2, <1>7, StreamingAssumption
    DEF Slack, StreamingAssumption, EngineAssumption, ResampleAssumption
  <2> QED
    BY <1>1, <1>2, <1>5, <2>1
<1> QED
  BY <1>1, <1>2, <1>3, <1>6, <1>7 DEF BufferInv

-----------------------------------------------------------------------------
LEMMA NextStep ==
  ASSUME BufferInv, [RetryNext]_vars
  PROVE  BufferInv'
<1>1. CASE \E o \in Time : CloseBar(o)
  BY <1>1, CloseBarStep
<1>2. CASE \E n \in 1 .. Len(history) : \E m \in n .. Len(history) : Prime(n, m)
  BY <1>2, PrimeStep
<1>3. CASE Restart
  BY <1>3, RestartStep
<1>4. CASE \E m \in 1 .. Len(history) : UpdateInTurn(m)
  BY <1>4, UpdateInTurnStep
<1>5. CASE \E j \in 1 .. Len(history) : Redeliver(j)
  BY <1>5, RedeliverStep
<1>6. CASE UNCHANGED vars
  BY <1>6 DEF vars, BufferInv, TypeOK, BufferIsMended, IsMended, Mended, BufferSize
<1> QED
  BY <1>1, <1>2, <1>3, <1>4, <1>5, <1>6 DEF RetryNext, Next

\* The invariant of the buffer, for whatever caller: how many bars it hands over
\* again does not matter.
THEOREM BufferInvariance == RetrySpec => []BufferInv
<1>1. Init => BufferInv
  BY InitIInv DEF IInv
<1>2. BufferInv /\ [RetryNext]_vars => BufferInv'
  BY NextStep
<1> QED
  BY <1>1, <1>2, PTL DEF RetrySpec, RetryNext

\* TypeOK holds of every state of the streaming driver.
THEOREM TypeInvariance == RetrySpec => []TypeOK
<1>1. BufferInv => TypeOK
  BY DEF BufferInv
<1> QED
  BY <1>1, BufferInvariance, PTL

-----------------------------------------------------------------------------
\* While the buffer has bars to spare, a step adds a bar to the history, returns
\* rows their bars' known history determines, or returns none.
LEMMA ParityStep ==
  ASSUME IInv, [RetryNext]_vars, Slack(redelivered), Slack(redelivered')
  PROVE  IInv' /\ (Published \/ \E o \in Time : CloseBar(o))
<1>1. BufferInv' /\ BufferInv /\ RowsAreReadings
  BY NextStep DEF IInv
<1>2. CASE \E o \in Time : CloseBar(o)
  BY <1>1, <1>2, CloseBarStep DEF IInv
<1>3. ASSUME Published
      PROVE  RowsAreReadings'
  BY <1>1, <1>3 DEF Published, RowsAreReadings
<1>4. SUFFICES ASSUME ~ \E o \in Time : CloseBar(o)
               PROVE  Published
  BY <1>1, <1>2, <1>3 DEF IInv
<1>5. CASE \E n \in 1 .. Len(history) : \E m \in n .. Len(history) : Prime(n, m)
  BY <1>5 DEF Prime, Published
<1>6. CASE Restart
  BY <1>6 DEF Restart, Published
<1>7. CASE \E m \in 1 .. Len(history) : UpdateInTurn(m)
  BY <1>1, <1>7, UpdateInTurnStep
<1>8. CASE \E j \in 1 .. Len(history) : Redeliver(j)
  <2>1. PICK j \in 1 .. Len(history) : Redeliver(j)
    BY <1>8
  <2>2. live' = live
    BY <1>1, <2>1, RedeliverStep
  <2>3. history' = history
    BY <2>1 DEF Redeliver, Update
  <2> QED
    BY <2>2, <2>3 DEF Published
<1>9. CASE UNCHANGED vars
  BY <1>9 DEF vars, Published
<1> QED
  BY <1>4, <1>5, <1>6, <1>7, <1>8, <1>9 DEF RetryNext, Next

\* Such a step is one the point-in-time contract allows.
LEMMA ContractStep ==
  ASSUME Published \/ \E o \in Time : CloseBar(o)
  PROVE  [PIT!Next]_<<history, CausalRows>>
<1>1. CASE \E o \in Time : CloseBar(o)
  BY <1>1 DEF CloseBar, CausalRows, PIT!Next, PIT!CloseBar, EndOf, PIT!EndOf, CloseOf, PIT!CloseOf
<1>2. CASE Published
  <2>1. CASE live' = live
    BY <1>2, <2>1 DEF Published, CausalRows
  <2>2. CASE live' # live
    <3>1. /\ DOMAIN live' \subseteq 1 .. Len(history) /\ history' = history
          /\ \A i \in DOMAIN live' : CausalPart(live'[i]) = Reading(Prefix(history, i))
      BY <1>2, <2>2 DEF Published
    <3>2. \A i : PIT!Reading(PIT!Prefix(history, i)) = Reading(Prefix(history, i))
      BY SameReading DEF Prefix, PIT!Prefix
    <3>3. DOMAIN CausalRows' = DOMAIN live'
      BY DEF CausalRows
    <3>4. CausalRows' = [i \in DOMAIN CausalRows' |-> PIT!Reading(PIT!Prefix(history, i))]
      BY <3>1, <3>2, <3>3 DEF CausalRows
    <3> QED
      BY <3>1, <3>3, <3>4 DEF PIT!Next, PIT!Publish
  <2> QED
    BY <2>1, <2>2
<1> QED
  BY <1>1, <1>2

\* Streaming parity under retries: a caller may hand bars over again, at most as
\* many as the buffer has to spare, and what the driver publishes is still what
\* the row contract allows.
THEOREM RetriedStreamingIsPointInTime ==
  ASSUME Slack(MaxRedeliveries)
  PROVE  RetrySpec => LiveIsPointInTime
<1>1. ASSUME NEW d \in 0 .. MaxRedeliveries PROVE Slack(d)
  <2>1. /\ MaxRedeliveries \in Nat /\ BufferSize \in Nat /\ BaseLookback \in Nat
        /\ \A tf \in Intraday : Width[tf] \in Nat
    BY PadIsSlack, StreamingAssumption
    DEF StreamingAssumption, EngineAssumption, ResampleAssumption
  <2> QED
    BY <2>1 DEF Slack
<1>2. (TypeOK => Slack(redelivered)) /\ (TypeOK' => Slack(redelivered'))
  <2>1. TypeOK => redelivered \in 0 .. MaxRedeliveries
    BY DEF TypeOK
  <2>2. TypeOK' => redelivered' \in 0 .. MaxRedeliveries
    BY DEF TypeOK
  <2> QED
    BY <1>1, <2>1, <2>2
<1>3. IInv /\ [RetryNext]_vars => IInv' /\ [PIT!Next]_<<history, CausalRows>>
  <2> SUFFICES ASSUME IInv, [RetryNext]_vars
               PROVE  IInv' /\ [PIT!Next]_<<history, CausalRows>>
    OBVIOUS
  <2>1. Slack(redelivered) /\ Slack(redelivered')
    BY <1>2, NextStep DEF IInv, BufferInv
  <2> QED
    BY <2>1, ParityStep, ContractStep
<1>4. Init => IInv /\ PIT!Init
  BY InitIInv DEF Init, PIT!Init, CausalRows
<1> QED
  BY <1>3, <1>4, PTL DEF RetrySpec, RetryNext, LiveIsPointInTime, PIT!Spec

\* Streaming parity of a caller that hands over each bar once: no hypothesis is
\* left, since the buffer covers the lookbacks whatever the configuration.
THEOREM StreamingIsPointInTime == Spec => LiveIsPointInTime
<1> DEFINE Inv == IInv /\ redelivered = 0
<1>1. Inv /\ [Next]_vars => Inv' /\ [PIT!Next]_<<history, CausalRows>>
  <2> SUFFICES ASSUME IInv, redelivered = 0, [Next]_vars
               PROVE  IInv' /\ redelivered' = 0 /\ [PIT!Next]_<<history, CausalRows>>
    OBVIOUS
  <2>1. redelivered' = 0
    BY DEF Next, CloseBar, Prime, Restart, UpdateInTurn, vars
  <2>2. Slack(redelivered) /\ Slack(redelivered')
    <3>1. 0 \in 0 .. BufferPad
      BY StreamingAssumption DEF StreamingAssumption
    <3> QED
      BY <2>1, <3>1, PadIsSlack
  <2>3. [RetryNext]_vars
    BY DEF RetryNext
  <2> QED
    BY <2>1, <2>2, <2>3, ParityStep, ContractStep
<1>2. Init => Inv /\ PIT!Init
  BY InitIInv DEF Init, PIT!Init, CausalRows
<1> QED
  BY <1>1, <1>2, PTL DEF Spec, LiveIsPointInTime, PIT!Spec

=============================================================================
