----------------------------- MODULE Feed_proofs -----------------------------
(***************************************************************************)
(* What is computed of the trading days, the sessions and the gaps of a    *)
(* feed, for every calendar, every feed that drops bars and every length   *)
(* of the history.                                                         *)
(***************************************************************************)
EXTENDS Liquidity, TimeFeatures, TradingDays, WellFoundedInduction, TLAPS

\* A feed holds bars of the open market only, all of them closed.
FeedInv ==
  /\ history \subseteq {Cal!CloseOf(o) : o \in {p \in Time : Cal!IsOpen(p)}}
  /\ \A stamp \in history : stamp <= now

LEMMA StampsAreNumbers == Stamps \subseteq Int /\ Time \subseteq Nat
BY FeedAssumption DEF Stamps, Cal!CloseOf

LEMMA FeedIsOfTheMarket ==
  ASSUME FeedInv
  PROVE  /\ history \subseteq Stamps /\ history \subseteq Int
         /\ \A stamp \in history : stamp - 1 \in Time /\ Cal!IsOpen(stamp - 1)
<1>1. ASSUME NEW stamp \in history
      PROVE  stamp \in Stamps /\ stamp \in Int /\ stamp - 1 \in Time /\ Cal!IsOpen(stamp - 1)
  <2>1. PICK o \in Time : Cal!IsOpen(o) /\ stamp = o + 1
    BY DEF FeedInv, Cal!CloseOf
  <2>2. stamp - 1 = o /\ stamp \in Int
    BY <2>1, StampsAreNumbers
  <2> QED
    BY <2>1, <2>2 DEF Stamps, Cal!CloseOf
<1> QED
  BY <1>1

\* A bar is delivered after all the others.
LEMMA DeliveredLast ==
  ASSUME FeedInv, Deliver
  PROVE  /\ history' = history \cup {now + 1} /\ now + 1 \in Stamps
         /\ \A stamp \in history : stamp < now + 1
<1>1. now \in Time /\ history' = history \cup {now + 1}
  BY DEF Deliver, Cal!CloseOf
<1>2. now \in Nat /\ now + 1 \in Stamps
  BY <1>1, StampsAreNumbers DEF Stamps, Cal!CloseOf
<1>3. \A stamp \in history : stamp \in Int /\ stamp <= now
  BY FeedIsOfTheMarket DEF FeedInv
<1> QED
  BY <1>1, <1>2, <1>3

\* What a feed holds, of every calendar and however it drops bars: bars of the
\* open market whose time has come.
THEOREM FeedInvariance == Spec => []FeedInv
<1>1. Init => FeedInv
  BY DEF Init, FeedInv
<1>2. FeedInv /\ [Next]_vars => FeedInv'
  <2> SUFFICES ASSUME FeedInv, [Next]_vars PROVE FeedInv'
    OBVIOUS
  <2>1. CASE Deliver
    <3>1. now \in Time /\ Cal!IsOpen(now) /\ history' = history \cup {Cal!CloseOf(now)} /\ now' = now + 1
      BY <2>1 DEF Deliver
    <3>2. \A stamp \in history' : stamp <= now'
      <4>1. now \in Nat /\ \A stamp \in history : stamp < now + 1
        BY <2>1, <3>1, StampsAreNumbers, DeliveredLast
      <4>2. \A stamp \in history' : stamp \in history \/ stamp = now + 1
        BY <3>1 DEF Cal!CloseOf
      <4>3. \A stamp \in history : stamp \in Int
        BY FeedIsOfTheMarket
      <4> QED
        BY <3>1, <4>1, <4>2, <4>3
    <3> QED
      BY <3>1, <3>2 DEF FeedInv
  <2>2. CASE NoBar
    <3>1. now \in Time /\ now' = now + 1 /\ history' = history
      BY <2>2 DEF NoBar
    <3>2. \A stamp \in history : stamp \in Int /\ stamp <= now
      BY FeedIsOfTheMarket DEF FeedInv
    <3>3. \A stamp \in history : stamp <= now + 1
      BY <3>1, <3>2, StampsAreNumbers
    <3> QED
      BY <3>1, <3>3 DEF FeedInv
  <2>3. CASE UNCHANGED vars
    BY <2>3 DEF vars, FeedInv
  <2> QED
    BY <2>1, <2>2, <2>3 DEF Next
<1> QED
  BY <1>1, <1>2, PTL DEF Spec

-----------------------------------------------------------------------------
\* A set of numbers that is bounded above has a greatest one.
LEMMA GreatestExists ==
  ASSUME NEW S, S \subseteq Int, S # {}, NEW b \in Int, \A x \in S : x <= b
  PROVE  Max(S) \in S /\ \A x \in S : x <= Max(S)
<1> DEFINE below == {b - x : x \in S}
<1>1. below \subseteq Nat /\ below # {}
  <2>1. \A x \in S : b - x \in Nat
    OBVIOUS
  <2> QED
    BY <2>1
<1>2. PICK d \in below : \A e \in below : ~ (<<e, d>> \in OpToRel(<, Nat))
  BY <1>1, NatLessThanWellFounded, WFMin
<1>3. \A e \in below : ~(e < d)
  BY <1>1, <1>2 DEF OpToRel
<1>4. PICK m \in S : d = b - m
  OBVIOUS
<1>5. \A x \in S : m >= x
  <2> TAKE x \in S
  <2>1. ~(b - x < b - m)
    BY <1>3, <1>4
  <2> QED
    BY <2>1
<1>6. Max(S) \in S /\ \A x \in S : Max(S) >= x
  BY <1>5 DEF Max
<1> QED
  BY <1>6

LEMMA LeastExists ==
  ASSUME NEW S, S \subseteq Int, S # {}, NEW b \in Int, \A x \in S : b <= x
  PROVE  \E m \in S : \A x \in S : m <= x
<1> DEFINE above == {x - b : x \in S}
<1>1. above \subseteq Nat /\ above # {}
  <2>1. \A x \in S : x - b \in Nat
    OBVIOUS
  <2> QED
    BY <2>1
<1>2. PICK d \in above : \A e \in above : ~ (<<e, d>> \in OpToRel(<, Nat))
  BY <1>1, NatLessThanWellFounded, WFMin
<1>3. \A e \in above : ~(e < d)
  BY <1>1, <1>2 DEF OpToRel
<1>4. PICK m \in S : d = m - b
  OBVIOUS
<1>5. \A x \in S : m <= x
  <2> TAKE x \in S
  <2>1. ~(x - b < m - b)
    BY <1>3, <1>4
  <2> QED
    BY <2>1
<1> QED
  BY <1>5

-----------------------------------------------------------------------------
\* is_post_gap flags every bar before which the market was shut at some instant
\* of the window, whatever the calendar and however the feed breaks off.
THEOREM ReopeningIsAlwaysFlagged == Spec => []ReopeningIsFlagged
<1>1. FeedInv => ReopeningIsFlagged
  <2> SUFFICES ASSUME FeedInv, NEW stamp \in history, GapFlagBars > 0,
                      NEW o \in stamp - 1 - GapFlagBars .. stamp - 1, ~Cal!IsOpen(o)
               PROVE  SinceGap(history, stamp) < GapFlagBars
    BY DEF ReopeningIsFlagged, PostGap
  <2> DEFINE starts == {s \in history : s <= stamp /\ OpensRun(history, s)}
             later  == {s \in history : s > o + 1}
  <2>1. /\ GapFlagBars \in Nat /\ history \subseteq Int /\ stamp \in Int /\ o \in Int
        /\ \A s \in history : Cal!IsOpen(s - 1)
    BY FeedIsOfTheMarket, TimeFeaturesAssumption DEF TimeFeaturesAssumption
  <2>2. stamp \in later
    <3>1. o # stamp - 1
      BY <2>1
    <3> QED
      BY <2>1, <3>1
  <2>3. PICK s \in later : \A t \in later : s <= t
    <3>1. later \subseteq Int /\ \A t \in later : o <= t
      <4>1. \A t \in later : t \in Int /\ t > o + 1
        BY <2>1
      <4>2. \A t \in Int : t > o + 1 => o <= t
        BY <2>1
      <4> QED
        BY <4>1, <4>2
    <3> HIDE DEF later
    <3> QED
      BY <2>1, <2>2, <3>1, LeastExists
  <2>4. s - 1 \notin history
    <3> SUFFICES ASSUME s - 1 \in history PROVE FALSE
      OBVIOUS
    <3>1. s \in Int /\ s - 1 \notin later
      BY <2>1, <2>3
    <3>2. s - 1 = o + 1
      BY <2>1, <2>3, <3>1
    <3>3. (s - 1) - 1 = o
      BY <2>1, <3>1, <3>2
    <3> QED
      BY <2>1, <3>3
  <2>5. s \in starts /\ s <= stamp /\ s \in Int /\ o + 2 <= s
    BY <2>1, <2>2, <2>3, <2>4 DEF OpensRun
  <2>6. Max(starts) \in starts /\ s <= Max(starts)
    <3>1. starts \subseteq Int /\ \A t \in starts : t <= stamp
      BY <2>1
    <3> HIDE DEF starts
    <3> QED
      BY <2>1, <2>5, <3>1, GreatestExists
  <2>7. Max(starts) \in Int
    BY <2>1, <2>6
  <2>8. SinceGap(history, stamp) = stamp - Max(starts)
    BY DEF SinceGap
  <2> HIDE DEF starts
  <2> QED
    BY <2>1, <2>5, <2>6, <2>7, <2>8
<1> QED
  BY <1>1, FeedInvariance, PTL

-----------------------------------------------------------------------------
\* The days and weeks of the stamps grow, and none is interrupted by another.
LEMMA KeysGrow ==
  ASSUME DaysNeverGoBack
  PROVE  /\ \A s \in Stamps : DayKey[s] \in Int /\ WeekKey[s] \in Int
         /\ \A s, t \in Stamps : s <= t => DayKey[s] <= DayKey[t] /\ WeekKey[s] <= WeekKey[t]
         /\ Unbroken(Stamps, DayKey) /\ Unbroken(Stamps, WeekKey)
<1>1. \A s \in Stamps : /\ DayKey[s] \in Int /\ WeekKey[s] \in Int
                        /\ DayKey[s] = Cal!TradingDay(s) /\ WeekKey[s] = Cal!TradingDay(s) \div 7
  <2> TAKE s \in Stamps
  <2>1. Cal!TradingDay(s) \in Int
    BY DEF DaysNeverGoBack
  <2>2. DayKey[s] = Cal!TradingDay(s) /\ WeekKey[s] = Cal!TradingDay(s) \div 7
    BY DEF DayKey, WeekKey
  <2> QED
    BY <2>1, <2>2
<1>2. ASSUME NEW s \in Stamps, NEW t \in Stamps, s <= t
      PROVE  DayKey[s] <= DayKey[t] /\ WeekKey[s] <= WeekKey[t]
  <2>1. Cal!TradingDay(s) <= Cal!TradingDay(t)
    BY <1>2 DEF DaysNeverGoBack
  <2>2. \A a, b \in Int : a <= b => a \div 7 <= b \div 7
    OBVIOUS
  <2>3. Cal!TradingDay(s) \in Int /\ Cal!TradingDay(t) \in Int
    BY DEF DaysNeverGoBack
  <2> QED
    BY <1>1, <2>1, <2>2, <2>3
<1>3. \A s, t, u \in Stamps : s < t /\ t < u => s <= t /\ t <= u
  BY StampsAreNumbers
<1>4. Unbroken(Stamps, DayKey) /\ Unbroken(Stamps, WeekKey)
  <2> SUFFICES ASSUME NEW s \in Stamps, NEW u \in Stamps, NEW t \in Stamps, s < t, t < u
               PROVE  /\ DayKey[s] = DayKey[u] => DayKey[t] = DayKey[s]
                      /\ WeekKey[s] = WeekKey[u] => WeekKey[t] = WeekKey[s]
    BY DEF Unbroken
  <2>1. /\ DayKey[s] <= DayKey[t] /\ DayKey[t] <= DayKey[u]
        /\ WeekKey[s] <= WeekKey[t] /\ WeekKey[t] <= WeekKey[u]
    BY <1>2, <1>3
  <2> QED
    BY <1>1, <2>1
<1> QED
  BY <1>1, <1>2, <1>4

\* The period that ended last before a stamp.
Ends(stamps, key, stamp) ==
  {s \in stamps : s < stamp /\ ~\E t \in stamps : s < t /\ key[t] = key[s]}

LEMMA LastEnd ==
  ASSUME NEW stamps, stamps \subseteq Int, NEW key, NEW stamp \in Int,
         Ends(stamps, key, stamp) # {}
  PROVE  LET last == Max(Ends(stamps, key, stamp))
         IN  /\ last \in Ends(stamps, key, stamp)
             /\ \A s \in Ends(stamps, key, stamp) : s <= last
             /\ CompletedPeriod(stamps, key, stamp) = Period(stamps, key, last)
<1>1. Ends(stamps, key, stamp) \subseteq Int /\ \A s \in Ends(stamps, key, stamp) : s <= stamp
  <2>1. \A s \in Ends(stamps, key, stamp) : s \in Int /\ s < stamp
    BY DEF Ends
  <2> QED
    BY <2>1
<1>2. CompletedPeriod(stamps, key, stamp) = Period(stamps, key, Max(Ends(stamps, key, stamp)))
  BY DEF CompletedPeriod, Ends
<1>3. LET last == Max(Ends(stamps, key, stamp))
      IN  last \in Ends(stamps, key, stamp) /\ \A s \in Ends(stamps, key, stamp) : s <= last
  <2> DEFINE ends == Ends(stamps, key, stamp)
  <2> HIDE DEF ends
  <2>1. Max(ends) \in ends /\ \A s \in ends : s <= Max(ends)
    BY <1>1, GreatestExists DEF ends
  <2> QED
    BY <2>1 DEF ends
<1> QED
  BY <1>2, <1>3

\* A bar that is delivered ends no period before an older bar.
LEMMA PeriodIsStable ==
  ASSUME NEW old, old \subseteq Stamps, NEW new \in Stamps, \A s \in old : s < new,
         NEW set, set \subseteq Stamps, NEW key, Unbroken(set, key), NEW stamp \in old
  PROVE  CompletedPeriod((old \cup {new}) \cap set, key, stamp)
           = CompletedPeriod(old \cap set, key, stamp)
<1> DEFINE was == old \cap set
           is  == (old \cup {new}) \cap set
<1>1. /\ \A t : t \in is <=> t \in was \/ (t = new /\ new \in set)
      /\ was \subseteq Int /\ is \subseteq Int /\ stamp \in Int /\ stamp < new /\ new \in Int
  BY StampsAreNumbers
<1>2. ASSUME NEW s \in was, s < stamp, new \in set, key[new] = key[s]
      PROVE  stamp \in was /\ key[stamp] = key[s]
  <2>1. s \in set /\ stamp \in Stamps
    OBVIOUS
  <2>2. stamp \in set /\ key[stamp] = key[s]
    BY <1>1, <1>2, <2>1 DEF Unbroken
  <2> QED
    BY <2>2
<1> SUFFICES CompletedPeriod(is, key, stamp) = CompletedPeriod(was, key, stamp)
  OBVIOUS
<1> HIDE DEF was, is
<1>3. Ends(is, key, stamp) = Ends(was, key, stamp)
  <2>1. ASSUME NEW s \in Ends(was, key, stamp) PROVE s \in Ends(is, key, stamp)
    <3>1. s \in was /\ s < stamp /\ ~\E t \in was : s < t /\ key[t] = key[s]
      BY DEF Ends
    <3>2. ~(new \in set /\ key[new] = key[s])
      BY <1>2, <3>1
    <3> QED
      BY <1>1, <3>1, <3>2 DEF Ends
  <2>2. ASSUME NEW s \in Ends(is, key, stamp) PROVE s \in Ends(was, key, stamp)
    <3>1. s \in is /\ s < stamp /\ ~\E t \in is : s < t /\ key[t] = key[s]
      BY DEF Ends
    <3>2. s # new
      BY <1>1, <3>1
    <3> QED
      BY <1>1, <3>1, <3>2 DEF Ends
  <2> QED
    BY <2>1, <2>2
<1>4. CASE Ends(was, key, stamp) = {}
  BY <1>3, <1>4 DEF CompletedPeriod, Ends
<1>5. CASE Ends(was, key, stamp) # {}
  <2> DEFINE last == Max(Ends(was, key, stamp))
  <2>1. /\ last \in Ends(was, key, stamp)
        /\ CompletedPeriod(was, key, stamp) = Period(was, key, last)
        /\ CompletedPeriod(is, key, stamp) = Period(is, key, last)
    BY <1>1, <1>3, <1>5, LastEnd
  <2> HIDE DEF last
  <2>2. last \in was /\ last < stamp /\ ~\E t \in was : last < t /\ key[t] = key[last]
    BY <2>1 DEF Ends
  <2>3. ~(new \in set /\ key[new] = key[last])
    BY <1>2, <2>2
  <2>4. Period(is, key, last) = Period(was, key, last)
    BY <1>1, <2>3 DEF Period
  <2> QED
    BY <2>1, <2>4
<1> QED
  BY <1>4, <1>5

\* The levels of a bar that liquidity.py computes never change when bars are
\* added, wherever days and sessions are not interrupted.
THEOREM LevelsAreAlwaysStable ==
  ASSUME DaysNeverGoBack, SessionsAreUnbroken
  PROVE  Spec => LevelsAreStable
<1>1. FeedInv /\ [Next]_vars => [\A stamp \in history : Levels(history', stamp) = Levels(history, stamp)]_vars
  <2> SUFFICES ASSUME FeedInv, Next, NEW stamp \in history
               PROVE  Levels(history', stamp) = Levels(history, stamp)
    OBVIOUS
  <2>1. CASE NoBar
    BY <2>1 DEF NoBar
  <2>2. CASE Deliver
    <3> DEFINE new == now + 1
    <3>1. /\ history' = history \cup {new} /\ new \in Stamps /\ history \subseteq Stamps
          /\ \A s \in history : s < new
      BY <2>2, DeliveredLast, FeedIsOfTheMarket
    <3> HIDE DEF new
    <3>2. ASSUME NEW set, set \subseteq Stamps, NEW key, Unbroken(set, key)
          PROVE  CompletedPeriod(history' \cap set, key, stamp)
                   = CompletedPeriod(history \cap set, key, stamp)
      BY <3>1, <3>2, PeriodIsStable
    <3>3. history' \cap Stamps = history' /\ history \cap Stamps = history
      BY <3>1
    <3>4. DayLevel(history', stamp) = DayLevel(history, stamp)
      BY <3>2, <3>3, KeysGrow DEF DayLevel
    <3>5. WeekLevel(history', stamp) = WeekLevel(history, stamp)
      BY <3>2, <3>3, KeysGrow DEF WeekLevel
    <3>6. \A name \in SessionNames : SessionLevel(name, history', stamp) = SessionLevel(name, history, stamp)
      <4> TAKE name \in SessionNames
      <4>1. Inside(name) \subseteq Stamps /\ Unbroken(Inside(name), Filed)
        BY DEF SessionsAreUnbroken, Inside, Members
      <4> QED
        BY <3>2, <4>1 DEF SessionLevel
    <3>7. RunningLevel(history', stamp) = RunningLevel(history, stamp)
      <4>1. ~(new <= stamp)
        BY <3>1, StampsAreNumbers
      <4> QED
        BY <3>1, <4>1 DEF RunningLevel
    <3> QED
      BY <3>4, <3>5, <3>6, <3>7 DEF Levels
  <2> QED
    BY <2>1, <2>2 DEF Next
<1> QED
  BY <1>1, FeedInvariance, PTL DEF Spec, LevelsAreStable

\* The previous-day and previous-week levels of a bar are of a whole day and week
\* that is over, with none between it and the bar.
THEOREM PreviousPeriodIsAlwaysOver ==
  ASSUME DaysNeverGoBack
  PROVE  Spec => []PreviousPeriodIsOver
<1>1. FeedInv => PreviousPeriodIsOver
  <2> SUFFICES ASSUME FeedInv, NEW stamp \in history, NEW key,
                      \A s \in Stamps : key[s] \in Int,
                      \A s, t \in Stamps : s <= t => key[s] <= key[t],
                      NEW s \in CompletedPeriod(history, key, stamp)
               PROVE  /\ key[s] < key[stamp]
                      /\ Period(history, key, s) = CompletedPeriod(history, key, stamp)
                      /\ ~\E t \in history : key[s] < key[t] /\ key[t] < key[stamp]
    BY KeysGrow DEF PreviousPeriodIsOver, WholePeriodBefore, DayLevel, WeekLevel
  <2>1. history \subseteq Stamps /\ history \subseteq Int /\ stamp \in Int
    BY FeedIsOfTheMarket
  <2> DEFINE ends == Ends(history, key, stamp)
             last == Max(ends)
  <2>2. ends # {}
    BY DEF CompletedPeriod, Ends
  <2>3. /\ last \in ends /\ \A e \in ends : e <= last
        /\ CompletedPeriod(history, key, stamp) = Period(history, key, last)
    BY <2>1, <2>2, LastEnd
  <2> HIDE DEF last
  <2>4. last \in history /\ last < stamp /\ ~\E t \in history : last < t /\ key[t] = key[last]
    BY <2>3 DEF Ends
  <2>5. key[s] = key[last] /\ s \in history
    BY <2>3 DEF Period
  <2>6. key[last] <= key[stamp] /\ key[last] # key[stamp] /\ key[last] \in Int /\ key[stamp] \in Int
    <3>1. last <= stamp
      BY <2>1, <2>4
    <3> QED
      BY <2>1, <2>4, <3>1
  <2>7. Period(history, key, s) = CompletedPeriod(history, key, stamp)
    BY <2>3, <2>5 DEF Period
  <2>8. ASSUME NEW t \in history, key[last] < key[t], key[t] < key[stamp] PROVE FALSE
    <3> DEFINE same == {u \in history : key[u] = key[t]}
    <3>1. \A u \in same : u < stamp /\ u \in Int
      <4> TAKE u \in same
      <4>1. ~(stamp <= u)
        BY <2>1, <2>6, <2>8
      <4> QED
        BY <2>1, <4>1
    <3>2. Max(same) \in same /\ \A u \in same : u <= Max(same)
      <4>1. same \subseteq Int /\ t \in same /\ \A u \in same : u <= stamp
        <5>1. \A u \in Int : u < stamp => u <= stamp
          BY <2>1
        <5> QED
          BY <2>1, <3>1, <5>1
      <4> HIDE DEF same
      <4> QED
        BY <2>1, <4>1, GreatestExists
    <3> DEFINE e == Max(same)
    <3>3. e \in history /\ key[e] = key[t] /\ e < stamp /\ e \in Int
      BY <3>1, <3>2
    <3>4. \A u \in history : key[u] = key[t] => u <= e
      BY <3>2
    <3> HIDE DEF e, same
    <3>5. e \in ends
      <4>1. \A u \in history : key[u] = key[e] => ~(e < u)
        BY <2>1, <3>3, <3>4
      <4> QED
        BY <3>3, <4>1 DEF Ends
    <3>6. e <= last
      BY <2>3, <3>5
    <3>7. key[e] <= key[last]
      BY <2>1, <2>4, <3>3, <3>6
    <3> QED
      BY <2>1, <2>4, <2>6, <2>8, <3>3, <3>7
  <2> QED
    BY <2>5, <2>6, <2>7, <2>8
<1> QED
  BY <1>1, FeedInvariance, PTL

-----------------------------------------------------------------------------
\* Whole days and what is left of one.
LEMMA DivMod ==
  ASSUME NEW x \in Int, NEW d \in Nat \ {0}
  PROVE  /\ x \div d \in Int /\ x % d \in Int /\ 0 <= x % d /\ x % d < d
         /\ (x \div d) * d \in Int /\ x = ((x \div d) * d) + (x % d)
BY SMT

LEMMA DivIs ==
  ASSUME NEW d \in Nat \ {0}, NEW q \in Int, NEW r \in Int, 0 <= r, r < d
  PROVE  (q * d + r) \div d = q
<1> DEFINE x == q * d + r
           p == x \div d
<1>1. x \in Int /\ q * d \in Int
  OBVIOUS
<1> HIDE DEF x
<1>2. p \in Int /\ p * d <= x /\ x < p * d + d /\ p * d \in Int
  BY <1>1, DivMod
<1>3. q * d <= x /\ x < q * d + d
  BY <1>1 DEF x
<1> HIDE DEF p
<1>4. ~(p <= q - 1)
  <2> SUFFICES ASSUME p <= q - 1 PROVE FALSE
    OBVIOUS
  <2>1. (q - 1 - p) * d >= 0
    BY <1>2
  <2>2. p * d + d <= q * d
    BY <1>2, <2>1
  <2> QED
    BY <1>1, <1>2, <1>3, <2>2
<1>5. ~(q <= p - 1)
  <2> SUFFICES ASSUME q <= p - 1 PROVE FALSE
    OBVIOUS
  <2>1. (p - 1 - q) * d >= 0
    BY <1>2
  <2>2. q * d + d <= p * d
    BY <1>2, <2>1
  <2> QED
    BY <1>1, <1>2, <1>3, <2>2
<1>6. p = q
  BY <1>2, <1>4, <1>5
<1> QED
  BY <1>6 DEF p, x

LEMMA DivGrows ==
  ASSUME NEW d \in Nat \ {0}, NEW x \in Int, NEW y \in Int, x <= y
  PROVE  x \div d <= y \div d
<1> DEFINE p == x \div d
           q == y \div d
<1>1. p \in Int /\ q \in Int /\ p * d <= x /\ y < q * d + d /\ p * d \in Int /\ q * d \in Int
  BY DivMod
<1> HIDE DEF p, q
<1> SUFFICES ASSUME q + 1 <= p PROVE FALSE
  BY <1>1 DEF p, q
<1>2. (p - q - 1) * d >= 0
  BY <1>1
<1>3. q * d + d <= p * d
  BY <1>1, <1>2
<1> QED
  BY <1>1, <1>3

\* The numbers of the calendar are numbers.
LEMMA CalendarNumbers ==
  /\ Transition \in Int /\ OffsetBefore \in Int /\ OffsetAfter \in Int
  /\ DayLength \in Nat \ {0} /\ BreakEnd \in 0 .. DayLength
  /\ DailyAnchor \in Int
BY FeedAssumption, DaysAssumption
DEF Cal!CalendarAssumption, Cal!ZoneAssumption, Daily!ResampleAssumption

\* The instant of a time on the wall: when the clocks skip it, the instant they
\* are changed.
LEMMA LocalizedClock ==
  ASSUME SpringForward, NEW w \in Int
  PROVE  LET t == Cal!Localize(w)
             jump == OffsetAfter - OffsetBefore
         IN  /\ t \in Int
             /\ \A u \in Int : (w <= Cal!WallClock(u) <=> t <= u)
             /\ \A more \in Nat : w + more <= Cal!WallClock(t + more)
                                  /\ Cal!WallClock(t + more) <= w + more + jump
BY CalendarNumbers DEF SpringForward, Cal!Localize, Cal!WallClock, Cal!UtcOffset

\* The date that the trading calendar computes by way of local midnight.
LEMMA TradingDayIs ==
  ASSUME SpringForward, NEW t \in Int
  PROVE  Cal!TradingDay(t) = (Cal!WallClock(t) + DayLength - BreakEnd) \div DayLength
<1> DEFINE wall == Cal!WallClock(t)
           day  == wall \div DayLength
           minute == wall % DayLength
           midnight == Cal!Localize(day * DayLength)
           jump == OffsetAfter - OffsetBefore
<1>1. /\ wall \in Int /\ day \in Int /\ minute \in Int /\ 0 <= minute /\ minute < DayLength
      /\ day * DayLength \in Int /\ wall = day * DayLength + minute
  <2>1. wall \in Int
    BY CalendarNumbers DEF Cal!WallClock, Cal!UtcOffset
  <2> HIDE DEF wall
  <2> QED
    BY <2>1, CalendarNumbers, DivMod
<1>2. Cal!TradingDay(t) =
        Cal!WallClock(midnight + (IF minute >= BreakEnd THEN DayLength ELSE 0)) \div DayLength
  BY DEF Cal!TradingDay, Cal!LocalDay, Cal!LocalMinute
<1>3. jump \in Int /\ 0 <= jump /\ jump < DayLength /\ DayLength \in Nat /\ BreakEnd \in 0 .. DayLength
  BY CalendarNumbers DEF SpringForward
<1>4. /\ midnight \in Int
      /\ \A more \in Nat : /\ day * DayLength + more <= Cal!WallClock(midnight + more)
                           /\ Cal!WallClock(midnight + more) <= day * DayLength + more + jump
  <2> DEFINE start == day * DayLength
  <2>1. start \in Int
    BY <1>1
  <2> HIDE DEF start
  <2>2. LET at == Cal!Localize(start)
        IN  /\ at \in Int
            /\ \A more \in Nat : /\ start + more <= Cal!WallClock(at + more)
                                 /\ Cal!WallClock(at + more) <= start + more + jump
    BY <2>1, LocalizedClock
  <2> QED
    BY <2>2 DEF start
<1>5. (day + 1) * DayLength = day * DayLength + DayLength
  BY <1>1, <1>3
<1> HIDE DEF wall, day, minute, midnight, jump
<1>6. CASE minute >= BreakEnd
  <2> DEFINE over == Cal!WallClock(midnight + DayLength) - (day + 1) * DayLength
             rest == minute - BreakEnd
  <2>1. over \in Int /\ 0 <= over /\ over < DayLength
    <3>1. Cal!WallClock(midnight + DayLength) \in Int
      BY <1>3, <1>4, CalendarNumbers DEF Cal!WallClock, Cal!UtcOffset
    <3>2. /\ day * DayLength + DayLength <= Cal!WallClock(midnight + DayLength)
          /\ Cal!WallClock(midnight + DayLength) <= day * DayLength + DayLength + jump
      BY <1>3, <1>4
    <3>3. (day + 1) * DayLength \in Int
      BY <1>1, <1>3, <1>5
    <3> QED
      BY <1>1, <1>3, <1>5, <3>1, <3>2, <3>3
  <2>2. Cal!WallClock(midnight + DayLength) = (day + 1) * DayLength + over
    BY <1>1, <1>3, <1>4, <1>5, CalendarNumbers DEF Cal!WallClock, Cal!UtcOffset
  <2>3. rest \in Int /\ 0 <= rest /\ rest < DayLength
    BY <1>1, <1>3, <1>6
  <2>4. wall + DayLength - BreakEnd = (day + 1) * DayLength + rest
    BY <1>1, <1>3, <1>5
  <2> HIDE DEF over, rest
  <2>5. Cal!WallClock(midnight + DayLength) \div DayLength = day + 1
    BY <1>1, <2>1, <2>2, CalendarNumbers, DivIs
  <2>6. (wall + DayLength - BreakEnd) \div DayLength = day + 1
    BY <1>1, <2>3, <2>4, CalendarNumbers, DivIs
  <2> QED
    BY <1>2, <1>6, <2>5, <2>6 DEF wall
<1>7. CASE ~(minute >= BreakEnd)
  <2> DEFINE over == Cal!WallClock(midnight + 0) - day * DayLength
             rest == minute + DayLength - BreakEnd
  <2>1. over \in Int /\ 0 <= over /\ over < DayLength
    <3>1. Cal!WallClock(midnight + 0) \in Int
      BY <1>3, <1>4, CalendarNumbers DEF Cal!WallClock, Cal!UtcOffset
    <3>2. 0 \in Nat
      OBVIOUS
    <3>3. /\ day * DayLength + 0 <= Cal!WallClock(midnight + 0)
          /\ Cal!WallClock(midnight + 0) <= day * DayLength + 0 + jump
      BY <1>4, <3>2
    <3> DEFINE clock == Cal!WallClock(midnight + 0)
    <3> HIDE DEF clock
    <3> QED
      BY <1>1, <1>3, <3>1, <3>3 DEF clock
  <2>2. Cal!WallClock(midnight + 0) = day * DayLength + over
    BY <1>1, <1>3, <1>4, CalendarNumbers DEF Cal!WallClock, Cal!UtcOffset
  <2>3. rest \in Int /\ 0 <= rest /\ rest < DayLength
    BY <1>1, <1>3, <1>7
  <2>4. wall + DayLength - BreakEnd = day * DayLength + rest
    BY <1>1, <1>3
  <2> HIDE DEF over, rest
  <2>5. Cal!WallClock(midnight + 0) \div DayLength = day
    BY <1>1, <2>1, <2>2, CalendarNumbers, DivIs
  <2>6. (wall + DayLength - BreakEnd) \div DayLength = day
    BY <1>1, <2>3, <2>4, CalendarNumbers, DivIs
  <2> QED
    BY <1>2, <1>7, <2>5, <2>6 DEF wall
<1> QED
  BY <1>6, <1>7

\* The clock of the market goes forward, and the trading days with it.
LEMMA ClockGrows ==
  ASSUME SpringForward, NEW s \in Int, NEW t \in Int, s <= t
  PROVE  Cal!WallClock(s) \in Int /\ Cal!WallClock(t) \in Int
         /\ Cal!WallClock(s) <= Cal!WallClock(t)
BY CalendarNumbers DEF SpringForward, Cal!WallClock, Cal!UtcOffset

LEMMA SpringNeverGoesBack ==
  ASSUME SpringForward
  PROVE  DaysNeverGoBack
<1> SUFFICES ASSUME NEW s \in Stamps, NEW t \in Stamps
             PROVE  /\ Cal!TradingDay(s) \in Int
                    /\ s <= t => Cal!TradingDay(s) <= Cal!TradingDay(t)
  BY DEF DaysNeverGoBack
<1> DEFINE x == Cal!WallClock(s) + DayLength - BreakEnd
           y == Cal!WallClock(t) + DayLength - BreakEnd
<1>1. s \in Int /\ t \in Int
  BY StampsAreNumbers
<1>2. Cal!TradingDay(s) = x \div DayLength /\ Cal!TradingDay(t) = y \div DayLength
  BY <1>1, TradingDayIs
<1>3. Cal!WallClock(s) \in Int /\ Cal!WallClock(t) \in Int
  BY <1>1, CalendarNumbers DEF Cal!WallClock, Cal!UtcOffset
<1>4. x \in Int /\ y \in Int /\ DayLength \in Nat \ {0}
  BY <1>3, CalendarNumbers
<1>5. s <= t => x <= y
  <2>1. s <= t => Cal!WallClock(s) <= Cal!WallClock(t)
    BY <1>1, ClockGrows
  <2> QED
    BY <1>3, <2>1, CalendarNumbers
<1> HIDE DEF x, y
<1>6. x \div DayLength \in Int
  BY <1>4, DivMod
<1> QED
  BY <1>2, <1>4, <1>5, <1>6, DivGrows

\* trading_day rolls at the end of the break by the wall clock of the market on
\* every date, that of the change of the clocks included, although it goes by
\* way of an instant of midnight to which a length of time is added.
THEOREM TradingDayAlwaysRollsAtOpen ==
  ASSUME SpringForward
  PROVE  Spec => []TradingDayRollsAtOpen
<1>1. FeedInv => TradingDayRollsAtOpen
  <2> SUFFICES ASSUME FeedInv, NEW stamp \in history
               PROVE  Day[stamp] = (Wall[stamp] + DayLength - BreakEnd) \div DayLength
    BY DEF TradingDayRollsAtOpen
  <2>1. stamp \in Stamps /\ stamp \in Int
    BY FeedIsOfTheMarket
  <2>2. Day[stamp] = Cal!TradingDay(stamp) /\ Wall[stamp] = Cal!WallClock(stamp)
    BY <2>1 DEF Day, Wall
  <2> QED
    BY <2>1, <2>2, TradingDayIs
<1> QED
  BY <1>1, FeedInvariance, PTL

-----------------------------------------------------------------------------
\* The resampler and the calendar read the same wall clock.
LEMMA OneClock ==
  \A t : Daily!WallClock(t) = Cal!WallClock(t) /\ Daily!Localize(t) = Cal!Localize(t)
BY DEF Daily!WallClock, Daily!UtcOffset, Daily!Localize,
       Cal!WallClock, Cal!UtcOffset, Cal!Localize

\* The two days of a bar of the open market, by the number of anchors that the
\* wall clock has passed.
LEMMA AnchoredBar ==
  ASSUME SpringForward, QuietAnchor, NEW o \in Time, Cal!IsOpen(o)
  PROVE  LET q == (Cal!WallClock(o) - DailyAnchor) \div DayLength
         IN  /\ q \in Int
             /\ q * DayLength + DailyAnchor <= Cal!WallClock(o)
             /\ Cal!WallClock(o) < q * DayLength + DayLength + DailyAnchor
             /\ Daily!DailyBounds(o) =
                  [open  |-> Cal!Localize(q * DayLength + DailyAnchor),
                   close |-> Cal!Localize(q * DayLength + DayLength + DailyAnchor)]
             /\ Cal!TradingDay(o + 1) = q + 1
<1> DEFINE x == Cal!WallClock(o) - DailyAnchor
           q == x \div DayLength
           r == x % DayLength
           y == Cal!WallClock(o - DailyAnchor)
           jump == OffsetAfter - OffsetBefore
<1>1. /\ o \in Int /\ DailyAnchor \in Int /\ BreakEnd \in Int /\ DayLength \in Nat \ {0}
      /\ DailyAnchor < BreakEnd /\ jump \in Int /\ 0 <= jump /\ jump <= BreakEnd - DailyAnchor
      /\ BreakEnd <= DayLength /\ r >= BreakEnd - DailyAnchor
  BY StampsAreNumbers, CalendarNumbers DEF SpringForward, QuietAnchor
<1>2. Cal!WallClock(o) \in Int /\ x \in Int /\ y \in Int
  BY <1>1, CalendarNumbers DEF Cal!WallClock, Cal!UtcOffset
<1>3. x - jump <= y /\ y <= x
  BY <1>1, CalendarNumbers DEF SpringForward, QuietAnchor, Cal!WallClock, Cal!UtcOffset
<1>4. Cal!WallClock(o + 1) = Cal!WallClock(o) + 1
  BY <1>1, CalendarNumbers DEF QuietAnchor, Cal!WallClock, Cal!UtcOffset
<1> DEFINE z == Cal!WallClock(o + 1) + DayLength - BreakEnd
<1>5. z = x + DailyAnchor + 1 + DayLength - BreakEnd
  BY <1>1, <1>2, <1>4
<1>6. x = Cal!WallClock(o) - DailyAnchor
  OBVIOUS
<1>7. /\ Daily!DailyBounds(o) =
           [open  |-> Cal!Localize(Daily!FloorTo(y, DayLength, 0) + DailyAnchor),
            close |-> Cal!Localize(Daily!FloorTo(y, DayLength, 0) + DayLength + DailyAnchor)]
      /\ Cal!TradingDay(o + 1) = z \div DayLength
  <2>1. o + 1 \in Int
    BY <1>1
  <2> QED
    BY <2>1, OneClock, TradingDayIs DEF Daily!DailyBounds, Daily!FloorTo
<1> HIDE DEF x, y, z, jump
<1>8. /\ q \in Int /\ r \in Int /\ 0 <= r /\ r < DayLength
      /\ q * DayLength \in Int /\ x = (q * DayLength) + r
  BY <1>1, <1>2, DivMod
<1> HIDE DEF q, r
<1>9. Daily!FloorTo(y, DayLength, 0) = q * DayLength
  <2> DEFINE rest == y - q * DayLength
  <2>1. rest \in Int /\ 0 <= rest /\ rest < DayLength
    BY <1>1, <1>2, <1>3, <1>8
  <2>2. y = q * DayLength + rest
    BY <1>2, <1>8
  <2> HIDE DEF rest
  <2>3. y \div DayLength = q
    BY <1>1, <1>8, <2>1, <2>2, DivIs
  <2>4. y - 0 = y
    BY <1>2
  <2> QED
    BY <1>8, <2>3, <2>4 DEF Daily!FloorTo
<1>10. z \div DayLength = q + 1
  <2> DEFINE rest == r + 1 + DailyAnchor - BreakEnd
  <2>1. rest \in Int /\ 0 <= rest /\ rest < DayLength
    BY <1>1, <1>8
  <2>2. (q + 1) * DayLength = q * DayLength + DayLength
    BY <1>1, <1>8
  <2>3. z = (q + 1) * DayLength + rest
    BY <1>1, <1>5, <1>8, <2>2
  <2> HIDE DEF rest
  <2> QED
    BY <1>1, <1>8, <2>1, <2>3, DivIs
<1>11. /\ q * DayLength + DailyAnchor <= Cal!WallClock(o)
       /\ Cal!WallClock(o) < q * DayLength + DayLength + DailyAnchor
  BY <1>1, <1>2, <1>6, <1>8
<1> QED
  BY <1>7, <1>8, <1>9, <1>10, <1>11 DEF q, x

\* The daily bar and the trading day of a bar of the feed.
LEMMA DayOfStamp ==
  ASSUME SpringForward, QuietAnchor, FeedInv, NEW stamp \in history
  PROVE  LET q == AnchoredDay(stamp)
             w == Cal!WallClock(stamp - 1)
         IN  /\ q \in Int /\ w \in Int /\ stamp \in Int
             /\ q * DayLength + DailyAnchor <= w
             /\ w < q * DayLength + DayLength + DailyAnchor
             /\ DailyBar[stamp] =
                  [open  |-> Cal!Localize(q * DayLength + DailyAnchor),
                   close |-> Cal!Localize(q * DayLength + DayLength + DailyAnchor)]
             /\ Day[stamp] = q + 1
<1> DEFINE o == stamp - 1
<1>1. o \in Time /\ Cal!IsOpen(o) /\ stamp \in Stamps /\ stamp \in Int /\ o \in Int
  BY FeedIsOfTheMarket, StampsAreNumbers
<1>2. o + 1 = stamp
  BY <1>1
<1>3. DailyBar[stamp] = Daily!DailyBounds(o) /\ Day[stamp] = Cal!TradingDay(o + 1)
  BY <1>1, <1>2 DEF DailyBar, Day
<1>4. AnchoredDay(stamp) = (Cal!WallClock(o) - DailyAnchor) \div DayLength
  BY DEF AnchoredDay
<1>5. Cal!WallClock(o) \in Int
  BY <1>1, CalendarNumbers DEF Cal!WallClock, Cal!UtcOffset
<1> HIDE DEF o
<1>6. LET q == (Cal!WallClock(o) - DailyAnchor) \div DayLength
      IN  /\ q \in Int
          /\ q * DayLength + DailyAnchor <= Cal!WallClock(o)
          /\ Cal!WallClock(o) < q * DayLength + DayLength + DailyAnchor
          /\ Daily!DailyBounds(o) =
               [open  |-> Cal!Localize(q * DayLength + DailyAnchor),
                close |-> Cal!Localize(q * DayLength + DayLength + DailyAnchor)]
          /\ Cal!TradingDay(o + 1) = q + 1
  BY <1>1, AnchoredBar
<1> QED
  BY <1>1, <1>3, <1>4, <1>5, <1>6 DEF o

\* The ends of a daily bar of the feed are where the wall clock passes the anchor.
LEMMA DailyBarCovers ==
  ASSUME SpringForward, QuietAnchor, FeedInv, NEW s \in history, NEW t \in history
  PROVE  /\ DailyBar[s].open < s /\ s <= DailyBar[s].close
         /\ DailyBar[s] = DailyBar[t] <=> AnchoredDay(s) = AnchoredDay(t)
<1> DEFINE p == AnchoredDay(s)
           q == AnchoredDay(t)
           Anchor(n) == n * DayLength + DailyAnchor
<1>1. /\ p \in Int /\ q \in Int /\ s \in Int /\ t \in Int
      /\ Cal!WallClock(s - 1) \in Int /\ Cal!WallClock(t - 1) \in Int
      /\ Anchor(p) <= Cal!WallClock(s - 1) /\ Cal!WallClock(s - 1) < p * DayLength + DayLength + DailyAnchor
      /\ Anchor(q) <= Cal!WallClock(t - 1) /\ Cal!WallClock(t - 1) < q * DayLength + DayLength + DailyAnchor
      /\ DailyBar[s] = [open  |-> Cal!Localize(Anchor(p)),
                        close |-> Cal!Localize(p * DayLength + DayLength + DailyAnchor)]
      /\ DailyBar[t] = [open  |-> Cal!Localize(Anchor(q)),
                        close |-> Cal!Localize(q * DayLength + DayLength + DailyAnchor)]
  BY DayOfStamp
<1>2. \A w, u \in Int : /\ Cal!Localize(w) \in Int
                        /\ w <= Cal!WallClock(u) <=> Cal!Localize(w) <= u
  BY LocalizedClock
<1> HIDE DEF p, q
<1>3. \A n \in Int : n * DayLength \in Int /\ Anchor(n) \in Int /\ Anchor(n) + DayLength \in Int
  BY CalendarNumbers
<1>4. \A n \in Int : n * DayLength + DayLength + DailyAnchor = Anchor(n) + DayLength
  BY <1>3, CalendarNumbers
<1>5. \A m, n \in Int : m < n => Anchor(m) + DayLength <= Anchor(n)
  <2> SUFFICES ASSUME NEW m \in Int, NEW n \in Int, m < n
               PROVE  Anchor(m) + DayLength <= Anchor(n)
    OBVIOUS
  <2>1. (n - m - 1) * DayLength >= 0
    BY CalendarNumbers
  <2> QED
    BY <2>1, CalendarNumbers
<1> HIDE DEF Anchor
<1>6. DailyBar[s].open <= s - 1 /\ ~(DailyBar[s].close <= s - 1)
  <2>1. DailyBar[s].open = Cal!Localize(Anchor(p)) /\ DailyBar[s].close = Cal!Localize(Anchor(p) + DayLength)
    BY <1>1, <1>4
  <2>2. s - 1 \in Int /\ ~(Anchor(p) + DayLength <= Cal!WallClock(s - 1))
    BY <1>1, <1>3, <1>4
  <2> QED
    BY <1>1, <1>2, <1>3, <2>1, <2>2
<1>7. DailyBar[s].open \in Int /\ DailyBar[s].close \in Int
  BY <1>1, <1>2, <1>3, <1>4
<1>8. ASSUME DailyBar[s] = DailyBar[t] PROVE p = q
  <2>1. Cal!Localize(Anchor(p)) = Cal!Localize(Anchor(q))
    BY <1>1, <1>8
  <2>2. Anchor(q) <= Cal!WallClock(s - 1) /\ Anchor(p) <= Cal!WallClock(t - 1)
    <3>1. s - 1 \in Int /\ t - 1 \in Int
      BY <1>1
    <3> QED
      BY <1>1, <1>2, <1>3, <2>1, <3>1
  <2>3. ~(p < q)
    BY <1>1, <1>3, <1>4, <1>5, <2>2, CalendarNumbers
  <2>4. ~(q < p)
    BY <1>1, <1>3, <1>4, <1>5, <2>2, CalendarNumbers
  <2> QED
    BY <1>1, <2>3, <2>4
<1>9. ASSUME p = q PROVE DailyBar[s] = DailyBar[t]
  BY <1>1, <1>9
<1>10. DailyBar[s].open < s /\ s <= DailyBar[s].close
  BY <1>1, <1>6, <1>7
<1> QED
  BY <1>8, <1>9, <1>10 DEF p, q

\* The daily bars are cut where the wall clock passes the anchor, before and
\* after the clocks go forward, and each covers its base bars.
THEOREM DaysAreAlwaysLocal ==
  ASSUME SpringForward, QuietAnchor
  PROVE  Spec => []DaysAreLocal
<1>1. FeedInv => DaysAreLocal
  BY DailyBarCovers DEF DaysAreLocal
<1> QED
  BY <1>1, FeedInvariance, PTL

\* The daily bars of the resampler and the trading days of the calendar are the
\* same days of the feed, each by its own arithmetic.
THEOREM DaysAlwaysAgree ==
  ASSUME SpringForward, QuietAnchor
  PROVE  Spec => []DaysAgree
<1>1. FeedInv => DaysAgree
  <2> SUFFICES ASSUME FeedInv, NEW s \in history, NEW t \in history
               PROVE  DailyBar[s] = DailyBar[t] <=> Day[s] = Day[t]
    BY DEF DaysAgree
  <2>1. DailyBar[s] = DailyBar[t] <=> AnchoredDay(s) = AnchoredDay(t)
    BY DailyBarCovers
  <2>2. /\ AnchoredDay(s) \in Int /\ AnchoredDay(t) \in Int
        /\ Day[s] = AnchoredDay(s) + 1 /\ Day[t] = AnchoredDay(t) + 1
    BY DayOfStamp
  <2> QED
    BY <2>1, <2>2
<1> QED
  BY <1>1, FeedInvariance, PTL
=============================================================================
