----------------------------- MODULE Indicators -----------------------------
(***************************************************************************)
(* The indicator primitives (features/_ta.py), abstracted to their memory: *)
(* from which bar on a series is computed from nothing that is missing     *)
(* (need), and how many bars, counted back from its own, its value depends *)
(* on (reach).  What the numbers are does not matter here; which bars they *)
(* are made of decides how much history has to be loaded, dropped, kept in *)
(* a buffer and purged between folds.                                      *)
(***************************************************************************)
EXTENDS Integers

CONSTANT Forever   \* the reach of a series that never forgets, past any window

ASSUME ForeverAssumption == Forever \in Nat \ {0}

Larger(m, n) == IF m >= n THEN m ELSE n

-----------------------------------------------------------------------------
(***************************************************************************)
(* How pandas builds a series from others.                                 *)
(***************************************************************************)

\* A column of the frame itself.
Bar == [need |-> 1, reach |-> 1]

\* s + t, or any other operation bar by bar.
Both(s, t) == [need |-> Larger(s.need, t.need), reach |-> Larger(s.reach, t.reach)]

\* s.shift(k)
Lagged(s, k) == [need |-> s.need + k, reach |-> s.reach + k]

\* s.diff(k), s - s.shift(k)
Changed(s, k) == Both(s, Lagged(s, k))

\* s.rolling(w, min_periods=m)
Windowed(s, w, m) == [need |-> s.need + m - 1, reach |-> s.reach + w - 1]

Rolling(s, w) == Windowed(s, w, w)

\* s.ewm(adjust=False, min_periods=p)
Smoothed(s, p) == [need |-> s.need + p - 1, reach |-> Forever]

\* Whether a series depends on a bounded number of bars.
IsWindow(s) == s.reach < Forever

-----------------------------------------------------------------------------
Ema(s, p) == Smoothed(s, p)
Sma(s, p) == Rolling(s, p)
Wilder(s, p) == Smoothed(s, p)

RollingZscore(s, p) == Both(s, Rolling(s, p))

\* rolling_percentile ranks from a tenth of its window on.
MinRanked(w) == Larger(20, w \div 10)
RollingPercentile(s, w) == Windowed(s, w, MinRanked(w))

\* The maximum over what there is: without a previous close, the range alone.
TrueRange == [need |-> 1, reach |-> 2]
Atr(p) == Wilder(TrueRange, p)

RealizedVol(p) == Rolling(Changed(Bar, 1), p)

\* Parkinson and Garman-Klass.
RangeVol(p) == Rolling(Bar, p)

Rsi(p) == Wilder(Changed(Bar, 1), p)

MacdHistogram ==
  LET line == Both(Ema(Bar, 12), Ema(Bar, 26))
  IN  Both(line, Ema(line, 9))

StochasticK(p) == Both(Bar, Rolling(Bar, p))
StochasticD(p, smooth) == Rolling(StochasticK(p), smooth)

\* The deviations are averages of deviations from averages.
Cci(p) == Rolling(RollingZscore(Bar, p), p)

WilliamsR(p) == Both(Bar, Rolling(Bar, p))

\* directional_index: the indices and their smoothed difference.
Di(p) == Both(Wilder(Changed(Bar, 1), p), Atr(p))
Adx(p) == Wilder(Di(p), p)

EfficiencyRatio(p) == Both(Changed(Bar, p), Rolling(Changed(Bar, 1), p))

RollingLinreg(p) == Rolling(Bar, p)

HurstVarianceRatio(p) ==
  Both(Rolling(Changed(Bar, 1), p), Rolling(Changed(Bar, 8), p))

BollingerWidth(p) == Both(Sma(Bar, p), Rolling(Bar, p))
KeltnerWidth(p) == Both(Ema(Bar, p), Atr(p))

\* A sum from the first bar on.  A difference of it is the sum of the signed
\* volumes between, of which each needs the close before.
ObvChange(k) == Rolling(Changed(Bar, 1), k)
=============================================================================
