----------------------------- MODULE Transforms -----------------------------
(***************************************************************************)
(* What the transforms declare of their columns, what the columns are made *)
(* of, and what the engine does with the declarations: how many rows it    *)
(* drops, what it records in the manifest, how much a streaming driver     *)
(* keeps (features/price.py, volatility.py, volume.py, trend.py,           *)
(* patterns.py, engine.py).  Of the other transforms only the declarations *)
(* are here; their state is modelled bar by bar elsewhere.                 *)
(***************************************************************************)
EXTENDS Indicators, FiniteSetsExt

CONSTANTS FeatureConfigs, \* features configurations: records of their options
          Lengths,        \* bound: lengths the history is looked at
          DayBars,        \* bars of a trading day, fewer than the 288 of a whole one
          None

VARIABLES config,   \* the features configuration
          bars,     \* number of base bars there are
          matrix    \* what the last transform returned of its rows

vars == <<config, bars, matrix>>

-----------------------------------------------------------------------------
(***************************************************************************)
(* FeaturesConfig, with the bounds its schema puts on the options.  Tuples *)
(* of periods are sets, and have none.  The timeframes of the context are  *)
(* their ratios to the base one: a finer one is no context.                *)
(***************************************************************************)
Groups == {"price", "volatility", "volume", "trend", "patterns",
           "structure", "liquidity", "fvg", "order_blocks", "time"}

Above(n) == {k \in Nat : k > n}
Tuples == {S \in SUBSET Int : IsFiniteSet(S)}

FeaturesSchema ==
  {c \in [groups : SUBSET Groups, policy : {"drop", "mark"}, maxWarmup : Above(0),
          returns : Tuples, zscores : Tuples,
          atrs : Tuples, atr : Above(1), percentiles : Tuples, realized : Tuples,
          bb : Above(1), bbPct : Above(10),
          volumeMa : Tuples, volumeZ : Above(1), days : Above(1),
          emas : Tuples, slope : Above(0), adx : Above(1), rsi : Above(1),
          linreg : Tuples, efficiency : Above(1), hurst : Above(10),
          swing : 1 .. 10, memory : Above(1), range : Above(1), equal : Above(1),
          breakout : Above(1), momentum : Above(1), compression : Above(1),
          sessionDays : Above(1),
          ratios : {R \in Tuples : R \subseteq Above(0)}, htfGroups : SUBSET Groups,
          htfEmas : Tuples, htfPercentiles : Tuples] :
     c.atr \in c.atrs}

ASSUME TransformsAssumption ==
  FeatureConfigs \subseteq FeaturesSchema /\ DayBars \in 1 .. 287

-----------------------------------------------------------------------------
(***************************************************************************)
(* One column: its name, the lookback its FeatureSpec declares, and its    *)
(* memory.                                                                 *)
(***************************************************************************)
Column(name, lookback, memory) ==
  [name |-> name, lookback |-> lookback, need |-> memory.need, reach |-> memory.reach]

\* The canonical ATR of the context, which most columns are divided by.
InAtr(c, memory) == Both(memory, Atr(c.atr))

PriceColumns(c) ==
  {Column(<<name>>, 2, Changed(Bar, 1)) : name \in {"open_ret", "high_ret", "low_ret", "close_ret"}}
  \cup
  {Column(<<name>>, 1, Bar) : name \in {"body_ret", "range_ret", "upper_wick", "lower_wick",
                                        "body_to_range", "close_position"}}
  \cup
  {Column(<<"high_low_range_atr">>, 15, InAtr(c, Bar)),
   Column(<<"open_close_range_atr">>, 15, InAtr(c, Bar)),
   Column(<<"gap_atr">>, 15, InAtr(c, Changed(Bar, 1))),
   Column(<<"dist_sma_20_atr">>, 35, InAtr(c, Sma(Bar, 20)))}
  \cup
  {Column(<<"ret_atr", k>>, k + 15, InAtr(c, Changed(Bar, k))) : k \in c.returns}
  \cup
  {Column(<<"zscore_close", n>>, n, RollingZscore(Bar, n)) : n \in c.zscores}

VolatilityColumns(c) ==
  LET longest == Max(c.percentiles)
      Rank(w) == RollingPercentile(Atr(c.atr), w)
  IN  {Column(<<"atr", p>>, p + 1, Atr(p)) : p \in c.atrs}
      \cup {Column(<<"atr_percentile", w>>, w, Rank(w)) : w \in c.percentiles}
      \cup {Column(<<"realized_vol", p>>, p + 1, RealizedVol(p)) : p \in c.realized}
      \cup {Column(<<name>>, longest, Rank(longest)) :
              name \in {"vol_regime", "vol_regime_is_low", "vol_regime_is_normal",
                        "vol_regime_is_high", "vol_regime_is_extreme"}}
      \cup
      {Column(<<"atr_pct">>, 15, InAtr(c, Bar)),
       Column(<<"atr_ratio_fast_slow">>, Max(c.atrs) + 1, Both(Atr(Min(c.atrs)), Atr(Max(c.atrs)))),
       Column(<<"parkinson_vol_20">>, 21, RangeVol(20)),
       Column(<<"garman_klass_vol_20">>, 21, RangeVol(20)),
       Column(<<"vol_of_vol_50">>, 71, Rolling(RealizedVol(20), 50)),
       Column(<<"range_expansion">>, 21, Both(Bar, Sma(Bar, 20))),
       Column(<<"range_compression">>, 51, Both(Sma(Bar, 5), Sma(Bar, 50))),
       Column(<<"nr7">>, 7, Rolling(Bar, 7)),
       Column(<<"wr7">>, 7, Rolling(Bar, 7)),
       Column(<<"bb_width", c.bb>>, c.bb, BollingerWidth(c.bb)),
       Column(<<"bb_width_percentile", c.bbPct>>, c.bbPct,
              RollingPercentile(BollingerWidth(c.bb), c.bbPct)),
       Column(<<"squeeze_flag">>, c.bb + 1, Both(BollingerWidth(c.bb), KeltnerWidth(c.bb)))}

\* _relative_volume_by_time_of_day: occurrences of a minute are a day apart, and
\* the bar itself is left out of its median.
SameMinute(days) ==
  LET shown == Larger(3, days \div 4)
  IN  [need |-> DayBars * shown + 1, reach |-> DayBars * days + 1]

\* _session_vwap: the bars between sessions are one session that never ends.
SessionVwap == [need |-> 1, reach |-> Forever]

VolumeColumns(c) ==
  LET short == Min(c.volumeMa)
      long  == Max(c.volumeMa)
      expansion == Both(Sma(Bar, 5), Sma(Bar, long))
  IN  {Column(<<"volume_ma", p>>, p, Sma(Bar, p)) : p \in c.volumeMa}
      \cup {Column(<<"cvd_proxy", p>>, p + c.volumeZ, RollingZscore(Rolling(Bar, p), c.volumeZ)) :
              p \in {20, 50}}
      \cup
      {Column(<<"volume_ratio">>, short, Both(Bar, Sma(Bar, short))),
       Column(<<"volume_weighted_buy_pressure">>, short, Both(Bar, Sma(Bar, short))),
       Column(<<"relative_volume_tod">>, 288 * c.days, SameMinute(c.days)),
       Column(<<"volume_zscore", c.volumeZ>>, c.volumeZ, RollingZscore(Bar, c.volumeZ)),
       Column(<<"volume_expansion">>, long, expansion),
       Column(<<"volume_compression">>, long, expansion),
       Column(<<"buy_pressure">>, 1, Bar),
       Column(<<"obv_slope_20">>, 21, Both(ObvChange(20), Rolling(Bar, 20))),
       Column(<<"dist_vwap_atr">>, 1, InAtr(c, SessionVwap)),
       Column(<<"volume_is_missing">>, 1, Bar)}

\* _stack_score: missing as long as any of the averages is.
StackScore(emas) == Both(Ema(Bar, Min(emas)), Ema(Bar, Max(emas)))

\* _divergence: an oscillator that is missing would never confirm an extreme.
Divergence(oscillator, p) == Both(Rolling(Bar, p), Rolling(oscillator, p))

TrendColumns(c) ==
  LET longest == Max(c.emas)
      second  == Min(c.emas \ {Min(c.emas)})
      di == Di(c.adx)
  IN  {Column(<<"dist_ema_atr", p>>, p + 15, InAtr(c, Ema(Bar, p))) : p \in c.emas}
      \cup {Column(<<"ema_slope", p>>, p + c.slope + 15, InAtr(c, Changed(Ema(Bar, p), c.slope))) :
              p \in c.emas}
      \cup {Column(<<"linreg_slope_atr", p>>, p + 15, InAtr(c, RollingLinreg(p))) : p \in c.linreg}
      \cup {Column(<<"linreg_r2", p>>, p, RollingLinreg(p)) : p \in c.linreg}
      \cup {Column(<<name>>, 2 * c.adx, di) : name \in {"di_plus", "di_minus", "di_diff"}}
      \cup
      {Column(<<"ema_stack_score">>, longest, StackScore(c.emas)),
       Column(<<"ema_spread_atr", Min(c.emas), second>>, second + 15, InAtr(c, Ema(Bar, second))),
       Column(<<"ema_50_200_spread_atr">>, longest + 15, InAtr(c, Ema(Bar, longest))),
       Column(<<"adx">>, 3 * c.adx, Adx(c.adx)),
       Column(<<"adx_slope_5">>, 3 * c.adx + 5, Changed(Adx(c.adx), 5)),
       Column(<<"macd_hist_atr">>, 41, InAtr(c, MacdHistogram)),
       Column(<<"rsi">>, 2 * c.rsi, Rsi(c.rsi)),
       Column(<<"rsi_slope_5">>, 2 * c.rsi + 5, Changed(Rsi(c.rsi), 5)),
       Column(<<"rsi_divergence_20">>, 2 * c.rsi + 20, Divergence(Rsi(c.rsi), 20)),
       Column(<<"stoch_k_14">>, 15, StochasticK(14)),
       Column(<<"stoch_d_3">>, 18, StochasticD(14, 3)),
       Column(<<"cci_20_norm">>, 21, Cci(20)),
       Column(<<"williams_r_14">>, 15, WilliamsR(14)),
       Column(<<"efficiency_ratio">>, c.efficiency + 1, EfficiencyRatio(c.efficiency)),
       Column(<<"hurst_vr">>, c.hurst + 10, HurstVarianceRatio(c.hurst))}

\* _double_retest: the level before the bar, and the deepest push through it in
\* the bars before.
DoubleRetest(c) ==
  LET push == InAtr(c, Both(Bar, Lagged(Rolling(Bar, c.breakout), 1)))
  IN  Both(push, Windowed(Lagged(push, 1), c.breakout, 1))

PatternColumns(c) ==
  LET Sides(name, lookback, memory) ==
        {Column(<<name, side>>, lookback + 15, InAtr(c, memory)) : side \in {"bull", "bear"}}
  IN  Sides("engulf", 2, Changed(Bar, 1))
      \cup Sides("pinbar", 1, Bar)
      \cup Sides("rejection", 1, Bar)
      \cup Sides("breakout", c.breakout + 1, Both(Lagged(Rolling(Bar, c.breakout), 1), Sma(Bar, 20)))
      \cup Sides("momentum", c.momentum + 1, Rolling(Bar, c.momentum))
      \cup Sides("double_retest", c.breakout + 1, DoubleRetest(c))
      \cup {Column(<<"compression_strength">>, c.compression + 1, Rolling(Bar, c.compression))}

-----------------------------------------------------------------------------
(***************************************************************************)
(* The engine.                                                             *)
(***************************************************************************)

\* The columns of the groups that are abstracted to their memory.
ColumnsOf(group, c) ==
  CASE group = "price" -> PriceColumns(c)
    [] group = "volatility" -> VolatilityColumns(c)
    [] group = "volume" -> VolumeColumns(c)
    [] group = "trend" -> TrendColumns(c)
    [] group = "patterns" -> PatternColumns(c)
    [] OTHER -> {}

\* The longest lookback any other transform declares.
Declared(group, c) ==
  CASE group = "structure" -> Larger(c.range, c.memory * (2 * c.swing + 1))
    [] group = "liquidity" -> Larger(288, c.equal)
    [] group \in {"fvg", "order_blocks"} -> 3
    [] group = "time" -> 288 * c.sessionDays
    [] OTHER -> Max({column.lookback : column \in ColumnsOf(group, c)})

\* _htf_transforms: fewer groups, with options of their own.
HtfConfig(c) ==
  [c EXCEPT !.groups = c.groups \cap c.htfGroups,
            !.returns = {1, 3, 5}, !.zscores = {20},
            !.percentiles = c.htfPercentiles, !.bbPct = Max(c.htfPercentiles),
            !.emas = c.htfEmas, !.linreg = {20}, !.hurst = 50]

\* Transform.lookback, over the transforms of a list, which may be empty.
Lookback(c) == Max({Declared(group, c) : group \in c.groups} \cup {1})

\* Variant: lookbacks of higher timeframes in their own bars.
RequiredInOwnBars(c) ==
  Larger(Lookback(c), IF c.ratios = {} THEN 0 ELSE Lookback(HtfConfig(c)))

\* required_warmup_bars: every lookback in base bars.
RequiredWarmup(c) ==
  Larger(Lookback(c), IF c.ratios = {} THEN 0 ELSE Lookback(HtfConfig(c)) * Max(c.ratios))

Columns(c) == UNION {ColumnsOf(group, c) : group \in c.groups}

\* The base bars of a higher bar: a day has its breaks.
Span(ratio) == IF ratio = 288 THEN DayBars ELSE ratio

\* _compute_context: declared in base bars.  The row that reads furthest back is
\* that of the last base bar before the next higher bar closes.
HtfColumn(column, ratio) ==
  [column EXCEPT !.lookback = @ * ratio, !.need = @ * Span(ratio),
                 !.reach = IF IsWindow(column) THEN (@ + 1) * Span(ratio) - 1 ELSE @]

HtfColumns(c) == {HtfColumn(column, ratio) : column \in Columns(HtfConfig(c)), ratio \in c.ratios}

AllColumns(c) == Columns(c) \cup HtfColumns(c)

\* Variant: no margin.
UnmarginedSize(c) == Larger(RequiredWarmup(c), c.maxWarmup)

\* The buffer of StreamingFeatureEngine.
BufferSize(c) == (Larger(RequiredWarmup(c), c.maxWarmup) * 5) \div 4 + 10

Init ==
  /\ config \in FeatureConfigs
  /\ bars = 0
  /\ matrix = None

BarsClose ==
  /\ \E n \in Lengths : n > bars /\ bars' = n
  /\ UNCHANGED <<config, matrix>>

\* transform: the rows it keeps.  When there are no more bars than it would drop,
\* it drops none.
Transform ==
  LET required == RequiredWarmup(config)
      warmup   == IF required <= config.maxWarmup THEN required ELSE config.maxWarmup
      dropped  == IF config.policy = "drop" /\ warmup < bars THEN warmup ELSE 0
  IN  /\ bars > 0
      /\ matrix' = [dropped |-> dropped, bars |-> bars, maxLookback |-> required]
      /\ UNCHANGED <<config, bars>>

Next == BarsClose \/ Transform

Spec == Init /\ [][Next]_vars

-----------------------------------------------------------------------------
\* Unless the requirement was cut to max_warmup_bars, or the history was too short
\* to drop anything, every value of a row that is kept is computed from nothing
\* that is missing, in its own timeframe and in the higher ones.  Declared
\* lookbacks take the ATR to have a period of 14, whatever it is configured to.
KeptRowsAreSettled ==
  matrix # None /\ config.atr <= 14 /\ matrix.dropped = matrix.maxLookback
    => \A column \in AllColumns(config) : column.need <= matrix.dropped + 1

\* The buffer of a streaming driver holds every window of every base column, those
\* that are longer than what is declared of them, too.
LiveBufferHoldsWindows ==
  \A column \in Columns(config) : IsWindow(column) => column.reach <= BufferSize(config)

\* features/manifest.py:8 of max_lookback_bars, from which the purge between folds
\* is computed: rows that far apart have no bar in common, because a longer window
\* widens it.  It does not hold: the percentile of the Bollinger width is a window
\* over windows and declares the outer one alone.
PurgeCoversWindows ==
  matrix # None
    => \A column \in AllColumns(config) : IsWindow(column) => column.reach <= matrix.maxLookback

-----------------------------------------------------------------------------
(***************************************************************************)
(* What the theorems suppose of a configuration beyond its schema.         *)
(***************************************************************************)

\* Periods are of at least a bar; a column that is made of the longest period, or
\* of the two shortest, has them; and the median of a minute of the day is of three
\* days.  With most other options the transforms raise.
Computable(c) ==
  /\ \A periods \in {c.returns, c.zscores, c.atrs, c.percentiles, c.realized, c.volumeMa,
                     c.emas, c.linreg, c.htfEmas, c.htfPercentiles} :
       periods \subseteq Nat \ {0}
  /\ {} \notin {c.percentiles, c.volumeMa, c.htfPercentiles}
  /\ \A emas \in {c.emas, c.htfEmas} : \E p, q \in emas : p # q
  /\ c.days >= 3

\* Ranks of Bollinger widths, which declare the window of the ranks alone, begin
\* within what the longest given column of their group declares; and so does the
\* mean of twenty ranges by which a breakout is measured.
DeclaredForAll(c) ==
  /\ \A w \in {c.bbPct, Max(c.htfPercentiles)} : c.bb + MinRanked(w) <= Larger(71, w) + 1
  /\ c.breakout >= 4 \/ c.momentum >= 4

\* What the declaration of those ranks lacks fits into the margin of the buffer.
MarginForBands(c) ==
  c.bb <= Larger(RequiredWarmup(c), c.maxWarmup) \div 4 + 11
=============================================================================
