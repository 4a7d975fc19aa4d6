-------------------------- MODULE Transforms_proofs --------------------------
(***************************************************************************)
(* What the declared lookbacks are worth, for every configuration that the *)
(* schema admits and the transforms accept.                                *)
(***************************************************************************)
EXTENDS Transforms, FiniteSetTheorems, WellFoundedInduction, TLAPS

-----------------------------------------------------------------------------
(***************************************************************************)
(* Columns of one group.                                                   *)
(***************************************************************************)
Periods == Nat \ {0}

\* What the groups need to know of the options they are made of.
Options(c) ==
  /\ c.returns \subseteq Periods /\ c.zscores \subseteq Periods
  /\ c.atrs \subseteq Periods /\ c.percentiles \subseteq Periods /\ c.realized \subseteq Periods
  /\ c.volumeMa \subseteq Periods /\ c.emas \subseteq Periods /\ c.linreg \subseteq Periods
  /\ c.atr \in Periods /\ c.bb \in Periods /\ c.bbPct \in Periods /\ c.volumeZ \in Periods
  /\ c.slope \in Periods /\ c.adx \in Periods /\ c.rsi \in Periods
  /\ c.efficiency \in Periods /\ c.hurst \in Periods
  /\ c.breakout \in Periods /\ c.momentum \in Periods /\ c.compression \in Periods
  /\ c.days \in Nat /\ c.days >= 3
  /\ c.swing \in Periods /\ c.memory \in Periods /\ c.range \in Periods
  /\ c.equal \in Periods /\ c.sessionDays \in Periods
  /\ IsFiniteSet(c.returns) /\ IsFiniteSet(c.zscores) /\ IsFiniteSet(c.atrs)
  /\ IsFiniteSet(c.percentiles) /\ IsFiniteSet(c.realized) /\ IsFiniteSet(c.volumeMa)
  /\ IsFiniteSet(c.emas) /\ IsFiniteSet(c.linreg)
  /\ Max(c.percentiles) \in c.percentiles
  /\ Min(c.atrs) \in c.atrs /\ Max(c.atrs) \in c.atrs
  /\ Min(c.volumeMa) \in c.volumeMa /\ Max(c.volumeMa) \in c.volumeMa
  /\ Min(c.emas) \in c.emas /\ Max(c.emas) \in c.emas
  /\ Min(c.emas \ {Min(c.emas)}) \in c.emas

\* The declared length is enough for what the property asks of it.
Settles(c) == c.atr <= 14 /\ DeclaredForAll(c)

\* A column needs no more than a length and, if it is a window, reaches no further
\* but for a window of Bollinger bands.
Fits(column, c, l) ==
  /\ column.need \in Nat /\ column.reach \in Nat
  /\ Settles(c) => column.need <= l
  /\ IsWindow(column) => column.reach <= l + c.bb - 1

LEMMA PriceFits ==
  ASSUME NEW c, Options(c), NEW l \in Int, \A d \in PriceColumns(c) : d.lookback <= l,
         NEW column \in PriceColumns(c)
  PROVE  Fits(column, c, l)
<1>1. 35 <= l
  <2>1. Column(<<"dist_sma_20_atr">>, 35, InAtr(c, Sma(Bar, 20))) \in PriceColumns(c)
    BY DEF PriceColumns
  <2> QED
    BY <2>1 DEF Column
<1>2. /\ Forever \in Nat /\ c.bb \in Nat /\ c.bb >= 1
      /\ c.atr \in Nat /\ c.atr >= 1 /\ (Settles(c) => c.atr <= 14)
  BY ForeverAssumption DEF Options, Periods, Settles
<1> USE DEF Column, InAtr, Fits, Bar, Both, Lagged, Changed, Windowed, Rolling, Smoothed,
            IsWindow, Sma, Wilder, RollingZscore, TrueRange, Atr, Larger
<1>3. CASE \E name \in {"open_ret", "high_ret", "low_ret", "close_ret"} :
             column = Column(<<name>>, 2, Changed(Bar, 1))
  BY <1>1, <1>2, <1>3
<1>4. CASE \E name \in {"body_ret", "range_ret", "upper_wick", "lower_wick",
                        "body_to_range", "close_position"} : column = Column(<<name>>, 1, Bar)
  BY <1>1, <1>2, <1>4
<1>5. CASE column \in {Column(<<"high_low_range_atr">>, 15, InAtr(c, Bar)),
                       Column(<<"open_close_range_atr">>, 15, InAtr(c, Bar)),
                       Column(<<"gap_atr">>, 15, InAtr(c, Changed(Bar, 1))),
                       Column(<<"dist_sma_20_atr">>, 35, InAtr(c, Sma(Bar, 20)))}
  BY <1>1, <1>2, <1>5
<1>6. ASSUME NEW k \in c.returns,
             column = Column(<<"ret_atr", k>>, k + 15, InAtr(c, Changed(Bar, k)))
      PROVE  Fits(column, c, l)
  <2>1. k \in Nat /\ k >= 1 /\ k + 15 <= l
    BY <1>6 DEF Options, Periods
  <2> QED
    BY <1>2, <1>6, <2>1
<1>7. ASSUME NEW n \in c.zscores,
             column = Column(<<"zscore_close", n>>, n, RollingZscore(Bar, n))
      PROVE  Fits(column, c, l)
  <2>1. n \in Nat /\ n >= 1 /\ n <= l
    BY <1>7 DEF Options, Periods
  <2> QED
    BY <1>2, <1>7, <2>1
<1> QED
  BY <1>3, <1>4, <1>5, <1>6, <1>7, ZenonT(40) DEF PriceColumns

LEMMA VolatilityFits ==
  ASSUME NEW c, Options(c), NEW l \in Int, \A d \in VolatilityColumns(c) : d.lookback <= l,
         NEW column \in VolatilityColumns(c)
  PROVE  Fits(column, c, l)
<1> DEFINE longest == Max(c.percentiles)
           Rank(w) == RollingPercentile(Atr(c.atr), w)
<1>1. 71 <= l
  <2>1. Column(<<"vol_of_vol_50">>, 71, Rolling(RealizedVol(20), 50)) \in VolatilityColumns(c)
    BY DEF VolatilityColumns
  <2> QED
    BY <2>1 DEF Column
<1>2. /\ Forever \in Nat /\ c.bb \in Nat /\ c.bb >= 1 /\ c.bbPct \in Nat /\ c.bbPct >= 1
      /\ c.atr \in Nat /\ c.atr >= 1 /\ (Settles(c) => c.atr <= 14)
      /\ Settles(c) => c.bb + MinRanked(c.bbPct) <= Larger(71, c.bbPct) + 1
  BY ForeverAssumption DEF Options, Periods, Settles, DeclaredForAll
<1>3. /\ \A p \in c.atrs : p \in Nat /\ p >= 1 /\ p + 1 <= l
      /\ \A p \in c.realized : p \in Nat /\ p >= 1 /\ p + 1 <= l
      /\ \A w \in c.percentiles : w \in Nat /\ w >= 1 /\ w <= l
  <2>1. \A p \in c.atrs : Column(<<"atr", p>>, p + 1, Atr(p)) \in VolatilityColumns(c)
    BY DEF VolatilityColumns
  <2>2. \A p \in c.realized : Column(<<"realized_vol", p>>, p + 1, RealizedVol(p)) \in VolatilityColumns(c)
    BY DEF VolatilityColumns
  <2>3. \A w \in c.percentiles : Column(<<"atr_percentile", w>>, w, Rank(w)) \in VolatilityColumns(c)
    BY DEF VolatilityColumns
  <2>4. /\ \A p \in c.atrs : p + 1 <= l
        /\ \A p \in c.realized : p + 1 <= l
        /\ \A w \in c.percentiles : w <= l
    BY <2>1, <2>2, <2>3 DEF Column
  <2> QED
    BY <2>4 DEF Options, Periods
<1>4. longest \in c.percentiles /\ Min(c.atrs) \in c.atrs /\ Max(c.atrs) \in c.atrs
  BY DEF Options
<1>5. c.bb + 1 <= l /\ c.bbPct <= l
  <2>1. Column(<<"squeeze_flag">>, c.bb + 1, Both(BollingerWidth(c.bb), KeltnerWidth(c.bb)))
          \in VolatilityColumns(c)
    BY DEF VolatilityColumns
  <2>2. Column(<<"bb_width_percentile", c.bbPct>>, c.bbPct,
               RollingPercentile(BollingerWidth(c.bb), c.bbPct)) \in VolatilityColumns(c)
    BY DEF VolatilityColumns
  <2> QED
    BY <2>1, <2>2 DEF Column
<1> HIDE DEF longest
<1> USE DEF Column, InAtr, Fits, Bar, Both, Lagged, Changed, Windowed, Rolling, Smoothed,
            IsWindow, Sma, Ema, Wilder, TrueRange, Atr, RealizedVol, RangeVol, Larger
<1>6. ASSUME NEW name, NEW look, NEW w \in c.percentiles, column = Column(name, look, Rank(w))
      PROVE  Fits(column, c, l)
  <2>1. w \in Nat /\ w >= 1 /\ w <= l
    BY <1>3
  <2>2. w \div 10 \in Nat /\ w \div 10 <= w /\ (w >= 20 => w \div 10 <= w - 18)
    BY <2>1
  <2> QED
    BY <1>1, <1>2, <1>6, <2>1, <2>2 DEF RollingPercentile, MinRanked
<1>7. ASSUME NEW p \in c.atrs, column = Column(<<"atr", p>>, p + 1, Atr(p))
      PROVE  Fits(column, c, l)
  BY <1>2, <1>3, <1>7
<1>8. ASSUME NEW p \in c.realized, column = Column(<<"realized_vol", p>>, p + 1, RealizedVol(p))
      PROVE  Fits(column, c, l)
  BY <1>2, <1>3, <1>8
<1>9. CASE column \in
             {Column(<<"atr_pct">>, 15, InAtr(c, Bar)),
              Column(<<"parkinson_vol_20">>, 21, RangeVol(20)),
              Column(<<"garman_klass_vol_20">>, 21, RangeVol(20)),
              Column(<<"vol_of_vol_50">>, 71, Rolling(RealizedVol(20), 50)),
              Column(<<"range_expansion">>, 21, Both(Bar, Sma(Bar, 20))),
              Column(<<"range_compression">>, 51, Both(Sma(Bar, 5), Sma(Bar, 50))),
              Column(<<"nr7">>, 7, Rolling(Bar, 7)),
              Column(<<"wr7">>, 7, Rolling(Bar, 7))}
  BY <1>1, <1>2, <1>9
<1>10. CASE column = Column(<<"atr_ratio_fast_slow">>, Max(c.atrs) + 1,
                            Both(Atr(Min(c.atrs)), Atr(Max(c.atrs))))
  <2> DEFINE fast == Min(c.atrs)
             slow == Max(c.atrs)
  <2>1. fast \in Nat /\ fast >= 1 /\ fast + 1 <= l /\ slow \in Nat /\ slow >= 1 /\ slow + 1 <= l
    BY <1>3, <1>4
  <2> HIDE DEF fast, slow
  <2>2. column = Column(<<"atr_ratio_fast_slow">>, slow + 1, Both(Atr(fast), Atr(slow)))
    BY <1>10 DEF fast, slow
  <2> QED
    BY <1>2, <2>1, <2>2
<1>11. CASE column \in {Column(<<"bb_width", c.bb>>, c.bb, BollingerWidth(c.bb)),
                        Column(<<"squeeze_flag">>, c.bb + 1,
                               Both(BollingerWidth(c.bb), KeltnerWidth(c.bb)))}
  BY <1>2, <1>5, <1>11 DEF BollingerWidth, KeltnerWidth
<1>12. CASE column = Column(<<"bb_width_percentile", c.bbPct>>, c.bbPct,
                            RollingPercentile(BollingerWidth(c.bb), c.bbPct))
  <2> DEFINE m == MinRanked(c.bbPct)
  <2>1. m \in Nat /\ m >= 20
    <3>1. c.bbPct \div 10 \in Int
      BY <1>2
    <3> QED
      BY <3>1 DEF MinRanked
  <2> HIDE DEF m
  <2>2. column.need = c.bb + m - 1 /\ column.reach = c.bb + c.bbPct - 1
    BY <1>2, <1>12, <2>1 DEF RollingPercentile, BollingerWidth, m
  <2>3. Settles(c) => c.bb + m <= Larger(71, c.bbPct) + 1
    BY <1>2 DEF m
  <2> QED
    BY <1>1, <1>2, <1>5, <2>1, <2>2, <2>3
<1>13. ASSUME NEW name, column = Column(<<name>>, longest, Rank(longest))
       PROVE  Fits(column, c, l)
  BY <1>4, <1>6, <1>13
<1> HIDE DEF Column, InAtr, Fits, Bar, Both, Lagged, Changed, Windowed, Rolling, Smoothed,
             IsWindow, Sma, Ema, Wilder, TrueRange, Atr, RealizedVol, RangeVol, Larger
<1> QED
  BY <1>6, <1>7, <1>8, <1>9, <1>10, <1>11, <1>12, <1>13, ZenonT(40)
  DEF VolatilityColumns, longest

LEMMA VolumeFits ==
  ASSUME NEW c, Options(c), NEW l \in Int, \A d \in VolumeColumns(c) : d.lookback <= l,
         NEW column \in VolumeColumns(c)
  PROVE  Fits(column, c, l)
<1> DEFINE short == Min(c.volumeMa)
           long  == Max(c.volumeMa)
           expansion == Both(Sma(Bar, 5), Sma(Bar, long))
<1>1. 21 <= l
  <2>1. Column(<<"obv_slope_20">>, 21, Both(ObvChange(20), Rolling(Bar, 20))) \in VolumeColumns(c)
    BY DEF VolumeColumns
  <2> QED
    BY <2>1 DEF Column
<1>2. /\ Forever \in Nat /\ c.bb \in Nat /\ c.bb >= 1 /\ c.volumeZ \in Nat /\ c.volumeZ >= 1
      /\ c.atr \in Nat /\ c.atr >= 1 /\ (Settles(c) => c.atr <= 14)
  BY ForeverAssumption DEF Options, Periods, Settles
<1>3. \A p \in c.volumeMa : p \in Nat /\ p >= 1 /\ p <= l
  <2>1. \A p \in c.volumeMa : Column(<<"volume_ma", p>>, p, Sma(Bar, p)) \in VolumeColumns(c)
    BY DEF VolumeColumns
  <2>2. \A p \in c.volumeMa : p <= l
    BY <2>1 DEF Column
  <2> QED
    BY <2>2 DEF Options, Periods
<1>4. /\ short \in Nat /\ short >= 1 /\ short <= l /\ long \in Nat /\ long >= 1 /\ long <= l
  BY <1>3 DEF Options
<1> HIDE DEF short, long
<1> USE DEF Column, InAtr, Fits, Bar, Both, Lagged, Changed, Windowed, Rolling, Smoothed,
            IsWindow, Sma, RollingZscore, Wilder, TrueRange, Atr, Larger
<1>5. ASSUME NEW p \in c.volumeMa, column = Column(<<"volume_ma", p>>, p, Sma(Bar, p))
      PROVE  Fits(column, c, l)
  BY <1>2, <1>3, <1>5
<1>6. ASSUME NEW p \in {20, 50},
             column = Column(<<"cvd_proxy", p>>, p + c.volumeZ, RollingZscore(Rolling(Bar, p), c.volumeZ))
      PROVE  Fits(column, c, l)
  <2>1. p + c.volumeZ <= l /\ p \in Nat /\ p >= 1
    BY <1>6
  <2> QED
    BY <1>2, <1>6, <2>1
<1>7. CASE column \in {Column(<<"volume_ratio">>, short, Both(Bar, Sma(Bar, short))),
                       Column(<<"volume_weighted_buy_pressure">>, short, Both(Bar, Sma(Bar, short)))}
  BY <1>2, <1>4, <1>7
<1>8. CASE column = Column(<<"relative_volume_tod">>, 288 * c.days, SameMinute(c.days))
  <2> DEFINE shown == Larger(3, c.days \div 4)
  <2>1. c.days \in Nat /\ c.days >= 3 /\ DayBars \in Nat /\ DayBars >= 1 /\ DayBars <= 287
    BY TransformsAssumption DEF Options
  <2>2. shown \in Nat /\ shown <= c.days
    <3>1. c.days \div 4 \in Nat /\ c.days \div 4 <= c.days
      BY <2>1
    <3> QED
      BY <2>1, <3>1
  <2>3. 288 * c.days <= l
    BY <1>8
  <2>4. column.need = DayBars * shown + 1 /\ column.reach = DayBars * c.days + 1
    BY <1>8 DEF SameMinute
  <2> HIDE DEF shown
  <2>5. \A n \in Nat : n <= c.days => DayBars * n \in Nat /\ DayBars * n + 1 <= 288 * c.days
    <3> TAKE n \in Nat
    <3> HAVE n <= c.days
    <3>1. DayBars * n \in Nat /\ (287 - DayBars) * n >= 0
      BY <2>1
    <3>2. (287 - DayBars) * n = 287 * n - DayBars * n
      BY <2>1
    <3> QED
      BY <2>1, <3>1, <3>2
  <2>6. /\ DayBars * shown \in Nat /\ DayBars * shown + 1 <= l
        /\ DayBars * c.days \in Nat /\ DayBars * c.days + 1 <= l
    BY <2>1, <2>2, <2>3, <2>5
  <2> QED
    BY <1>2, <2>4, <2>6
<1>9. CASE column = Column(<<"volume_zscore", c.volumeZ>>, c.volumeZ, RollingZscore(Bar, c.volumeZ))
  BY <1>2, <1>9
<1>10. CASE column \in {Column(<<"volume_expansion">>, long, expansion),
                        Column(<<"volume_compression">>, long, expansion)}
  BY <1>1, <1>2, <1>4, <1>10
<1>11. CASE column \in {Column(<<"buy_pressure">>, 1, Bar),
                        Column(<<"obv_slope_20">>, 21, Both(ObvChange(20), Rolling(Bar, 20))),
                        Column(<<"dist_vwap_atr">>, 1, InAtr(c, SessionVwap)),
                        Column(<<"volume_is_missing">>, 1, Bar)}
  BY <1>1, <1>2, <1>11 DEF ObvChange, SessionVwap
<1> HIDE DEF Column, InAtr, Fits, Bar, Both, Lagged, Changed, Windowed, Rolling, Smoothed,
             IsWindow, Sma, RollingZscore, Wilder, TrueRange, Atr, Larger
<1> QED
  BY <1>5, <1>6, <1>7, <1>8, <1>9, <1>10, <1>11, ZenonT(40)
  DEF VolumeColumns, short, long

LEMMA TrendFits ==
  ASSUME NEW c, Options(c), NEW l \in Int, \A d \in TrendColumns(c) : d.lookback <= l,
         NEW column \in TrendColumns(c)
  PROVE  Fits(column, c, l)
<1> DEFINE shortest == Min(c.emas)
           longest == Max(c.emas)
           second  == Min(c.emas \ {Min(c.emas)})
           di == Di(c.adx)
<1>1. 41 <= l
  <2>1. Column(<<"macd_hist_atr">>, 41, InAtr(c, MacdHistogram)) \in TrendColumns(c)
    BY DEF TrendColumns
  <2> QED
    BY <2>1 DEF Column
<1>2. /\ Forever \in Nat /\ c.bb \in Nat /\ c.bb >= 1
      /\ c.atr \in Nat /\ c.atr >= 1 /\ (Settles(c) => c.atr <= 14)
  BY ForeverAssumption DEF Options, Periods, Settles
<1>3. /\ c.slope \in Nat /\ c.slope >= 1 /\ c.adx \in Nat /\ c.adx >= 1 /\ c.rsi \in Nat /\ c.rsi >= 1
      /\ c.efficiency \in Nat /\ c.efficiency >= 1 /\ c.hurst \in Nat /\ c.hurst >= 1
  BY DEF Options, Periods
<1>4. /\ \A p \in c.emas : p \in Nat /\ p >= 1 /\ p + c.slope + 15 <= l
      /\ \A p \in c.linreg : p \in Nat /\ p >= 1 /\ p <= l
  <2>1. \A p \in c.emas :
          Column(<<"ema_slope", p>>, p + c.slope + 15, InAtr(c, Changed(Ema(Bar, p), c.slope)))
            \in TrendColumns(c)
    BY DEF TrendColumns
  <2>2. \A p \in c.linreg : Column(<<"linreg_r2", p>>, p, RollingLinreg(p)) \in TrendColumns(c)
    BY DEF TrendColumns
  <2>3. /\ \A p \in c.emas : p + c.slope + 15 <= l
        /\ \A p \in c.linreg : p <= l
    BY <2>1, <2>2 DEF Column
  <2> QED
    BY <2>3 DEF Options, Periods
<1>5. shortest \in c.emas /\ longest \in c.emas /\ second \in c.emas
  BY DEF Options
<1> HIDE DEF shortest, longest, second
<1> USE DEF Column, InAtr, Fits, Bar, Both, Lagged, Changed, Windowed, Rolling, Smoothed,
            IsWindow, Sma, Ema, RollingZscore, Wilder, TrueRange, Atr, Larger
<1>6. ASSUME NEW name, NEW look, NEW p \in c.emas, column = Column(name, look, InAtr(c, Ema(Bar, p)))
      PROVE  Fits(column, c, l)
  BY <1>1, <1>2, <1>3, <1>4, <1>6
<1>7. ASSUME NEW p \in c.emas,
             column = Column(<<"ema_slope", p>>, p + c.slope + 15, InAtr(c, Changed(Ema(Bar, p), c.slope)))
      PROVE  Fits(column, c, l)
  BY <1>1, <1>2, <1>3, <1>4, <1>7
<1>8. ASSUME NEW p \in c.linreg,
             \/ column = Column(<<"linreg_slope_atr", p>>, p + 15, InAtr(c, RollingLinreg(p)))
             \/ column = Column(<<"linreg_r2", p>>, p, RollingLinreg(p))
      PROVE  Fits(column, c, l)
  BY <1>1, <1>2, <1>4, <1>8 DEF RollingLinreg
<1>9. CASE \/ \E name \in {"di_plus", "di_minus", "di_diff"} : column = Column(<<name>>, 2 * c.adx, di)
           \/ column = Column(<<"adx">>, 3 * c.adx, Adx(c.adx))
           \/ column = Column(<<"adx_slope_5">>, 3 * c.adx + 5, Changed(Adx(c.adx), 5))
  <2>1. /\ di.need = c.adx + 1 /\ di.reach \in Nat /\ di.reach >= Forever
        /\ Adx(c.adx).need = 2 * c.adx /\ Adx(c.adx).reach = Forever
    BY <1>2, <1>3 DEF Di, Adx
  <2> DEFINE adx == Adx(c.adx)
  <2> HIDE DEF di, adx
  <2>2. \/ \E name \in {"di_plus", "di_minus", "di_diff"} : column = Column(<<name>>, 2 * c.adx, di)
        \/ column = Column(<<"adx">>, 3 * c.adx, adx)
        \/ column = Column(<<"adx_slope_5">>, 3 * c.adx + 5, Changed(adx, 5))
    BY <1>9 DEF adx
  <2>3. adx.need = 2 * c.adx /\ adx.reach = Forever
    BY <2>1 DEF adx
  <2> QED
    BY <1>1, <1>2, <1>3, <2>1, <2>2, <2>3
<1>10. CASE \/ column = Column(<<"rsi">>, 2 * c.rsi, Rsi(c.rsi))
            \/ column = Column(<<"rsi_slope_5">>, 2 * c.rsi + 5, Changed(Rsi(c.rsi), 5))
            \/ column = Column(<<"rsi_divergence_20">>, 2 * c.rsi + 20, Divergence(Rsi(c.rsi), 20))
  BY <1>1, <1>2, <1>3, <1>10 DEF Rsi, Divergence
<1>11. CASE column = Column(<<"ema_stack_score">>, longest, StackScore(c.emas))
  <2>1. column = Column(<<"ema_stack_score">>, longest, Both(Ema(Bar, shortest), Ema(Bar, longest)))
    BY <1>11 DEF StackScore, shortest, longest
  <2>2. /\ shortest \in Nat /\ shortest >= 1 /\ shortest <= l /\ longest \in Nat /\ longest >= 1 /\ longest <= l
    BY <1>3, <1>4, <1>5
  <2> QED
    BY <1>1, <1>2, <2>1, <2>2
<1>12. CASE column \in {Column(<<"macd_hist_atr">>, 41, InAtr(c, MacdHistogram)),
                        Column(<<"stoch_k_14">>, 15, StochasticK(14)),
                        Column(<<"stoch_d_3">>, 18, StochasticD(14, 3)),
                        Column(<<"cci_20_norm">>, 21, Cci(20)),
                        Column(<<"williams_r_14">>, 15, WilliamsR(14))}
  <2>1. CASE column = Column(<<"macd_hist_atr">>, 41, InAtr(c, MacdHistogram))
    <3> DEFINE histogram == MacdHistogram
    <3>1. Ema(Bar, 12) = [need |-> 12, reach |-> Forever] /\ Ema(Bar, 26) = [need |-> 26, reach |-> Forever]
      OBVIOUS
    <3>2. Both(Ema(Bar, 12), Ema(Bar, 26)) = [need |-> 26, reach |-> Forever]
      BY <1>2, <3>1
    <3>3. histogram = [need |-> 34, reach |-> Forever]
      BY <1>2, <3>2 DEF MacdHistogram
    <3> HIDE DEF histogram
    <3>4. column = Column(<<"macd_hist_atr">>, 41, InAtr(c, histogram))
      BY <2>1 DEF histogram
    <3> QED
      BY <1>1, <1>2, <3>3, <3>4
  <2>2. CASE \/ column = Column(<<"stoch_k_14">>, 15, StochasticK(14))
             \/ column = Column(<<"stoch_d_3">>, 18, StochasticD(14, 3))
    BY <1>1, <1>2, <2>2 DEF StochasticK, StochasticD
  <2>3. CASE \/ column = Column(<<"cci_20_norm">>, 21, Cci(20))
             \/ column = Column(<<"williams_r_14">>, 15, WilliamsR(14))
    BY <1>1, <1>2, <2>3 DEF Cci, WilliamsR
  <2> QED
    BY <1>12, <2>1, <2>2, <2>3, Zenon
<1>13. CASE \/ column = Column(<<"efficiency_ratio">>, c.efficiency + 1, EfficiencyRatio(c.efficiency))
            \/ column = Column(<<"hurst_vr">>, c.hurst + 10, HurstVarianceRatio(c.hurst))
  BY <1>1, <1>2, <1>3, <1>13 DEF EfficiencyRatio, HurstVarianceRatio
<1> HIDE DEF Column, InAtr, Fits, Bar, Both, Lagged, Changed, Windowed, Rolling, Smoothed,
             IsWindow, Sma, Ema, RollingZscore, Wilder, TrueRange, Atr, Larger
<1>14. \/ \E p \in c.emas : column = Column(<<"dist_ema_atr", p>>, p + 15, InAtr(c, Ema(Bar, p)))
       \/ \E p \in c.emas : column = Column(<<"ema_slope", p>>, p + c.slope + 15,
                                            InAtr(c, Changed(Ema(Bar, p), c.slope)))
       \/ \E p \in c.linreg :
             \/ column = Column(<<"linreg_slope_atr", p>>, p + 15, InAtr(c, RollingLinreg(p)))
             \/ column = Column(<<"linreg_r2", p>>, p, RollingLinreg(p))
       \/ \E name \in {"di_plus", "di_minus", "di_diff"} : column = Column(<<name>>, 2 * c.adx, di)
       \/ column = Column(<<"adx">>, 3 * c.adx, Adx(c.adx))
       \/ column = Column(<<"adx_slope_5">>, 3 * c.adx + 5, Changed(Adx(c.adx), 5))
       \/ column = Column(<<"rsi">>, 2 * c.rsi, Rsi(c.rsi))
       \/ column = Column(<<"rsi_slope_5">>, 2 * c.rsi + 5, Changed(Rsi(c.rsi), 5))
       \/ column = Column(<<"rsi_divergence_20">>, 2 * c.rsi + 20, Divergence(Rsi(c.rsi), 20))
       \/ column = Column(<<"ema_stack_score">>, longest, StackScore(c.emas))
       \/ column = Column(<<"ema_spread_atr", shortest, second>>, second + 15, InAtr(c, Ema(Bar, second)))
       \/ column = Column(<<"ema_50_200_spread_atr">>, longest + 15, InAtr(c, Ema(Bar, longest)))
       \/ column \in {Column(<<"macd_hist_atr">>, 41, InAtr(c, MacdHistogram)),
                      Column(<<"stoch_k_14">>, 15, StochasticK(14)),
                      Column(<<"stoch_d_3">>, 18, StochasticD(14, 3)),
                      Column(<<"cci_20_norm">>, 21, Cci(20)),
                      Column(<<"williams_r_14">>, 15, WilliamsR(14))}
       \/ column = Column(<<"efficiency_ratio">>, c.efficiency + 1, EfficiencyRatio(c.efficiency))
       \/ column = Column(<<"hurst_vr">>, c.hurst + 10, HurstVarianceRatio(c.hurst))
  BY DEF TrendColumns, shortest, longest, second
<1> QED
  BY <1>5, <1>6, <1>7, <1>8, <1>9, <1>10, <1>11, <1>12, <1>13, <1>14

LEMMA PatternsFit ==
  ASSUME NEW c, Options(c), NEW l \in Int, \A d \in PatternColumns(c) : d.lookback <= l,
         NEW column \in PatternColumns(c)
  PROVE  Fits(column, c, l)
<1> DEFINE Side(name, lookback, memory, side) ==
             Column(<<name, side>>, lookback + 15, InAtr(c, memory))
           breakout == Both(Lagged(Rolling(Bar, c.breakout), 1), Sma(Bar, 20))
<1>1. /\ Forever \in Nat /\ c.bb \in Nat /\ c.bb >= 1
      /\ c.atr \in Nat /\ c.atr >= 1 /\ (Settles(c) => c.atr <= 14)
      /\ c.breakout \in Nat /\ c.breakout >= 1 /\ c.momentum \in Nat /\ c.momentum >= 1
      /\ c.compression \in Nat /\ c.compression >= 1
      /\ Settles(c) => c.breakout >= 4 \/ c.momentum >= 4
  BY ForeverAssumption DEF Options, Periods, Settles, DeclaredForAll
<1>2. 17 <= l /\ c.breakout + 16 <= l /\ c.momentum + 16 <= l /\ c.compression + 1 <= l
  <2>1. Side("engulf", 2, Changed(Bar, 1), "bull") \in PatternColumns(c)
    BY DEF PatternColumns
  <2>2. Side("breakout", c.breakout + 1, breakout, "bull") \in PatternColumns(c)
    BY DEF PatternColumns
  <2>3. Side("momentum", c.momentum + 1, Rolling(Bar, c.momentum), "bull") \in PatternColumns(c)
    BY DEF PatternColumns
  <2>4. Column(<<"compression_strength">>, c.compression + 1, Rolling(Bar, c.compression))
          \in PatternColumns(c)
    BY DEF PatternColumns
  <2>5. 2 + 15 <= l /\ c.breakout + 1 + 15 <= l /\ c.momentum + 1 + 15 <= l /\ c.compression + 1 <= l
    BY <2>1, <2>2, <2>3, <2>4 DEF Column
  <2> QED
    BY <1>1, <2>5
<1> USE DEF Column, InAtr, Fits, Bar, Both, Lagged, Changed, Windowed, Rolling, Smoothed,
            IsWindow, Sma, Wilder, TrueRange, Atr, Larger
<1>3. ASSUME NEW side, \/ column = Side("engulf", 2, Changed(Bar, 1), side)
                       \/ column = Side("pinbar", 1, Bar, side)
                       \/ column = Side("rejection", 1, Bar, side)
      PROVE  Fits(column, c, l)
  BY <1>1, <1>2, <1>3
<1>4. ASSUME NEW side, column = Side("breakout", c.breakout + 1, breakout, side)
      PROVE  Fits(column, c, l)
  BY <1>1, <1>2, <1>4
<1>5. ASSUME NEW side, column = Side("momentum", c.momentum + 1, Rolling(Bar, c.momentum), side)
      PROVE  Fits(column, c, l)
  BY <1>1, <1>2, <1>5
<1>6. ASSUME NEW side, column = Side("double_retest", c.breakout + 1, DoubleRetest(c), side)
      PROVE  Fits(column, c, l)
  <2> DEFINE push == InAtr(c, Both(Bar, Lagged(Rolling(Bar, c.breakout), 1)))
  <2>1. /\ push.need \in Nat /\ push.need <= Larger(c.atr, c.breakout + 1)
        /\ push.reach \in Nat /\ push.reach >= Forever
    BY <1>1
  <2>2. DoubleRetest(c) = Both(push, Windowed(Lagged(push, 1), c.breakout, 1))
    BY DEF DoubleRetest
  <2> HIDE DEF push
  <2>3. /\ DoubleRetest(c).need \in Nat /\ DoubleRetest(c).need <= Larger(c.atr, c.breakout + 1) + 1
        /\ DoubleRetest(c).reach \in Nat /\ DoubleRetest(c).reach >= Forever
    BY <1>1, <2>1, <2>2
  <2> QED
    BY <1>1, <1>2, <1>6, <2>3
<1>7. CASE column = Column(<<"compression_strength">>, c.compression + 1, Rolling(Bar, c.compression))
  BY <1>1, <1>2, <1>7
<1> HIDE DEF Column, InAtr, Fits, Bar, Both, Lagged, Changed, Windowed, Rolling, Smoothed,
             IsWindow, Sma, Wilder, TrueRange, Atr, Larger
<1> QED
  BY <1>3, <1>4, <1>5, <1>6, <1>7 DEF PatternColumns

-----------------------------------------------------------------------------
(***************************************************************************)
(* Finite sets of lengths, and what the engine makes of them.              *)
(***************************************************************************)
LEMMA LeastNumber ==
  ASSUME NEW T, T \subseteq Nat, T # {}
  PROVE  Min(T) \in T /\ \A m \in T : Min(T) <= m
<1>1. PICK n \in T : \A m \in T : ~ (<<m, n>> \in OpToRel(<, Nat))
  BY NatLessThanWellFounded, WFMin
<1>2. \A m \in T : ~(m < n)
  BY <1>1 DEF OpToRel
<1>3. \A m \in T : n <= m
  BY <1>2
<1> QED
  BY <1>3 DEF Min

LEMMA BoundedHasMax ==
  ASSUME NEW T, T \subseteq Int, T # {}, NEW b \in Int, \A x \in T : x <= b
  PROVE  Max(T) \in T /\ \A x \in T : x <= Max(T)
<1> DEFINE below == {b - x : x \in T}
           n == Min(below)
<1>1. below \subseteq Nat /\ below # {}
  <2>1. \A x \in T : b - x \in Nat
    OBVIOUS
  <2> QED
    BY <2>1
<1>2. n \in below /\ \A m \in below : n <= m
  <2> HIDE DEF below
  <2> QED
    BY <1>1, LeastNumber
<1> HIDE DEF n
<1>4. PICK x \in T : n = b - x
  BY <1>2
<1>5. \A y \in T : x >= y
  <2> TAKE y \in T
  <2>1. b - x <= b - y
    BY <1>2, <1>4
  <2> QED
    BY <2>1
<1>6. Max(T) \in T /\ \A y \in T : Max(T) >= y
  BY <1>5 DEF Max
<1> QED
  BY <1>6

LEMMA FiniteIsBounded ==
  ASSUME NEW S, IsFiniteSet(S), S \subseteq Nat
  PROVE  \E b \in Nat : \A x \in S : x <= b
<1> DEFINE Has(T) == \E b \in Nat : \A x \in T : x <= b
           bad == {n \in Nat : \E T \in SUBSET S : Cardinality(T) = n /\ ~Has(T)}
<1>1. \A T \in SUBSET S : IsFiniteSet(T) /\ Cardinality(T) \in Nat
  BY FS_Subset, FS_CardinalityType
<1>2. bad = {}
  <2> SUFFICES ASSUME bad # {} PROVE FALSE
    OBVIOUS
  <2>1. PICK n \in bad : \A m \in bad : n <= m
    <3>1. bad \subseteq Nat
      OBVIOUS
    <3> HIDE DEF bad
    <3> QED
      BY <3>1, LeastNumber
  <2>2. PICK T \in SUBSET S : Cardinality(T) = n /\ ~Has(T)
    OBVIOUS
  <2>3. T # {}
    BY <2>2
  <2>4. PICK y \in T : TRUE
    BY <2>3
  <2> DEFINE rest == T \ {y}
  <2>5. rest \in SUBSET S /\ Cardinality(rest) \in Nat /\ n \in Nat /\ Cardinality(rest) = n - 1
    <3>1. IsFiniteSet(T) /\ rest \in SUBSET S
      BY <1>1
    <3>2. Cardinality(rest) = Cardinality(T) - 1
      BY <2>4, <3>1, FS_RemoveElement
    <3> QED
      BY <1>1, <2>2, <3>1, <3>2
  <2>6. Cardinality(rest) \notin bad
    <3>1. ~(n <= Cardinality(rest))
      BY <2>5
    <3> QED
      BY <2>1, <3>1
  <2>7. Has(rest)
    BY <2>5, <2>6
  <2>8. PICK b \in Nat : \A x \in rest : x <= b
    BY <2>7
  <2>9. \A x \in T : x <= b + y
    <3> TAKE x \in T
    <3>1. x \in Nat /\ y \in Nat /\ (x = y \/ x <= b)
      BY <2>8
    <3> QED
      BY <3>1
  <2>10. b + y \in Nat
    OBVIOUS
  <2> QED
    BY <2>2, <2>9, <2>10
<1>3. Has(S)
  BY <1>1, <1>2
<1> QED
  BY <1>3

\* A length that none of the periods of a configuration exceeds.
Within(c, n) ==
  /\ n \in Nat
  /\ \A p \in c.returns : p <= n
  /\ \A p \in c.zscores : p <= n
  /\ \A p \in c.atrs : p <= n
  /\ \A p \in c.percentiles : p <= n
  /\ \A p \in c.realized : p <= n
  /\ \A p \in c.volumeMa : p <= n
  /\ \A p \in c.emas : p <= n
  /\ \A p \in c.linreg : p <= n
  /\ c.bb <= n /\ c.bbPct <= n /\ c.volumeZ <= n /\ c.days <= n /\ c.slope <= n /\ c.adx <= n
  /\ c.rsi <= n /\ c.efficiency <= n /\ c.hurst <= n /\ c.breakout <= n /\ c.momentum <= n
  /\ c.compression <= n /\ c.range <= n /\ c.equal <= n /\ c.sessionDays <= n

LEMMA PeriodsAreBounded ==
  ASSUME NEW c, Options(c)
  PROVE  \E n : Within(c, n)
<1>1. PICK b1 \in Nat : \A p \in c.returns : p <= b1
  BY FiniteIsBounded DEF Options, Periods
<1>2. PICK b2 \in Nat : \A p \in c.zscores : p <= b2
  BY FiniteIsBounded DEF Options, Periods
<1>3. PICK b3 \in Nat : \A p \in c.atrs : p <= b3
  BY FiniteIsBounded DEF Options, Periods
<1>4. PICK b4 \in Nat : \A p \in c.percentiles : p <= b4
  BY FiniteIsBounded DEF Options, Periods
<1>5. PICK b5 \in Nat : \A p \in c.realized : p <= b5
  BY FiniteIsBounded DEF Options, Periods
<1>6. PICK b6 \in Nat : \A p \in c.volumeMa : p <= b6
  BY FiniteIsBounded DEF Options, Periods
<1>7. PICK b7 \in Nat : \A p \in c.emas : p <= b7
  BY FiniteIsBounded DEF Options, Periods
<1>8. PICK b8 \in Nat : \A p \in c.linreg : p <= b8
  BY FiniteIsBounded DEF Options, Periods
<1> DEFINE sets == b1 + b2 + b3 + b4 + b5 + b6 + b7 + b8
           some == sets + c.bb + c.bbPct + c.volumeZ + c.days + c.slope
           more == some + c.adx + c.rsi + c.efficiency + c.hurst + c.breakout
           n == more + c.momentum + c.compression + c.range + c.equal + c.sessionDays
<1>9. /\ c.bb \in Nat /\ c.bbPct \in Nat /\ c.volumeZ \in Nat /\ c.days \in Nat /\ c.slope \in Nat
      /\ c.adx \in Nat /\ c.rsi \in Nat /\ c.efficiency \in Nat /\ c.hurst \in Nat
      /\ c.breakout \in Nat /\ c.momentum \in Nat /\ c.compression \in Nat
      /\ c.range \in Nat /\ c.equal \in Nat /\ c.sessionDays \in Nat
  BY DEF Options, Periods
<1>10. /\ sets \in Nat
       /\ b1 <= sets /\ b2 <= sets /\ b3 <= sets /\ b4 <= sets
       /\ b5 <= sets /\ b6 <= sets /\ b7 <= sets /\ b8 <= sets
  OBVIOUS
<1> HIDE DEF sets
<1>14. /\ some \in Nat /\ sets <= some
       /\ c.bb <= some /\ c.bbPct <= some /\ c.volumeZ <= some /\ c.days <= some /\ c.slope <= some
  BY <1>9, <1>10
<1> HIDE DEF some
<1>15. /\ more \in Nat /\ some <= more
       /\ c.adx <= more /\ c.rsi <= more /\ c.efficiency <= more /\ c.hurst <= more
       /\ c.breakout <= more
  BY <1>9, <1>14
<1> HIDE DEF more
<1>16. /\ n \in Nat /\ more <= n
       /\ c.momentum <= n /\ c.compression <= n /\ c.range <= n /\ c.equal <= n
       /\ c.sessionDays <= n
  BY <1>9, <1>15
<1> HIDE DEF n
<1>11. /\ n \in Nat /\ sets <= n
       /\ c.bb <= n /\ c.bbPct <= n /\ c.volumeZ <= n /\ c.days <= n /\ c.slope <= n /\ c.adx <= n
       /\ c.rsi <= n /\ c.efficiency <= n /\ c.hurst <= n /\ c.breakout <= n /\ c.momentum <= n
       /\ c.compression <= n /\ c.range <= n /\ c.equal <= n /\ c.sessionDays <= n
  BY <1>9, <1>10, <1>14, <1>15, <1>16
<1>12. \A S \in SUBSET Nat, b \in Nat : b <= sets /\ (\A p \in S : p <= b) => \A p \in S : p <= n
  BY <1>10, <1>11
<1>13. /\ \A p \in c.returns : p <= n
       /\ \A p \in c.zscores : p <= n
       /\ \A p \in c.atrs : p <= n
       /\ \A p \in c.percentiles : p <= n
       /\ \A p \in c.realized : p <= n
       /\ \A p \in c.volumeMa : p <= n
       /\ \A p \in c.emas : p <= n
       /\ \A p \in c.linreg : p <= n
  <2>1. /\ c.returns \in SUBSET Nat /\ c.zscores \in SUBSET Nat /\ c.atrs \in SUBSET Nat
        /\ c.percentiles \in SUBSET Nat /\ c.realized \in SUBSET Nat /\ c.volumeMa \in SUBSET Nat
        /\ c.emas \in SUBSET Nat /\ c.linreg \in SUBSET Nat
    BY DEF Options, Periods
  <2> QED
    BY <1>1, <1>2, <1>3, <1>4, <1>5, <1>6, <1>7, <1>8, <1>10, <1>12, <2>1
<1> QED
  BY <1>11, <1>13 DEF Within

\* No column declares more than this of periods that none exceeds.
Limit(n) == 300 * n + 100

\* The groups whose columns are known.
Windowed5 == {"price", "volatility", "volume", "trend", "patterns"}

LEMMA LookbacksAreBounded ==
  ASSUME NEW c, Options(c), NEW n, Within(c, n), NEW group \in Windowed5,
         NEW column \in ColumnsOf(group, c)
  PROVE  column.lookback \in Int /\ column.lookback <= Limit(n)
<1>1. n \in Nat
  BY DEF Within
<1>2. CASE group = "price"
  <2>1. column \in PriceColumns(c)
    BY <1>2 DEF ColumnsOf
  <2>2. \/ column.lookback \in {1, 2, 15, 35}
        \/ \E k \in c.returns : column.lookback = k + 15
        \/ \E k \in c.zscores : column.lookback = k
    BY <2>1 DEF PriceColumns, Column
  <2>3. /\ \A k \in c.returns : k \in Nat /\ k <= n
        /\ \A k \in c.zscores : k \in Nat /\ k <= n
    BY DEF Options, Periods, Within
  <2> QED
    BY <1>1, <2>2, <2>3 DEF Limit
<1>3. CASE group = "volatility"
  <2>1. column \in VolatilityColumns(c)
    BY <1>3 DEF ColumnsOf
  <2>2. \/ column.lookback \in {15, 21, 71, 51, 7, Max(c.percentiles), Max(c.atrs) + 1,
                                c.bb, c.bbPct, c.bb + 1}
        \/ \E k \in c.atrs : column.lookback = k + 1
        \/ \E k \in c.percentiles : column.lookback = k
        \/ \E k \in c.realized : column.lookback = k + 1
    BY <2>1 DEF VolatilityColumns, Column
  <2>3. /\ \A k \in c.atrs : k \in Nat /\ k <= n
        /\ \A k \in c.percentiles : k \in Nat /\ k <= n
        /\ \A k \in c.realized : k \in Nat /\ k <= n
        /\ c.bb \in Nat /\ c.bb <= n /\ c.bbPct \in Nat /\ c.bbPct <= n
    BY DEF Options, Periods, Within
  <2>4. Max(c.percentiles) \in c.percentiles /\ Max(c.atrs) \in c.atrs
    BY DEF Options
  <2> QED
    BY <1>1, <2>2, <2>3, <2>4 DEF Limit
<1>4. CASE group = "volume"
  <2>1. column \in VolumeColumns(c)
    BY <1>4 DEF ColumnsOf
  <2>2. \/ column.lookback \in {1, 21, 288 * c.days, c.volumeZ, 20 + c.volumeZ, 50 + c.volumeZ}
        \/ column.lookback \in {Min(c.volumeMa), Max(c.volumeMa)}
        \/ \E k \in c.volumeMa : column.lookback = k
    BY <2>1 DEF VolumeColumns, Column
  <2>3. /\ \A k \in c.volumeMa : k \in Nat /\ k <= n
        /\ c.days \in Nat /\ c.days <= n /\ c.volumeZ \in Nat /\ c.volumeZ <= n
    BY DEF Options, Periods, Within
  <2>4. Min(c.volumeMa) \in c.volumeMa /\ Max(c.volumeMa) \in c.volumeMa
    BY DEF Options
  <2> QED
    BY <1>1, <2>2, <2>3, <2>4 DEF Limit
<1>5. CASE group = "trend"
  <2>1. column \in TrendColumns(c)
    BY <1>5 DEF ColumnsOf
  <2> DEFINE longest == Max(c.emas)
             second == Min(c.emas \ {Min(c.emas)})
  <2>2. \/ column.lookback \in {15, 18, 21, 41, longest, longest + 15, second + 15,
                                2 * c.adx, 3 * c.adx, 3 * c.adx + 5,
                                2 * c.rsi, 2 * c.rsi + 5, 2 * c.rsi + 20,
                                c.efficiency + 1, c.hurst + 10}
        \/ \E k \in c.emas : column.lookback \in {k + 15, k + c.slope + 15}
        \/ \E k \in c.linreg : column.lookback \in {k, k + 15}
    BY <2>1 DEF TrendColumns, Column
  <2>3. /\ \A k \in c.emas : k \in Nat /\ k <= n
        /\ \A k \in c.linreg : k \in Nat /\ k <= n
        /\ c.slope \in Nat /\ c.slope <= n /\ c.adx \in Nat /\ c.adx <= n
        /\ c.rsi \in Nat /\ c.rsi <= n /\ c.efficiency \in Nat /\ c.efficiency <= n
        /\ c.hurst \in Nat /\ c.hurst <= n
    BY DEF Options, Periods, Within
  <2>4. longest \in c.emas /\ second \in c.emas
    BY DEF Options
  <2> HIDE DEF longest, second
  <2> QED
    BY <1>1, <2>2, <2>3, <2>4 DEF Limit
<1>6. CASE group = "patterns"
  <2>1. column \in PatternColumns(c)
    BY <1>6 DEF ColumnsOf
  <2>2. column.lookback \in {2 + 15, 1 + 15, c.breakout + 1 + 15, c.momentum + 1 + 15, c.compression + 1}
    BY <2>1 DEF PatternColumns, Column
  <2>3. /\ c.breakout \in Nat /\ c.breakout <= n /\ c.momentum \in Nat /\ c.momentum <= n
        /\ c.compression \in Nat /\ c.compression <= n
    BY DEF Options, Periods, Within
  <2> QED
    BY <1>1, <2>2, <2>3 DEF Limit
<1> QED
  BY <1>2, <1>3, <1>4, <1>5, <1>6 DEF Windowed5

\* A group declares the longest of its columns' lookbacks.
LEMMA DeclaredIs ==
  ASSUME NEW c, Options(c), NEW n, Within(c, n), NEW group \in Windowed5
  PROVE  /\ Declared(group, c) \in Int /\ Declared(group, c) <= Limit(n)
         /\ \A column \in ColumnsOf(group, c) :
              column.lookback \in Int /\ column.lookback <= Declared(group, c)
<1> DEFINE T == {column.lookback : column \in ColumnsOf(group, c)}
<1>1. Declared(group, c) = Max(T)
  BY DEF Declared, Windowed5
<1>2. \A column \in ColumnsOf(group, c) : column.lookback \in Int /\ column.lookback <= Limit(n)
  BY LookbacksAreBounded
<1>3. T \subseteq Int /\ \A x \in T : x <= Limit(n)
  BY <1>2
<1>4. T # {}
  <2>1. ColumnsOf(group, c) # {}
    <3>1. /\ Column(<<"gap_atr">>, 15, InAtr(c, Changed(Bar, 1))) \in PriceColumns(c)
          /\ Column(<<"nr7">>, 7, Rolling(Bar, 7)) \in VolatilityColumns(c)
          /\ Column(<<"buy_pressure">>, 1, Bar) \in VolumeColumns(c)
          /\ Column(<<"adx">>, 3 * c.adx, Adx(c.adx)) \in TrendColumns(c)
          /\ Column(<<"compression_strength">>, c.compression + 1, Rolling(Bar, c.compression))
               \in PatternColumns(c)
      BY DEF PriceColumns, VolatilityColumns, VolumeColumns, TrendColumns, PatternColumns
    <3>2. ColumnsOf(group, c) \in {PriceColumns(c), VolatilityColumns(c), VolumeColumns(c),
                                   TrendColumns(c), PatternColumns(c)}
      BY DEF ColumnsOf, Windowed5
    <3> QED
      BY <3>1, <3>2
  <2> QED
    BY <2>1
<1>5. Limit(n) \in Int
  BY DEF Limit, Within
<1> HIDE DEF T
<1>6. Max(T) \in T /\ \A x \in T : x <= Max(T)
  BY <1>3, <1>4, <1>5, BoundedHasMax
<1> QED
  BY <1>1, <1>2, <1>3, <1>6 DEF T

\* The engine looks back at least as far as any column of its list declares.
LEMMA LookbackIs ==
  ASSUME NEW c, Options(c), c.groups \subseteq Groups
  PROVE  /\ Lookback(c) \in Int /\ Lookback(c) >= 1
         /\ \A column \in Columns(c) :
              \E group \in c.groups \cap Windowed5 :
                /\ column \in ColumnsOf(group, c)
                /\ \A d \in ColumnsOf(group, c) : d.lookback <= Lookback(c)
<1>1. PICK n : Within(c, n)
  BY PeriodsAreBounded
<1> DEFINE T == {Declared(group, c) : group \in c.groups} \cup {1}
           swings == c.memory * (2 * c.swing + 1)
           b == Limit(n) + swings + c.range + c.equal + 288 * c.sessionDays + 291
<1>2. n \in Nat /\ Limit(n) \in Nat
  BY <1>1 DEF Within, Limit
<1>3. /\ c.memory \in Nat /\ c.swing \in Nat /\ c.range \in Nat /\ c.equal \in Nat
      /\ c.sessionDays \in Nat
  BY DEF Options, Periods
<1>4. swings \in Nat
  BY <1>3
<1> HIDE DEF swings
<1>5. b \in Nat
  BY <1>2, <1>3, <1>4
<1>6. \A group \in Groups : Declared(group, c) \in Int /\ Declared(group, c) <= b
  <2> TAKE group \in Groups
  <2>1. CASE group \in Windowed5
    <3>1. Declared(group, c) \in Int /\ Declared(group, c) <= Limit(n)
      BY <1>1, <2>1, DeclaredIs
    <3> QED
      BY <1>2, <1>3, <1>4, <3>1
  <2>2. CASE group = "structure"
    BY <1>2, <1>3, <1>4, <2>2 DEF Declared, Larger, swings
  <2>3. CASE group = "liquidity"
    BY <1>2, <1>3, <1>4, <2>3 DEF Declared, Larger
  <2>4. CASE group \in {"fvg", "order_blocks"}
    BY <1>2, <1>3, <1>4, <2>4 DEF Declared
  <2>5. CASE group = "time"
    BY <1>2, <1>3, <1>4, <2>5 DEF Declared
  <2> QED
    BY <2>1, <2>2, <2>3, <2>4, <2>5 DEF Groups, Windowed5
<1> HIDE DEF b
<1>7. T \subseteq Int /\ T # {} /\ \A x \in T : x <= b
  <2>1. 1 <= b
    BY <1>2, <1>3, <1>4 DEF b
  <2> QED
    BY <1>5, <1>6, <2>1
<1>8. Lookback(c) = Max(T)
  BY DEF Lookback
<1>9. 1 \in T /\ \A group \in c.groups : Declared(group, c) \in T
  OBVIOUS
<1> HIDE DEF T
<1>10. Max(T) \in T /\ \A x \in T : x <= Max(T)
  <2>1. b \in Int
    BY <1>5
  <2> QED
    BY <1>7, <2>1, BoundedHasMax
<1>11. Lookback(c) \in Int /\ Lookback(c) >= 1
  BY <1>7, <1>8, <1>9, <1>10
<1>12. ASSUME NEW column \in Columns(c)
       PROVE  \E group \in c.groups \cap Windowed5 :
                /\ column \in ColumnsOf(group, c)
                /\ \A d \in ColumnsOf(group, c) : d.lookback <= Lookback(c)
  <2>1. PICK group \in c.groups : column \in ColumnsOf(group, c)
    BY DEF Columns
  <2>2. group \in Windowed5
    BY <2>1 DEF ColumnsOf, Windowed5
  <2>3. ASSUME NEW d \in ColumnsOf(group, c) PROVE d.lookback <= Lookback(c)
    <3>1. /\ d.lookback \in Int /\ d.lookback <= Declared(group, c) /\ Declared(group, c) \in Int
      BY <1>1, <2>2, DeclaredIs
    <3>2. Declared(group, c) <= Lookback(c)
      BY <1>8, <1>9, <1>10
    <3> QED
      BY <1>11, <3>1, <3>2
  <2> QED
    BY <2>1, <2>2, <2>3
<1> QED
  BY <1>11, <1>12

\* What a column of a list needs and reads lies within what the list looks back.
LEMMA ColumnsFit ==
  ASSUME NEW c, Options(c), c.groups \subseteq Groups, NEW column \in Columns(c)
  PROVE  Fits(column, c, Lookback(c))
<1>1. Lookback(c) \in Int
  BY LookbackIs
<1>2. PICK group \in c.groups \cap Windowed5 :
        /\ column \in ColumnsOf(group, c)
        /\ \A d \in ColumnsOf(group, c) : d.lookback <= Lookback(c)
  BY LookbackIs
<1>3. CASE group = "price"
  BY <1>1, <1>2, <1>3, PriceFits DEF ColumnsOf
<1>4. CASE group = "volatility"
  BY <1>1, <1>2, <1>4, VolatilityFits DEF ColumnsOf
<1>5. CASE group = "volume"
  BY <1>1, <1>2, <1>5, VolumeFits DEF ColumnsOf
<1>6. CASE group = "trend"
  BY <1>1, <1>2, <1>6, TrendFits DEF ColumnsOf
<1>7. CASE group = "patterns"
  BY <1>1, <1>2, <1>7, PatternsFit DEF ColumnsOf
<1> QED
  BY <1>3, <1>4, <1>5, <1>6, <1>7 DEF Windowed5

\* Columns are records.
LEMMA ColumnsAreRecords ==
  ASSUME NEW c, NEW column \in Columns(c)
  PROVE  \E name, lookback, memory : column = Column(name, lookback, memory)
<1>1. PICK group \in c.groups : column \in ColumnsOf(group, c)
  BY DEF Columns
<1>2. CASE column \in PriceColumns(c)
  BY <1>2 DEF PriceColumns
<1>3. CASE column \in VolatilityColumns(c)
  BY <1>3 DEF VolatilityColumns
<1>4. CASE column \in VolumeColumns(c)
  BY <1>4 DEF VolumeColumns
<1>5. CASE column \in TrendColumns(c)
  BY <1>5 DEF TrendColumns
<1>6. CASE column \in PatternColumns(c)
  BY <1>6 DEF PatternColumns
<1> QED
  BY <1>1, <1>2, <1>3, <1>4, <1>5, <1>6 DEF ColumnsOf

-----------------------------------------------------------------------------
(***************************************************************************)
(* The configurations.                                                     *)
(***************************************************************************)
LEMMA MaxOfTuple ==
  ASSUME NEW S, IsFiniteSet(S), S \subseteq Nat, S # {}
  PROVE  Max(S) \in S /\ Min(S) \in S /\ \A x \in S : x <= Max(S)
<1>1. PICK b \in Nat : \A x \in S : x <= b
  BY FiniteIsBounded
<1>2. S \subseteq Int /\ b \in Int
  OBVIOUS
<1> QED
  BY <1>1, <1>2, BoundedHasMax, LeastNumber

\* The second of two.
LEMMA SecondOfTuple ==
  ASSUME NEW S, S \subseteq Nat, \E p, q \in S : p # q
  PROVE  Min(S \ {Min(S)}) \in S
<1> DEFINE m == Min(S)
           rest == S \ {m}
<1> HIDE DEF m
<1>1. rest # {} /\ rest \subseteq Nat
  <2>1. PICK p, q \in S : p # q
    OBVIOUS
  <2>2. p \in rest \/ q \in rest
    BY <2>1
  <2> QED
    BY <2>2
<1>2. Min(rest) \in rest
  <2> HIDE DEF rest
  <2> QED
    BY <1>1, LeastNumber
<1> QED
  BY <1>2 DEF m

LEMMA SchemaOptions ==
  ASSUME NEW c \in FeaturesSchema, Computable(c)
  PROVE  /\ Options(c) /\ c.groups \subseteq Groups /\ c.maxWarmup \in Nat
         /\ IsFiniteSet(c.ratios) /\ c.ratios \subseteq Periods
         /\ IsFiniteSet(c.htfEmas) /\ IsFiniteSet(c.htfPercentiles)
<1>1. /\ c.groups \subseteq Groups /\ c.maxWarmup \in Nat
      /\ c.atr \in Nat /\ c.atr > 1 /\ c.bb \in Nat /\ c.bb > 1 /\ c.bbPct \in Nat /\ c.bbPct > 10
      /\ c.volumeZ \in Nat /\ c.volumeZ > 1 /\ c.days \in Nat
      /\ c.slope \in Nat /\ c.slope > 0 /\ c.adx \in Nat /\ c.adx > 1 /\ c.rsi \in Nat /\ c.rsi > 1
      /\ c.efficiency \in Nat /\ c.efficiency > 1 /\ c.hurst \in Nat /\ c.hurst > 10
      /\ c.swing \in 1 .. 10 /\ c.memory \in Nat /\ c.memory > 1
      /\ c.range \in Nat /\ c.range > 1 /\ c.equal \in Nat /\ c.equal > 1
      /\ c.breakout \in Nat /\ c.breakout > 1 /\ c.momentum \in Nat /\ c.momentum > 1
      /\ c.compression \in Nat /\ c.compression > 1 /\ c.sessionDays \in Nat /\ c.sessionDays > 1
  BY DEF FeaturesSchema, Above
<1>2. /\ c.returns \in Tuples /\ c.zscores \in Tuples /\ c.atrs \in Tuples
      /\ c.percentiles \in Tuples /\ c.realized \in Tuples /\ c.volumeMa \in Tuples
      /\ c.emas \in Tuples /\ c.linreg \in Tuples
      /\ c.ratios \in Tuples /\ c.ratios \subseteq Above(0)
      /\ c.htfEmas \in Tuples /\ c.htfPercentiles \in Tuples /\ c.atr \in c.atrs
  BY DEF FeaturesSchema
<1>3. /\ c.returns \subseteq Periods /\ c.zscores \subseteq Periods /\ c.atrs \subseteq Periods
      /\ c.percentiles \subseteq Periods /\ c.realized \subseteq Periods
      /\ c.volumeMa \subseteq Periods /\ c.emas \subseteq Periods /\ c.linreg \subseteq Periods
  BY DEF Computable, Periods
<1>4. /\ c.percentiles # {} /\ c.volumeMa # {} /\ (\E p, q \in c.emas : p # q) /\ c.days >= 3
  BY DEF Computable
<1>5. /\ Max(c.percentiles) \in c.percentiles
      /\ Min(c.atrs) \in c.atrs /\ Max(c.atrs) \in c.atrs
      /\ Min(c.volumeMa) \in c.volumeMa /\ Max(c.volumeMa) \in c.volumeMa
      /\ Min(c.emas) \in c.emas /\ Max(c.emas) \in c.emas
      /\ Min(c.emas \ {Min(c.emas)}) \in c.emas
  <2>1. /\ c.percentiles \subseteq Nat /\ c.atrs \subseteq Nat /\ c.volumeMa \subseteq Nat
        /\ c.emas \subseteq Nat
    BY <1>3 DEF Periods
  <2>2. /\ IsFiniteSet(c.percentiles) /\ IsFiniteSet(c.atrs) /\ IsFiniteSet(c.volumeMa)
        /\ IsFiniteSet(c.emas)
    BY <1>2 DEF Tuples
  <2>3. c.percentiles # {} /\ c.volumeMa # {} /\ c.emas # {} /\ c.atrs # {}
    BY <1>2, <1>4
  <2> QED
    BY <1>4, <2>1, <2>2, <2>3, MaxOfTuple, SecondOfTuple
<1>6. /\ c.atr \in Periods /\ c.bb \in Periods /\ c.bbPct \in Periods /\ c.volumeZ \in Periods
      /\ c.slope \in Periods /\ c.adx \in Periods /\ c.rsi \in Periods
      /\ c.efficiency \in Periods /\ c.hurst \in Periods
      /\ c.breakout \in Periods /\ c.momentum \in Periods /\ c.compression \in Periods
      /\ c.swing \in Periods /\ c.memory \in Periods /\ c.range \in Periods
      /\ c.equal \in Periods /\ c.sessionDays \in Periods
  BY <1>1 DEF Periods
<1>7. /\ IsFiniteSet(c.returns) /\ IsFiniteSet(c.zscores) /\ IsFiniteSet(c.atrs)
      /\ IsFiniteSet(c.percentiles) /\ IsFiniteSet(c.realized) /\ IsFiniteSet(c.volumeMa)
      /\ IsFiniteSet(c.emas) /\ IsFiniteSet(c.linreg)
      /\ IsFiniteSet(c.ratios) /\ IsFiniteSet(c.htfEmas) /\ IsFiniteSet(c.htfPercentiles)
  BY <1>2 DEF Tuples
<1>8. c.ratios \subseteq Periods
  BY <1>2 DEF Above, Periods
<1>9. Options(c)
  BY <1>1, <1>3, <1>4, <1>5, <1>6, <1>7 DEF Options
<1> QED
  BY <1>1, <1>7, <1>8, <1>9

\* The configuration of the higher timeframes.
LEMMA HtfIs ==
  ASSUME NEW c \in FeaturesSchema
  PROVE  LET h == HtfConfig(c)
         IN  /\ h.groups = c.groups \cap c.htfGroups
             /\ h.returns = {1, 3, 5} /\ h.zscores = {20}
             /\ h.percentiles = c.htfPercentiles /\ h.bbPct = Max(c.htfPercentiles)
             /\ h.emas = c.htfEmas /\ h.linreg = {20} /\ h.hurst = 50
             /\ h.atrs = c.atrs /\ h.atr = c.atr /\ h.realized = c.realized /\ h.bb = c.bb
             /\ h.volumeMa = c.volumeMa /\ h.volumeZ = c.volumeZ /\ h.days = c.days
             /\ h.slope = c.slope /\ h.adx = c.adx /\ h.rsi = c.rsi
             /\ h.efficiency = c.efficiency /\ h.swing = c.swing /\ h.memory = c.memory
             /\ h.range = c.range /\ h.equal = c.equal /\ h.breakout = c.breakout
             /\ h.momentum = c.momentum /\ h.compression = c.compression
             /\ h.sessionDays = c.sessionDays /\ h.htfPercentiles = c.htfPercentiles
<1>1. DOMAIN c = {"groups", "policy", "maxWarmup", "returns", "zscores", "atrs", "atr", "percentiles",
                  "realized", "bb", "bbPct", "volumeMa", "volumeZ", "days", "emas", "slope", "adx",
                  "rsi", "linreg", "efficiency", "hurst", "swing", "memory", "range", "equal",
                  "breakout", "momentum", "compression", "sessionDays", "ratios", "htfGroups",
                  "htfEmas", "htfPercentiles"}
  BY DEF FeaturesSchema
<1> QED
  BY <1>1 DEF HtfConfig

LEMMA HtfOptions ==
  ASSUME NEW c \in FeaturesSchema, Computable(c)
  PROVE  /\ Options(HtfConfig(c)) /\ HtfConfig(c).groups \subseteq Groups
         /\ HtfConfig(c).bb = c.bb
         /\ Settles(c) => Settles(HtfConfig(c))
<1> DEFINE h == HtfConfig(c)
<1>1. /\ Options(c) /\ c.groups \subseteq Groups
      /\ IsFiniteSet(c.htfEmas) /\ IsFiniteSet(c.htfPercentiles)
  BY SchemaOptions
<1>2. /\ c.htfEmas \subseteq Periods /\ c.htfPercentiles \subseteq Periods
      /\ c.htfPercentiles # {} /\ (\E p, q \in c.htfEmas : p # q)
  BY DEF Computable, Periods
<1>3. /\ Max(c.htfPercentiles) \in c.htfPercentiles
      /\ Min(c.htfEmas) \in c.htfEmas /\ Max(c.htfEmas) \in c.htfEmas
      /\ Min(c.htfEmas \ {Min(c.htfEmas)}) \in c.htfEmas
  <2>1. c.htfEmas \subseteq Nat /\ c.htfPercentiles \subseteq Nat /\ c.htfEmas # {}
    BY <1>2 DEF Periods
  <2> QED
    BY <1>1, <1>2, <2>1, MaxOfTuple, SecondOfTuple
<1>4. /\ h.groups = c.groups \cap c.htfGroups
      /\ h.returns = {1, 3, 5} /\ h.zscores = {20}
      /\ h.percentiles = c.htfPercentiles /\ h.bbPct = Max(c.htfPercentiles)
      /\ h.emas = c.htfEmas /\ h.linreg = {20} /\ h.hurst = 50
      /\ h.atrs = c.atrs /\ h.atr = c.atr /\ h.realized = c.realized /\ h.bb = c.bb
      /\ h.volumeMa = c.volumeMa /\ h.volumeZ = c.volumeZ /\ h.days = c.days
      /\ h.slope = c.slope /\ h.adx = c.adx /\ h.rsi = c.rsi
      /\ h.efficiency = c.efficiency /\ h.swing = c.swing /\ h.memory = c.memory
      /\ h.range = c.range /\ h.equal = c.equal /\ h.breakout = c.breakout
      /\ h.momentum = c.momentum /\ h.compression = c.compression
      /\ h.sessionDays = c.sessionDays /\ h.htfPercentiles = c.htfPercentiles
  BY HtfIs
<1> HIDE DEF h
<1>5. IsFiniteSet({1, 3, 5}) /\ IsFiniteSet({20})
  <2>1. IsFiniteSet(1 .. 20)
    <3>1. 1 \in Int /\ 20 \in Int
      OBVIOUS
    <3> QED
      BY <3>1, FS_Interval
  <2>2. {1, 3, 5} \subseteq 1 .. 20 /\ {20} \subseteq 1 .. 20
    OBVIOUS
  <2>3. {1, 3, 5} \in SUBSET (1 .. 20) /\ {20} \in SUBSET (1 .. 20)
    BY <2>2
  <2> QED
    BY <2>1, <2>3, FS_Subset
<1>6. /\ {1, 3, 5} \subseteq Periods /\ {20} \subseteq Periods /\ 50 \in Periods
      /\ Max(c.htfPercentiles) \in Periods
  BY <1>2, <1>3 DEF Periods
<1>7. /\ h.returns \subseteq Periods /\ h.zscores \subseteq Periods
      /\ h.percentiles \subseteq Periods /\ h.emas \subseteq Periods /\ h.linreg \subseteq Periods
      /\ h.bbPct \in Periods /\ h.hurst \in Periods
      /\ IsFiniteSet(h.returns) /\ IsFiniteSet(h.zscores) /\ IsFiniteSet(h.percentiles)
      /\ IsFiniteSet(h.emas) /\ IsFiniteSet(h.linreg)
  BY <1>1, <1>2, <1>4, <1>5, <1>6
<1>8. /\ Max(h.percentiles) \in h.percentiles
      /\ Min(h.emas) \in h.emas /\ Max(h.emas) \in h.emas
      /\ Min(h.emas \ {Min(h.emas)}) \in h.emas
  BY <1>3, <1>4
<1>9. /\ h.atrs \subseteq Periods /\ h.realized \subseteq Periods /\ h.volumeMa \subseteq Periods
      /\ h.atr \in Periods /\ h.bb \in Periods /\ h.volumeZ \in Periods
      /\ h.slope \in Periods /\ h.adx \in Periods /\ h.rsi \in Periods /\ h.efficiency \in Periods
      /\ h.breakout \in Periods /\ h.momentum \in Periods /\ h.compression \in Periods
      /\ h.days \in Nat /\ h.days >= 3
      /\ h.swing \in Periods /\ h.memory \in Periods /\ h.range \in Periods
      /\ h.equal \in Periods /\ h.sessionDays \in Periods
      /\ IsFiniteSet(h.atrs) /\ IsFiniteSet(h.realized) /\ IsFiniteSet(h.volumeMa)
      /\ Min(h.atrs) \in h.atrs /\ Max(h.atrs) \in h.atrs
      /\ Min(h.volumeMa) \in h.volumeMa /\ Max(h.volumeMa) \in h.volumeMa
  BY <1>1, <1>4 DEF Options
<1>10. Options(h)
  BY <1>7, <1>8, <1>9 DEF Options
<1>11. Settles(c) => Settles(h)
  BY <1>4 DEF Settles, DeclaredForAll
<1>12. h.groups \subseteq Groups /\ h.bb = c.bb
  BY <1>1, <1>4
<1> QED
  BY <1>10, <1>11, <1>12 DEF h

\* What is dropped covers every lookback, in base bars.
LEMMA WarmupIs ==
  ASSUME NEW c \in FeaturesSchema, Computable(c)
  PROVE  /\ RequiredWarmup(c) \in Int /\ Lookback(c) \in Int /\ Lookback(c) >= 1
         /\ Lookback(c) <= RequiredWarmup(c)
         /\ \A ratio \in c.ratios : /\ ratio \in Nat /\ Lookback(HtfConfig(c)) \in Nat
                                    /\ Lookback(HtfConfig(c)) * ratio <= RequiredWarmup(c)
<1> DEFINE low == Lookback(c)
           high == Lookback(HtfConfig(c))
           longest == Max(c.ratios)
<1>1. low \in Int /\ low >= 1 /\ high \in Int /\ high >= 1
  <2>1. Options(c) /\ c.groups \subseteq Groups
    BY SchemaOptions
  <2>2. Options(HtfConfig(c)) /\ HtfConfig(c).groups \subseteq Groups
    BY HtfOptions
  <2> QED
    BY <2>1, <2>2, LookbackIs
<1>2. RequiredWarmup(c) = Larger(low, IF c.ratios = {} THEN 0 ELSE high * longest)
  BY DEF RequiredWarmup
<1>3. c.ratios \subseteq Nat /\ IsFiniteSet(c.ratios)
  BY SchemaOptions DEF Periods
<1> HIDE DEF low, high
<1>4. CASE c.ratios = {}
  BY <1>1, <1>2, <1>4 DEF Larger, low, high
<1>5. CASE c.ratios # {}
  <2>1. longest \in c.ratios /\ \A ratio \in c.ratios : ratio <= longest
    BY <1>3, <1>5, MaxOfTuple
  <2> HIDE DEF longest
  <2>2. longest \in Nat /\ high * longest \in Int
    BY <1>1, <1>3, <2>1
  <2>3. \A ratio \in c.ratios : ratio \in Nat /\ high * ratio <= high * longest
    <3> TAKE ratio \in c.ratios
    <3>1. ratio \in Nat /\ ratio <= longest /\ high * (longest - ratio) >= 0
      BY <1>1, <1>3, <2>1, <2>2
    <3>2. high * (longest - ratio) = high * longest - high * ratio
      BY <1>1, <2>2, <3>1
    <3> QED
      BY <1>1, <2>2, <3>1, <3>2
  <2>4. /\ RequiredWarmup(c) \in Int /\ low <= RequiredWarmup(c)
        /\ high * longest <= RequiredWarmup(c)
    BY <1>1, <1>2, <1>5, <2>2 DEF Larger
  <2>5. \A ratio \in c.ratios : ratio \in Nat /\ high * ratio <= RequiredWarmup(c)
    <3> TAKE ratio \in c.ratios
    <3>1. ratio \in Nat /\ high * ratio <= high * longest /\ high * ratio \in Int
      BY <1>1, <2>3
    <3> QED
      BY <2>2, <2>4, <3>1
  <2> QED
    BY <1>1, <2>4, <2>5 DEF low, high
<1> QED
  BY <1>4, <1>5

\* A column of a higher timeframe needs no more base bars than that.
LEMMA HtfColumnsFit ==
  ASSUME NEW c \in FeaturesSchema, Computable(c), Settles(c), NEW column \in HtfColumns(c)
  PROVE  column.need <= RequiredWarmup(c) /\ column.need \in Int
<1> DEFINE h == HtfConfig(c)
<1>1. PICK own \in Columns(h), ratio \in c.ratios : column = HtfColumn(own, ratio)
  BY DEF HtfColumns
<1>2. own.need \in Nat /\ own.need <= Lookback(h)
  BY HtfOptions, ColumnsFit DEF Fits
<1>3. column.need = own.need * Span(ratio)
  <2>1. PICK name, lookback, memory : own = Column(name, lookback, memory)
    BY ColumnsAreRecords
  <2>2. DOMAIN own = {"name", "lookback", "need", "reach"}
    BY <2>1 DEF Column
  <2> QED
    BY <1>1, <2>2 DEF HtfColumn
<1>4. /\ ratio \in Nat /\ Lookback(h) \in Nat /\ Lookback(h) * ratio <= RequiredWarmup(c)
      /\ RequiredWarmup(c) \in Int
  BY WarmupIs
<1>5. Span(ratio) \in Nat /\ Span(ratio) <= ratio
  BY <1>4, TransformsAssumption DEF Span
<1> DEFINE need == own.need
           look == Lookback(h)
           span == Span(ratio)
<1>6. need \in Nat /\ look \in Nat /\ span \in Nat /\ need <= look /\ span <= ratio
  BY <1>2, <1>4, <1>5
<1> HIDE DEF need, look, span
<1>7. need * span <= look * ratio /\ need * span \in Nat /\ look * ratio \in Nat
  <2>1. (look - need) * ratio >= 0 /\ need * (ratio - span) >= 0
    BY <1>4, <1>6
  <2>2. /\ (look - need) * ratio = look * ratio - need * ratio
        /\ need * (ratio - span) = need * ratio - need * span
        /\ need * ratio \in Int /\ need * span \in Nat /\ look * ratio \in Nat
    BY <1>4, <1>6
  <2> QED
    BY <2>1, <2>2
<1>8. column.need = need * span /\ look * ratio <= RequiredWarmup(c)
  BY <1>3, <1>4 DEF need, look, span
<1> QED
  BY <1>4, <1>7, <1>8

-----------------------------------------------------------------------------
\* The configuration never changes, and a matrix was made from it.
EngineInv ==
  /\ config \in FeatureConfigs
  /\ matrix = None \/ matrix.maxLookback = RequiredWarmup(config)

\* transform records what the configuration requires, whatever it dropped.
THEOREM RequirementIsRecorded == Spec => []EngineInv
<1>1. Init => EngineInv
  BY DEF Init, EngineInv
<1>2. EngineInv /\ [Next]_vars => EngineInv'
  <2> SUFFICES ASSUME EngineInv, [Next]_vars PROVE EngineInv'
    OBVIOUS
  <2>1. CASE BarsClose
    BY <2>1 DEF BarsClose, EngineInv
  <2>2. CASE Transform
    BY <2>2 DEF Transform, EngineInv
  <2>3. CASE UNCHANGED vars
    BY <2>3 DEF vars, EngineInv
  <2> QED
    BY <2>1, <2>2, <2>3 DEF Next
<1> QED
  BY <1>1, <1>2, PTL DEF Spec

\* Every value of a row that is kept is computed from nothing that is missing, in
\* every timeframe, whatever the periods, groups and timeframes of the configuration,
\* as long as the ATR's period is within what is declared for it and the two columns
\* are covered that declare too little.
THEOREM KeptRowsAreAlwaysSettled ==
  ASSUME \A c \in FeatureConfigs : Computable(c) /\ DeclaredForAll(c)
  PROVE  Spec => []KeptRowsAreSettled
<1>1. EngineInv => KeptRowsAreSettled
  <2> SUFFICES ASSUME EngineInv, matrix # None, config.atr <= 14,
                      matrix.dropped = matrix.maxLookback,
                      NEW column \in AllColumns(config)
               PROVE  column.need <= matrix.dropped + 1
    BY DEF KeptRowsAreSettled
  <2>1. /\ config \in FeaturesSchema /\ Computable(config) /\ Settles(config)
        /\ matrix.dropped = RequiredWarmup(config)
    BY TransformsAssumption DEF EngineInv, Settles
  <2>2. /\ RequiredWarmup(config) \in Int /\ Lookback(config) \in Int
        /\ Lookback(config) <= RequiredWarmup(config)
    BY <2>1, WarmupIs
  <2>3. CASE column \in Columns(config)
    <3>1. Options(config) /\ config.groups \subseteq Groups
      BY <2>1, SchemaOptions
    <3>2. column.need \in Nat /\ column.need <= Lookback(config)
      BY <2>1, <2>3, <3>1, ColumnsFit DEF Fits
    <3> QED
      BY <2>1, <2>2, <3>2
  <2>4. CASE column \in HtfColumns(config)
    <3>1. column.need \in Int /\ column.need <= RequiredWarmup(config)
      BY <2>1, <2>4, HtfColumnsFit
    <3> QED
      BY <2>1, <2>2, <3>1
  <2> QED
    BY <2>3, <2>4 DEF AllColumns
<1> QED
  BY <1>1, RequirementIsRecorded, PTL

\* The buffer of a streaming driver holds every window of every base column, whatever
\* the configuration, as long as the Bollinger period fits into the buffer's margin.
THEOREM LiveBufferAlwaysHoldsWindows ==
  ASSUME \A c \in FeatureConfigs : Computable(c) /\ MarginForBands(c)
  PROVE  Spec => []LiveBufferHoldsWindows
<1>1. EngineInv => LiveBufferHoldsWindows
  <2> SUFFICES ASSUME EngineInv, NEW column \in Columns(config), IsWindow(column)
               PROVE  column.reach <= BufferSize(config)
    BY DEF LiveBufferHoldsWindows
  <2> DEFINE kept == Larger(RequiredWarmup(config), config.maxWarmup)
             quarter == kept \div 4
             size == (kept * 5) \div 4
  <2>1. config \in FeaturesSchema /\ Computable(config) /\ MarginForBands(config)
    BY TransformsAssumption DEF EngineInv
  <2>2. /\ RequiredWarmup(config) \in Int /\ Lookback(config) \in Int /\ Lookback(config) >= 1
        /\ Lookback(config) <= RequiredWarmup(config)
    BY <2>1, WarmupIs
  <2>3. Options(config) /\ config.groups \subseteq Groups /\ config.maxWarmup \in Nat
    BY <2>1, SchemaOptions
  <2>4. column.reach \in Nat /\ column.reach <= Lookback(config) + config.bb - 1
    BY <2>3, ColumnsFit DEF Fits
  <2>5. config.bb \in Nat
    BY <2>3 DEF Options, Periods
  <2>6. config.bb <= quarter + 11 /\ BufferSize(config) = size + 10
    BY <2>1 DEF MarginForBands, BufferSize
  <2>7. kept \in Nat /\ Lookback(config) <= kept
    BY <2>2, <2>3 DEF Larger
  <2> HIDE DEF kept
  <2>8. quarter \in Nat /\ size \in Nat /\ size >= kept + quarter
    BY <2>7
  <2> HIDE DEF quarter, size
  <2> QED
    BY <2>2, <2>4, <2>5, <2>6, <2>7, <2>8
<1> QED
  BY <1>1, RequirementIsRecorded, PTL
=============================================================================
