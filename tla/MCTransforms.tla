---------------------------- MODULE MCTransforms ----------------------------
(***************************************************************************)
(* Transforms on the default options and on those next to them: groups one *)
(* by one, in pairs and together, another ATR, no long percentile, no or   *)
(* few higher timeframes, rows dropped in full, in part or not at all.     *)
(***************************************************************************)
EXTENDS Transforms

Windowed5 == {"price", "volatility", "volume", "trend", "patterns"}

MCDefaults ==
  [groups |-> Groups, policy |-> "drop", maxWarmup |-> 1200,
   returns |-> {1, 2, 3, 5, 10, 20, 50}, zscores |-> {20, 50, 100},
   atrs |-> {14, 50}, atr |-> 14, percentiles |-> {252, 1000},
   realized |-> {20, 50}, bb |-> 20, bbPct |-> 252,
   volumeMa |-> {20, 50}, volumeZ |-> 50, days |-> 20,
   emas |-> {20, 50, 100, 200}, slope |-> 5, adx |-> 14, rsi |-> 14,
   linreg |-> {20, 50}, efficiency |-> 20, hurst |-> 100,
   swing |-> 2, memory |-> 6, range |-> 50, equal |-> 50,
   breakout |-> 20, momentum |-> 5, compression |-> 7, sessionDays |-> 20,
   ratios |-> {3, 12, 48, 288}, htfGroups |-> {"price", "volatility", "trend", "structure"},
   htfEmas |-> {20, 50}, htfPercentiles |-> {100}]

MCGroups == {Groups} \cup {{g, h} : g, h \in Windowed5}

MCConfigs ==
  {[MCDefaults EXCEPT !.groups = groups, !.atr = atr, !.percentiles = percentiles,
                      !.ratios = ratios, !.maxWarmup = warmup, !.policy = policy] :
     groups \in MCGroups, atr \in {14, 50}, percentiles \in {{252, 1000}, {252}},
     ratios \in {{}, {3, 12, 48, 288}}, warmup \in {50, 1200, 100000},
     policy \in {"drop", "mark"}}

\* The theorems about the transforms suppose this of a configuration.
ASSUME MCHypotheses ==
  \A c \in FeatureConfigs : Computable(c) /\ DeclaredForAll(c) /\ MarginForBands(c)

MCDefaultOnly == {MCDefaults}
=============================================================================
