--------------------------- MODULE FeatureEngine ---------------------------
(***************************************************************************)
(* How a feature row is computed (features/engine.py): the row of bar i of *)
(* a frame, given the context the engine holds, the higher-timeframe bars  *)
(* it borrows (features/mtf.py) and the history it needs.                  *)
(***************************************************************************)
EXTENDS RowContract

\* BaseLookback is the longest lookback of a base transform.
CONSTANTS HtfLookback,       \* longest lookback of an HTF transform, in HTF bars
          MaxWarmupBars      \* config.max_warmup_bars

-----------------------------------------------------------------------------
(***************************************************************************)
(* Higher-timeframe context for base-bar decisions.                        *)
(***************************************************************************)
\* Variant: allow_exact_matches=False.
AsofMatchStrict(htf, t) ==
  {bar \in htf : /\ bar.close < t
                 /\ \A other \in htf : other.close < t => other.close <= bar.close}

\* merge_asof(direction="backward", allow_exact_matches=True): the latest
\* HTF bar closed at or before the decision time, if there is one.
AsofMatch(htf, t) ==
  {bar \in htf : /\ bar.close <= t
                 /\ \A other \in htf : other.close <= t => other.close <= bar.close}

\* align_htf_features at one decision time.  The features of an HTF bar are
\* computed from that bar and the ones before it, so the row borrows those.
AlignedHtf(htf, t) ==
  {bar \in htf : \E match \in AsofMatch(htf, t) : bar.close <= match.close}

\* _verify_no_future_match: it raises LeakageError when this is false.
NoFutureMatch(htf, t) == \A bar \in AlignedHtf(htf, t) : bar.close <= t

\* Variant: aggregated over the whole frame and not expanded row by row.
RunningBarsWhole(tf, frame, i) ==
  {frame[j] : j \in {k \in DOMAIN frame : FloorTo(frame[k], Width[tf], 0)
                                            = FloorTo(frame[i], Width[tf], 0)}}

\* running_htf_features at row i: the base bars of the HTF interval still in
\* progress, among the rows up to i.  The grid starts at the epoch whatever
\* the anchor of the resampler, and the daily timeframe is skipped.
RunningBars(tf, frame, i) ==
  {frame[j] : j \in {k \in 1..i : FloorTo(frame[k], Width[tf], 0)
                                    = FloorTo(frame[i], Width[tf], 0)}}

-----------------------------------------------------------------------------
\* FeatureEngine.transform at row i: what the columns of the row are computed
\* from.  Every transform is handed the whole frame; those that obey
\* features/base.py look back from their own row only, and session_progress and
\* session_atr_ratio take a median and a count of the whole index.
Row(frame, ctx, i) ==
  [window  |-> Latest(Prefix(frame, i), BaseLookback),
   running |-> [tf \in Intraday |-> RunningBars(tf, frame, i)],
   htf     |-> [tf \in DOMAIN ctx |-> AlignedHtf(ctx[tf], CloseOf(frame[i]))],
   index   |-> BarsOf(frame)]

Columns == {"window", "running", "htf", "index"}

\* The columns of a row that the row contract speaks of: all but those that are
\* computed from the whole index.
CausalPart(row) == [window |-> row.window, running |-> row.running, htf |-> row.htf]

\* The assertion inside align_htf_features, at row i.
NoLeakage(frame, ctx, i) ==
  \A tf \in DOMAIN ctx : NoFutureMatch(ctx[tf], CloseOf(frame[i]))

\* required_warmup_bars: the longest lookback, every one in base bars.
WidthOf(tf) == IF tf = "1d" THEN DayLength ELSE Width[tf]
Lookbacks == {BaseLookback} \cup {HtfLookback * WidthOf(tf) : tf \in Timeframes}
RequiredWarmup == CHOOSE n \in Lookbacks : \A m \in Lookbacks : m <= n

EngineAssumption ==
  /\ ResampleAssumption
  /\ \A tf \in Timeframes : WellFormedGrid(tf)
  /\ BaseLookback \in Nat \ {0} /\ HtfLookback \in Nat \ {0}
  /\ MaxWarmupBars \in Nat
  /\ \E n \in Lookbacks : \A m \in Lookbacks : m <= n   \* Lookbacks is finite
=============================================================================
