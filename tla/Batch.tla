------------------------------- MODULE Batch -------------------------------
(***************************************************************************)
(* The batch driver (FeatureEngine.transform): it computes the matrix of a *)
(* whole history at once, with a context resampled from the bar store.     *)
(* The store keeps growing, so the context may have been resampled from    *)
(* later bars than the frame holds.                                        *)
(***************************************************************************)
EXTENDS FeatureEngine

VARIABLES history,   \* bars the market has closed, oldest first
          matrix     \* rows of the last run: bar number -> row

vars == <<history, matrix>>

ASSUME EngineAssumption

Warmup == IF RequiredWarmup < MaxWarmupBars THEN RequiredWarmup ELSE MaxWarmupBars

Init == history = <<>> /\ matrix = <<>>

\* Variant: bars in any order.
CloseBarUnordered(o) == history' = Append(history, o) /\ UNCHANGED matrix

\* The market closes the bar that opened at o.
CloseBar(o) ==
  /\ history # <<>> => EndOf(history) <= o
  /\ history' = Append(history, o)
  /\ UNCHANGED matrix

\* The matrix of the first n bars, with a context resampled when there were m.
\* Warmup rows are dropped only if rows are left; a leak raises, and nothing
\* is returned.
Transform(n, m) ==
  LET frame == Prefix(history, n)
      ctx   == ResampleMany(Prefix(history, m))
      first == IF Warmup < n THEN Warmup + 1 ELSE 1
  IN  /\ CanResample(Prefix(history, m))
      /\ \A i \in 1 .. n : NoLeakage(frame, ctx, i)
      /\ matrix' = [i \in first .. n |-> Row(frame, ctx, i)]
      /\ UNCHANGED history

\* A context resampled from the bars of the frame, or from a later store.
Next ==
  \/ \E o \in Time : CloseBar(o)
  \/ \E n \in 1 .. Len(history) : \E m \in n .. Len(history) : Transform(n, m)

Spec == Init /\ [][Next]_vars

-----------------------------------------------------------------------------
\* The types of the state.
TypeOK ==
  /\ history \in Seq(Time) /\ IsBarFrame(history)
  /\ DOMAIN matrix \subseteq 1 .. Len(history)

\* The row contract does not speak of the columns computed from the whole index.
CausalRows == [i \in DOMAIN matrix |-> CausalPart(matrix[i])]

PIT == INSTANCE PointInTime WITH rows <- CausalRows

\* Replay equivalence (features/pit_audit.py, "truncating history does not
\* change already-computed features"): but for the columns computed from the
\* whole index, a row of the matrix is the one its bar's known history
\* determines, although bars after it were in the frame and in the context.
\* That a base transform looks back from its own row only is what
\* features/base.py asks of it and is taken from there; what is shown is the
\* context, the running bars and where the frame ends.
MatrixIsPointInTime == PIT!Spec

\* A resampled bar is final (data/resample.py, rule 2): once the resampler has
\* returned it, no later base bar changes or removes it.
CompletedBarsAreFinal ==
  [][\A tf \in Timeframes : history # <<>> =>
        ResampleBars(tf, history) \subseteq ResampleBars(tf, history')]_history

\* The running features describe the HTF bar currently in progress
\* (features/mtf.py): the bars they aggregate are the ones the resampler will
\* put in that bar, as far as they have closed.
RunningIsBarInProgress ==
  \A i \in DOMAIN matrix : \A tf \in Intraday :
    matrix[i].running[tf] =
      {o \in BarsOf(Prefix(history, i)) : GroupKey(tf, o) = GroupKey(tf, history[i])}
=============================================================================
