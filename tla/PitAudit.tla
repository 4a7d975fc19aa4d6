------------------------------ MODULE PitAudit ------------------------------
(***************************************************************************)
(* The replay audit (features/pit_audit.py): it computes the matrix of the *)
(* whole history, then replays some cutoffs with the history and the       *)
(* context truncated there, and reports the columns of the last row that   *)
(* differ.  It is run beside the batch driver, over the same histories.    *)
(***************************************************************************)
EXTENDS Batch, FiniteSets

CONSTANTS AuditMargin,   \* bars past the warmup (50 in the code)
          MaxCutoffs     \* n_cutoffs

ASSUME PitAuditAssumption == AuditMargin \in Nat /\ MaxCutoffs \in Nat \ {0}

VARIABLE audit  \* the last report: of how many bars, where they were cut off,
                \* and which column differed at which of them

auditVars == <<vars, audit>>

AuditInit == Init /\ audit = [bars |-> 0, cutoffs |-> {}, mismatches |-> {}]

\* The lowest position, counted from 0, that is drawn.
Lowest(n) ==
  IF RequiredWarmup + AuditMargin < n - 2 THEN RequiredWarmup + AuditMargin ELSE n - 2

\* The bars that may be cut off at: rng.integers(lowest, n - 1), as positions
\* that count from 1.  Of a single bar, position -1 is the bar itself.
Cutoffs(n) == {IF p < 0 THEN n + p + 1 ELSE p + 1 : p \in Lowest(n) .. n - 2}

\* BarFrame.as_of(cutoff), of every context frame.
Truncated(ctx, cutoff) == [tf \in DOMAIN ctx |-> {bar \in ctx[tf] : bar.close <= cutoff}]

\* The columns of bar i that a replay to bar i computes from other bars.
Differing(ctx, i) ==
  LET full   == Row(history, ctx, i)
      replay == Row(Prefix(history, i), Truncated(ctx, EndOf(Prefix(history, i))), i)
  IN  {column \in Columns : full[column] # replay[column]}

\* audit_replay_equivalence: it raises, and reports nothing, if an alignment
\* assertion of a transform does or if the guard on the history is met.  Every
\* column is compared.  What was computed from the same bars is equal; what was
\* computed from other bars may come out the same or not.
Audit ==
  LET n   == Len(history)
      ctx == ResampleMany(history)
  IN  /\ CanResample(history)
      /\ \A i \in 1 .. n : NoLeakage(history, ctx, i)
      /\ Lowest(n) < n - 1
      /\ \E drawn \in SUBSET Cutoffs(n) :
           /\ drawn # {} /\ Cardinality(drawn) <= MaxCutoffs
           /\ \E found \in SUBSET UNION {Differing(ctx, i) \X {i} : i \in drawn} :
                audit' = [bars |-> n, cutoffs |-> drawn, mismatches |-> found]
      /\ UNCHANGED vars

\* The market and the batch driver go on as if there were no audit.
AuditNext ==
  \/ Audit
  \/ Next /\ UNCHANGED audit

AuditSpec == AuditInit /\ [][AuditNext]_auditVars

-----------------------------------------------------------------------------
\* What the audit can find (features/pit_audit.py, "truncating history does not
\* change already-computed features"): taking away the history after a bar, and
\* the context known after it, changes no context column, no running column and
\* no column that looks back from its own row.  Only the columns computed from
\* the whole index can differ, session_progress and session_atr_ratio, and those
\* the audit may report.
CausalColumnsReplay ==
  \A mismatch \in audit.mismatches : mismatch[1] = "index"
=============================================================================
