------------------------------ MODULE Cleaning ------------------------------
(***************************************************************************)
(* Repairing the rows of a source file (data/cleaning.py).                 *)
(*                                                                         *)
(* A row is its line in the file, the close time stamped on it, and its    *)
(* faults; its prices matter only through them.  A file is a set of rows:  *)
(* the line says where each stands.                                        *)
(***************************************************************************)
EXTENDS Integers, Sequences, FiniteSetsExt, SequencesExt

CONSTANTS Duration,          \* length of a bar; the grid is its multiples
          DuplicatePolicy,   \* "keep_last", "keep_first" or "raise"
          DropNullRows, DropNonPositivePrices, DropOhlcInconsistent,
          ClipOhlcInconsistent, DropOffGrid,
          MaxForwardFillBars \* 0 when fill_missing_bars is off

Faults == {"null_price", "non_positive_price", "ohlc_inconsistent", "negative_volume"}

CleaningAssumption ==
  /\ Duration \in Nat \ {0}
  /\ DuplicatePolicy \in {"keep_last", "keep_first", "raise"}
  /\ {DropNullRows, DropNonPositivePrices, DropOhlcInconsistent,
      ClipOhlcInconsistent, DropOffGrid} \subseteq BOOLEAN
  /\ MaxForwardFillBars \in Nat

\* is_on_grid
OnGrid(close) == close % Duration = 0

\* The rows that survive the drops, the inconsistent ones widened if that is
\* the policy.  A negative volume is not a reason to drop a row.
Repaired(row) ==
  IF ClipOhlcInconsistent THEN [row EXCEPT !.faults = @ \ {"ohlc_inconsistent"}] ELSE row

\* Variant: stamps off the grid are not looked for.
UsableOffGrid(rows) ==
  {row \in {Repaired(r) : r \in rows} :
     /\ DropNullRows => "null_price" \notin row.faults
     /\ DropNonPositivePrices => "non_positive_price" \notin row.faults
     /\ DropOhlcInconsistent => "ohlc_inconsistent" \notin row.faults}

Usable(rows) ==
  {row \in {Repaired(r) : r \in rows} :
     /\ DropNullRows => "null_price" \notin row.faults
     /\ DropNonPositivePrices => "non_positive_price" \notin row.faults
     /\ DropOhlcInconsistent => "ohlc_inconsistent" \notin row.faults
     /\ DropOffGrid => OnGrid(row.close)}

HasDuplicates(rows) == \E r, s \in rows : r # s /\ r.close = s.close

\* Of the usable rows with one stamp, the one that comes last, or first, in
\* the file: the sort is stable.
Deduplicated(rows) ==
  {row \in rows : \A other \in rows : other.close = row.close =>
     IF DuplicatePolicy = "keep_first" THEN row.line <= other.line ELSE other.line <= row.line}

\* sort_values, of rows of which no two have one stamp.
InOrder(rows) ==
  [i \in 1 .. Cardinality(rows) |->
     CHOOSE row \in rows : Cardinality({r \in rows : r.close < row.close}) = i - 1]

\* Variant: the length of the gap taken for the number of missing bars.
SyntheticOffByOne(r, s) ==
  LET missing == (s.close - r.close) \div Duration - 1
  IN  IF missing > MaxForwardFillBars + 1 THEN {}
      ELSE {[line |-> 0, close |-> r.close + k * Duration, faults |-> {}] : k \in 1 .. missing}

\* _fill_small_gaps: the synthetic rows after row r, whose successor is s.
Synthetic(r, s) ==
  LET missing == (s.close - r.close) \div Duration - 1
  IN  IF missing > MaxForwardFillBars THEN {}
      ELSE {[line |-> 0, close |-> r.close + k * Duration, faults |-> {}] : k \in 1 .. missing}

\* Variant: duplicates are resolved before malformed rows are dropped.
CleanBarsDedupedFirst(rows) ==
  LET kept == InOrder(Usable(Deduplicated(rows)))
  IN  InOrder(ToSet(kept) \cup
              UNION {Synthetic(kept[i], kept[i + 1]) : i \in 1 .. Len(kept) - 1})

\* clean_bars, when it returns.
CleanBars(rows) ==
  LET kept == InOrder(Deduplicated(Usable(rows)))
  IN  InOrder(ToSet(kept) \cup
              UNION {Synthetic(kept[i], kept[i + 1]) : i \in 1 .. Len(kept) - 1})

\* Whether it raises ValueError instead.
CleaningRaises(rows) == DuplicatePolicy = "raise" /\ HasDuplicates(Usable(rows))
=============================================================================
