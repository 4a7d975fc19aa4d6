------------------------------- MODULE Ingest -------------------------------
(***************************************************************************)
(* The ingestion pipeline (data/pipeline.py) up to the point where it      *)
(* writes: a source file that grows, runs that validate it as it arrived,  *)
(* clean it, measure what is missing against the trading calendar          *)
(* (data/validators.py), and accept or refuse it.                          *)
(***************************************************************************)
EXTENDS Cleaning

CONSTANTS Closes,           \* the stamps a row may carry
          MarketOpen,       \* the opening instants at which the calendar is open
          MaxNullPercent,   \* max_null_fraction
          MinCompleteness,  \* min_completeness, in percent
          FailOnError,      \* fail_on_error
          MaxRows           \* bound: lines of the source file

VARIABLES source,   \* the rows of the source file
          outcome,  \* how the last run ended
          base,     \* its cleaned frame
          report    \* its gap report

vars == <<source, outcome, base, report>>

ASSUME IngestAssumption ==
  /\ CleaningAssumption /\ Closes \subseteq Int
  /\ MaxNullPercent \in 0 .. 100 /\ MinCompleteness \in 0 .. 100

-----------------------------------------------------------------------------
\* detect_issues: whether an issue of the unrepaired rows is an error.
With(fault, rows) == {row \in rows : fault \in row.faults}

HasErrors(rows) ==
  \/ \E fault \in Faults \ {"null_price"} : With(fault, rows) # {}
  \/ Cardinality(With("null_price", rows)) * 100 > MaxNullPercent * Cardinality(rows)

\* detect_gaps
OpensOf(frame) == {frame[i].close - Duration : i \in DOMAIN frame}

Expected(frame) ==
  {o \in Min(OpensOf(frame)) .. Max(OpensOf(frame)) :
     (o - Min(OpensOf(frame))) % Duration = 0 /\ o \in MarketOpen}

\* A run of missing bars, as its first open and its length.
Run(missing, o) ==
  [start |-> o, bars |-> Min({k \in 1 .. Cardinality(missing) : o + k * Duration \notin missing})]

\* Variant: the differences of the missing stamps never equal the duration, as
\* when they are compared in another unit of time.
RunsSplit(missing) == {[start |-> o, bars |-> 1] : o \in missing}

\* Missing stamps a duration apart are in one run.
Runs(missing) == {Run(missing, o) : o \in {p \in missing : p - Duration \notin missing}}

GapReport(frame) ==
  IF frame = <<>> THEN [expected |-> 0, present |-> 0, missing |-> {}, runs |-> {}]
  ELSE LET missing == Expected(frame) \ OpensOf(frame)
       IN  [expected |-> Cardinality(Expected(frame)),
            present  |-> Cardinality(OpensOf(frame) \cap Expected(frame)),
            missing  |-> missing,
            runs     |-> Runs(missing)]

\* GapReport.completeness against min_completeness.
Incomplete(gaps) ==
  IF gaps.expected = 0 THEN 0 < MinCompleteness
  ELSE gaps.present * 100 < MinCompleteness * gaps.expected

NoReport == GapReport(<<>>)

-----------------------------------------------------------------------------
Init == source = {} /\ outcome = "none" /\ base = <<>> /\ report = NoReport

\* The source file grows by a line.
AddRow(close, faults) ==
  /\ Cardinality(source) < MaxRows
  /\ source' = source \cup {[line |-> Cardinality(source) + 1, close |-> close, faults |-> faults]}
  /\ UNCHANGED <<outcome, base, report>>

\* One ingestion run.  The issues are those of the rows as they arrived, the
\* gaps those of the rows as they were cleaned.  An empty cleaned frame is
\* found out when the report asks for its first bar.
RunIngest ==
  /\ source # {}
  /\ UNCHANGED source
  /\ IF CleaningRaises(source)
     THEN outcome' = "ValueError" /\ UNCHANGED <<base, report>>
     ELSE /\ base' = CleanBars(source)
          /\ report' = GapReport(base')
          /\ outcome' = IF base' = <<>> THEN "IndexError"
                        ELSE IF FailOnError /\ (HasErrors(source) \/ Incomplete(report'))
                        THEN "DataQualityError"
                        ELSE "ingested"

Next ==
  \/ \E close \in Closes : \E faults \in {{}} \cup {{f} : f \in Faults} : AddRow(close, faults)
  \/ RunIngest

Spec == Init /\ [][Next]_vars

-----------------------------------------------------------------------------
\* clean_bars returns a frame that satisfies the BarFrame invariants: strictly
\* increasing stamps on the grid, and prices without a fault.
CleanedIsFrame ==
  outcome \in {"DataQualityError", "ingested"} =>
    /\ \A i, j \in DOMAIN base : i < j => base[i].close < base[j].close
    /\ \A i \in DOMAIN base : OnGrid(base[i].close) /\ base[i].faults \subseteq {"negative_volume"}

\* Under keep_last, the row of a stamp is the last one in the file that is fit
\* for use: a malformed correction does not displace the good row before it.
LastGoodRowWins ==
  [][source' = source /\ outcome' = "ingested" =>
       \A row \in source : OnGrid(row.close) /\ row.faults \subseteq {"negative_volume"} =>
         \E i \in DOMAIN base' :
           /\ base'[i].close = row.close
           /\ row.line <= base'[i].line]_vars

\* Bars are synthesised only for short outages, and then for all of them: a
\* hole left in the frame is longer than max_forward_fill_bars.
OnlyShortGapsAreFilled ==
  \A i \in 1 .. Len(base) - 1 :
    LET hole == (base[i + 1].close - base[i].close) \div Duration - 1
    IN  /\ hole = 0 \/ hole > MaxForwardFillBars
        /\ \A j \in i + 1 .. Len(base) :
             (\A k \in i + 1 .. j : base[k].line = 0) => j - i <= MaxForwardFillBars

\* The gap report accounts for every expected bar once: present and missing
\* ones add up, and so do the runs of missing ones.  A run reaches over no bar
\* that is there, and none is cut: the largest gap is as long as it was.
GapReportAddsUp ==
  /\ report.present + Cardinality(report.missing) = report.expected
  /\ MapThenSumSet(LAMBDA run : run.bars, report.runs) = Cardinality(report.missing)
  /\ \A run \in report.runs :
       /\ \A k \in 0 .. run.bars - 1 : run.start + k * Duration \in report.missing
       /\ run.start - Duration \notin report.missing
       /\ run.start + run.bars * Duration \notin report.missing
=============================================================================
