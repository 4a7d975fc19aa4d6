---------------------------- MODULE RowContract ----------------------------
(***************************************************************************)
(* What a feature row must be, said without an engine.  A row is           *)
(* represented by the bars it was computed from; Reading is the row a      *)
(* decision is entitled to, as a function of the bars closed by then       *)
(* (core/time_utils.py, features/mtf.py and features/pit_audit.py).        *)
(***************************************************************************)
EXTENDS Resample

CONSTANT BaseLookback   \* base bars a row may look back on

\* The HTF bars that have closed by the close of the last known bar.
ClosedBars(tf, known) ==
  {HtfBar(tf, known, GroupKey(tf, o)) :
     o \in {p \in BarsOf(known) : GroupKey(tf, p).close <= EndOf(known)}}

\* The base bars of the HTF interval the last known bar belongs to.
BarsInProgress(tf, known) ==
  LET start == FloorTo(known[Len(known)], Width[tf], 0)
  IN  {o \in BarsOf(known) : start <= o /\ o < start + Width[tf]}

\* The row a decision at the close of the last known bar is entitled to.
Reading(known) ==
  [window  |-> Latest(known, BaseLookback),
   running |-> [tf \in Intraday |-> BarsInProgress(tf, known)],
   htf     |-> [tf \in Timeframes |-> ClosedBars(tf, known)]]

=============================================================================
