---------------------------- MODULE PointInTime ----------------------------
(***************************************************************************)
(* What the feature pipeline promises, with no engine in sight: the row of *)
(* the ith bar is a function of the bars closed by then, whoever computes  *)
(* it and however much later (features/pit_audit.py: "the operational      *)
(* definition of point-in-time correctness").                              *)
(***************************************************************************)
EXTENDS RowContract

VARIABLES history,   \* the bars the market has closed, oldest first
          rows       \* the rows published: bar number -> row

Init == history = <<>> /\ rows = <<>>

\* The market closes the bar that opened at o.
CloseBar(o) ==
  /\ history # <<>> => EndOf(history) <= o
  /\ history' = Append(history, o)
  /\ rows' = rows

\* Someone publishes, or publishes again, rows of bars there are.
Publish ==
  /\ DOMAIN rows' \subseteq 1 .. Len(history)
  /\ rows' = [i \in DOMAIN rows' |-> Reading(Prefix(history, i))]
  /\ history' = history

Next == Publish \/ \E o \in Time : CloseBar(o)

Spec == Init /\ [][Next]_<<history, rows>>
=============================================================================
