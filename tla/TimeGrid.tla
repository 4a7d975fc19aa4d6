------------------------------ MODULE TimeGrid ------------------------------
(***************************************************************************)
(* The timestamp contract of the whole system (core/time_utils.py and      *)
(* core/types.py).                                                         *)
(*                                                                         *)
(* One unit of time is one base bar, and an instant on the base grid is an *)
(* integer.  A base bar is named by the instant it opens: it covers        *)
(* [open, open + 1) and is known at its close, which is also the decision  *)
(* time at which it may first be used.  Prices are a function of the bar   *)
(* and are not represented here.  A frame (the code's BarFrame) is the     *)
(* sequence of its bars.                                                   *)
(***************************************************************************)
EXTENDS Integers, Sequences

\* The close of the base bar that opens at "open".
CloseOf(open) == open + 1

\* floor_to_timeframe: the start of the interval of length "width", on the
\* grid through "origin", that contains "stamp".
FloorTo(stamp, width, origin) == origin + ((stamp - origin) \div width) * width

-----------------------------------------------------------------------------
\* What BarFrame._validate accepts: close times strictly increasing.
IsBarFrame(frame) ==
  \A i, j \in DOMAIN frame : i < j => frame[i] < frame[j]

BarsOf(frame) == {frame[i] : i \in DOMAIN frame}

\* BarFrame.end: the last decision time of a frame.
EndOf(frame) == CloseOf(frame[Len(frame)])

\* The first n bars of a frame; BarFrame.as_of at the close of its nth bar.
Prefix(frame, n) == SubSeq(frame, 1, n)

\* df.iloc[-n:]
Latest(frame, n) ==
  SubSeq(frame, IF Len(frame) > n THEN Len(frame) - n + 1 ELSE 1, Len(frame))
=============================================================================
