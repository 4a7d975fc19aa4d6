-------------------------------- MODULE Feed --------------------------------
(***************************************************************************)
(* A growing history of bars, for the features that depend on the trading  *)
(* day and the session a bar falls into and on nothing else: the bars of   *)
(* the trading calendar (core/calendar.py) filed under sessions            *)
(* (core/sessions.py), less the ones the feed fails to deliver.            *)
(***************************************************************************)
EXTENDS Sessions, FiniteSetsExt, SequencesExt

CONSTANTS Transition, OffsetBefore, OffsetAfter, WeekOpenDay, WeekOpenTime,
          WeekCloseDay, WeekCloseTime, BreakStart, BreakEnd, Holidays,
          Time,       \* bound: the bars the feed may deliver
          MaxMissing  \* bound: bars of open market it fails to deliver

Cal == INSTANCE Calendar

VARIABLES now,      \* the opening instant of the next bar
          history,  \* the bars delivered, by their close times
          missing   \* how many were not

vars == <<now, history, missing>>

ASSUME FeedAssumption ==
  SessionsAssumption /\ Cal!CalendarAssumption /\ Time \subseteq Nat

\* What classify_sessions says of every stamp there may be.
Stamps  == {Cal!CloseOf(o) : o \in Time}
Members == [name \in SessionNames |-> {stamp \in Stamps : InWindow(name, stamp)}]
Filed   == [stamp \in Stamps |-> SessionId(stamp)]
Label   == [stamp \in Stamps |-> SessionLabel(stamp)]

Inside(name) == Members[name]

-----------------------------------------------------------------------------
Init == now = Min(Time) /\ history = {} /\ missing = 0

Deliver ==
  /\ now \in Time /\ Cal!IsOpen(now)
  /\ history' = history \cup {Cal!CloseOf(now)}
  /\ now' = now + 1 /\ UNCHANGED missing

\* The market is shut, or the feed is.
NoBar ==
  /\ now \in Time
  /\ IF Cal!IsOpen(now) THEN missing < MaxMissing /\ missing' = missing + 1
                        ELSE UNCHANGED missing
  /\ now' = now + 1 /\ UNCHANGED history

Next == Deliver \/ NoBar

Spec == Init /\ [][Next]_vars
=============================================================================
