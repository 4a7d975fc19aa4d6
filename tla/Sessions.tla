------------------------------ MODULE Sessions ------------------------------
(***************************************************************************)
(* Trading sessions (core/sessions.py): windows of local wall-clock time,  *)
(* each in a zone of its own.  A stamp is the close of a bar; days are     *)
(* numbered from a Monday that is day 0.                                   *)
(***************************************************************************)
EXTENDS Integers

CONSTANTS
  DayLength,  \* a day, in base bars
  Windows     \* per session: start, end (past DayLength if it wraps), weekdays,
              \* and its zone: transition, before, after

SessionNames == {"ASIA", "LONDON", "NY"}

SessionsAssumption ==
  /\ DayLength \in Nat \ {0}
  /\ \A name \in SessionNames :
       LET w == Windows[name]
       IN  /\ w.start \in 0 .. DayLength - 1 /\ w.end \in w.start + 1 .. w.start + DayLength
           /\ w.weekdays \subseteq 0 .. 6
           /\ {w.transition, w.before, w.after} \subseteq Int

Zone(name) == INSTANCE LocalTime WITH Transition   <- Windows[name].transition,
                                      OffsetBefore <- Windows[name].before,
                                      OffsetAfter  <- Windows[name].after

LocalDate(name, stamp) == Zone(name)!WallClock(stamp) \div DayLength
LocalMin(name, stamp)  == Zone(name)!WallClock(stamp) % DayLength

\* The tail of a window that wraps belongs to the session of the day before.
InTail(name, stamp) == LocalMin(name, stamp) < Windows[name].end - DayLength

\* SessionWindow.contains
InWindow(name, stamp) ==
  LET minute == LocalMin(name, stamp)
      runs(day) == day % 7 \in Windows[name].weekdays
  IN  \/ /\ Windows[name].start <= minute /\ minute < Windows[name].end
         /\ runs(LocalDate(name, stamp))
      \/ InTail(name, stamp) /\ runs(LocalDate(name, stamp) - 1)

\* SessionWindow.session_date
SessionDate(name, stamp) ==
  LocalDate(name, stamp) - (IF InTail(name, stamp) THEN 1 ELSE 0)

\* classify_sessions: the label of a stamp ...
SessionLabel(stamp) ==
  IF InWindow("NY", stamp)
  THEN IF InWindow("LONDON", stamp) THEN "LONDON_NY_OVERLAP" ELSE "NY"
  ELSE IF InWindow("LONDON", stamp) THEN "LONDON"
  ELSE IF InWindow("ASIA", stamp) THEN "ASIA"
  ELSE "OFF"

\* ... and the session instance it is filed under: the last of Asia, London and
\* New York that contain it, on its date.
SessionId(stamp) ==
  LET of(name) == [session |-> name, date |-> SessionDate(name, stamp)]
      label    == SessionLabel(stamp)
  IN  IF label = "OFF" THEN [session |-> "OFF", date |-> 0]
      ELSE of(IF label = "LONDON_NY_OVERLAP" THEN "NY" ELSE label)
=============================================================================
