------------------------------ MODULE LocalTime ------------------------------
(***************************************************************************)
(* Wall-clock time in a zone with one change of its UTC offset, as the     *)
(* pandas calls tz_convert and tz_localize compute it.  The zone database  *)
(* is external; it is modelled from how core/calendar.py and               *)
(* data/resample.py use it.                                                *)
(***************************************************************************)
EXTENDS Integers

CONSTANTS Transition,    \* the UTC instant of the change
          OffsetBefore,  \* local minus UTC before it
          OffsetAfter    \* local minus UTC from it on

ZoneAssumption == /\ Transition \in Int
                  /\ OffsetBefore \in Int
                  /\ OffsetAfter \in Int

UtcOffset(t) == IF t < Transition THEN OffsetBefore ELSE OffsetAfter

\* tz_convert followed by dropping the zone.
WallClock(t) == t + UtcOffset(t)

\* tz_localize(..., ambiguous=True, nonexistent="shift_forward"): of two
\* instants with this wall clock the one in summer time, which comes first;
\* of none, the end of the hole.
Localize(wall) ==
  IF WallClock(wall - OffsetBefore) = wall THEN wall - OffsetBefore
  ELSE IF WallClock(wall - OffsetAfter) = wall THEN wall - OffsetAfter
  ELSE Transition
=============================================================================
