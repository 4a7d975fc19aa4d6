------------------------------- MODULE Zones -------------------------------
(***************************************************************************)
(* Price zones tracked bar by bar: what the forward passes of              *)
(* features/fvg.py and features/order_blocks.py have in common.            *)
(*                                                                         *)
(* The code keeps a list of bullish and a list of bearish zones and treats *)
(* them alike with the signs of all prices swapped, so a bearish zone is   *)
(* here a bullish zone of the mirrored bars.  A zone is its bottom and     *)
(* top, the bar that created it and the extreme price has reached since.   *)
(* Prices are integers; the average true range is undefined for the first  *)
(* bars and one unit of price from then on.                                *)
(***************************************************************************)
EXTENDS Integers, FiniteSetsExt, SequencesExt

CONSTANTS AtrPeriod,   \* bars before the average true range is defined
          MaxAge,      \* max_age_bars
          MaxTracked   \* max_tracked

ZonesAssumption == {AtrPeriod, MaxAge, MaxTracked} \subseteq Nat \ {0}

Sides == {"bull", "bear"}

Mirror(bar) == [open |-> -bar.open, low |-> -bar.high, high |-> -bar.low, close |-> -bar.close]

\* A history as one side sees it.
Seen(side, bars) ==
  IF side = "bull" THEN bars ELSE [i \in DOMAIN bars |-> Mirror(bars[i])]

AtrDefined(i) == i >= AtrPeriod

-----------------------------------------------------------------------------

\* A zone that is not too old at bar i.
Unexpired(zone, i) == i - zone.created <= MaxAge

\* A zone that has taken the bar's low into account.
Reached(zone, bar) == [zone EXCEPT !.extreme = IF bar.low < @ THEN bar.low ELSE @]

\* Variant: a zone price has only just traded through is kept.
UnspentAtBottom(zone) == zone.extreme >= zone.bottom

\* A zone that price has not traded through.
Unspent(zone) == zone.extreme > zone.bottom

Distance(zone, bar) == IF bar.close > zone.top THEN bar.close - zone.top ELSE zone.top - bar.close

\* Variant: the list is cut as it is, the oldest zones first.
NearerByBirth(zones, bar, k, l) == k < l

\* How the list is sorted: by distance to the close, and where that is equal as
\* before.
Nearer(zones, bar, k, l) ==
  \/ Distance(zones[k], bar) < Distance(zones[l], bar)
  \/ Distance(zones[k], bar) = Distance(zones[l], bar) /\ k < l

\* One bar's work on a list of zones: those too old go, the others take the bar's
\* low into account, those traded through go, and of the rest the nearest to the
\* close are kept.
Kept(zones, i, bar) ==
  {k \in DOMAIN zones : Unexpired(zones[k], i) /\ Unspent(Reached(zones[k], bar))}

Tracked(zones, i, bar) ==
  LET kept  == Kept(zones, i, bar)
      n     == Cardinality(kept)
      order == CHOOSE p \in [1 .. n -> kept] :
                 \A k, l \in 1 .. n : k < l => Nearer(zones, bar, p[k], p[l])
  IN  [k \in 1 .. Min({n, MaxTracked}) |-> Reached(zones[order[k]], bar)]

-----------------------------------------------------------------------------
\* The lowest low from bar c to bar n, and the zone that is live at n if its
\* bottom has held since c.
LowestSince(seen, c, n) == Min({seen[i].low : i \in c .. n})

Live(zones, n) == {zone \in zones : n - zone.created <= MaxAge /\ zone.extreme > zone.bottom}

\* The list has a reason to lack a zone if at some bar it could be full of other
\* live zones that are no further from the close.
CrowdedOut(zone, live, bar) ==
  \E others \in SUBSET live :
    /\ Cardinality(others) = MaxTracked
    /\ \A other \in others :
         other.created # zone.created /\ Distance(other, bar) <= Distance(zone, bar)
=============================================================================
