--------------------------- MODULE MCPriceAction ---------------------------
(* PriceAction over five kinds of history: one for each pass, and one that makes
   more blocks than are tracked. *)
EXTENDS PriceAction

Bar(open, low, high, close) ==
  [open |-> open, low |-> low, high |-> high, close |-> close, levels |-> {}]

\* Flat bars, and bars of some height at whose bottom price closes: gaps of
\* all sizes.
Leaps ==
  {Bar(p, p, p, p) : p \in 1 .. 5} \cup {Bar(p, p, p + 2, p) : p \in {1, 3}}

\* Down, up and strong candles, a wick through the lot, and bars above and
\* below it all.
Candles ==
  {Bar(3, 2, 3, 2), Bar(2, 2, 3, 3), Bar(2, 2, 5, 5), Bar(4, 1, 4, 1),
   Bar(5, 2, 5, 4), Bar(4, 4, 5, 5), Bar(1, 1, 1, 1), Bar(3, 3, 3, 3)}

\* Down candles that rise, and bars that come back among their blocks.
Stairs ==
  {Bar(3, 1, 3, 1), Bar(5, 2, 5, 4), Bar(7, 5, 7, 6), Bar(9, 8, 9, 8), Bar(4, 3, 4, 3), Bar(6, 6, 6, 6)}

\* Single prices and one bar that spans them all.
Waves == {Bar(p, p, p, p) : p \in 1 .. 4} \cup {Bar(1, 1, 4, 2)}

\* Two levels, one of which may come and go between bars, and bars that stay
\* away from them, go through one of them and come back on either side, go
\* through both, or stay beyond.
Raids ==
  {[bar EXCEPT !.levels = levels] :
     bar \in {Bar(5, 4, 6, 5), Bar(6, 5, 9, 6), Bar(4, 1, 5, 4), Bar(5, 1, 9, 5), Bar(9, 6, 9, 9)},
     levels \in {{}, {7}, {3, 7}}}

MCMarkets ==
  {[shapes |-> Leaps, length |-> 6], [shapes |-> Candles, length |-> 5],
   [shapes |-> Stairs, length |-> 6],
   [shapes |-> Waves, length |-> 7], [shapes |-> Raids, length |-> 4]}
=============================================================================
