---------------------------- MODULE OrderBlocks ----------------------------
(***************************************************************************)
(* Order blocks (features/order_blocks.py): the forward pass of            *)
(* _track_order_blocks, one bar at a time.                                 *)
(***************************************************************************)
EXTENDS Zones

CONSTANT Displacement  \* displacement_atr

VARIABLES bars,   \* the history: records [open, low, high, close]
          blocks  \* the blocks tracked on each side, the nearest first

vars == <<bars, blocks>>

BlocksAssumption == ZonesAssumption /\ Displacement \in Nat \ {0}

-----------------------------------------------------------------------------

\* The down candle before bar i that becomes a block if bar i moves away: the
\* bar before it, else the one before that.
Candles(seen, i) == {j \in {i - 1, i - 2} : seen[j].close < seen[j].open}

\* The block bar i brings into being, as a list of one or none.  Its extreme is
\* infinite until a bar's low is taken into account, and bar i is the first.
NewBlock(seen, i) ==
  IF /\ i >= 3
     /\ seen[i].close - seen[i - 1].close >= Displacement
     /\ Candles(seen, i) # {}
  THEN LET candle == seen[Max(Candles(seen, i))]
       IN  <<[bottom |-> candle.low, top |-> candle.high, created |-> i, extreme |-> seen[i].low]>>
  ELSE <<>>

Init == bars = <<>> /\ blocks = [side \in Sides |-> <<>>]

NextBar(bar) ==
  /\ bars' = Append(bars, bar)
  /\ LET i == Len(bars')
     IN  blocks' = IF ~AtrDefined(i) THEN blocks
                   ELSE [side \in Sides |->
                           LET seen == Seen(side, bars')
                           IN  Tracked(blocks[side] \o NewBlock(seen, i), i, seen[i])]

-----------------------------------------------------------------------------
\* The history's blocks that are live at bar n: made at most MaxAge bars before,
\* and no bar since, the one that made them included, has reached their bottom.
BlocksMade(side, n) ==
  LET seen == Seen(side, bars)
  IN  {[block EXCEPT !.extreme = LowestSince(seen, block.created, n)] :
         block \in UNION {ToSet(NewBlock(seen, c)) : c \in {i \in 1 .. n : AtrDefined(i)}}}

LiveBlocks(side, n) == Live(BlocksMade(side, n), n)

\* The tracked blocks are blocks, none of them spent or expired.
TrackedBlocksAreLive ==
  \A side \in Sides : ToSet(blocks[side]) \subseteq LiveBlocks(side, Len(bars))

\* A live block that is not tracked was crowded out at some bar since it was made.
NoBlockIsMissed ==
  \A side \in Sides :
    \A block \in LiveBlocks(side, Len(bars)) \ ToSet(blocks[side]) :
      \E n \in block.created .. Len(bars) :
        CrowdedOut(block, LiveBlocks(side, n), Seen(side, bars)[n])
=============================================================================
