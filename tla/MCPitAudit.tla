----------------------------- MODULE MCPitAudit -----------------------------
(* The batch driver and its audit, on histories past warmup and margin. *)
EXTENDS PitAudit

\* The 15m bar is two base bars long, any other three.
MCWidth == [tf \in Intraday |-> IF tf = "15m" THEN 2 ELSE 3]
=============================================================================
