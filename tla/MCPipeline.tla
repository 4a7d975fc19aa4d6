----------------------------- MODULE MCPipeline -----------------------------
(***************************************************************************)
(* Pipeline with a base table of a few bars and one context table, over    *)
(* two months.  A bar has a stamp and says which version made it.          *)
(***************************************************************************)
EXTENDS Pipeline, TLC

Bar(month, at, rev) == [month |-> month, at |-> at, rev |-> rev]

\* The second version revises a bar and adds one, the third a month.
MCGrowing ==
  << ("5m" :> {Bar(1, 1, 1)} @@ "1h" :> {Bar(1, 1, 1)}),
     ("5m" :> {Bar(1, 1, 2), Bar(1, 2, 2)} @@ "1h" :> {Bar(1, 1, 2)}),
     ("5m" :> {Bar(1, 1, 2), Bar(1, 2, 2), Bar(2, 3, 2)}
        @@ "1h" :> {Bar(1, 1, 2), Bar(2, 3, 2)}) >>

\* The second version starts a month later.
MCShrinking ==
  << ("5m" :> {Bar(1, 1, 1), Bar(2, 3, 1)} @@ "1h" :> {Bar(1, 1, 1), Bar(2, 3, 1)}),
     ("5m" :> {Bar(2, 3, 2), Bar(2, 4, 2)} @@ "1h" :> {Bar(2, 3, 2)}) >>

\* Three deliveries, each of some bars only: the second corrects the first.
MCDeliveries ==
  << ("5m" :> {Bar(1, 1, 1), Bar(1, 2, 1)} @@ "1h" :> {Bar(1, 1, 1)}),
     ("5m" :> {Bar(1, 2, 2)} @@ "1h" :> {Bar(1, 1, 2)}),
     ("5m" :> {Bar(1, 3, 3), Bar(2, 4, 3)} @@ "1h" :> {Bar(1, 1, 3), Bar(2, 4, 3)}) >>

Use(overwrite, grows, content, k) ==
  [overwrite |-> overwrite, grows |-> grows, content |-> content, kills |-> k]

MCSources ==
  {Use(TRUE, TRUE, MCGrowing, 1), Use(TRUE, FALSE, MCShrinking, 1),
   Use(FALSE, FALSE, MCDeliveries, 1)}

MCTables == <<"5m", "1h">>

Config(features, context) == [features |-> features, context |-> context]
MCDeployed == Config("f1", {"1h"})
MCConfigs == {MCDeployed, Config("f1", {})}
=============================================================================
