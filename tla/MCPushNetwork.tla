--------------------------- MODULE MCPushNetwork ----------------------------
(***************************************************************************)
(* The smallest network in which Data can circle: a ring of three routers, *)
(* two of them next to the producer's node r, and consumers at two of the  *)
(* routers (the ring R4-Cons1-R5-Cons2 of push-circle-topo.txt, shortened).*)
(* Every router has both its neighbours of the ring as next hops, as       *)
(* CalculateAllPossibleRoutes installs them.                               *)
(***************************************************************************)
EXTENDS PushNetwork

CONSTANTS r, a, b, c

Edges  == {<<r, a>>, <<r, b>>, <<a, b>>, <<a, c>>, <<b, c>>}
MCLink == Edges \cup {<<e[2], e[1]>> : e \in Edges}
MCFib  == [n \in {r, a, b, c} |-> IF n = r THEN {App} ELSE Face(n) \ {App}]

\* What the theorems of PushNetworkProofs suppose holds of this network.
ASSUME ServableNetwork ==
  FibOnLinks /\ LeadsToRoot /\ Root \notin Consumer /\ Size > 1
=============================================================================
