---- MODULE MCLowestCostStrategy ----
(* Consumers behind c and neighbours behind a, which is a next hop too. *)
EXTENDS LowestCostStrategy

CONSTANTS a, b, c, d, p, q, x

MCNextHops == <<a, b, d>>
OneName    == {<<p, c>>, <<p, a>>, <<x, c>>, <<x, a>>}
TwoNames   == {<<p, a>>, <<q, c>>, <<x, c>>}
====
