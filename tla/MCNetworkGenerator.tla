---- MODULE MCNetworkGenerator ----
(* A topology of two ASes with two nodes each, one of them a leaf, and one  *)
(* of a single AS, which BRITE numbers -1.                                  *)
EXTENDS NetworkGenerator

Edge(a, b, w) == [src |-> a, dest |-> b, bw |-> w]

MCGraph ==
  { [as |-> <<0, 0, 1, 1>>, leaf |-> {1, 3}, edges |-> <<Edge(0, 1, 1), Edge(1, 2, 2), Edge(3, 2, 1)>>],
    [as |-> <<-1, -1, -1>>, leaf |-> {2}, edges |-> <<Edge(1, 0, 1), Edge(1, 2, 1)>>] }

MCCalls ==
  { [op |-> "BetweenAllAS", k |-> 2, bw |-> 3], [op |-> "BetweenTwoAS", k |-> 1, bw |-> 3],
    [op |-> "PerAS", k |-> 1, bw |-> 4] }

MCPlaces ==
  { [id |-> "Callee", count |-> 2, place |-> "LeafNode", as |-> {}, bw |-> 5],
    [id |-> "Client", count |-> 1, place |-> "ASNode", as |-> {1, 3}, bw |-> 5] }
====
