------------------------------ MODULE BriteTopology ------------------------------
(***************************************************************************)
(* The topology NDNBriteHelper builds from a BRITE graph                    *)
(* (extensions/randnetworks/ndnbritehelper.cc): the autonomous systems and  *)
(* their nodes, the leaf nodes new nodes are attached to, and one           *)
(* point-to-point link per edge.  BRITE itself is external: a graph gives   *)
(* for each node its AS, -1 when there is only one AS, and whether BRITE    *)
(* calls it a leaf, and its edges in order.  Coordinates, degrees, lengths, *)
(* delays and queues decide nothing and are left out.                       *)
(***************************************************************************)
EXTENDS Integers, Sequences, FiniteSets

CONSTANT Graph   \* the graphs BRITE may return

BriteNodes(g) == 0..Len(g.as) - 1

(* BRITE numbers the nodes of a top-down topology AS by AS and draws at     *)
(* most one edge between two nodes.                                         *)
ASSUME GraphAssumption ==
  /\ Graph # {}
  /\ \A g \in Graph :
       /\ g.as \in Seq(Int)
       /\ g.as # << >>
       /\ \A i \in DOMAIN g.as : g.as[i] >= -1
       /\ \A i, j \in DOMAIN g.as : i < j => g.as[i] <= g.as[j]
       /\ g.leaf \subseteq BriteNodes(g)
       /\ g.edges \in Seq([src : BriteNodes(g), dest : BriteNodes(g), bw : Nat])
       /\ \A k \in DOMAIN g.edges : g.edges[k].src # g.edges[k].dest
       /\ \A k, l \in DOMAIN g.edges :
            {g.edges[k].src, g.edges[k].dest} = {g.edges[l].src, g.edges[l].dest} => k = l

VARIABLES
  numNodes,     \* the nodes created so far are 0..numNodes - 1
  nodesByAs,    \* AS |-> its nodes; its domain is 0..m_numAs - 1
  asLeafNodes,  \* AS |-> its leaf nodes
  links         \* the links in the order they are installed

briteVars == <<numNodes, nodesByAs, asLeafNodes, links>>

BriteInit ==
  /\ numNodes = 0
  /\ nodesByAs = << >>
  /\ asLeafNodes = << >>
  /\ links = << >>

-----------------------------------------------------------------------------
Link(a, b, bw) == [ends |-> <<a, b>>, bw |-> bw]

-----------------------------------------------------------------------------
(* BuildBriteNodeInfoList: the AS of each node, and m_numAs, which is left  *)
(* at the AS of the node read last.                                         *)
AsId(as) == IF as = -1 THEN 0 ELSE as
NodeInfo(g) == [n \in BriteNodes(g) |-> [asId |-> AsId(g.as[n + 1]), leaf |-> n \in g.leaf]]

\* Mutant: the number of the last AS, without the one added at the end.
HighestAs(g) == AsId(g.as[Len(g.as)])
NumAs(g) == AsId(g.as[Len(g.as)]) + 1

(* BuildBriteEdgeInfoList.                                                  *)
EdgeInfo(g) ==
  [k \in DOMAIN g.edges |->
     LET e == g.edges[k]
     IN  [srcId |-> e.src, destId |-> e.dest, bandwidth |-> e.bw,
          asFrom |-> NodeInfo(g)[e.src].asId, asTo |-> NodeInfo(g)[e.dest].asId]]

(* ConstructTopology, and the nodes BuildBriteTopology creates before it.   *)
ConstructTopology(g) ==
  /\ numNodes' = Len(g.as)
  /\ nodesByAs' = [as \in 0..NumAs(g) - 1 |->
                     {n \in BriteNodes(g) : NodeInfo(g)[n].asId = as}]
  /\ asLeafNodes' = [as \in 0..NumAs(g) - 1 |->
                       {n \in BriteNodes(g) : NodeInfo(g)[n].asId = as /\ NodeInfo(g)[n].leaf}]
  /\ links' = [k \in DOMAIN g.edges |->
                 Link(EdgeInfo(g)[k].srcId, EdgeInfo(g)[k].destId, EdgeInfo(g)[k].bandwidth)]

(* BuildBriteTopology, with GenerateBriteTopology: BRITE is run once, from  *)
(* random seeds.                                                            *)
BuildBriteTopology ==
  /\ numNodes = 0
  /\ \E g \in Graph : ConstructTopology(g)

-----------------------------------------------------------------------------
(* The getters of the helper and of NetworkGenerator.                       *)
GetNAs == Cardinality(DOMAIN nodesByAs)
AllAS == DOMAIN nodesByAs
getAllASNodesFromAS(as) == nodesByAs[as]
getAllLeafNodesFromAS(as) == asLeafNodes[as]
getAllASNodes == UNION {nodesByAs[as] : as \in AllAS}
getAllLeafNodes == UNION {asLeafNodes[as] : as \in AllAS}
===============================================================================
