------------------------- MODULE NetworkGeneratorProofs -------------------------
(***************************************************************************)
(* Whatever graph BRITE draws and whatever calls are made of the generator: *)
(* the types of the topology hold and no two nodes are joined twice, so     *)
(* that a failure named by two nodes is the failure of one link (NetInv);   *)
(* failures take links down and up as drawn (FailInv); a call adds what it  *)
(* was asked for or what there is room for (CallInv); and an export lists   *)
(* the links (PlacedApart).                                                 *)
(***************************************************************************)
EXTENDS NetworkGenerator, SequenceTheorems, FiniteSetTheorems, WellFoundedInduction, TLAPS

\* A set of naturals has a first member.
LEMMA FirstIsMember ==
  ASSUME NEW T, T \subseteq Nat, T # {}
  PROVE  First(T) \in T /\ \A n \in T : First(T) <= n
<1>1. PICK m \in T : \A n \in T : <<n, m>> \notin OpToRel(<, Nat)
  BY WFMin, NatLessThanWellFounded, Zenon
<1>2. ASSUME NEW n \in T PROVE ~ (n < m)
  BY <1>1, Zenon DEF OpToRel
<1>3. \E i \in T : \A j \in T : i <= j
  BY <1>2
<1> QED BY <1>3 DEF First

-----------------------------------------------------------------------------
(* The inductive invariant.  Every event still names a link that is there,  *)
(* which is what setErrorRate relies on.                                    *)
LinkSet == [ends : Nat \X Nat, bw : Nat]

NetTypes ==
  /\ numNodes \in Nat
  /\ links \in Seq(LinkSet)
  /\ uid \in Nat
  /\ custom \in [Identifier -> SUBSET Nat]
  /\ todo # {} => call.bw \in Nat /\ numNodes > 0
  /\ \A r \in todo : call.op # "BetweenTwoAS" => r[1] \in AllAS /\ r[2] \in AllAS

Containers ==
  /\ DOMAIN asLeafNodes = DOMAIN nodesByAs
  /\ \A as \in AllAS : asLeafNodes[as] \subseteq nodesByAs[as]
  /\ getAllASNodes \cup UNION {custom[id] : id \in Identifier} = 0..numNodes - 1

Joins(x, m) == x.ends[1] < m /\ x.ends[2] < m /\ x.ends[1] # x.ends[2]
EndSet(x) == {x.ends[1], x.ends[2]}

LinksOK ==
  /\ \A l \in DOMAIN links : Joins(links[l], numNodes)
  /\ \A k, l \in DOMAIN links : EndSet(links[k]) = EndSet(links[l]) => k = l

EventsOK ==
  \A e \in events :
    e.uid \in Nat /\ e.uid < uid /\ \E l \in DOMAIN links : e.n1 = links[l].ends[1] /\ e.n2 = links[l].ends[2]

ErrorsOK == DOMAIN errorModel \subseteq (DOMAIN links) \X {1, 2}

NetInv == NetTypes /\ Containers /\ LinksOK /\ EventsOK /\ ErrorsOK

LEMMA NetInvProperties == NetInv => TypeOK /\ NoParallelLinks
<1> SUFFICES ASSUME NetInv PROVE TypeOK /\ NoParallelLinks
  OBVIOUS
<1>1. \A l \in DOMAIN links : links[l] \in LinkSet
  BY LenProperties, ElementOfSeq DEF NetInv, NetTypes
<1>2. NoParallelLinks
  BY DEF NetInv, LinksOK, Joins, EndSet, NoParallelLinks, Ends
<1>3. \A l \in DOMAIN links : links[l].ends[1] \in 0..numNodes - 1 /\ links[l].ends[2] \in 0..numNodes - 1
  BY <1>1 DEF NetInv, NetTypes, LinksOK, Joins, LinkSet
<1>4. \A l \in DOMAIN links : Ends(l) \subseteq 0..numNodes - 1
  BY <1>3 DEF Ends
<1>5. \A e \in events : e.n1 \in 0..numNodes - 1 /\ e.n2 \in 0..numNodes - 1 /\ e.uid < uid
  BY <1>3 DEF NetInv, EventsOK
<1>6. numNodes \in Nat /\ DOMAIN errorModel \subseteq (DOMAIN links) \X {1, 2}
  BY DEF NetInv, NetTypes, ErrorsOK
<1>7. TypeOK
  BY <1>4, <1>5, <1>6 DEF NetInv, Containers, TypeOK
<1> QED BY <1>2, <1>7

LEMMA NetInvInit == Init => NetInv
<1> SUFFICES ASSUME Init PROVE NetInv
  OBVIOUS
<1>1. NetTypes
  <2>1. links \in Seq(LinkSet)
    BY EmptySeq DEF Init, BriteInit
  <2> QED BY <2>1 DEF Init, BriteInit, LinkInit, NetTypes
<1>2. Containers
  BY DEF Init, BriteInit, Containers, AllAS, getAllASNodes
<1>3. LinksOK /\ EventsOK /\ ErrorsOK
  BY DEF Init, BriteInit, LinkInit, LinksOK, EventsOK, ErrorsOK
<1> QED BY <1>1, <1>2, <1>3 DEF NetInv

-----------------------------------------------------------------------------
(* A function on 1..n is a sequence.                                        *)
LEMMA Listed ==
  ASSUME NEW S, NEW n \in Nat, NEW f \in [1..n -> S]
  PROVE  f \in Seq(S) /\ DOMAIN f = 1..n
<1>1. f \in UNION {[1..m -> S] : m \in Nat}
  OBVIOUS
<1> QED BY <1>1, SeqDef

(* New links after the old ones, all between nodes not yet joined.          *)
LEMMA MoreLinks ==
  ASSUME NetInv, NEW m \in Nat, numNodes' = m, numNodes <= m,
         NEW new \in Seq(LinkSet), links' = links \o new,
         \A i \in DOMAIN new : Joins(new[i], m),
         \A i \in DOMAIN new : \A l \in DOMAIN links : EndSet(new[i]) # EndSet(links[l]),
         \A i, j \in DOMAIN new : EndSet(new[i]) = EndSet(new[j]) => i = j,
         UNCHANGED <<events, uid, errorModel>>
  PROVE  links' \in Seq(LinkSet) /\ LinksOK' /\ EventsOK' /\ ErrorsOK'
<1> DEFINE n == Len(links)
<1>1. links \in Seq(LinkSet)
  BY DEF NetInv, NetTypes
<1>2. /\ n \in Nat /\ DOMAIN links = 1..n
      /\ Len(new) \in Nat /\ DOMAIN new = 1..Len(new)
  BY <1>1, LenProperties
<1>3. /\ links' \in Seq(LinkSet) /\ Len(links') = n + Len(new)
      /\ \A i \in 1..n + Len(new) : links'[i] = IF i <= n THEN links[i] ELSE new[i - n]
  BY <1>1, ConcatProperties
<1>4. DOMAIN links' = 1..n + Len(new)
  BY <1>3, LenProperties
<1> HIDE DEF n
<1>5. \A l \in DOMAIN links : l \in DOMAIN links' /\ links'[l] = links[l]
  BY <1>2, <1>3, <1>4
<1>6. \A l \in DOMAIN links' :
        l \notin DOMAIN links => l > n /\ l \in Nat /\ l - n \in DOMAIN new /\ links'[l] = new[l - n]
  BY <1>2, <1>3, <1>4
<1>7. \A l \in DOMAIN links : links[l] \in LinkSet
  BY <1>1, <1>2, ElementOfSeq
<1>8. ASSUME NEW l \in DOMAIN links' PROVE Joins(links'[l], m)
  <2>1. CASE l \in DOMAIN links
    <3>1. Joins(links[l], numNodes)
      BY <2>1 DEF NetInv, LinksOK
    <3>2. links[l].ends[1] \in Nat /\ links[l].ends[2] \in Nat /\ numNodes \in Nat
      BY <1>7, <2>1 DEF NetInv, NetTypes, LinkSet
    <3> QED BY <1>5, <2>1, <3>1, <3>2 DEF Joins
  <2>2. CASE l \notin DOMAIN links
    BY <1>6, <2>2
  <2> QED BY <2>1, <2>2
<1>9. ASSUME NEW k \in DOMAIN links', NEW l \in DOMAIN links', EndSet(links'[k]) = EndSet(links'[l])
      PROVE  k = l
  <2>1. CASE k \in DOMAIN links /\ l \in DOMAIN links
    BY <1>5, <1>9, <2>1 DEF NetInv, LinksOK
  <2>2. CASE k \in DOMAIN links /\ l \notin DOMAIN links
    <3>1. links'[k] = links[k] /\ l - n \in DOMAIN new /\ links'[l] = new[l - n]
      BY <1>5, <1>6, <2>2
    <3> QED BY <1>9, <2>2, <3>1
  <2>3. CASE k \notin DOMAIN links /\ l \in DOMAIN links
    <3>1. links'[l] = links[l] /\ k - n \in DOMAIN new /\ links'[k] = new[k - n]
      BY <1>5, <1>6, <2>3
    <3> QED BY <1>9, <2>3, <3>1
  <2>4. CASE k \notin DOMAIN links /\ l \notin DOMAIN links
    <3>1. /\ k - n \in DOMAIN new /\ links'[k] = new[k - n] /\ k \in Nat
          /\ l - n \in DOMAIN new /\ links'[l] = new[l - n] /\ l \in Nat
      BY <1>6, <2>4
    <3>2. k - n = l - n
      BY <1>9, <3>1
    <3> QED BY <1>2, <3>1, <3>2
  <2> QED BY <2>1, <2>2, <2>3, <2>4
<1>10. LinksOK'
  BY <1>8, <1>9 DEF LinksOK, Joins, EndSet
<1>11. EventsOK'
  BY <1>5 DEF NetInv, EventsOK
<1>12. ErrorsOK'
  BY <1>5 DEF NetInv, ErrorsOK
<1> QED BY <1>3, <1>10, <1>11, <1>12

(* A step that adds no link and builds nothing.                             *)
LEMMA SameLinks ==
  ASSUME NetInv, UNCHANGED <<briteVars, custom>>, uid' \in Nat,
         todo' # {} => call'.bw \in Nat /\ numNodes > 0,
         \A r \in todo' : call'.op # "BetweenTwoAS" => r[1] \in AllAS /\ r[2] \in AllAS
  PROVE  NetTypes' /\ Containers' /\ LinksOK'
<1>1. UNCHANGED <<numNodes, nodesByAs, asLeafNodes, links>>
  BY DEF briteVars
<1>2. NetTypes'
  BY <1>1 DEF NetInv, NetTypes, AllAS
<1>3. Containers'
  BY <1>1 DEF NetInv, Containers, AllAS, getAllASNodes
<1>4. LinksOK'
  BY <1>1 DEF NetInv, LinksOK, Joins, EndSet
<1> QED BY <1>2, <1>3, <1>4

(* The constructor: there was nothing before it.                            *)
LEMMA ConstructInv ==
  ASSUME NetInv, Construct
  PROVE  NetInv'
<1>1. PICK g \in Graph : ConstructTopology(g)
  BY DEF Construct, BuildBriteTopology
<1>2. /\ g.as \in Seq(Int) /\ g.as # << >>
      /\ \A i \in DOMAIN g.as : g.as[i] >= -1
      /\ \A i, j \in DOMAIN g.as : i < j => g.as[i] <= g.as[j]
      /\ g.edges \in Seq([src : BriteNodes(g), dest : BriteNodes(g), bw : Nat])
      /\ \A k \in DOMAIN g.edges : g.edges[k].src # g.edges[k].dest
      /\ \A k, l \in DOMAIN g.edges :
           {g.edges[k].src, g.edges[k].dest} = {g.edges[l].src, g.edges[l].dest} => k = l
  BY GraphAssumption
<1> DEFINE n == Len(g.as)
           e == Len(g.edges)
<1>3. n \in Nat \ {0} /\ DOMAIN g.as = 1..n /\ BriteNodes(g) = 0..n - 1
  BY <1>2, LenProperties, EmptySeq DEF BriteNodes
<1>4. /\ e \in Nat /\ DOMAIN g.edges = 1..e
      /\ \A k \in 1..e : g.edges[k].src \in 0..n - 1 /\ g.edges[k].dest \in 0..n - 1 /\ g.edges[k].bw \in Nat
  <2>1. e \in Nat /\ DOMAIN g.edges = 1..e
    BY <1>2, LenProperties
  <2>2. \A k \in 1..e : g.edges[k] \in [src : BriteNodes(g), dest : BriteNodes(g), bw : Nat]
    BY <1>2, <2>1, ElementOfSeq
  <2> QED BY <1>3, <2>1, <2>2
<1> HIDE DEF n, e
<1>5. numNodes = 0 /\ UNCHANGED <<linkVars, genVars>>
  BY DEF Construct, BuildBriteTopology
<1>6. links = << >> /\ DOMAIN links = {}
  <2>1. links \in Seq(LinkSet)
    BY DEF NetInv, NetTypes
  <2>2. ASSUME NEW l \in DOMAIN links PROVE FALSE
    <3>1. links[l] \in LinkSet
      BY <2>1, LenProperties, ElementOfSeq
    <3> QED BY <1>5, <3>1 DEF NetInv, LinksOK, Joins, LinkSet
  <2>3. /\ DOMAIN links = 1..Len(links) /\ Len(links) \in Nat
        /\ links # << >> => Len(links) \in Nat \ {0}
    BY <2>1, LenProperties, EmptySeq
  <2>4. DOMAIN links = {}
    BY <2>2
  <2>5. Len(links) = 0
    BY <2>3, <2>4
  <2> QED BY <2>3, <2>4, <2>5
<1>7. events = {} /\ DOMAIN errorModel = {}
  BY <1>6 DEF NetInv, EventsOK, ErrorsOK
<1>8. /\ numNodes' = n
      /\ links' = [k \in 1..e |-> Link(g.edges[k].src, g.edges[k].dest, g.edges[k].bw)]
  <2>1. /\ numNodes' = n
        /\ links' = [k \in 1..e |-> Link(EdgeInfo(g)[k].srcId, EdgeInfo(g)[k].destId,
                                       EdgeInfo(g)[k].bandwidth)]
    BY <1>1, <1>4 DEF ConstructTopology, n
  <2>2. \A k \in 1..e : /\ EdgeInfo(g)[k].srcId = g.edges[k].src
                        /\ EdgeInfo(g)[k].destId = g.edges[k].dest
                        /\ EdgeInfo(g)[k].bandwidth = g.edges[k].bw
    BY <1>4 DEF EdgeInfo
  <2> QED BY <2>1, <2>2
<1>9. links' \in Seq(LinkSet) /\ DOMAIN links' = 1..e
  <2>1. links' \in [1..e -> LinkSet]
    BY <1>4, <1>8 DEF Link, LinkSet
  <2>2. e \in Nat
    BY <1>4
  <2> QED BY <2>1, <2>2, Listed
<1>10. \A k \in 1..e : links'[k].ends[1] = g.edges[k].src /\ links'[k].ends[2] = g.edges[k].dest
  BY <1>8 DEF Link
<1>11. LinksOK'
  <2>1. ASSUME NEW k \in 1..e PROVE Joins(links'[k], numNodes')
    <3>1. g.edges[k].src # g.edges[k].dest /\ numNodes' = n
      BY <1>2, <1>4, <1>8
    <3>2. g.edges[k].src < n /\ g.edges[k].dest < n
      BY <1>3, <1>4
    <3> QED BY <1>10, <3>1, <3>2 DEF Joins
  <2>2. ASSUME NEW k \in 1..e, NEW l \in 1..e, EndSet(links'[k]) = EndSet(links'[l]) PROVE k = l
    <3>1. {g.edges[k].src, g.edges[k].dest} = {g.edges[l].src, g.edges[l].dest}
      BY <1>10, <2>2 DEF EndSet
    <3> QED BY <1>2, <1>4, <3>1
  <2> QED BY <1>9, <2>1, <2>2 DEF LinksOK, Joins, EndSet
<1>12. NetTypes'
  <2>1. todo' = {} /\ custom' = custom /\ uid' = uid
    BY <1>5 DEF NetInv, NetTypes, linkVars, genVars
  <2> QED BY <1>3, <1>8, <1>9, <2>1 DEF NetInv, NetTypes
<1>13. Containers'
  <2> DEFINE asOf == [m \in 0..n - 1 |-> AsId(g.as[m + 1])]
             high == NumAs(g) - 1
  <2>0. n \in 1..n /\ \A i \in 1..n : g.as[i] \in Int /\ g.as[i] >= -1 /\ g.as[i] <= g.as[n]
    <3>1. n \in 1..n /\ \A i \in 1..n : g.as[i] \in Int
      BY <1>2, <1>3, ElementOfSeq DEF n
    <3>2. ASSUME NEW i \in 1..n PROVE g.as[i] >= -1 /\ g.as[i] <= g.as[n]
      <4>1. n \in DOMAIN g.as /\ i \in DOMAIN g.as /\ n \in 1..n
        BY <1>3
      <4>2. g.as[i] >= -1 /\ (i < n => g.as[i] <= g.as[n])
        BY <1>2, <4>1
      <4>3. g.as[i] \in Int /\ g.as[n] \in Int
        BY <3>1, <4>1
      <4> QED BY <1>3, <4>2, <4>3
    <3> QED BY <3>1, <3>2
  <2>1. \A m \in 0..n - 1 : g.as[m + 1] \in Int /\ g.as[m + 1] >= -1 /\ g.as[m + 1] <= g.as[n]
    <3>1. \A m \in 0..n - 1 : m + 1 \in 1..n
      BY <1>3
    <3> QED BY <2>0, <3>1
  <2>2. \A m \in 0..n - 1 : asOf[m] \in 0..high
    <3>1. high = AsId(g.as[n]) /\ g.as[n] \in Int /\ g.as[n] >= -1
      <4>1. g.as[n] \in Int /\ g.as[n] >= -1
        BY <2>0
      <4> QED BY <4>1 DEF NumAs, AsId, n
    <3> QED BY <2>1, <3>1 DEF AsId
  <2>3. NodeInfo(g) = [m \in 0..n - 1 |-> [asId |-> asOf[m], leaf |-> m \in g.leaf]]
    BY <1>3 DEF NodeInfo
  <2> HIDE DEF asOf, high
  <2>4. /\ nodesByAs' = [as \in 0..high |-> {m \in 0..n - 1 : asOf[m] = as}]
        /\ asLeafNodes' = [as \in 0..high |-> {m \in 0..n - 1 : asOf[m] = as /\ m \in g.leaf}]
    <3>1. \A m \in 0..n - 1 : /\ NodeInfo(g)[m].asId = asOf[m]
                              /\ NodeInfo(g)[m].leaf = (m \in g.leaf)
      BY <2>3
    <3>2. /\ nodesByAs' = [as \in 0..high |-> {m \in 0..n - 1 : NodeInfo(g)[m].asId = as}]
          /\ asLeafNodes' = [as \in 0..high |->
                               {m \in 0..n - 1 : NodeInfo(g)[m].asId = as /\ NodeInfo(g)[m].leaf}]
      BY <1>1, <1>3 DEF ConstructTopology, high
    <3> QED BY <3>1, <3>2
  <2>5. /\ DOMAIN asLeafNodes' = DOMAIN nodesByAs' /\ DOMAIN nodesByAs' = 0..high
        /\ \A as \in 0..high : asLeafNodes'[as] \subseteq nodesByAs'[as]
    BY <2>4
  <2>6. UNION {nodesByAs'[as] : as \in 0..high} = 0..n - 1
    <3>1. \A as \in 0..high : nodesByAs'[as] \subseteq 0..n - 1
      BY <2>4
    <3>2. \A m \in 0..n - 1 : m \in nodesByAs'[asOf[m]]
      BY <2>2, <2>4
    <3> QED BY <2>2, <3>1, <3>2
  <2>7. UNION {custom'[id] : id \in Identifier} = {}
    <3>1. getAllASNodes \cup UNION {custom[id] : id \in Identifier} = {}
      BY <1>5 DEF NetInv, Containers
    <3>2. custom' = custom
      BY <1>5 DEF genVars
    <3> QED BY <3>1, <3>2
  <2> QED BY <1>8, <2>5, <2>6, <2>7 DEF Containers, AllAS, getAllASNodes
<1>14. EventsOK' /\ ErrorsOK'
  BY <1>5, <1>7 DEF EventsOK, ErrorsOK, linkVars
<1> QED BY <1>11, <1>12, <1>13, <1>14 DEF NetInv

-----------------------------------------------------------------------------
(* The calls that add links.                                                *)
LEMMA UnconnectedPair ==
  ASSUME NetInv, NEW a, NEW b, a # b, ~nodesConnected(a, b), NEW x, x.ends = <<a, b>>
  PROVE  \A l \in DOMAIN links : EndSet(x) # EndSet(links[l])
<1> SUFFICES ASSUME NEW l \in DOMAIN links, EndSet(x) = EndSet(links[l]) PROVE FALSE
  OBVIOUS
<1>1. Ends(l) = {a, b}
  BY DEF EndSet, Ends
<1> QED BY <1>1 DEF nodesConnected, Devices

LEMMA OneMoreLink ==
  ASSUME NetInv, NEW a \in 0..numNodes - 1, NEW b \in 0..numNodes - 1, a # b, ~nodesConnected(a, b),
         NEW bw \in Nat,
         links' = Append(links, Link(a, b, bw)),
         UNCHANGED <<numNodes, events, uid, errorModel>>
  PROVE  links' \in Seq(LinkSet) /\ LinksOK' /\ EventsOK' /\ ErrorsOK'
<1> DEFINE x == Link(a, b, bw)
           new == <<x>>
<1>1. numNodes \in Nat /\ links \in Seq(LinkSet) /\ numNodes' = numNodes
  BY DEF NetInv, NetTypes
<1>2. x \in LinkSet /\ x.ends = <<a, b>>
  BY <1>1 DEF Link, LinkSet
<1> HIDE DEF x
<1>3. new \in Seq(LinkSet) /\ DOMAIN new = {1} /\ new[1] = x
  BY <1>2
<1>4. links' = links \o new
  BY <1>1, <1>2, AppendIsConcat DEF x
<1>5. Joins(x, numNodes)
  BY <1>1, <1>2 DEF Joins
<1>6. \A l \in DOMAIN links : EndSet(x) # EndSet(links[l])
  BY <1>2, UnconnectedPair
<1> HIDE DEF new
<1>7. /\ \A i \in DOMAIN new : Joins(new[i], numNodes)
      /\ \A i \in DOMAIN new : \A l \in DOMAIN links : EndSet(new[i]) # EndSet(links[l])
      /\ \A i, j \in DOMAIN new : EndSet(new[i]) = EndSet(new[j]) => i = j
  BY <1>3, <1>5, <1>6
<1>8. PICK m \in Nat : m = numNodes
  BY <1>1
<1>9. numNodes' = m /\ numNodes <= m
  BY <1>1, <1>8
<1> QED BY <1>3, <1>4, <1>7, <1>8, <1>9, MoreLinks

LEMMA AddConnectionInv ==
  ASSUME NetInv, AddConnection
  PROVE  NetInv'
<1>1. /\ todo # {} /\ \A r \in todo' : r \in todo
      /\ UNCHANGED <<numNodes, nodesByAs, asLeafNodes, linkVars, custom, call, calls, base>>
  BY DEF AddConnection
<1>2. PICK r \in todo : \E as \in Drawn(r) :
         \/ \E p \in getPairOfUnconnectedNodes(as[1], as[2]) : Install(p, call.bw)
         \/ getPairOfUnconnectedNodes(as[1], as[2]) = {} /\ UNCHANGED links
  BY DEF AddConnection
<1>3. PICK as \in Drawn(r) :
         \/ \E p \in getPairOfUnconnectedNodes(as[1], as[2]) : Install(p, call.bw)
         \/ UNCHANGED links
  BY <1>2
<1>4. as[1] \in AllAS /\ as[2] \in AllAS
  <2>1. CASE call.op = "BetweenTwoAS"
    BY <2>1 DEF Drawn
  <2>2. CASE call.op # "BetweenTwoAS"
    <3>1. as = <<r[1], r[2]>>
      BY <2>2 DEF Drawn
    <3>2. r[1] \in AllAS /\ r[2] \in AllAS
      BY <2>2 DEF NetInv, NetTypes
    <3> QED BY <3>1, <3>2
  <2> QED BY <2>1, <2>2
<1>5. call.bw \in Nat
  BY <1>1 DEF NetInv, NetTypes
<1>6. /\ UNCHANGED <<numNodes, nodesByAs, asLeafNodes, custom, call, events, uid, errorModel>>
  BY <1>1 DEF linkVars
<1>7. links' \in Seq(LinkSet) /\ LinksOK' /\ EventsOK' /\ ErrorsOK'
  <2>1. CASE UNCHANGED links
    BY <1>6, <2>1 DEF NetInv, NetTypes, LinksOK, EventsOK, ErrorsOK, Joins, EndSet
  <2>2. CASE \E p \in getPairOfUnconnectedNodes(as[1], as[2]) : Install(p, call.bw)
    <3>1. PICK p \in getPairOfUnconnectedNodes(as[1], as[2]) : Install(p, call.bw)
      BY <2>2
    <3>2. /\ p[1] \in nodesByAs[as[1]] /\ p[2] \in nodesByAs[as[2]]
          /\ p[1] # p[2] /\ ~nodesConnected(p[1], p[2])
      BY DEF getPairOfUnconnectedNodes, getAllASNodesFromAS
    <3>3. p[1] \in 0..numNodes - 1 /\ p[2] \in 0..numNodes - 1
      BY <1>4, <3>2 DEF NetInv, Containers, getAllASNodes
    <3> QED BY <1>5, <1>6, <3>1, <3>2, <3>3, OneMoreLink DEF Install
  <2> QED BY <1>3, <2>1, <2>2
<1>8. NetTypes'
  BY <1>1, <1>6, <1>7 DEF NetInv, NetTypes, AllAS
<1>9. Containers'
  BY <1>6 DEF NetInv, Containers, AllAS, getAllASNodes
<1> QED BY <1>7, <1>8, <1>9 DEF NetInv

LEMMA randomlyAddConnectionsInv ==
  ASSUME NetInv, NEW c \in Calls, randomlyAddConnections(c)
  PROVE  NetInv'
<1>1. /\ c.bw \in Nat /\ c.op \in {"BetweenAllAS", "BetweenTwoAS", "PerAS"} /\ numNodes > 0
      /\ UNCHANGED <<briteVars, linkVars, custom>>
      /\ call'.bw = c.bw /\ call'.op = c.op /\ todo' = Iterations(c)
  BY CallsAssumption DEF randomlyAddConnections, Ready
<1>2. ASSUME NEW r \in todo', call'.op # "BetweenTwoAS" PROVE r[1] \in AllAS /\ r[2] \in AllAS
  BY <1>1, <1>2 DEF Iterations
<1>3. NetTypes' /\ Containers' /\ LinksOK'
  BY <1>1, <1>2, SameLinks DEF linkVars, NetInv, NetTypes
<1>4. EventsOK' /\ ErrorsOK'
  BY <1>1 DEF NetInv, EventsOK, ErrorsOK, linkVars, briteVars
<1> QED BY <1>3, <1>4 DEF NetInv

(* The links of placed nodes: each joins a new node and an old one.         *)
LEMMA PlacedLinks ==
  ASSUME NetInv, NEW c \in Places, randomlyPlaceNodes(c)
  PROVE  \E x \in Seq(LinkSet) :
           /\ links' = links \o x
           /\ DOMAIN x = 1..c.count
           /\ \A i \in 1..c.count : x[i].ends[1] = numNodes + i - 1 /\ x[i].ends[2] \in 0..numNodes - 1
<1>1. c.count \in Nat /\ c.bw \in Nat /\ numNodes \in Nat
  BY CallsAssumption DEF NetInv, NetTypes
<1>2. Container(c) \subseteq 0..numNodes - 1
  <2>1. \A as \in AllAS : nodesByAs[as] \subseteq 0..numNodes - 1 /\ asLeafNodes[as] \subseteq 0..numNodes - 1
    BY DEF NetInv, Containers, getAllASNodes
  <2> QED BY <2>1 DEF Container, getAllASNodesFromAS, getAllLeafNodesFromAS
<1>3. PICK at \in [1..c.count -> Container(c)] :
        links' = links \o [i \in 1..c.count |-> Link(numNodes + i - 1, at[i], c.bw)]
  BY DEF randomlyPlaceNodes
<1> DEFINE new == [i \in 1..c.count |-> Link(numNodes + i - 1, at[i], c.bw)]
<1>4. ASSUME NEW i \in 1..c.count
      PROVE  /\ new[i] \in LinkSet /\ new[i].ends[1] = numNodes + i - 1
             /\ new[i].ends[2] \in 0..numNodes - 1
  <2>1. new[i] = Link(numNodes + i - 1, at[i], c.bw)
    OBVIOUS
  <2>2. numNodes + i - 1 \in Nat /\ at[i] \in Container(c)
    BY <1>1
  <2>3. at[i] \in 0..numNodes - 1 /\ at[i] \in Nat
    BY <1>1, <1>2, <2>2
  <2> HIDE DEF new
  <2> QED BY <1>1, <2>1, <2>2, <2>3 DEF Link, LinkSet
<1>5. new \in Seq(LinkSet) /\ DOMAIN new = 1..c.count
  <2>1. new \in [1..c.count -> LinkSet] /\ DOMAIN new = 1..c.count
    BY <1>4
  <2> HIDE DEF new
  <2> QED BY <1>1, <2>1, Listed
<1>6. links' = links \o new
  BY <1>3
<1> HIDE DEF new
<1> QED BY <1>4, <1>5, <1>6

LEMMA randomlyPlaceNodesInv ==
  ASSUME NetInv, NEW c \in Places, randomlyPlaceNodes(c)
  PROVE  NetInv'
<1>1. c.count \in Nat /\ c.bw \in Nat /\ c.id \in Identifier /\ numNodes \in Nat /\ numNodes > 0
  BY CallsAssumption DEF randomlyPlaceNodes, Ready, NetInv, NetTypes, Identifier
<1>2. PICK m \in Nat : m = numNodes + c.count
  BY <1>1
<1>4. /\ numNodes' = m /\ todo = {} /\ todo' = todo /\ custom[c.id] = {}
      /\ custom' = [custom EXCEPT ![c.id] = numNodes..m - 1]
      /\ UNCHANGED <<nodesByAs, asLeafNodes, call, events, uid, errorModel>>
  <2>1. UNCHANGED <<nodesByAs, asLeafNodes, linkVars, call, todo, base>>
    BY DEF randomlyPlaceNodes
  <2>2. todo = {} /\ custom[c.id] = {}
    BY DEF randomlyPlaceNodes, Ready
  <2>3. numNodes' = m
    BY <1>2 DEF randomlyPlaceNodes
  <2>4. custom' = [custom EXCEPT ![c.id] = numNodes..m - 1]
    <3>1. custom' = [custom EXCEPT ![c.id] = numNodes..numNodes + c.count - 1]
      BY DEF randomlyPlaceNodes
    <3>2. numNodes..numNodes + c.count - 1 = numNodes..m - 1
      BY <1>1, <1>2
    <3> QED BY <3>1, <3>2
  <2> QED BY <2>1, <2>2, <2>3, <2>4 DEF linkVars
<1>6. PICK new \in Seq(LinkSet) :
        /\ links' = links \o new
        /\ DOMAIN new = 1..c.count
        /\ \A i \in 1..c.count : new[i].ends[1] = numNodes + i - 1 /\ new[i].ends[2] \in 0..numNodes - 1
  BY PlacedLinks
<1>8. ASSUME NEW i \in 1..c.count PROVE Joins(new[i], m)
  BY <1>1, <1>6, <1>2 DEF Joins
<1>9. ASSUME NEW i \in 1..c.count, NEW l \in DOMAIN links PROVE EndSet(new[i]) # EndSet(links[l])
  <2>1. links[l].ends[1] \in Nat /\ links[l].ends[2] \in Nat
    <3>1. links \in Seq(LinkSet)
      BY DEF NetInv, NetTypes
    <3>2. links[l] \in LinkSet
      BY <3>1, LenProperties, ElementOfSeq
    <3> QED BY <3>2 DEF LinkSet
  <2>2. links[l].ends[1] < numNodes /\ links[l].ends[2] < numNodes
    BY DEF NetInv, LinksOK, Joins
  <2>3. numNodes + i - 1 \in EndSet(new[i])
    BY <1>6 DEF EndSet
  <2>4. numNodes + i - 1 # links[l].ends[1] /\ numNodes + i - 1 # links[l].ends[2]
    BY <1>1, <2>1, <2>2
  <2> QED BY <2>3, <2>4 DEF EndSet
<1>10. ASSUME NEW i \in 1..c.count, NEW j \in 1..c.count, EndSet(new[i]) = EndSet(new[j]) PROVE i = j
  <2>1. numNodes + i - 1 \in {numNodes + j - 1, new[j].ends[2]}
    BY <1>6, <1>10 DEF EndSet
  <2>2. new[j].ends[2] \in Nat /\ new[j].ends[2] < numNodes
    BY <1>1, <1>6
  <2> QED BY <1>1, <2>1, <2>2
<1>11. links' \in Seq(LinkSet) /\ LinksOK' /\ EventsOK' /\ ErrorsOK'
  <2>1. m \in Nat /\ numNodes <= m
    BY <1>1, <1>2
  <2> QED BY <1>4, <1>6, <1>8, <1>9, <1>10, <2>1, MoreLinks
<1>12. /\ \A id \in Identifier : id # c.id => custom'[id] = custom[id]
       /\ custom'[c.id] = numNodes..m - 1 /\ custom' \in [Identifier -> SUBSET Nat]
  <2>1. numNodes..m - 1 \in SUBSET Nat
    BY <1>1
  <2> QED BY <1>1, <1>4, <2>1 DEF NetInv, NetTypes
<1>13. NetTypes'
  BY <1>1, <1>4, <1>11, <1>12 DEF NetInv, NetTypes
<1>14. Containers'
  <2>1. UNION {custom'[id] : id \in Identifier} = (UNION {custom[id] : id \in Identifier}) \cup (numNodes..m - 1)
    <3>1. ASSUME NEW z PROVE z \in UNION {custom'[id] : id \in Identifier}
                            <=> z \in UNION {custom[id] : id \in Identifier} \/ z \in numNodes..m - 1
      <4>1. z \in UNION {custom'[id] : id \in Identifier} <=> \E id \in Identifier : z \in custom'[id]
        OBVIOUS
      <4>2. z \in UNION {custom[id] : id \in Identifier} <=> \E id \in Identifier : z \in custom[id]
        OBVIOUS
      <4> QED BY <1>1, <1>4, <1>12, <4>1, <4>2
    <3> DEFINE old == UNION {custom[id] : id \in Identifier}
               all == UNION {custom'[id] : id \in Identifier}
    <3>2. \A z : z \in all <=> z \in old \/ z \in numNodes..m - 1
      BY <3>1
    <3> HIDE DEF old, all
    <3>3. all = old \cup (numNodes..m - 1)
      BY <3>2
    <3> QED BY <3>3, Zenon DEF old, all
  <2>2. 0..m - 1 = (0..numNodes - 1) \cup (numNodes..m - 1)
    BY <1>1, <1>2
  <2>3. getAllASNodes' = getAllASNodes
    BY <1>4 DEF getAllASNodes, AllAS
  <2>4. getAllASNodes \cup UNION {custom[id] : id \in Identifier} = 0..numNodes - 1
    BY DEF NetInv, Containers
  <2>5. getAllASNodes' \cup UNION {custom'[id] : id \in Identifier} = 0..m - 1
    <3> DEFINE old == UNION {custom[id] : id \in Identifier}
               all == UNION {custom'[id] : id \in Identifier}
    <3>1. all = old \cup (numNodes..m - 1) /\ getAllASNodes \cup old = 0..numNodes - 1
      BY <2>1, <2>4, Zenon
    <3> HIDE DEF old, all
    <3>2. getAllASNodes' \cup all = 0..m - 1
      BY <2>2, <2>3, <3>1
    <3> QED BY <3>2 DEF all
  <2>6. /\ DOMAIN asLeafNodes' = DOMAIN nodesByAs'
        /\ \A as \in AllAS' : asLeafNodes'[as] \subseteq nodesByAs'[as]
    BY <1>4 DEF NetInv, Containers, AllAS
  <2> QED BY <1>4, <2>5, <2>6 DEF Containers
<1> QED BY <1>11, <1>13, <1>14 DEF NetInv

-----------------------------------------------------------------------------
(* The failures and the run.                                                *)
LEMMA LogInv ==
  ASSUME NetInv, NEW k \in Nat, NEW fs, Len(fs) = k, DOMAIN fs = 1..k,
         \A i \in 1..k : fs[i].link \in DOMAIN links,
         Log(fs), UNCHANGED links
  PROVE  EventsOK' /\ uid' \in Nat
<1>1. uid \in Nat /\ uid' = uid + 2 * k
  BY DEF Log, NetInv, NetTypes
<1>2. ASSUME NEW e \in events'
      PROVE  e.uid \in Nat /\ e.uid < uid' /\ \E l \in DOMAIN links : e.n1 = links[l].ends[1] /\ e.n2 = links[l].ends[2]
  <2>1. CASE e \in events
    <3>1. e.uid \in Nat /\ e.uid < uid /\ \E l \in DOMAIN links : e.n1 = links[l].ends[1] /\ e.n2 = links[l].ends[2]
      BY <2>1 DEF NetInv, EventsOK
    <3> QED BY <1>1, <3>1
  <2>2. CASE e \notin events
    <3>1. PICK i \in 1..k : e \in FailureEvents(fs[i], uid + 2 * (i - 1))
      BY <2>2 DEF Log
    <3>2. /\ e.uid = uid + 2 * (i - 1) \/ e.uid = uid + 2 * (i - 1) + 1
          /\ e.n1 = links[fs[i].link].ends[1] /\ e.n2 = links[fs[i].link].ends[2]
      BY <3>1 DEF FailureEvents
    <3> QED BY <1>1, <3>2
  <2> QED BY <2>1, <2>2
<1> QED BY <1>1, <1>2 DEF EventsOK

LEMMA creatRandomLinkFailureInv ==
  ASSUME NetInv, creatRandomLinkFailure
  PROVE  NetInv'
<1>1. PICK l \in DOMAIN links, start \in StartTimes, duration \in Durations, rate \in ErrorRates :
        Log(<<Failure(l, start, duration, rate)>>)
  BY DEF creatRandomLinkFailure, Devices
<1>2. /\ UNCHANGED <<briteVars, errorModel, custom, call, todo>> /\ todo = {}
  BY DEF creatRandomLinkFailure, Ready
<1> DEFINE fs == <<Failure(l, start, duration, rate)>>
<1>3. Len(fs) = 1 /\ DOMAIN fs = 1..1 /\ \A i \in 1..1 : fs[i].link \in DOMAIN links
  BY DEF Failure
<1> HIDE DEF fs
<1>4. EventsOK' /\ uid' \in Nat
  BY <1>1, <1>2, <1>3, LogInv DEF briteVars, fs
<1>5. NetTypes' /\ Containers' /\ LinksOK'
  BY <1>2, <1>4, SameLinks
<1>6. ErrorsOK'
  BY <1>2 DEF NetInv, ErrorsOK, briteVars
<1> QED BY <1>4, <1>5, <1>6 DEF NetInv

LEMMA OutageInv ==
  ASSUME NetInv, Outage
  PROVE  NetInv'
<1>1. PICK k \in Outages : \E link \in [1..k -> DOMAIN links], duration \in [1..k -> Durations] :
        Log([i \in 1..k |-> Failure(link[i], (i - 1) * (StopTime \div k), duration[i], 100)])
  BY DEF Outage, ScheduleOutages
<1>2. PICK link \in [1..k -> DOMAIN links], duration \in [1..k -> Durations] :
        Log([i \in 1..k |-> Failure(link[i], (i - 1) * (StopTime \div k), duration[i], 100)])
  BY <1>1
<1>3. k \in Nat
  BY TimeAssumption
<1>4. /\ UNCHANGED <<briteVars, errorModel, custom, call, todo>> /\ todo = {}
  BY DEF Outage, ScheduleOutages, Ready
<1> DEFINE fs == [i \in 1..k |-> Failure(link[i], (i - 1) * (StopTime \div k), duration[i], 100)]
<1>5. /\ DOMAIN fs = 1..k /\ Len(fs) = k
      /\ \A i \in 1..k : fs[i].link \in DOMAIN links
  BY <1>3 DEF Failure
<1> HIDE DEF fs
<1>6. EventsOK' /\ uid' \in Nat
  BY <1>2, <1>3, <1>4, <1>5, LogInv DEF briteVars, fs
<1>7. NetTypes' /\ Containers' /\ LinksOK'
  BY <1>4, <1>6, SameLinks
<1>8. ErrorsOK'
  BY <1>4 DEF NetInv, ErrorsOK, briteVars
<1> QED BY <1>6, <1>7, <1>8 DEF NetInv

LEMMA introduceErrorInv ==
  ASSUME NetInv, introduceError
  PROVE  NetInv'
<1>1. /\ UNCHANGED <<briteVars, events, uid, custom, call, todo>> /\ todo = {}
  BY DEF introduceError, Ready
<1>2. NetTypes' /\ Containers' /\ LinksOK'
  BY <1>1, SameLinks DEF NetInv, NetTypes
<1>3. ErrorsOK'
  BY <1>1 DEF introduceError, NetInv, ErrorsOK, briteVars, WithRates
<1>4. EventsOK'
  BY <1>1 DEF NetInv, EventsOK, briteVars
<1> QED BY <1>2, <1>3, <1>4 DEF NetInv

LEMMA RunInv ==
  ASSUME NetInv, Run
  PROVE  NetInv'
<1>1. /\ UNCHANGED <<briteVars, events, uid, errorModel, custom, call, todo>> /\ todo = {}
  BY DEF Run, Ready
<1>2. NetTypes' /\ Containers' /\ LinksOK'
  BY <1>1, SameLinks DEF NetInv, NetTypes
<1> QED BY <1>1, <1>2 DEF NetInv, EventsOK, ErrorsOK, briteVars

(* A link found by the ends it has is that link.                            *)
LEMMA LinkFound ==
  ASSUME NetInv, NEW l \in DOMAIN links
  PROVE  LinkBetween(links[l].ends[1], links[l].ends[2]) = l
<1> DEFINE T == {k \in Devices(links[l].ends[1]) : Ends(k) = {links[l].ends[1], links[l].ends[2]}}
<1>1. T = {l}
  <2>1. l \in T
    BY DEF Devices, Ends
  <2>2. ASSUME NEW k \in T PROVE k = l
    <3>1. k \in DOMAIN links /\ EndSet(links[k]) = EndSet(links[l])
      BY DEF Devices, Ends, EndSet
    <3> QED BY <3>1 DEF NetInv, LinksOK
  <2> QED BY <2>1, <2>2
<1>2. l \in Nat
  BY LenProperties DEF NetInv, NetTypes
<1>3. First(T) \in T
  BY <1>1, <1>2, FirstIsMember
<1> QED BY <1>1, <1>3 DEF LinkBetween

LEMMA RunEventInv ==
  ASSUME NetInv, RunEvent, UNCHANGED <<briteVars, genVars>>
  PROVE  NetInv'
<1>1. PICK e \in events : /\ events' = events \ {e}
                          /\ FailLink(e) \/ UpLink(e)
  BY DEF RunEvent
<1>2. uid' = uid /\ UNCHANGED <<custom, call, todo, links>>
  BY DEF RunEvent, genVars, briteVars
<1>3. NetTypes' /\ Containers' /\ LinksOK'
  BY <1>2, SameLinks DEF NetInv, NetTypes
<1>4. EventsOK'
  BY <1>1, <1>2 DEF NetInv, EventsOK
<1>5. PICK l \in DOMAIN links : e.n1 = links[l].ends[1] /\ e.n2 = links[l].ends[2]
  BY DEF NetInv, EventsOK
<1>6. DOMAIN errorModel' = ({l} \X {1, 2}) \cup DOMAIN errorModel
  <2>1. LinkBetween(e.n1, e.n2) = l
    BY <1>5, LinkFound
  <2>2. \E rate : setErrorRate(e.n1, e.n2, rate)
    BY <1>1 DEF FailLink, UpLink
  <2>3. PICK rate : setErrorRate(e.n1, e.n2, rate)
    BY <2>2
  <2>4. PICK set : set = [d \in {l} \X {1, 2} |-> IF rate <= 0 THEN 0 ELSE rate]
    OBVIOUS
  <2>5. errorModel' = WithRates(set)
    BY <2>1, <2>3, <2>4, Zenon DEF setErrorRate
  <2>6. DOMAIN set = {l} \X {1, 2}
    BY <2>4
  <2> QED BY <2>5, <2>6 DEF WithRates
<1>7. ErrorsOK'
  BY <1>2, <1>6 DEF NetInv, ErrorsOK
<1> QED BY <1>3, <1>4, <1>7 DEF NetInv

LEMMA NetInvNext == NetInv /\ [Next]_vars => NetInv'
<1> SUFFICES ASSUME NetInv, [Next]_vars PROVE NetInv'
  OBVIOUS
<1>1. CASE UNCHANGED vars
  <2>1. UNCHANGED <<briteVars, events, uid, errorModel, custom, call, todo>>
    BY <1>1 DEF vars, linkVars, genVars
  <2>2. NetTypes' /\ Containers' /\ LinksOK'
    BY <2>1, SameLinks DEF NetInv, NetTypes
  <2> QED BY <2>1, <2>2 DEF NetInv, EventsOK, ErrorsOK, briteVars
<1> QED BY <1>1, ConstructInv, randomlyAddConnectionsInv, AddConnectionInv, randomlyPlaceNodesInv,
           creatRandomLinkFailureInv, OutageInv, introduceErrorInv, RunInv, RunEventInv DEF Next

LEMMA NetInvariant == Spec => []NetInv
BY NetInvInit, NetInvNext, PTL DEF Spec

-----------------------------------------------------------------------------
(* Which failures have happened.  Failure i has two events; those that ran  *)
(* came sooner than those to come, and the error models of a link are what  *)
(* the last event that ran on it made of them, or what they were before.    *)
Op == {"Fail", "Up"}
At(i, p) == IF p = "Fail" THEN failures[i].start ELSE failures[i].stop
Id(i, p) == IF p = "Fail" THEN 2 * (i - 1) ELSE 2 * (i - 1) + 1
Ev(i, p) ==
  [at |-> At(i, p), uid |-> Id(i, p), op |-> p, n1 |-> links[failures[i].link].ends[1],
   n2 |-> links[failures[i].link].ends[2], rate |-> failures[i].rate]
Ran(i, p) == Ev(i, p) \notin events
Sooner(i, p, j, q) == At(i, p) < At(j, q) \/ (At(i, p) = At(j, q) /\ Id(i, p) < Id(j, q))

FailureSet == [link : Nat, start : Nat, stop : Nat, rate : 0..100]

FailTypes ==
  /\ failures \in Seq(FailureSet)
  /\ \A i \in DOMAIN failures :
       failures[i].link \in DOMAIN links /\ failures[i].start <= failures[i].stop
  /\ uid = 2 * Len(failures)
  /\ running \in BOOLEAN /\ now \in Nat
  /\ running => numNodes > 0 /\ todo = {}

Pending ==
  /\ \A e \in events : \E i \in DOMAIN failures, p \in Op : e = Ev(i, p)
  /\ ~running => \A i \in DOMAIN failures, p \in Op : ~Ran(i, p)

InOrder ==
  \A i \in DOMAIN failures, p \in Op : Ran(i, p) =>
    At(i, p) <= now /\ \A j \in DOMAIN failures, q \in Op : ~Ran(j, q) => Sooner(i, p, j, q)

Untouched(l) ==
  /\ \A i \in On(l), p \in Op : ~Ran(i, p)
  /\ running => \A end \in {1, 2} :
       /\ <<l, end>> \in DOMAIN errorModel <=> <<l, end>> \in DOMAIN base
       /\ <<l, end>> \in DOMAIN base => errorModel[<<l, end>>] = base[<<l, end>>]

LastRan(l, i, p) ==
  /\ Ran(i, p)
  /\ \A j \in On(l), q \in Op : Ran(j, q) => (j = i /\ q = p) \/ Sooner(j, q, i, p)
  /\ \A end \in {1, 2} :
       /\ <<l, end>> \in DOMAIN errorModel
       /\ errorModel[<<l, end>>] = IF p = "Fail" THEN failures[i].rate ELSE 0

Status(l) == Untouched(l) \/ \E i \in On(l), p \in Op : LastRan(l, i, p)

FailInv == FailTypes /\ Pending /\ InOrder /\ \A l \in DOMAIN links : Status(l)

LEMMA FailureTypes ==
  ASSUME FailTypes, NEW i \in DOMAIN failures
  PROVE  /\ failures[i] \in FailureSet /\ i \in Nat /\ i > 0
         /\ \A p \in Op : At(i, p) \in Nat /\ Id(i, p) \in Nat
<1>1. failures \in Seq(FailureSet)
  BY DEF FailTypes
<1>2. i \in 1..Len(failures) /\ Len(failures) \in Nat /\ failures[i] \in FailureSet
  BY <1>1, LenProperties, ElementOfSeq
<1>3. ASSUME NEW p \in Op PROVE At(i, p) \in Nat /\ Id(i, p) \in Nat
  BY <1>2 DEF At, Id, FailureSet
<1> QED BY <1>2, <1>3

\* The two events of a failure have numbers of their own.
LEMMA EventsDiffer ==
  ASSUME FailTypes, NEW i \in DOMAIN failures, NEW j \in DOMAIN failures, NEW p \in Op, NEW q \in Op,
         Id(i, p) = Id(j, q)
  PROVE  i = j /\ p = q
<1>1. i \in Nat /\ j \in Nat
  BY FailureTypes
<1> QED BY <1>1 DEF Id, Op

(* Until the run nothing has happened.                                      *)
LEMMA BeforeRun == FailTypes /\ Pending /\ ~running => FailInv
<1> SUFFICES ASSUME FailTypes, Pending, ~running PROVE FailInv
  OBVIOUS
<1>1. \A i \in DOMAIN failures, p \in Op : ~Ran(i, p)
  BY DEF Pending
<1>2. InOrder
  BY <1>1 DEF InOrder
<1>3. \A l \in DOMAIN links : Untouched(l)
  BY <1>1 DEF Untouched, On
<1> QED BY <1>2, <1>3 DEF FailInv, Status

LEMMA FailInvProperties == FailInv => LoneFailureLasts /\ LinkFollowsItsFailures
<1> SUFFICES ASSUME FailInv PROVE LoneFailureLasts /\ LinkFollowsItsFailures
  OBVIOUS
<1>1. ASSUME Settled, NEW i \in DOMAIN failures, NEW p \in Op
      PROVE  Ran(i, p) <=> At(i, p) <= now
  <2>1. Ran(i, p) => At(i, p) <= now
    BY DEF FailInv, InOrder
  <2>2. ~Ran(i, p) => At(i, p) > now
    BY <1>1 DEF Ran, Settled, Ev
  <2>3. At(i, p) \in Nat /\ now \in Nat
    BY FailureTypes DEF FailInv, FailTypes
  <2> QED BY <2>1, <2>2, <2>3
<1>2. ASSUME NEW l \in DOMAIN links, NEW i \in On(l)
      PROVE  i \in DOMAIN failures /\ failures[i].link = l
  BY DEF On
<1>3. ASSUME NEW i \in DOMAIN failures
      PROVE  /\ At(i, "Fail") = failures[i].start /\ At(i, "Up") = failures[i].stop
             /\ failures[i].start \in Nat /\ failures[i].stop \in Nat /\ now \in Nat
             /\ failures[i].start <= failures[i].stop
  BY FailureTypes DEF FailInv, FailTypes, At, FailureSet
<1>4. LoneFailureLasts
  <2> SUFFICES ASSUME Settled, NEW i \in DOMAIN failures, Begun(i), ~Over(i),
                      \A j \in On(failures[i].link) : \/ j = i
                                                      \/ failures[j].stop < failures[i].start
                                                      \/ failures[i].stop < failures[j].start,
                      NEW end \in {1, 2}
               PROVE  Rate(failures[i].link, end) = failures[i].rate
    BY DEF LoneFailureLasts
  <2> DEFINE l == failures[i].link
  <2>1. l \in DOMAIN links /\ i \in On(l)
    BY DEF FailInv, FailTypes, On
  <2>2. Ran(i, "Fail") /\ ~Ran(i, "Up")
    BY <1>1, <1>3 DEF Begun, Over, Op
  <2>3. PICK j \in On(l), q \in Op : LastRan(l, j, q)
    BY <2>1, <2>2 DEF FailInv, Status, Untouched, Op
  <2>4. j = i /\ q = "Fail"
    <3>1. j \in DOMAIN failures /\ Ran(j, q)
      BY <2>3 DEF On, LastRan
    <3>2. At(j, q) <= now
      BY <1>1, <3>1
    <3>3. j # i => failures[j].stop < failures[i].start
      BY <1>3, <2>1, <3>1, <3>2 DEF At, Begun, Over
    <3>4. j # i => ~Sooner(i, "Fail", j, q)
      BY <1>3, <3>1, <3>3 DEF Sooner, At
    <3>5. (i = j /\ "Fail" = q) \/ Sooner(i, "Fail", j, q)
      BY <2>1, <2>2, <2>3 DEF LastRan, Op
    <3>6. j = i
      BY <3>4, <3>5
    <3> QED BY <2>2, <3>1, <3>6 DEF Op
  <2>5. /\ <<l, end>> \in DOMAIN errorModel
        /\ errorModel[<<l, end>>] = failures[i].rate
    BY <2>3, <2>4 DEF LastRan
  <2> QED BY <2>5 DEF Rate
<1>5. LinkFollowsItsFailures
  <2> SUFFICES ASSUME Settled, NEW l \in DOMAIN links, NEW end \in {1, 2}
               PROVE  /\ (\A i \in On(l) : ~Begun(i)) =>
                           /\ <<l, end>> \in DOMAIN errorModel <=> <<l, end>> \in DOMAIN base
                           /\ <<l, end>> \in DOMAIN base => errorModel[<<l, end>>] = base[<<l, end>>]
                      /\ On(l) # {} /\ (\A i \in On(l) : Over(i)) => Rate(l, end) = 0
    BY DEF LinkFollowsItsFailures
  <2>1. Status(l) /\ running
    BY DEF FailInv, Settled
  <2>2. ASSUME \A i \in On(l) : ~Begun(i) PROVE Untouched(l)
    <3>1. ASSUME NEW i \in On(l), NEW p \in Op PROVE ~Ran(i, p)
      BY <1>1, <1>2, <1>3, <2>2 DEF Begun, Op
    <3> QED BY <2>1, <3>1 DEF Status, LastRan
  <2>3. ASSUME On(l) # {}, \A i \in On(l) : Over(i) PROVE Rate(l, end) = 0
    <3>1. ASSUME NEW i \in On(l), NEW p \in Op PROVE Ran(i, p)
      BY <1>1, <1>2, <1>3, <2>3 DEF Over, Op
    <3>2. PICK i \in On(l), p \in Op : LastRan(l, i, p)
      BY <2>1, <2>3, <3>1 DEF Status, Untouched, Op
    <3>3. p # "Fail"
      <4>1. Ran(i, "Up") /\ i \in DOMAIN failures /\ i \in Nat
        BY <1>2, <3>1, FailureTypes DEF Op, FailInv
      <4>2. ~Sooner(i, "Up", i, "Fail")
        BY <1>3, <4>1 DEF Sooner, At, Id
      <4> QED BY <3>2, <4>1, <4>2 DEF LastRan, Op
    <3> QED BY <3>2, <3>3 DEF LastRan, Rate
  <2> QED BY <2>1, <2>2, <2>3 DEF Untouched
<1> QED BY <1>4, <1>5

LEMMA FailInvInit == Init => FailInv
<1> SUFFICES ASSUME Init PROVE FailInv
  OBVIOUS
<1>1. failures = << >> /\ events = {} /\ uid = 0 /\ ~running /\ running \in BOOLEAN /\ now = 0
  BY DEF Init, LinkInit
<1>2. failures \in Seq(FailureSet) /\ DOMAIN failures = {} /\ Len(failures) = 0
  BY <1>1, EmptySeq
<1> QED BY <1>1, <1>2, BeforeRun DEF FailTypes, Pending

(* Whatever is done before the run besides drawing failures keeps the links *)
(* there are.                                                               *)
LEMMA QuietStep ==
  ASSUME FailInv, ~running, ~running', running' \in BOOLEAN,
         \A l \in DOMAIN links : l \in DOMAIN links' /\ links'[l] = links[l],
         UNCHANGED <<events, uid, failures, now>>
  PROVE  FailInv'
<1>1. FailTypes'
  BY DEF FailInv, FailTypes
<1>2. ASSUME NEW i \in DOMAIN failures, NEW p \in Op PROVE Ev(i, p)' = Ev(i, p)
  BY DEF FailInv, FailTypes, Ev, At, Id
<1>3. Pending'
  BY <1>2 DEF FailInv, Pending, Ran
<1>4. FailTypes' /\ Pending' /\ ~running' => FailInv'
  BY BeforeRun, PTL
<1> QED BY <1>1, <1>3, <1>4

LEMMA AddingLinks ==
  ASSUME NetInv, NEW x \in Seq(LinkSet), links' = links \o x
  PROVE  \A l \in DOMAIN links : l \in DOMAIN links' /\ links'[l] = links[l]
<1>1. links \in Seq(LinkSet)
  BY DEF NetInv, NetTypes
<1>2. /\ DOMAIN links = 1..Len(links) /\ Len(links) \in Nat /\ Len(x) \in Nat
      /\ links' \in Seq(LinkSet) /\ Len(links') = Len(links) + Len(x)
      /\ \A i \in 1..Len(links) + Len(x) : links'[i] = IF i <= Len(links) THEN links[i] ELSE x[i - Len(links)]
  BY <1>1, LenProperties, ConcatProperties
<1>3. DOMAIN links' = 1..Len(links) + Len(x)
  BY <1>2, LenProperties
<1> QED BY <1>2, <1>3

LEMMA BuildingFails ==
  ASSUME NetInv, FailInv,
         \/ Construct
         \/ \E c \in Calls : randomlyAddConnections(c)
         \/ AddConnection
         \/ \E c \in Places : randomlyPlaceNodes(c)
         \/ introduceError
  PROVE  FailInv'
<1>1. ~running /\ running' = running /\ running \in BOOLEAN /\ UNCHANGED <<events, uid, failures, now>>
  <2>1. CASE Construct
    BY <2>1 DEF Construct, BuildBriteTopology, linkVars, FailInv, FailTypes, NetInv, NetTypes
  <2>2. CASE \E c \in Calls : randomlyAddConnections(c)
    BY <2>2 DEF randomlyAddConnections, Ready, linkVars, FailInv, FailTypes
  <2>3. CASE AddConnection
    BY <2>3 DEF AddConnection, linkVars, FailInv, FailTypes
  <2>4. CASE \E c \in Places : randomlyPlaceNodes(c)
    BY <2>4 DEF randomlyPlaceNodes, Ready, linkVars, FailInv, FailTypes
  <2>5. CASE introduceError
    BY <2>5 DEF introduceError, Ready, FailInv, FailTypes
  <2> QED BY <2>1, <2>2, <2>3, <2>4, <2>5
<1>2. \A l \in DOMAIN links : l \in DOMAIN links' /\ links'[l] = links[l]
  <2>1. CASE Construct
    <3>1. numNodes = 0
      BY <2>1 DEF Construct, BuildBriteTopology
    <3>2. \A l \in DOMAIN links : links[l] \in LinkSet
      BY LenProperties, ElementOfSeq DEF NetInv, NetTypes
    <3> QED BY <3>1, <3>2 DEF NetInv, LinksOK, Joins, LinkSet
  <2>2. CASE \E c \in Calls : randomlyAddConnections(c)
    BY <2>2 DEF randomlyAddConnections, briteVars
  <2>3. CASE AddConnection
    <3>1. links' = links \/ \E x : links' = Append(links, x)
      BY <2>3 DEF AddConnection, Install
    <3>2. links \in Seq(LinkSet)
      BY DEF NetInv, NetTypes
    <3> QED BY <3>1, <3>2
  <2>4. CASE \E c \in Places : randomlyPlaceNodes(c)
    <3>1. PICK c \in Places : randomlyPlaceNodes(c)
      BY <2>4
    <3> QED BY <3>1, PlacedLinks, AddingLinks
  <2>5. CASE introduceError
    BY <2>5 DEF introduceError, briteVars
  <2> QED BY <2>1, <2>2, <2>3, <2>4, <2>5
<1> QED BY <1>1, <1>2, QuietStep

(* New failures are numbered after the old ones.                            *)
LEMMA LogFails ==
  ASSUME FailInv, ~running, ~running', NEW fs \in Seq(FailureSet), Log(fs),
         \A i \in DOMAIN fs : fs[i].link \in DOMAIN links /\ fs[i].start <= fs[i].stop,
         UNCHANGED <<links, now, running>>
  PROVE  FailInv'
<1>0. PICK n \in Nat : n = Len(failures)
  BY LenProperties DEF FailInv, FailTypes
<1>1. /\ failures \in Seq(FailureSet) /\ uid = 2 * n
      /\ failures' = failures \o fs /\ uid' = uid + 2 * Len(fs)
      /\ events' = events \cup UNION {FailureEvents(fs[i], uid + 2 * (i - 1)) : i \in DOMAIN fs}
  BY <1>0 DEF FailInv, FailTypes, Log
<1>2. /\ DOMAIN failures = 1..n /\ n \in Nat
      /\ DOMAIN fs = 1..Len(fs) /\ Len(fs) \in Nat
      /\ failures' \in Seq(FailureSet) /\ Len(failures') = n + Len(fs)
      /\ \A i \in 1..n + Len(fs) : failures'[i] = IF i <= n THEN failures[i] ELSE fs[i - n]
  BY <1>1, <1>0, LenProperties, ConcatProperties
<1>3. DOMAIN failures' = 1..n + Len(fs)
  BY <1>2, LenProperties
<1>4. \A i \in DOMAIN failures : i \in DOMAIN failures' /\ failures'[i] = failures[i]
  BY <1>2, <1>3
<1>5. \A i \in DOMAIN failures' : i \notin DOMAIN failures =>
        i - n \in DOMAIN fs /\ failures'[i] = fs[i - n] /\ i \in Nat
  BY <1>2, <1>3
<1>6. \A i \in DOMAIN fs : n + i \in DOMAIN failures' /\ failures'[n + i] = fs[i] /\ i \in Nat
  BY <1>2, <1>3
<1>7. FailTypes'
  <2>1. uid' = 2 * Len(failures')
    BY <1>1, <1>2
  <2>2. ASSUME NEW i \in DOMAIN failures'
        PROVE  failures'[i].link \in DOMAIN links /\ failures'[i].start <= failures'[i].stop
    <3>1. CASE i \in DOMAIN failures
      BY <1>4, <3>1 DEF FailInv, FailTypes
    <3>2. CASE i \notin DOMAIN failures
      BY <1>5, <3>2
    <3> QED BY <3>1, <3>2
  <2> QED BY <1>2, <2>1, <2>2 DEF FailInv, FailTypes
<1>8. ASSUME NEW i \in DOMAIN failures, NEW p \in Op PROVE Ev(i, p)' = Ev(i, p)
  BY <1>4 DEF Ev, At, Id
<1>9. ASSUME NEW i \in DOMAIN fs
      PROVE  FailureEvents(fs[i], uid + 2 * (i - 1)) = {Ev(n + i, "Fail")', Ev(n + i, "Up")'}
  <2>1. uid + 2 * (i - 1) = Id(n + i, "Fail") /\ uid + 2 * (i - 1) + 1 = Id(n + i, "Up")
    BY <1>1, <1>2 DEF Id
  <2>2. /\ Ev(n + i, "Fail")' = [at |-> fs[i].start, uid |-> Id(n + i, "Fail"), op |-> "Fail",
                                n1 |-> links[fs[i].link].ends[1], n2 |-> links[fs[i].link].ends[2],
                                rate |-> fs[i].rate]
        /\ Ev(n + i, "Up")' = [at |-> fs[i].stop, uid |-> Id(n + i, "Up"), op |-> "Up",
                              n1 |-> links[fs[i].link].ends[1], n2 |-> links[fs[i].link].ends[2],
                              rate |-> fs[i].rate]
    BY <1>6 DEF Ev, At, Id
  <2> QED BY <2>1, <2>2 DEF FailureEvents
<1>10. Pending'
  <2>1. ASSUME NEW e \in events' PROVE \E i \in DOMAIN failures', p \in Op : e = Ev(i, p)'
    <3>1. CASE e \in events
      BY <1>4, <1>8, <3>1 DEF FailInv, Pending
    <3>2. CASE e \notin events
      <4>1. PICK i \in DOMAIN fs : e \in FailureEvents(fs[i], uid + 2 * (i - 1))
        BY <1>1, <3>2
      <4>2. e = Ev(n + i, "Fail")' \/ e = Ev(n + i, "Up")'
        BY <1>9, <4>1
      <4> QED BY <1>6, <4>2 DEF Op
    <3> QED BY <3>1, <3>2
  <2>2. ASSUME NEW i \in DOMAIN failures', NEW p \in Op PROVE Ev(i, p)' \in events'
    <3>1. CASE i \in DOMAIN failures
      BY <1>1, <1>8, <3>1 DEF FailInv, Pending, Ran
    <3>2. CASE i \notin DOMAIN failures
      <4>1. i - n \in DOMAIN fs /\ n + (i - n) = i
        BY <1>2, <1>5, <3>2
      <4>2. Ev(i, p)' \in FailureEvents(fs[i - n], uid + 2 * ((i - n) - 1))
        BY <1>9, <4>1 DEF Op
      <4> QED BY <1>1, <4>1, <4>2
    <3> QED BY <3>1, <3>2
  <2> QED BY <2>1, <2>2 DEF Pending, Ran
<1>11. FailTypes' /\ Pending' /\ ~running' => FailInv'
  BY BeforeRun, PTL
<1> QED BY <1>7, <1>10, <1>11

LEMMA DrawnFails ==
  ASSUME NetInv, FailInv, creatRandomLinkFailure \/ Outage
  PROVE  FailInv'
<1>1. ~running /\ ~running' /\ UNCHANGED <<links, now, running>>
  BY DEF creatRandomLinkFailure, Outage, ScheduleOutages, Ready, briteVars
<1>2. CASE creatRandomLinkFailure
  <2>1. PICK l \in DOMAIN links, start \in StartTimes, duration \in Durations, rate \in ErrorRates :
          Log(<<Failure(l, start, duration, rate)>>)
    BY <1>2 DEF creatRandomLinkFailure, Devices
  <2> DEFINE f == Failure(l, start, duration, rate)
  <2>2. f \in FailureSet /\ f.link = l /\ f.start <= f.stop
    <3>1. l \in Nat /\ start \in Nat /\ duration \in Nat /\ rate \in 0..100
      BY CallsAssumption, TimeAssumption, LenProperties DEF NetInv, NetTypes
    <3> QED BY <3>1 DEF Failure, FailureSet
  <2> HIDE DEF f
  <2>3. <<f>> \in Seq(FailureSet) /\ \A i \in DOMAIN <<f>> : <<f>>[i] = f
    BY <2>2
  <2>4. Log(<<f>>)
    BY <2>1 DEF f
  <2> QED BY <1>1, <2>2, <2>3, <2>4, LogFails
<1>3. CASE Outage
  <2>1. PICK k \in Outages : \E link \in [1..k -> DOMAIN links], duration \in [1..k -> Durations] :
          Log([i \in 1..k |-> Failure(link[i], (i - 1) * (StopTime \div k), duration[i], 100)])
    BY <1>3 DEF Outage, ScheduleOutages
  <2>2. PICK link \in [1..k -> DOMAIN links], duration \in [1..k -> Durations] :
          Log([i \in 1..k |-> Failure(link[i], (i - 1) * (StopTime \div k), duration[i], 100)])
    BY <2>1
  <2> DEFINE fs == [i \in 1..k |-> Failure(link[i], (i - 1) * (StopTime \div k), duration[i], 100)]
  <2>3. ASSUME NEW i \in 1..k
        PROVE  fs[i] \in FailureSet /\ fs[i].link \in DOMAIN links /\ fs[i].start <= fs[i].stop
    <3>1. link[i] \in Nat /\ duration[i] \in Nat /\ k \in Nat \ {0} /\ StopTime \in Nat
      <4>1. DOMAIN links = 1..Len(links) /\ k \in Outages
        BY LenProperties DEF NetInv, NetTypes
      <4>2. link[i] \in DOMAIN links /\ duration[i] \in Durations
        OBVIOUS
      <4>3. k \in Nat \ {0} /\ duration[i] \in Nat /\ StopTime \in Nat
        BY <4>1, <4>2, TimeAssumption
      <4>4. link[i] \in Nat
        BY <4>1, <4>2
      <4> QED BY <4>3, <4>4
    <3>2. PICK d \in Nat : d = StopTime \div k
      BY <3>1
    <3>3. PICK t \in Nat : t = (i - 1) * (StopTime \div k)
      BY <3>1, <3>2
    <3>4. fs[i] = [link |-> link[i], start |-> t, stop |-> t + duration[i], rate |-> 100]
      BY <3>3 DEF Failure
    <3> QED BY <3>1, <3>3, <3>4 DEF FailureSet
  <2>4. fs \in Seq(FailureSet) /\ DOMAIN fs = 1..k
    <3>1. fs \in [1..k -> FailureSet] /\ k \in Nat
      BY <2>3, TimeAssumption
    <3> HIDE DEF fs
    <3> QED BY <3>1, Listed
  <2>5. Log(fs)
    BY <2>2
  <2> HIDE DEF fs
  <2> QED BY <1>1, <2>3, <2>4, <2>5, LogFails
<1> QED BY <1>2, <1>3

LEMMA RunFails ==
  ASSUME FailInv, Run
  PROVE  FailInv'
<1>1. /\ UNCHANGED <<numNodes, links, now, events, uid, failures, errorModel, todo>>
      /\ ~running /\ running' = TRUE /\ base' = errorModel /\ numNodes > 0 /\ todo = {}
  BY DEF Run, Ready, briteVars
<1>2. ASSUME NEW i \in DOMAIN failures, NEW p \in Op
      PROVE  Ev(i, p)' = Ev(i, p) /\ ~Ran(i, p) /\ ~Ran(i, p)'
  BY <1>1 DEF FailInv, Pending, Ran, Ev, At, Id
<1>3. FailTypes' /\ Pending' /\ InOrder'
  BY <1>1, <1>2 DEF FailInv, FailTypes, Pending, InOrder
<1>4. \A l \in DOMAIN links : Untouched(l)'
  BY <1>1, <1>2 DEF Untouched, On
<1> QED BY <1>1, <1>3, <1>4 DEF FailInv, Status

(* The event that runs is the last one that ran, and the link it finds is   *)
(* its own.                                                                 *)
LEMMA RunEventFails ==
  ASSUME NetInv, FailInv, RunEvent, UNCHANGED <<briteVars, genVars>>
  PROVE  FailInv'
<1>1. /\ running /\ UNCHANGED <<numNodes, links, running, uid, failures, todo, base>>
  BY DEF RunEvent, briteVars, genVars
<1>2. PICK e \in events : /\ \A f \in events : f = e \/ Before(e, f)
                          /\ now' = e.at
                          /\ events' = events \ {e}
                          /\ \/ e.op = "Fail" /\ FailLink(e)
                             \/ e.op = "Up" /\ UpLink(e)
  BY DEF RunEvent
<1>3. PICK i \in DOMAIN failures, p \in Op : e = Ev(i, p)
  BY DEF FailInv, Pending
<1>4. /\ failures[i] \in FailureSet /\ failures[i].link \in DOMAIN links
      /\ At(i, p) \in Nat /\ Id(i, p) \in Nat
  BY FailureTypes DEF FailInv, FailTypes
<1>5. PICK own \in DOMAIN links : own = failures[i].link
  BY <1>4
<1>6. /\ e.n1 = links[own].ends[1] /\ e.n2 = links[own].ends[2] /\ e.rate = failures[i].rate
      /\ e.op = p /\ e.at = At(i, p) /\ e.uid = Id(i, p)
  BY <1>3, <1>5 DEF Ev
<1>7. LinkBetween(e.n1, e.n2) = own
  BY <1>6, LinkFound
<1>8. PICK r \in 0..100 : r = IF p = "Fail" THEN failures[i].rate ELSE 0
  BY <1>4 DEF FailureSet
<1>9. errorModel' = WithRates([d \in {own} \X {1, 2} |-> r])
  <2>1. CASE p = "Fail"
    <3>1. FailLink(e) /\ r = failures[i].rate
      BY <1>2, <1>6, <1>8, <2>1
    <3> QED BY <1>6, <1>7, <3>1 DEF FailLink, setErrorRate
  <2>2. CASE p = "Up"
    <3>1. UpLink(e) /\ r = 0
      BY <1>2, <1>6, <1>8, <2>2
    <3> QED BY <1>6, <1>7, <3>1 DEF UpLink, setErrorRate
  <2> QED BY <2>1, <2>2 DEF Op
<1>10. ASSUME NEW j \in DOMAIN failures, NEW q \in Op
       PROVE  /\ Ev(j, q)' = Ev(j, q) /\ At(j, q)' = At(j, q) /\ Id(j, q)' = Id(j, q)
              /\ Ran(j, q)' <=> Ran(j, q) \/ (j = i /\ q = p)
  <2>1. Ev(j, q)' = Ev(j, q) /\ At(j, q)' = At(j, q) /\ Id(j, q)' = Id(j, q)
    BY <1>1 DEF Ev, At, Id
  <2>2. Ev(j, q) = e <=> j = i /\ q = p
    <3>1. Ev(j, q) = e => Id(j, q) = Id(i, p)
      BY <1>3 DEF Ev
    <3> QED BY <1>3, <3>1, EventsDiffer DEF FailInv
  <2> QED BY <1>2, <2>1, <2>2 DEF Ran
<1>11. ~Ran(i, p)
  BY <1>3 DEF Ran
<1>12. ASSUME NEW j \in DOMAIN failures, NEW q \in Op, Ran(j, q)
       PROVE  Sooner(j, q, i, p) /\ At(j, q) <= At(i, p)
  <2>1. Sooner(j, q, i, p)
    BY <1>11, <1>12 DEF FailInv, InOrder
  <2>2. At(j, q) \in Nat
    BY FailureTypes DEF FailInv
  <2> QED BY <1>4, <2>1, <2>2 DEF Sooner
<1>13. ASSUME NEW j \in DOMAIN failures, NEW q \in Op, ~Ran(j, q)'
       PROVE  Sooner(i, p, j, q)
  <2>1. Ev(j, q) \in events /\ Ev(j, q) # e
    <3>1. ~Ran(j, q) /\ ~(j = i /\ q = p)
      BY <1>10, <1>13
    <3>2. Id(j, q) # Id(i, p)
      BY <3>1, EventsDiffer DEF FailInv
    <3> QED BY <1>6, <3>1, <3>2 DEF Ran, Ev
  <2>2. Before(e, Ev(j, q))
    BY <1>2, <2>1
  <2> QED BY <1>6, <2>2 DEF Before, Sooner, Ev
<1>14. FailTypes'
  BY <1>1, <1>2, <1>4, <1>6 DEF FailInv, FailTypes
<1>15. Pending'
  BY <1>1, <1>2, <1>10 DEF FailInv, Pending
<1>16. InOrder'
  <2> SUFFICES ASSUME NEW j \in DOMAIN failures, NEW q \in Op, Ran(j, q)'
               PROVE  /\ At(j, q) <= At(i, p)
                      /\ \A k \in DOMAIN failures, s \in Op : ~Ran(k, s)' => Sooner(j, q, k, s)
    BY <1>1, <1>2, <1>6, <1>10 DEF InOrder, Sooner
  <2>1. CASE j = i /\ q = p
    BY <1>4, <1>13, <2>1
  <2>2. CASE ~(j = i /\ q = p)
    <3>1. Ran(j, q)
      BY <1>10, <2>2
    <3>2. \A k \in DOMAIN failures, s \in Op : ~Ran(k, s)' => ~Ran(k, s)
      BY <1>10
    <3> QED BY <1>12, <3>1, <3>2 DEF FailInv, InOrder
  <2> QED BY <2>1, <2>2
<1>17. ASSUME NEW l \in DOMAIN links PROVE On(l)' = On(l)
  BY <1>1 DEF On
<1>18. ASSUME NEW l \in DOMAIN links PROVE Status(l)'
  <2>1. CASE l = own
    <3>1. i \in On(l)
      BY <1>5, <2>1 DEF On
    <3>2. ASSUME NEW j \in On(l), NEW q \in Op, Ran(j, q)' PROVE (j = i /\ q = p) \/ Sooner(j, q, i, p)'
      <4>1. j \in DOMAIN failures
        BY DEF On
      <4> QED BY <1>10, <1>12, <3>2, <4>1 DEF Sooner
    <3>3. ASSUME NEW end \in {1, 2}
          PROVE  <<l, end>> \in DOMAIN errorModel' /\ errorModel'[<<l, end>>] = r
      BY <1>9, <2>1 DEF WithRates
    <3>4. LastRan(l, i, p)'
      BY <1>1, <1>8, <1>10, <1>17, <3>2, <3>3 DEF LastRan
    <3> QED BY <1>17, <3>1, <3>4 DEF Status
  <2>2. CASE l # own
    <3>1. i \notin On(l)
      BY <1>5, <2>2 DEF On
    <3>2. ASSUME NEW j \in On(l), NEW q \in Op
          PROVE  /\ Ran(j, q)' <=> Ran(j, q)
                 /\ \A k \in On(l), s \in Op : Sooner(j, q, k, s)' <=> Sooner(j, q, k, s)
      BY <1>10, <3>1 DEF On, Sooner
    <3>3. ASSUME NEW end \in {1, 2}
          PROVE  /\ <<l, end>> \in DOMAIN errorModel' <=> <<l, end>> \in DOMAIN errorModel
                 /\ <<l, end>> \in DOMAIN errorModel => errorModel'[<<l, end>>] = errorModel[<<l, end>>]
      <4>1. <<l, end>> \notin {own} \X {1, 2}
        BY <2>2
      <4> QED BY <1>9, <4>1 DEF WithRates
    <3>4. Untouched(l) => Untouched(l)'
      BY <1>1, <1>17, <3>2, <3>3 DEF Untouched
    <3>5. ASSUME NEW j \in On(l), NEW q \in Op, LastRan(l, j, q) PROVE LastRan(l, j, q)'
      BY <1>1, <1>17, <3>2, <3>3, <3>5 DEF LastRan
    <3> QED BY <1>17, <3>4, <3>5 DEF FailInv, Status
  <2> QED BY <2>1, <2>2
<1> QED BY <1>1, <1>14, <1>15, <1>16, <1>18 DEF FailInv

LEMMA FailInvNext == NetInv /\ FailInv /\ [Next]_vars => FailInv'
<1> SUFFICES ASSUME NetInv, FailInv, [Next]_vars PROVE FailInv'
  OBVIOUS
<1>1. CASE UNCHANGED vars
  <2>1. UNCHANGED <<numNodes, links, now, running, events, uid, failures, errorModel, todo, base>>
    BY <1>1 DEF vars, briteVars, linkVars, genVars
  <2>2. FailTypes'
    BY <2>1 DEF FailInv, FailTypes
  <2>3. /\ \A i, p : Ev(i, p)' = Ev(i, p) /\ Ran(i, p)' = Ran(i, p)
        /\ \A i, p, j, q : Sooner(i, p, j, q)' = Sooner(i, p, j, q)
        /\ \A i, p : At(i, p)' = At(i, p)
        /\ \A l : On(l)' = On(l)
    BY <2>1 DEF Ev, Ran, Sooner, At, Id, On
  <2>4. Pending' /\ InOrder'
    BY <2>1, <2>3 DEF FailInv, Pending, InOrder
  <2>5. ASSUME NEW l \in DOMAIN links PROVE Status(l)'
    <3>1. Status(l)
      BY DEF FailInv
    <3> QED BY <2>1, <2>3, <3>1 DEF Status, Untouched, LastRan
  <2> QED BY <2>1, <2>2, <2>4, <2>5 DEF FailInv
<1> QED BY <1>1, BuildingFails, DrawnFails, RunFails, RunEventFails DEF Next

-----------------------------------------------------------------------------
(* Rooms: how many links there are between two ASes and how many there can  *)
(* be.                                                                      *)
\* The pairs of a set of numbers, each in one order.
LEMMA HalfTheSquare ==
  ASSUME NEW A \in SUBSET Int, IsFiniteSet(A)
  PROVE  LET U == {p \in A \X A : p[1] < p[2]}
         IN  IsFiniteSet(U) /\ Cardinality(U) = (Cardinality(A) * (Cardinality(A) - 1)) \div 2
<1> DEFINE U == {p \in A \X A : p[1] < p[2]}
           V == {p \in A \X A : p[1] > p[2]}
           D == {p \in A \X A : p[1] = p[2]}
           n == Cardinality(A)
<1>1. IsFiniteSet(A \X A) /\ Cardinality(A \X A) = n * n /\ n \in Nat
  BY FS_Product, FS_CardinalityType
<1>2. IsFiniteSet(U) /\ IsFiniteSet(V) /\ IsFiniteSet(D)
  <2>1. U \in SUBSET (A \X A) /\ V \in SUBSET (A \X A) /\ D \in SUBSET (A \X A)
    OBVIOUS
  <2> HIDE DEF U, V, D
  <2> QED BY <1>1, <2>1, FS_Subset
<1>3. Cardinality(V) = Cardinality(U)
  <2> DEFINE f == [p \in U |-> <<p[2], p[1]>>]
  <2>1. f \in [U -> V]
    OBVIOUS
  <2>2. \A p, q \in U : f[p] = f[q] => p = q
    OBVIOUS
  <2>3. \A q \in V : \E p \in U : f[p] = q
    <3> SUFFICES ASSUME NEW q \in V PROVE \E p \in U : f[p] = q
      OBVIOUS
    <3>1. <<q[2], q[1]>> \in U /\ f[<<q[2], q[1]>>] = q
      OBVIOUS
    <3> QED BY <3>1
  <2> HIDE DEF f, U, V
  <2>4. f \in Bijection(U, V)
    BY <2>1, <2>2, <2>3 DEF Bijection, Injection, Surjection, IsInjective
  <2> QED BY <1>2, <2>4, FS_Bijection DEF ExistsBijection
<1>4. Cardinality(D) = n
  <2> DEFINE f == [x \in A |-> <<x, x>>]
  <2>1. f \in [A -> D]
    OBVIOUS
  <2>2. \A p, q \in A : f[p] = f[q] => p = q
    OBVIOUS
  <2>3. \A q \in D : \E p \in A : f[p] = q
    <3> SUFFICES ASSUME NEW q \in D PROVE \E p \in A : f[p] = q
      OBVIOUS
    <3>1. q[1] \in A /\ f[q[1]] = q
      OBVIOUS
    <3> QED BY <3>1
  <2> HIDE DEF f, D
  <2>4. f \in Bijection(A, D)
    BY <2>1, <2>2, <2>3 DEF Bijection, Injection, Surjection, IsInjective
  <2> QED BY <2>4, FS_Bijection DEF ExistsBijection
<1>5. A \X A = (U \cup V) \cup D /\ U \cap V = {} /\ (U \cup V) \cap D = {}
  <2>1. ASSUME NEW p \in A \X A
        PROVE  /\ p[1] < p[2] \/ p[1] > p[2] \/ p[1] = p[2]
               /\ ~ (p[1] < p[2] /\ p[1] > p[2]) /\ (p[1] = p[2] => ~ (p[1] < p[2]) /\ ~ (p[1] > p[2]))
    <3>1. p[1] \in Int /\ p[2] \in Int
      OBVIOUS
    <3> QED BY <3>1
  <2>2. A \X A = (U \cup V) \cup D
    BY <2>1
  <2>3. U \cap V = {}
    BY <2>1
  <2>4. (U \cup V) \cap D = {}
    BY <2>1
  <2> QED BY <2>2, <2>3, <2>4
<1>6. PICK u \in Nat : u = Cardinality(U)
  BY <1>2, FS_CardinalityType
<1>7. n * n = u + u + n
  <2> HIDE DEF U, V, D
  <2>1. IsFiniteSet(U \cup V) /\ Cardinality(U \cup V) = u + u
    <3>1. /\ IsFiniteSet(U \cup V)
          /\ Cardinality(U \cup V) = Cardinality(U) + Cardinality(V) - Cardinality(U \cap V)
      BY <1>2, FS_Union
    <3>2. Cardinality(U \cap V) = 0
      BY <1>5, FS_EmptySet
    <3> QED BY <1>3, <1>6, <3>1, <3>2
  <2>2. Cardinality((U \cup V) \cup D) = u + u + n
    <3>1. Cardinality((U \cup V) \cup D) =
            Cardinality(U \cup V) + Cardinality(D) - Cardinality((U \cup V) \cap D)
      BY <1>2, <2>1, FS_Union
    <3>2. Cardinality((U \cup V) \cap D) = 0
      BY <1>5, FS_EmptySet
    <3> QED BY <1>1, <1>4, <1>6, <2>1, <3>1, <3>2
  <2> QED BY <1>1, <1>5, <2>2
<1>8. (n * (n - 1)) \div 2 = u
  <2> HIDE DEF n
  <2>1. n * (n - 1) = 2 * u
    BY <1>1, <1>7
  <2>2. (2 * u) \div 2 = u
    BY <1>6
  <2> QED BY <2>1, <2>2
<1> QED BY <1>2, <1>6, <1>8

-----------------------------------------------------------------------------
ASesApart == \A i, j \in AllAS : i # j => nodesByAs[i] \cap nodesByAs[j] = {}

Joining(i, j, n) == {l \in 1..n : \E a \in nodesByAs[i], b \in nodesByAs[j] : Ends(l) = {a, b}}
PairsOf(i, j) == {p \in nodesByAs[i] \X nodesByAs[j] : i = j => p[1] < p[2]}

LEMMA BetweenCounts ==
  ASSUME NEW i, NEW j, NEW n \in Nat
  PROVE  /\ Between(i, j, n) = Cardinality(Joining(i, j, n))
         /\ IsFiniteSet(Joining(i, j, n)) /\ Between(i, j, n) \in Nat
<1>1. Joining(i, j, n) \in SUBSET (1..n) /\ IsFiniteSet(1..n)
  BY FS_Interval DEF Joining
<1>2. Between(i, j, n) = Cardinality(Joining(i, j, n))
  BY DEF Between, Joining
<1> QED BY <1>1, <1>2, FS_Subset, FS_CardinalityType

\* The nodes of an AS.
LEMMA NodesOfAS ==
  ASSUME NetInv, NEW i \in AllAS
  PROVE  nodesByAs[i] \subseteq 0..numNodes - 1 /\ nodesByAs[i] \in SUBSET Int /\ IsFiniteSet(nodesByAs[i])
<1>1. numNodes \in Nat /\ nodesByAs[i] \subseteq 0..numNodes - 1
  BY DEF NetInv, NetTypes, Containers, getAllASNodes
<1>2. IsFiniteSet(0..numNodes - 1)
  <2>1. 0 \in Int /\ numNodes - 1 \in Int
    BY <1>1
  <2> QED BY <2>1, FS_Interval
<1> QED BY <1>1, <1>2, FS_Subset

LEMMA RoomIsPairs ==
  ASSUME NetInv, ASesApart, NEW i \in AllAS, NEW j \in AllAS
  PROVE  IsFiniteSet(PairsOf(i, j)) /\ Cardinality(PairsOf(i, j)) = Room(i, j) /\ Room(i, j) \in Nat
<1>1. CASE i = j
  <2>1. PairsOf(i, j) = {p \in nodesByAs[i] \X nodesByAs[i] : p[1] < p[2]}
    BY <1>1 DEF PairsOf
  <2> QED BY <1>1, <2>1, NodesOfAS, HalfTheSquare, FS_CardinalityType DEF Room
<1>2. CASE i # j
  <2>1. PairsOf(i, j) = nodesByAs[i] \X nodesByAs[j]
    BY <1>2 DEF PairsOf
  <2> QED BY <1>2, <2>1, NodesOfAS, FS_Product, FS_CardinalityType DEF Room
<1> QED BY <1>1, <1>2

\* A pair is known by its two nodes.
LEMMA PairKnown ==
  ASSUME NetInv, ASesApart, NEW i \in AllAS, NEW j \in AllAS,
         NEW p \in PairsOf(i, j), NEW q \in PairsOf(i, j), {p[1], p[2]} = {q[1], q[2]}
  PROVE  p = q
<1>1. /\ p = <<p[1], p[2]>> /\ p[1] \in nodesByAs[i] /\ p[2] \in nodesByAs[j]
      /\ q = <<q[1], q[2]>> /\ q[1] \in nodesByAs[i] /\ q[2] \in nodesByAs[j]
  BY DEF PairsOf
<1>2. CASE i = j
  <2>1. p[1] < p[2] /\ q[1] < q[2]
    BY <1>2 DEF PairsOf
  <2>2. p[1] \in Int /\ p[2] \in Int /\ q[1] \in Int /\ q[2] \in Int
    BY <1>1, NodesOfAS
  <2>3. p[1] = q[1] /\ p[2] = q[2]
    BY <2>1, <2>2
  <2> QED BY <1>1, <2>3
<1>3. CASE i # j
  <2>1. p[1] # q[2] /\ q[1] # p[2]
    BY <1>1, <1>3 DEF ASesApart
  <2>2. p[1] = q[1] /\ p[2] = q[2]
    BY <2>1
  <2> QED BY <1>1, <2>2
<1> QED BY <1>2, <1>3

\* There are never more links between two ASes than there is room for, and as many
\* when no pair of their nodes is left unconnected.
LEMMA RoomLeft ==
  ASSUME NetInv, ASesApart, NEW i \in AllAS, NEW j \in AllAS
  PROVE  /\ Between(i, j, Len(links)) <= Room(i, j)
         /\ Between(i, j, Len(links)) = Room(i, j) <=> getPairOfUnconnectedNodes(i, j) = {}
<1> DEFINE L == Joining(i, j, Len(links))
           P == PairsOf(i, j)
           f == [l \in L |-> CHOOSE p \in P : Ends(l) = {p[1], p[2]}]
<1>1. Len(links) \in Nat /\ DOMAIN links = 1..Len(links)
  BY LenProperties DEF NetInv, NetTypes
<1>2. ASSUME NEW l \in L PROVE \E p \in P : Ends(l) = {p[1], p[2]}
  <2>1. PICK a \in nodesByAs[i], b \in nodesByAs[j] : Ends(l) = {a, b}
    BY DEF Joining
  <2>2. a # b
    <3>1. l \in DOMAIN links
      BY <1>1 DEF Joining
    <3>2. links[l].ends[1] # links[l].ends[2]
      BY <3>1 DEF NetInv, LinksOK, Joins
    <3> QED BY <2>1, <3>2 DEF Ends
  <2>3. CASE i = j => a < b
    <3>1. <<a, b>> \in P
      BY <2>3 DEF PairsOf
    <3> QED BY <2>1, <3>1
  <2>4. CASE i = j /\ ~ (a < b)
    <3>1. a \in Int /\ b \in Int
      BY NodesOfAS
    <3>2. <<b, a>> \in P
      BY <2>2, <2>4, <3>1 DEF PairsOf
    <3> QED BY <2>1, <3>2
  <2> QED BY <2>3, <2>4
<1>3. ASSUME NEW l \in L PROVE f[l] \in P /\ Ends(l) = {f[l][1], f[l][2]}
  BY <1>2
<1>4. f \in [L -> P]
  BY <1>3
<1>5. ASSUME NEW k \in L, NEW l \in L, f[k] = f[l] PROVE k = l
  <2>1. Ends(k) = Ends(l)
    BY <1>3, <1>5
  <2>2. k \in DOMAIN links /\ l \in DOMAIN links
    BY <1>1 DEF Joining
  <2> QED BY <2>1, <2>2 DEF NetInv, LinksOK, EndSet, Ends
<1> HIDE DEF f, P
<1>6. f \in Injection(L, P)
  BY <1>4, <1>5 DEF Injection, IsInjective
<1>7. IsFiniteSet(P) /\ Cardinality(P) = Room(i, j) /\ Cardinality(L) = Between(i, j, Len(links))
  BY <1>1, RoomIsPairs, BetweenCounts DEF P
<1>8. /\ Between(i, j, Len(links)) <= Room(i, j)
      /\ Between(i, j, Len(links)) = Room(i, j) <=> f \in Surjection(L, P)
  BY <1>6, <1>7, FS_Injection
<1>9. ASSUME f \in Surjection(L, P), NEW p \in getPairOfUnconnectedNodes(i, j) PROVE FALSE
  <2>1. /\ p[1] \in nodesByAs[i] /\ p[2] \in nodesByAs[j] /\ p[1] # p[2]
        /\ ~nodesConnected(p[1], p[2])
    BY DEF getPairOfUnconnectedNodes, getAllASNodesFromAS
  <2>2. \E q \in P : {q[1], q[2]} = {p[1], p[2]}
    <3>1. CASE i = j => p[1] < p[2]
      <4>1. <<p[1], p[2]>> \in P
        BY <2>1, <3>1 DEF P, PairsOf
      <4> QED BY <4>1
    <3>2. CASE i = j /\ ~ (p[1] < p[2])
      <4>1. p[1] \in Int /\ p[2] \in Int
        BY <2>1, NodesOfAS
      <4>2. <<p[2], p[1]>> \in P
        BY <2>1, <3>2, <4>1 DEF P, PairsOf
      <4> QED BY <4>2
    <3> QED BY <3>1, <3>2
  <2>3. PICK q \in P : {q[1], q[2]} = {p[1], p[2]}
    BY <2>2
  <2>4. PICK l \in L : f[l] = q
    BY <1>9 DEF Surjection
  <2>5. l \in DOMAIN links /\ Ends(l) = {p[1], p[2]}
    BY <1>1, <1>3, <2>3, <2>4 DEF Joining
  <2> QED BY <2>1, <2>5 DEF nodesConnected, Devices
<1>10. ASSUME getPairOfUnconnectedNodes(i, j) = {}, NEW p \in P PROVE \E l \in L : f[l] = p
  <2>1. p \in nodesByAs[i] \X nodesByAs[j] /\ p[1] # p[2]
    <3>1. p \in nodesByAs[i] \X nodesByAs[j] /\ (i = j => p[1] < p[2])
      BY DEF P, PairsOf
    <3>2. p[1] \in Int /\ p[2] \in Int
      BY <3>1, NodesOfAS
    <3>3. i # j => p[1] # p[2]
      BY <3>1 DEF ASesApart
    <3> QED BY <3>1, <3>2, <3>3
  <2>2. nodesConnected(p[1], p[2])
    BY <1>10, <2>1 DEF getPairOfUnconnectedNodes, getAllASNodesFromAS
  <2>3. PICK l \in DOMAIN links : p[1] \in Ends(l) /\ p[2] \in Ends(l)
    BY <2>2 DEF nodesConnected, Devices
  <2>4. Ends(l) = {p[1], p[2]}
    BY <2>1, <2>3 DEF Ends
  <2>5. l \in L
    BY <1>1, <2>1, <2>4 DEF Joining
  <2>6. f[l] = p
    BY <1>3, <2>4, <2>5, PairKnown DEF P
  <2> QED BY <2>5, <2>6
<1>11. f \in Surjection(L, P) <=> getPairOfUnconnectedNodes(i, j) = {}
  BY <1>4, <1>9, <1>10 DEF Surjection
<1> QED BY <1>8, <1>11

-----------------------------------------------------------------------------
(* Calls under way.  Of each pair of ASes that a call is about, the first d  *)
(* iterations are done and d links were added, or as many as there was room  *)
(* for.                                                                      *)
CallSet == [op : {"BetweenAllAS", "BetweenTwoAS", "PerAS"}, k : Nat, bw : Nat, before : Nat]

Wanted == {p \in AllAS \X AllAS : IF call.op = "PerAS" THEN p[1] = p[2] ELSE p[1] < p[2]}
Full(i, j) == Between(i, j, Len(links)) = Room(i, j)
Done(i, j, d) == \A c \in 1..call.k : <<i, j, c>> \in todo <=> c > d

PairServed(i, j) ==
  \E d \in 0..call.k :
    /\ Done(i, j, d)
    /\ Between(i, j, Len(links)) = Min({Between(i, j, call.before) + d, Room(i, j)})

SomeServed ==
  \E d \in 0..call.k :
    /\ Done(0, 0, d)
    /\ Len(links) >= call.before + d \/ \E i, j \in AllAS : i # j /\ Full(i, j)

Progress ==
  IF call.op = "BetweenTwoAS" THEN GetNAs <= 1 \/ SomeServed
                              ELSE \A p \in Wanted : PairServed(p[1], p[2])

CallInv ==
  /\ AllAS \subseteq Nat
  /\ ASesApart
  /\ call = NoCall => todo = {}
  /\ call # NoCall => /\ call \in CallSet /\ call.before <= Len(links) /\ numNodes > 0
                      /\ todo \subseteq Iterations(call)
                      /\ Progress

LEMMA MinOfTwo ==
  ASSUME NEW a \in Int, NEW b \in Int
  PROVE  Min({a, b}) = IF a <= b THEN a ELSE b
<1> DEFINE m == IF a <= b THEN a ELSE b
<1>1. m \in {a, b} /\ \A y \in {a, b} : m <= y
  OBVIOUS
<1>2. \A x \in {a, b} : (\A y \in {a, b} : x <= y) => x = m
  OBVIOUS
<1> HIDE DEF m
<1>3. Min({a, b}) = m
  BY <1>1, <1>2 DEF Min
<1> QED BY <1>3 DEF m

\* Nothing left to do: all iterations are done.
LEMMA AllDone ==
  ASSUME NEW i, NEW j, call.k \in Nat, todo = {}, NEW d \in 0..call.k, Done(i, j, d)
  PROVE  d = call.k
<1>1. CASE call.k = 0
  BY <1>1
<1>2. CASE call.k # 0
  BY <1>2 DEF Done
<1> QED BY <1>1, <1>2

LEMMA CallInvDelivers == CallInv => CallDelivers
<1> SUFFICES ASSUME CallInv, todo = {}, call # NoCall
             PROVE  CASE call.op = "BetweenAllAS" -> \A i, j \in AllAS : i < j => Delivered(i, j)
                      [] call.op = "PerAS" -> \A i \in AllAS : Delivered(i, i)
                      [] call.op = "BetweenTwoAS" ->
                           \/ Len(links) >= call.before + (IF GetNAs <= 1 THEN 0 ELSE call.k)
                           \/ \E i, j \in AllAS : i # j /\ Between(i, j, Len(links)) = Room(i, j)
  BY DEF CallDelivers
<1>1. /\ call.k \in Nat /\ call.before \in Nat /\ call.op \in {"BetweenAllAS", "BetweenTwoAS", "PerAS"}
      /\ call.before <= Len(links) /\ Progress
  BY DEF CallInv, CallSet
<1>2. ASSUME NEW i \in AllAS, NEW j \in AllAS, PairServed(i, j) PROVE Delivered(i, j)
  <2>1. PICK d \in 0..call.k : /\ Done(i, j, d)
                               /\ Between(i, j, Len(links)) = Min({Between(i, j, call.before) + d, Room(i, j)})
    BY <1>2 DEF PairServed
  <2>2. d = call.k
    BY <1>1, <2>1, AllDone
  <2> QED BY <2>1, <2>2 DEF Delivered
<1>3. CASE call.op = "BetweenAllAS"
  <2>1. ASSUME NEW i \in AllAS, NEW j \in AllAS, i < j PROVE Delivered(i, j)
    <3>1. <<i, j>> \in Wanted
      BY <1>3, <2>1 DEF Wanted
    <3>2. PairServed(i, j)
      BY <1>1, <1>3, <3>1 DEF Progress
    <3> QED BY <1>2, <3>2
  <2> QED BY <1>3, <2>1
<1>4. CASE call.op = "PerAS"
  <2>1. ASSUME NEW i \in AllAS PROVE Delivered(i, i)
    <3>1. <<i, i>> \in Wanted
      BY <1>4 DEF Wanted
    <3>2. PairServed(i, i)
      BY <1>1, <1>4, <3>1 DEF Progress
    <3> QED BY <1>2, <3>2
  <2> QED BY <1>4, <2>1
<1>5. CASE call.op = "BetweenTwoAS"
  <2>1. GetNAs <= 1 \/ SomeServed
    BY <1>1, <1>5 DEF Progress
  <2>2. CASE GetNAs <= 1
    BY <1>1, <1>5, <2>2
  <2>3. CASE ~ (GetNAs <= 1)
    <3>1. PICK d \in 0..call.k :
            /\ Done(0, 0, d)
            /\ Len(links) >= call.before + d \/ \E i, j \in AllAS : i # j /\ Full(i, j)
      BY <2>1, <2>3 DEF SomeServed
    <3>2. d = call.k
      BY <1>1, <3>1, AllDone
    <3> QED BY <1>5, <2>3, <3>1, <3>2 DEF Full
  <2> QED BY <2>2, <2>3
<1> QED BY <1>1, <1>3, <1>4, <1>5

-----------------------------------------------------------------------------
\* Old links count as before.
LEMMA OldLinks ==
  ASSUME NEW n \in Nat, \A l \in 1..n : links'[l] = links[l], nodesByAs' = nodesByAs,
         NEW i, NEW j, NEW m \in 0..n
  PROVE  Joining(i, j, m)' = Joining(i, j, m) /\ Between(i, j, m)' = Between(i, j, m)
<1>1. \A l \in 1..m : Ends(l)' = Ends(l)
  BY DEF Ends
<1>2. Joining(i, j, m)' = Joining(i, j, m)
  BY <1>1 DEF Joining
<1>3. Between(i, j, m) = Cardinality(Joining(i, j, m)) /\ Between(i, j, m)' = Cardinality(Joining(i, j, m)')
  BY DEF Between, Joining
<1> QED BY <1>2, <1>3

\* A new link counts for the two ASes it joins and for no others.
LEMMA AddedLink ==
  ASSUME NetInv, ASesApart, nodesByAs' = nodesByAs,
         NEW i \in AllAS, NEW j \in AllAS, NEW a \in nodesByAs[i], NEW b \in nodesByAs[j],
         NEW x \in LinkSet, x.ends = <<a, b>>, links' = Append(links, x)
  PROVE  /\ Len(links) \in Nat /\ Len(links') = Len(links) + 1
         /\ \A m \in 0..Len(links), s, t \in AllAS : Between(s, t, m)' = Between(s, t, m)
         /\ \A s, t \in AllAS : {s, t} # {i, j} =>
              Between(s, t, Len(links))' = Between(s, t, Len(links))
         /\ Between(i, j, Len(links))' = Between(i, j, Len(links)) + 1
<1>1. links \in Seq(LinkSet)
  BY DEF NetInv, NetTypes
<1>0. PICK n \in Nat : n = Len(links)
  BY <1>1
<1>2. /\ Len(links') = n + 1 /\ links'[n + 1] = x
      /\ \A l \in 1..n : links'[l] = links[l]
  BY <1>0, <1>1, AppendProperties
<1>3. \A s, t : \A m \in 0..n : Joining(s, t, m)' = Joining(s, t, m) /\ Between(s, t, m)' = Between(s, t, m)
  BY <1>2, OldLinks
<1>4. ASSUME NEW s \in AllAS, NEW t \in AllAS
      PROVE  Between(s, t, n + 1)' = Between(s, t, n) + IF {s, t} = {i, j} THEN 1 ELSE 0
  <2>1. Ends(n + 1)' = {a, b}
    BY <1>2 DEF Ends
  <2>2. (\E u \in nodesByAs[s], v \in nodesByAs[t] : {a, b} = {u, v}) <=> {s, t} = {i, j}
    <3>1. ASSUME NEW u \in nodesByAs[s], NEW v \in nodesByAs[t], {a, b} = {u, v} PROVE {s, t} = {i, j}
      <4>1. (u = a /\ v = b) \/ (u = b /\ v = a)
        BY <3>1
      <4>2. CASE u = a /\ v = b
        <5>1. s = i /\ t = j
          BY <4>2 DEF ASesApart
        <5> QED BY <5>1
      <4>3. CASE u = b /\ v = a
        <5>1. s = j /\ t = i
          BY <4>3 DEF ASesApart
        <5> QED BY <5>1
      <4> QED BY <4>1, <4>2, <4>3
    <3>2. ASSUME {s, t} = {i, j} PROVE \E u \in nodesByAs[s], v \in nodesByAs[t] : {a, b} = {u, v}
      <4>1. (s = i /\ t = j) \/ (s = j /\ t = i)
        BY <3>2
      <4> QED BY <4>1
    <3> QED BY <3>1, <3>2
  <2>3. Joining(s, t, n + 1)' = {l \in 1..n + 1 : \E u \in nodesByAs[s], v \in nodesByAs[t] : Ends(l)' = {u, v}}
    BY DEF Joining
  <2>4. Joining(s, t, n)' = {l \in 1..n : \E u \in nodesByAs[s], v \in nodesByAs[t] : Ends(l)' = {u, v}}
    BY DEF Joining
  <2>5. Joining(s, t, n + 1)' = Joining(s, t, n) \cup IF {s, t} = {i, j} THEN {n + 1} ELSE {}
    <3>1. 1..n + 1 = (1..n) \cup {n + 1}
      BY <1>2
    <3>2. Joining(s, t, n)' = Joining(s, t, n)
      BY <1>2, <1>3
    <3> DEFINE Q(l) == \E u \in nodesByAs[s], v \in nodesByAs[t] : Ends(l)' = {u, v}
    <3>3. Q(n + 1) <=> {s, t} = {i, j}
      BY <2>1, <2>2
    <3>4. /\ Joining(s, t, n + 1)' = {l \in 1..n + 1 : Q(l)}
          /\ Joining(s, t, n) = {l \in 1..n : Q(l)}
      BY <2>3, <2>4, <3>2
    <3> HIDE DEF Q
    <3> QED BY <3>1, <3>3, <3>4
  <2>6. Between(s, t, n + 1)' = Cardinality(Joining(s, t, n + 1)')
    BY DEF Between, Joining
  <2>7. /\ Between(s, t, n) = Cardinality(Joining(s, t, n)) /\ IsFiniteSet(Joining(s, t, n))
        /\ Between(s, t, n) \in Nat /\ n + 1 \notin Joining(s, t, n)
    <3>1. n + 1 \notin Joining(s, t, n)
      BY <1>2 DEF Joining
    <3> QED BY <1>2, <3>1, BetweenCounts
  <2>8. Cardinality(Joining(s, t, n + 1)') = Cardinality(Joining(s, t, n)) + IF {s, t} = {i, j} THEN 1 ELSE 0
    <3>1. CASE {s, t} = {i, j}
      BY <2>5, <2>7, <3>1, FS_AddElement
    <3>2. CASE {s, t} # {i, j}
      <4>1. Joining(s, t, n + 1)' = Joining(s, t, n)
        BY <2>5, <3>2
      <4> QED BY <2>7, <3>2, <4>1
    <3> QED BY <3>1, <3>2
  <2> QED BY <2>6, <2>7, <2>8
<1>5. ASSUME NEW s \in AllAS, NEW t \in AllAS
      PROVE  Between(s, t, Len(links))' = Between(s, t, Len(links)) + IF {s, t} = {i, j} THEN 1 ELSE 0
  <2>1. Between(s, t, Len(links))' = Between(s, t, n + 1)'
    BY <1>0, <1>2 DEF Between
  <2> QED BY <1>0, <1>4, <2>1
<1>6. ASSUME NEW s \in AllAS, NEW t \in AllAS, {s, t} # {i, j}
      PROVE  Between(s, t, Len(links))' = Between(s, t, Len(links))
  <2>1. Between(s, t, Len(links)) \in Nat
    BY <1>0, BetweenCounts
  <2>2. Between(s, t, Len(links))' = Between(s, t, Len(links)) + 0
    BY <1>5, <1>6
  <2> QED BY <2>1, <2>2
<1>7. Between(i, j, Len(links))' = Between(i, j, Len(links)) + 1
  BY <1>5
<1> QED BY <1>0, <1>2, <1>3, <1>6, <1>7

\* An iteration adds a link between the two ASes unless they are full.
LEMMA Iterated ==
  ASSUME NetInv, ASesApart, nodesByAs' = nodesByAs, NEW i \in AllAS, NEW j \in AllAS,
         NEW bw \in Nat,
         \/ \E p \in getPairOfUnconnectedNodes(i, j) : Install(p, bw)
         \/ getPairOfUnconnectedNodes(i, j) = {} /\ UNCHANGED links
  PROVE  /\ Len(links) \in Nat /\ Len(links') \in Nat /\ Len(links) <= Len(links')
         /\ \A m \in 0..Len(links), s, t \in AllAS : Between(s, t, m)' = Between(s, t, m)
         /\ \A s, t \in AllAS : {s, t} # {i, j} \/ Full(s, t) =>
              Between(s, t, Len(links))' = Between(s, t, Len(links))
         /\ ~Full(i, j) => /\ Len(links') = Len(links) + 1
                           /\ Between(i, j, Len(links))' = Between(i, j, Len(links)) + 1
<1>1. Len(links) \in Nat
  BY DEF NetInv, NetTypes
<1>2. CASE getPairOfUnconnectedNodes(i, j) = {} /\ UNCHANGED links
  <2>1. \A s, t, m : Between(s, t, m)' = Between(s, t, m)
    BY <1>2 DEF Between, Ends
  <2>2. \A s, t : Between(s, t, Len(links))' = Between(s, t, Len(links))
    BY <1>2 DEF Between, Ends
  <2>3. Full(i, j)
    BY <1>2, RoomLeft DEF Full
  <2> QED BY <1>1, <1>2, <2>1, <2>2, <2>3
<1>3. CASE \E p \in getPairOfUnconnectedNodes(i, j) : Install(p, bw)
  <2>1. PICK p \in getPairOfUnconnectedNodes(i, j) : Install(p, bw)
    BY <1>3
  <2>2. /\ p[1] \in nodesByAs[i] /\ p[2] \in nodesByAs[j] /\ p[1] # p[2]
        /\ ~nodesConnected(p[1], p[2])
    BY DEF getPairOfUnconnectedNodes, getAllASNodesFromAS
  <2>3. PICK x : x = Link(p[1], p[2], bw)
    OBVIOUS
  <2>4. x \in LinkSet /\ x.ends = <<p[1], p[2]>> /\ links' = Append(links, x)
    <3>1. p[1] \in Nat /\ p[2] \in Nat
      BY <2>2, NodesOfAS DEF NetInv, NetTypes
    <3> QED BY <2>1, <2>3, <3>1 DEF Install, Link, LinkSet
  <2>0. PICK a \in nodesByAs[i], b \in nodesByAs[j] : a = p[1] /\ b = p[2]
    BY <2>2
  <2>5. /\ Len(links) \in Nat /\ Len(links') = Len(links) + 1
        /\ \A m \in 0..Len(links), s, t \in AllAS : Between(s, t, m)' = Between(s, t, m)
        /\ \A s, t \in AllAS : {s, t} # {i, j} =>
             Between(s, t, Len(links))' = Between(s, t, Len(links))
        /\ Between(i, j, Len(links))' = Between(i, j, Len(links)) + 1
    BY <2>0, <2>4, AddedLink
  <2>6. ASSUME NEW s \in AllAS, NEW t \in AllAS, Full(s, t) PROVE {s, t} # {i, j}
    <3>1. getPairOfUnconnectedNodes(s, t) = {}
      BY <2>6, RoomLeft DEF Full
    <3>2. <<p[1], p[2]>> \notin getPairOfUnconnectedNodes(s, t) /\ <<p[2], p[1]>> \notin getPairOfUnconnectedNodes(s, t)
      BY <3>1
    <3>3. ~nodesConnected(p[2], p[1])
      BY <2>2 DEF nodesConnected, Devices
    <3>4. ~ (s = i /\ t = j)
      BY <2>2, <3>2 DEF getPairOfUnconnectedNodes, getAllASNodesFromAS
    <3>5. ~ (s = j /\ t = i)
      BY <2>2, <3>2, <3>3 DEF getPairOfUnconnectedNodes, getAllASNodesFromAS
    <3> QED BY <3>4, <3>5
  <2>7. ASSUME NEW s \in AllAS, NEW t \in AllAS, {s, t} # {i, j} \/ Full(s, t)
        PROVE  Between(s, t, Len(links))' = Between(s, t, Len(links))
    BY <2>5, <2>6, <2>7
  <2> QED BY <2>5, <2>7
<1> QED BY <1>2, <1>3

\* An iteration takes the next link of its pair of ASes off the list and adds it,
\* or takes it off in vain when they are full.
LEMMA AddConnectionCalls ==
  ASSUME NetInv, CallInv, AddConnection
  PROVE  CallInv'
<1>1. PICK r \in todo :
        /\ \A s \in todo : s = r \/ Earlier(r, s)
        /\ todo' = todo \ {r}
        /\ \E as \in Drawn(r) :
             \/ \E p \in getPairOfUnconnectedNodes(as[1], as[2]) : Install(p, call.bw)
             \/ getPairOfUnconnectedNodes(as[1], as[2]) = {} /\ UNCHANGED links
        /\ UNCHANGED <<numNodes, nodesByAs, asLeafNodes, linkVars, custom, call, calls, base>>
  BY DEF AddConnection
<1>2. PICK as \in Drawn(r) :
        \/ \E p \in getPairOfUnconnectedNodes(as[1], as[2]) : Install(p, call.bw)
        \/ getPairOfUnconnectedNodes(as[1], as[2]) = {} /\ UNCHANGED links
  BY <1>1
<1>3. /\ call # NoCall /\ call \in CallSet /\ call.before <= Len(links) /\ numNodes > 0
      /\ todo \subseteq Iterations(call) /\ Progress /\ ASesApart /\ AllAS \subseteq Nat
  BY DEF CallInv
<1>4. call.k \in Nat /\ call.bw \in Nat /\ call.before \in Nat /\ call.op \in {"BetweenAllAS", "BetweenTwoAS", "PerAS"}
  BY <1>3 DEF CallSet
<1>5. UNCHANGED <<numNodes, nodesByAs, call>> /\ AllAS' = AllAS
  BY <1>1 DEF AllAS
<1>6. r \in Iterations(call)
  BY <1>3
<1>7. as[1] \in AllAS /\ as[2] \in AllAS /\ (call.op = "BetweenTwoAS" => as[1] # as[2])
  <2>1. CASE call.op = "BetweenTwoAS"
    BY <2>1 DEF Drawn
  <2>2. CASE call.op # "BetweenTwoAS"
    <3>1. as = <<r[1], r[2]>>
      BY <2>2 DEF Drawn
    <3>2. r[1] \in AllAS /\ r[2] \in AllAS
      BY <1>4, <1>6, <2>2 DEF Iterations
    <3> QED BY <2>2, <3>1, <3>2
  <2> QED BY <2>1, <2>2
<1>8. PICK i \in AllAS : i = as[1]
  BY <1>7
<1>9. PICK j \in AllAS : j = as[2]
  BY <1>7
<1>10. /\ nodesByAs' = nodesByAs
       /\ \/ \E p \in getPairOfUnconnectedNodes(i, j) : Install(p, call.bw)
          \/ getPairOfUnconnectedNodes(i, j) = {} /\ UNCHANGED links
  BY <1>2, <1>5, <1>8, <1>9
<1>11. /\ Len(links) \in Nat /\ Len(links') \in Nat /\ Len(links) <= Len(links')
       /\ \A m \in 0..Len(links), s, t \in AllAS : Between(s, t, m)' = Between(s, t, m)
       /\ \A s, t \in AllAS : {s, t} # {i, j} \/ Full(s, t) =>
            Between(s, t, Len(links))' = Between(s, t, Len(links))
       /\ ~Full(i, j) => /\ Len(links') = Len(links) + 1
                         /\ Between(i, j, Len(links))' = Between(i, j, Len(links)) + 1
  BY <1>3, <1>4, <1>10, Iterated
<1>12. \A s, t \in AllAS : Room(s, t)' = Room(s, t)
  BY <1>5 DEF Room
<1>13. \A s, t \in AllAS : Full(s, t) => Full(s, t)'
  BY <1>11, <1>12 DEF Full
<1>14. ASSUME call.op = "BetweenTwoAS", ~ (GetNAs <= 1) PROVE Progress'
  <2>1. PICK d \in 0..call.k :
          /\ Done(0, 0, d)
          /\ Len(links) >= call.before + d \/ \E s, t \in AllAS : s # t /\ Full(s, t)
    BY <1>3, <1>14 DEF Progress, SomeServed
  <2>2. PICK c \in 1..call.k : r = <<0, 0, c>>
    BY <1>6, <1>14 DEF Iterations
  <2>3. c > d
    BY <2>1, <2>2 DEF Done
  <2>4. c = d + 1
    <3>1. d + 1 \in 1..call.k /\ <<0, 0, d + 1>> \in todo
      BY <1>4, <2>1, <2>3 DEF Done
    <3>2. <<0, 0, d + 1>> = r \/ Earlier(r, <<0, 0, d + 1>>)
      BY <1>1, <3>1
    <3>3. Earlier(r, <<0, 0, d + 1>>) => c < d + 1
      BY <2>2 DEF Earlier
    <3> QED BY <2>2, <2>3, <3>2, <3>3
  <2>5. PICK e \in 0..call.k : e = d + 1
    BY <2>2, <2>4
  <2>6. Done(0, 0, e)'
    <3>1. ASSUME NEW m \in 1..call.k PROVE <<0, 0, m>> \in todo' <=> m > e
      <4>1. <<0, 0, m>> \in todo <=> m > d
        BY <2>1 DEF Done
      <4>2. <<0, 0, m>> \in todo' <=> <<0, 0, m>> \in todo /\ m # e
        BY <1>1, <2>2, <2>4, <2>5
      <4> QED BY <2>5, <4>1, <4>2
    <3> QED BY <1>5, <3>1 DEF Done
  <2>7. Len(links') >= call.before + e \/ \E s, t \in AllAS : s # t /\ Full(s, t)'
    <3>1. CASE \E s, t \in AllAS : s # t /\ Full(s, t)
      BY <1>13, <3>1
    <3>2. CASE Full(i, j)
      BY <1>7, <1>8, <1>9, <1>13, <1>14, <3>2
    <3>3. CASE Len(links) >= call.before + d /\ ~Full(i, j)
      BY <1>4, <1>11, <2>5, <3>3
    <3> QED BY <2>1, <3>1, <3>2, <3>3
  <2>8. SomeServed'
    BY <1>5, <2>6, <2>7 DEF SomeServed
  <2> QED BY <1>5, <1>14, <2>8 DEF Progress
<1>15. ASSUME call.op # "BetweenTwoAS", NEW p \in Wanted
       PROVE  PairServed(p[1], p[2])'
  <2>1. PICK s \in AllAS : s = p[1]
    BY DEF Wanted
  <2>2. PICK t \in AllAS : t = p[2]
    BY DEF Wanted
  <2>3. PICK d \in 0..call.k :
          /\ Done(s, t, d)
          /\ Between(s, t, Len(links)) = Min({Between(s, t, call.before) + d, Room(s, t)})
    <3>1. PairServed(p[1], p[2])
      BY <1>3, <1>15 DEF Progress
    <3> QED BY <2>1, <2>2, <3>1 DEF PairServed
  <2>4. PICK b \in Nat : b = Between(s, t, call.before)
    BY <1>4, BetweenCounts
  <2>5. PICK m \in Nat : m = Room(s, t)
    BY <1>3, RoomIsPairs
  <2>6. PICK n \in Nat : n = Between(s, t, Len(links))
    BY <1>11, BetweenCounts
  <2>7. n = IF b + d <= m THEN b + d ELSE m
    BY <2>3, <2>4, <2>5, <2>6, MinOfTwo
  <2>8. Between(s, t, call.before)' = b /\ Room(s, t)' = m
    <3>1. call.before \in 0..Len(links)
      BY <1>3, <1>4, <1>11
    <3>2. Between(s, t, call.before)' = Between(s, t, call.before)
      <4>1. PICK q \in 0..Len(links) : q = call.before
        BY <3>1
      <4>2. Between(s, t, q)' = Between(s, t, q)
        BY <1>11
      <4>3. Between(s, t, call.before)' = Between(s, t, q)'
        BY <1>5, <4>1 DEF Between
      <4> QED BY <4>1, <4>2, <4>3
    <3> QED BY <1>12, <2>4, <2>5, <3>2
  <2>9. as = <<r[1], r[2]>> /\ i = r[1] /\ j = r[2]
    <3>1. as = <<r[1], r[2]>>
      BY <1>15 DEF Drawn
    <3> QED BY <1>8, <1>9, <3>1
  <2>10. PICK c \in 1..call.k : r = <<i, j, c>> /\ <<i, j>> \in Wanted
    BY <1>4, <1>6, <1>15, <2>9 DEF Iterations, Wanted
  <2>11. CASE s = i /\ t = j
    <3>1. c > d
      BY <2>3, <2>10, <2>11 DEF Done
    <3>2. c = d + 1
      <4>1. d + 1 \in 1..call.k /\ <<i, j, d + 1>> \in todo
        BY <1>4, <2>3, <2>11, <3>1 DEF Done
      <4>2. <<i, j, d + 1>> = r \/ Earlier(r, <<i, j, d + 1>>)
        BY <1>1, <4>1
      <4>3. i \in Nat /\ j \in Nat
        BY <1>3
      <4>4. Earlier(r, <<i, j, d + 1>>) => c < d + 1
        BY <2>10, <4>3 DEF Earlier
      <4> QED BY <2>10, <3>1, <4>2, <4>4
    <3>3. PICK e \in 0..call.k : e = d + 1
      BY <2>10, <3>2
    <3>4. Done(s, t, e)'
      <4>1. ASSUME NEW q \in 1..call.k PROVE <<s, t, q>> \in todo' <=> q > e
        <5>1. <<s, t, q>> \in todo <=> q > d
          BY <2>3 DEF Done
        <5>2. <<s, t, q>> \in todo' <=> <<s, t, q>> \in todo /\ q # e
          BY <1>1, <2>10, <2>11, <3>2, <3>3
        <5> QED BY <3>3, <5>1, <5>2
      <4> QED BY <1>5, <4>1 DEF Done
    <3>5. Between(s, t, Len(links))' = IF b + e <= m THEN b + e ELSE m
      <4>1. Full(i, j) <=> n = m
        BY <2>5, <2>6, <2>11 DEF Full
      <4>2. CASE n = m
        <5>1. Between(s, t, Len(links))' = n
          BY <1>11, <2>6, <2>11, <4>1, <4>2
        <5> QED BY <2>7, <3>3, <4>2, <5>1
      <4>3. CASE n # m
        <5>1. Between(s, t, Len(links))' = n + 1
          BY <1>11, <2>6, <2>11, <4>1, <4>3
        <5> QED BY <2>7, <3>3, <4>3, <5>1
      <4> QED BY <4>2, <4>3
    <3>6. Between(s, t, Len(links))' = Min({Between(s, t, call.before) + e, Room(s, t)})'
      <4>1. Between(s, t, Len(links))' = Min({b + e, m})
        BY <2>4, <2>5, <3>5, MinOfTwo
      <4> QED BY <2>8, <4>1
    <3> QED BY <1>5, <2>1, <2>2, <3>4, <3>6 DEF PairServed
  <2>12. CASE ~ (s = i /\ t = j)
    <3>1. \A q : <<s, t, q>> \in todo' <=> <<s, t, q>> \in todo
      BY <1>1, <2>10, <2>12
    <3>2. Done(s, t, d)'
      BY <1>5, <2>3, <3>1 DEF Done
    <3>3. {s, t} # {i, j}
      <4>1. s \in Nat /\ t \in Nat /\ i \in Nat /\ j \in Nat
        BY <1>3
      <4>2. IF call.op = "PerAS" THEN s = t /\ i = j ELSE s < t /\ i < j
        BY <2>1, <2>2, <2>10 DEF Wanted
      <4> QED BY <2>12, <4>1, <4>2
    <3>4. Between(s, t, Len(links))' = n
      BY <1>11, <2>6, <3>3
    <3>5. Between(s, t, Len(links))' = Min({Between(s, t, call.before) + d, Room(s, t)})'
      BY <2>4, <2>5, <2>7, <2>8, <3>4, MinOfTwo
    <3> QED BY <1>5, <2>1, <2>2, <3>2, <3>5 DEF PairServed
  <2> QED BY <2>11, <2>12
<1>16. Progress'
  <2>1. CASE call.op = "BetweenTwoAS" /\ GetNAs <= 1
    <3>1. call'.op = "BetweenTwoAS" /\ GetNAs' <= 1
      BY <1>5, <2>1 DEF GetNAs, AllAS
    <3> QED BY <3>1 DEF Progress
  <2>2. CASE call.op # "BetweenTwoAS"
    <3>1. Wanted' = Wanted
      BY <1>5 DEF Wanted
    <3> QED BY <1>5, <1>15, <2>2, <3>1 DEF Progress
  <2> QED BY <1>14, <2>1, <2>2
<1>17. todo' \subseteq Iterations(call)'
  <2>1. Iterations(call)' = Iterations(call)
    BY <1>5 DEF Iterations, GetNAs, AllAS
  <2> QED BY <1>1, <1>3, <2>1
<1>18. ASesApart'
  BY <1>3, <1>5 DEF ASesApart
<1> QED BY <1>3, <1>4, <1>5, <1>11, <1>16, <1>17, <1>18 DEF CallInv
LEMMA ConstructCalls ==
  ASSUME NetInv, CallInv, Construct
  PROVE  CallInv'
<1>1. PICK g \in Graph : ConstructTopology(g)
  BY DEF Construct, BuildBriteTopology
<1>2. numNodes = 0 /\ UNCHANGED <<call, todo>>
  BY DEF Construct, BuildBriteTopology, genVars
<1>3. call = NoCall /\ todo = {}
  BY <1>2 DEF CallInv
<1>4. nodesByAs' = [as \in 0..NumAs(g) - 1 |-> {n \in BriteNodes(g) : NodeInfo(g)[n].asId = as}]
  BY <1>1 DEF ConstructTopology
<1>5. AllAS' \subseteq Nat
  BY <1>4 DEF AllAS
<1>6. ASesApart'
  BY <1>4 DEF ASesApart, AllAS
<1> QED BY <1>2, <1>3, <1>5, <1>6 DEF CallInv

LEMMA randomlyAddConnectionsCalls ==
  ASSUME NetInv, CallInv, NEW c \in Calls, randomlyAddConnections(c)
  PROVE  CallInv'
<1>1. /\ UNCHANGED <<numNodes, nodesByAs, links>> /\ numNodes > 0
      /\ call' = [op |-> c.op, k |-> c.k, bw |-> c.bw, before |-> Len(links)]
      /\ todo' = Iterations(c)
  BY DEF randomlyAddConnections, Ready, briteVars
<1>2. c.op \in {"BetweenAllAS", "BetweenTwoAS", "PerAS"} /\ c.k \in Nat /\ c.bw \in Nat /\ Len(links) \in Nat
  BY CallsAssumption DEF NetInv, NetTypes
<1>3. call' \in CallSet /\ call'.op = c.op /\ call'.k = c.k /\ call'.before = Len(links)
  BY <1>1, <1>2 DEF CallSet
<1>4. AllAS' = AllAS /\ AllAS \subseteq Nat /\ ASesApart /\ ASesApart'
  BY <1>1 DEF AllAS, ASesApart, CallInv
<1>5. todo' = Iterations(call)'
  BY <1>1, <1>3, <1>4 DEF Iterations, GetNAs, AllAS
<1>6. call' # NoCall
  BY <1>2, <1>3 DEF NoCall
<1>7. ASSUME c.op = "BetweenTwoAS", ~ (GetNAs <= 1) PROVE SomeServed'
  <2>1. \A q \in 1..c.k : <<0, 0, q>> \in todo'
    BY <1>1, <1>7 DEF Iterations
  <2>2. Done(0, 0, 0)'
    <3>0. \A q \in 1..c.k : q > 0
      BY <1>2
    <3>1. \A q \in 1..c.k : <<0, 0, q>> \in todo' <=> q > 0
      BY <2>1, <3>0, Zenon
    <3> QED BY <1>3, <3>1 DEF Done
  <2> QED BY <1>1, <1>2, <1>3, <2>2 DEF SomeServed
<1>8. ASSUME c.op # "BetweenTwoAS", NEW p \in Wanted' PROVE PairServed(p[1], p[2])'
  <2>1. /\ p = <<p[1], p[2]>> /\ p[1] \in AllAS /\ p[2] \in AllAS
        /\ IF c.op = "PerAS" THEN p[1] = p[2] ELSE p[1] < p[2]
    BY <1>3, <1>4 DEF Wanted
  <2>2. PICK s \in AllAS, t \in AllAS : s = p[1] /\ t = p[2]
    BY <2>1
  <2>3. \A q \in 1..c.k : <<s, t, q>> \in todo'
    BY <1>1, <1>2, <1>8, <2>1, <2>2 DEF Iterations
  <2>4. Done(s, t, 0)'
    BY <1>2, <1>3, <2>3 DEF Done
  <2>5. PICK n \in Nat : n = Between(s, t, Len(links))
    BY <1>2, BetweenCounts
  <2>6. PICK m \in Nat : m = Room(s, t)
    BY <1>4, RoomIsPairs
  <2>7. n = Min({n + 0, m})
    <3>1. n <= m
      BY <1>4, <2>5, <2>6, RoomLeft
    <3> QED BY <3>1, MinOfTwo
  <2>8. Between(s, t, Len(links))' = n /\ Between(s, t, call.before)' = n /\ Room(s, t)' = m
    BY <1>1, <1>3, <2>5, <2>6 DEF Between, Room, Ends
  <2>9. Between(s, t, Len(links))' = Min({Between(s, t, call.before) + 0, Room(s, t)})'
    BY <2>7, <2>8
  <2>10. 0 \in 0..call'.k
    BY <1>2, <1>3
  <2>11. PairServed(s, t)'
    BY <2>4, <2>9, <2>10 DEF PairServed
  <2> QED BY <2>2, <2>11
<1>9. Progress'
  <2>1. CASE c.op = "BetweenTwoAS"
    BY <1>3, <1>4, <1>7, <2>1 DEF Progress, GetNAs, AllAS
  <2>2. CASE c.op # "BetweenTwoAS"
    BY <1>3, <1>8, <2>2 DEF Progress
  <2> QED BY <2>1, <2>2
<1> QED BY <1>1, <1>2, <1>3, <1>4, <1>5, <1>6, <1>9 DEF CallInv

\* A call stays served while no AS gets a node and its ASes no link.
LEMMA StillServed ==
  ASSUME CallInv, UNCHANGED <<nodesByAs, call, todo>>, numNodes > 0 => numNodes' > 0,
         Len(links) \in Nat, Len(links') \in Nat, Len(links) <= Len(links'),
         \A m \in 0..Len(links), s, t \in AllAS : Between(s, t, m)' = Between(s, t, m),
         \A s, t \in AllAS : Between(s, t, Len(links))' = Between(s, t, Len(links))
  PROVE  CallInv'
<1>1. AllAS' = AllAS /\ ASesApart' /\ Iterations(call)' = Iterations(call)
  BY DEF AllAS, ASesApart, CallInv, Iterations, GetNAs
<1>2. \A s, t \in AllAS : Room(s, t)' = Room(s, t)
  BY DEF Room
<1>3. \A i, j, d : Done(i, j, d)' = Done(i, j, d)
  BY DEF Done
<1>4. ASSUME call # NoCall PROVE Progress'
  <2>1. Progress /\ call.k \in Nat /\ call.before \in 0..Len(links)
    BY <1>4 DEF CallInv, CallSet
  <2>2. CASE call.op = "BetweenTwoAS" /\ GetNAs <= 1
    <3>1. call'.op = "BetweenTwoAS" /\ GetNAs' <= 1
      BY <1>1, <2>2 DEF GetNAs
    <3> QED BY <3>1 DEF Progress
  <2>3. CASE call.op = "BetweenTwoAS" /\ ~ (GetNAs <= 1)
    <3>1. PICK d \in 0..call.k :
            /\ Done(0, 0, d)
            /\ Len(links) >= call.before + d \/ \E i, j \in AllAS : i # j /\ Full(i, j)
      BY <2>1, <2>3 DEF Progress, SomeServed
    <3>2. \A s, t \in AllAS : Full(s, t)' = Full(s, t)
      BY <1>2 DEF Full
    <3>3. Len(links') >= call.before + d \/ \E i, j \in AllAS : i # j /\ Full(i, j)'
      BY <2>1, <3>1, <3>2
    <3>4. SomeServed'
      BY <1>1, <1>3, <3>1, <3>3 DEF SomeServed
    <3> QED BY <2>3, <3>4 DEF Progress
  <2>4. CASE call.op # "BetweenTwoAS"
    <3>1. ASSUME NEW p \in Wanted PROVE PairServed(p[1], p[2])'
      <4>1. PICK s \in AllAS, t \in AllAS : s = p[1] /\ t = p[2]
        BY DEF Wanted
      <4>2. PICK d \in 0..call.k :
              /\ Done(s, t, d)
              /\ Between(s, t, Len(links)) = Min({Between(s, t, call.before) + d, Room(s, t)})
        <5>1. PairServed(p[1], p[2])
          BY <2>1, <2>4 DEF Progress
        <5> QED BY <4>1, <5>1 DEF PairServed
      <4>3. PICK q \in 0..Len(links) : q = call.before
        BY <2>1
      <4>4. Between(s, t, call.before)' = Between(s, t, call.before)
        <5>1. Between(s, t, q)' = Between(s, t, q)
          OBVIOUS
        <5>2. Between(s, t, call.before)' = Between(s, t, q)'
          BY <4>3 DEF Between
        <5> QED BY <4>3, <5>1, <5>2
      <4>5. Between(s, t, Len(links))' = Min({Between(s, t, call.before) + d, Room(s, t)})'
        BY <1>2, <4>2, <4>4
      <4> QED BY <1>3, <4>1, <4>2, <4>5 DEF PairServed
    <3>2. Wanted' = Wanted
      BY <1>1 DEF Wanted
    <3> QED BY <2>4, <3>1, <3>2 DEF Progress
  <2> QED BY <2>2, <2>3, <2>4
<1> QED BY <1>1, <1>4 DEF CallInv, CallSet

\* The links of placed nodes end in no AS on one side.
LEMMA randomlyPlaceNodesCalls ==
  ASSUME NetInv, CallInv, NEW c \in Places, randomlyPlaceNodes(c)
  PROVE  CallInv'
<1>1. PICK x \in Seq(LinkSet) :
        /\ links' = links \o x
        /\ DOMAIN x = 1..c.count
        /\ \A i \in 1..c.count : x[i].ends[1] = numNodes + i - 1 /\ x[i].ends[2] \in 0..numNodes - 1
  BY PlacedLinks
<1>2. c.count \in Nat /\ numNodes \in Nat /\ numNodes' = numNodes + c.count
  BY CallsAssumption DEF randomlyPlaceNodes, NetInv, NetTypes
<1>3. UNCHANGED <<nodesByAs, call, todo>>
  BY DEF randomlyPlaceNodes
<1>4. PICK n \in Nat : n = Len(links)
  BY DEF NetInv, NetTypes
<1>5. /\ Len(links') = n + c.count
      /\ \A l \in 1..n + c.count : links'[l] = IF l <= n THEN links[l] ELSE x[l - n]
  <2>1. Len(x) = c.count
    BY <1>1, <1>2, LenProperties
  <2>2. links \in Seq(LinkSet)
    BY DEF NetInv, NetTypes
  <2>3. /\ Len(links') = n + Len(x)
        /\ \A l \in 1..n + Len(x) : links'[l] = IF l <= n THEN links[l] ELSE x[l - n]
    BY <1>1, <1>4, <2>2, ConcatProperties
  <2> QED BY <2>1, <2>3
<1>6. \A l \in 1..n : links'[l] = links[l]
  BY <1>2, <1>4, <1>5
<1>7. \A s, t : \A m \in 0..n : Joining(s, t, m)' = Joining(s, t, m) /\ Between(s, t, m)' = Between(s, t, m)
  BY <1>3, <1>6, OldLinks
<1>8. ASSUME NEW s \in AllAS, NEW t \in AllAS
      PROVE  Between(s, t, Len(links))' = Between(s, t, Len(links))
  <2>1. PICK m \in Nat : m = n + c.count
    BY <1>2
  <2>2. ASSUME NEW l \in 1..m, l \notin 1..n, NEW u \in nodesByAs[s], NEW v \in nodesByAs[t], Ends(l)' = {u, v}
        PROVE  FALSE
    <3>1. l - n \in 1..c.count /\ links'[l] = x[l - n]
      BY <1>2, <1>5, <2>1, <2>2
    <3>2. links'[l].ends[1] \in Int /\ links'[l].ends[1] >= numNodes
      <4>1. PICK i \in 1..c.count : i = l - n
        BY <3>1
      <4>2. links'[l].ends[1] = numNodes + i - 1
        BY <1>1, <3>1, <4>1
      <4> QED BY <1>2, <4>1, <4>2
    <3>3. u < numNodes /\ v < numNodes /\ u \in Int /\ v \in Int
      BY <1>2, NodesOfAS
    <3>4. links'[l].ends[1] \in {u, v}
      BY <2>2 DEF Ends
    <3> QED BY <1>2, <3>2, <3>3, <3>4
  <2>3. Joining(s, t, m)' = {l \in 1..m : \E u \in nodesByAs[s], v \in nodesByAs[t] : Ends(l)' = {u, v}}
    BY <1>3 DEF Joining
  <2>4. Joining(s, t, n)' = {l \in 1..n : \E u \in nodesByAs[s], v \in nodesByAs[t] : Ends(l)' = {u, v}}
    BY <1>3 DEF Joining
  <2>5. Joining(s, t, m)' = Joining(s, t, n)'
    <3>1. \A l \in 1..n : l \in 1..m
      BY <1>2, <2>1
    <3> QED BY <2>2, <2>3, <2>4, <3>1
  <2>6. Between(s, t, Len(links))' = Cardinality(Joining(s, t, m)')
    BY <1>5, <2>1 DEF Between, Joining
  <2>7. Between(s, t, Len(links)) = Cardinality(Joining(s, t, n))
    BY <1>4 DEF Between, Joining
  <2>8. Joining(s, t, n)' = Joining(s, t, n)
    BY <1>7
  <2> QED BY <2>5, <2>6, <2>7, <2>8
<1>9. \A m \in 0..Len(links), s, t \in AllAS : Between(s, t, m)' = Between(s, t, m)
  BY <1>4, <1>7
<1>10. Len(links) \in Nat /\ Len(links') \in Nat /\ Len(links) <= Len(links') /\ (numNodes > 0 => numNodes' > 0)
  BY <1>2, <1>4, <1>5
<1> QED BY <1>3, <1>8, <1>9, <1>10, StillServed

LEMMA CallInvNext == NetInv /\ CallInv /\ [Next]_vars => CallInv'
<1> SUFFICES ASSUME NetInv, CallInv, [Next]_vars PROVE CallInv'
  OBVIOUS
<1>1. ASSUME UNCHANGED <<briteVars, call, todo>> PROVE CallInv'
  <2>1. UNCHANGED <<numNodes, nodesByAs, links, call, todo>>
    BY <1>1 DEF briteVars
  <2>2. Len(links) \in Nat /\ links' = links /\ (numNodes > 0 => numNodes' > 0)
    BY <2>1 DEF NetInv, NetTypes
  <2>3. \A s, t, m : Between(s, t, m)' = Between(s, t, m)
    BY <2>1 DEF Between, Ends
  <2>4. \A s, t : Between(s, t, Len(links))' = Between(s, t, Len(links))
    BY <2>1 DEF Between, Ends
  <2>5. Len(links') \in Nat /\ Len(links) <= Len(links')
    BY <2>2
  <2> QED BY <2>1, <2>2, <2>3, <2>4, <2>5, StillServed
<1>2. CASE UNCHANGED vars
  BY <1>1, <1>2 DEF vars, genVars
<1>3. CASE creatRandomLinkFailure
  BY <1>1, <1>3 DEF creatRandomLinkFailure
<1>4. CASE Outage
  BY <1>1, <1>4 DEF Outage
<1>5. ASSUME introduceError PROVE CallInv'
  BY <1>1, <1>5 DEF introduceError
<1>6. CASE Run
  BY <1>1, <1>6 DEF Run
<1>7. CASE RunEvent /\ UNCHANGED <<briteVars, genVars>>
  BY <1>1, <1>7 DEF genVars
<1> QED BY <1>2, <1>3, <1>4, <1>5, <1>6, <1>7, ConstructCalls, randomlyAddConnectionsCalls,
          AddConnectionCalls, randomlyPlaceNodesCalls DEF Next

LEMMA CallInvInit == Init => CallInv
BY DEF Init, BriteInit, CallInv, AllAS, ASesApart

-----------------------------------------------------------------------------
(* Exports.                                                                  *)
\* How many members of a set lie below one of them tells them apart, and takes
\* every value below their number.
LEMMA Ranks ==
  ASSUME NEW S \in SUBSET Int, IsFiniteSet(S)
  PROVE  LET below(x) == Cardinality({y \in S : y < x})
         IN  /\ \A x \in S : below(x) + 1 \in 1..Cardinality(S)
             /\ \A x, y \in S : below(x) = below(y) => x = y
             /\ \A i \in 1..Cardinality(S) : \E x \in S : below(x) = i - 1
<1> DEFINE Below(x) == {y \in S : y < x}
           n == Cardinality(S)
           f == [x \in S |-> Cardinality(Below(x)) + 1]
<1>1. n \in Nat
  BY FS_CardinalityType
<1>2. ASSUME NEW x \in S PROVE IsFiniteSet(Below(x)) /\ Cardinality(Below(x)) \in Nat /\ Cardinality(Below(x)) < n
  <2>1. IsFiniteSet(S \ {x}) /\ Cardinality(S \ {x}) = n - 1
    BY FS_RemoveElement
  <2>2. Below(x) \in SUBSET (S \ {x})
    OBVIOUS
  <2> HIDE DEF Below, n
  <2>3. IsFiniteSet(Below(x)) /\ Cardinality(Below(x)) <= Cardinality(S \ {x})
    BY <2>1, <2>2, FS_Subset
  <2>4. Cardinality(Below(x)) \in Nat
    BY <2>3, FS_CardinalityType
  <2> QED BY <1>1, <2>1, <2>3, <2>4
<1>3. ASSUME NEW x \in S, NEW y \in S, x < y PROVE Cardinality(Below(x)) < Cardinality(Below(y))
  <2>1. x \notin Below(x) /\ Below(x) \cup {x} \in SUBSET Below(y)
    <3>1. x \in Int /\ y \in Int /\ \A z \in S : z \in Int
      OBVIOUS
    <3>2. \A z \in Below(x) : z < y
      BY <1>3, <3>1
    <3>3. x \notin Below(x) /\ x \in Below(y)
      BY <1>3, <3>1
    <3>4. Below(x) \subseteq Below(y)
      BY <3>2
    <3> HIDE DEF Below
    <3> QED BY <3>3, <3>4
  <2> HIDE DEF Below, n
  <2>2. Cardinality(Below(x) \cup {x}) = Cardinality(Below(x)) + 1
    BY <1>2, <2>1, FS_AddElement
  <2>3. Cardinality(Below(x) \cup {x}) <= Cardinality(Below(y))
    BY <1>2, <2>1, FS_Subset
  <2> QED BY <1>2, <2>2, <2>3
<1> HIDE DEF Below, n
<1>4. f \in [S -> 1..n]
  BY <1>1, <1>2
<1>5. ASSUME NEW x \in S, NEW y \in S, Cardinality(Below(x)) = Cardinality(Below(y)) PROVE x = y
  <2>1. x \in Int /\ y \in Int
    OBVIOUS
  <2>2. ~ (x < y) /\ ~ (y < x)
    BY <1>2, <1>3, <1>5
  <2> QED BY <2>1, <2>2
<1>6. f \in Injection(S, 1..n)
  <2>1. \A x, y \in S : f[x] = f[y] => x = y
    BY <1>2, <1>5
  <2> HIDE DEF f
  <2> QED BY <1>4, <2>1 DEF Injection, IsInjective
<1>7. f \in Surjection(S, 1..n)
  <2>1. IsFiniteSet(1..n) /\ Cardinality(1..n) = n
    BY <1>1, FS_Interval
  <2> HIDE DEF f
  <2> QED BY <1>6, <2>1, FS_Injection DEF n
<1>8. ASSUME NEW i \in 1..n PROVE \E x \in S : Cardinality(Below(x)) = i - 1
  <2>1. PICK x \in S : f[x] = i
    BY <1>7 DEF Surjection
  <2> QED BY <1>2, <2>1
<1> QED BY <1>2, <1>4, <1>5, <1>8 DEF Below, n

\* A list that has each member of a set once.
Enumerates(f, S) ==
  /\ f \in Seq(S)
  /\ \A x \in S : \E i \in DOMAIN f : f[i] = x
  /\ \A i, j \in DOMAIN f : f[i] = f[j] => i = j

LEMMA AscendingEnumerates ==
  ASSUME NEW S \in SUBSET Int, IsFiniteSet(S)
  PROVE  Enumerates(Ascending(S), S)
<1> DEFINE n == Cardinality(S)
           below(x) == Cardinality({y \in S : y < x})
           f == [i \in 1..n |-> CHOOSE x \in S : below(x) = i - 1]
<1>1. n \in Nat
  BY FS_CardinalityType
<1>2. /\ \A x \in S : below(x) + 1 \in 1..n /\ below(x) \in Nat
      /\ \A x, y \in S : below(x) = below(y) => x = y
      /\ \A i \in 1..n : \E x \in S : below(x) = i - 1
  <2>1. ASSUME NEW x \in S PROVE below(x) \in Nat
    <3>1. {y \in S : y < x} \in SUBSET S
      OBVIOUS
    <3> QED BY <3>1, FS_Subset, FS_CardinalityType
  <2> QED BY <2>1, Ranks
<1>3. Ascending(S) = f
  BY DEF Ascending
<1> HIDE DEF n, below
<1>4. \A i \in 1..n : f[i] \in S /\ below(f[i]) = i - 1
  BY <1>2
<1>5. f \in [1..n -> S]
  BY <1>4
<1> HIDE DEF f
<1>6. f \in Seq(S) /\ DOMAIN f = 1..n
  BY <1>1, <1>5, Listed
<1>7. ASSUME NEW x \in S PROVE \E i \in DOMAIN f : f[i] = x
  <2>1. PICK i \in 1..n : i = below(x) + 1
    BY <1>2
  <2>2. f[i] \in S /\ below(f[i]) = below(x)
    BY <1>2, <1>4, <2>1
  <2> QED BY <1>2, <1>6, <2>2
<1>8. ASSUME NEW i \in DOMAIN f, NEW j \in DOMAIN f, f[i] = f[j] PROVE i = j
  BY <1>1, <1>4, <1>6, <1>8
<1> QED BY <1>3, <1>6, <1>7, <1>8 DEF Enumerates

LEMMA ConcatEnumerates ==
  ASSUME NEW S, NEW T, S \cap T = {}, NEW f, NEW g, Enumerates(f, S), Enumerates(g, T)
  PROVE  Enumerates(f \o g, S \cup T)
<1>1. f \in Seq(S \cup T) /\ g \in Seq(S \cup T)
  <2>1. f \in Seq(S) /\ g \in Seq(T)
    BY DEF Enumerates
  <2> QED BY <2>1, SeqMonotonic
<1> DEFINE h == f \o g
<1>2. PICK n \in Nat : n = Len(f)
  BY <1>1
<1>3. PICK m \in Nat : m = Len(g)
  BY <1>1
<1>4. /\ h \in Seq(S \cup T) /\ Len(h) = n + m
      /\ \A i \in 1..n + m : h[i] = IF i <= n THEN f[i] ELSE g[i - n]
  BY <1>1, <1>2, <1>3, ConcatProperties
<1> HIDE DEF h
<1>5. DOMAIN h = 1..n + m /\ DOMAIN f = 1..n /\ DOMAIN g = 1..m
  BY <1>1, <1>2, <1>3, <1>4, LenProperties
<1>6. ASSUME NEW i \in 1..n PROVE i \in DOMAIN h /\ h[i] = f[i] /\ h[i] \in S
  BY <1>2, <1>4, <1>5, ElementOfSeq DEF Enumerates
<1>7. ASSUME NEW i \in 1..n + m, ~ (i <= n)
      PROVE  i - n \in 1..m /\ h[i] = g[i - n] /\ h[i] \in T
  <2>1. i - n \in 1..m /\ h[i] = g[i - n]
    BY <1>4, <1>7
  <2> QED BY <1>3, <2>1, ElementOfSeq DEF Enumerates
<1>8. ASSUME NEW x \in S \cup T PROVE \E i \in DOMAIN h : h[i] = x
  <2>1. CASE x \in S
    BY <1>5, <1>6, <2>1 DEF Enumerates
  <2>2. CASE x \in T
    <3>1. PICK k \in 1..m : g[k] = x
      BY <1>5, <2>2 DEF Enumerates
    <3>2. n + k \in 1..n + m /\ ~ (n + k <= n) /\ (n + k) - n = k
      OBVIOUS
    <3> QED BY <1>4, <1>5, <3>1, <3>2
  <2> QED BY <2>1, <2>2
<1>9. ASSUME NEW i \in 1..n + m, NEW j \in 1..n + m, h[i] = h[j] PROVE i = j
  <2>1. CASE i <= n /\ j <= n
    <3>1. i \in 1..n /\ j \in 1..n
      BY <2>1
    <3>2. f[i] = f[j] /\ i \in DOMAIN f /\ j \in DOMAIN f
      BY <1>5, <1>6, <1>9, <3>1
    <3> QED BY <3>2 DEF Enumerates
  <2>2. CASE i <= n /\ ~ (j <= n)
    <3>1. i \in 1..n
      BY <2>2
    <3> QED BY <1>6, <1>7, <1>9, <2>2, <3>1
  <2>3. CASE ~ (i <= n) /\ j <= n
    <3>1. j \in 1..n
      BY <2>3
    <3> QED BY <1>6, <1>7, <1>9, <2>3, <3>1
  <2>4. CASE ~ (i <= n) /\ ~ (j <= n)
    <3>1. g[i - n] = g[j - n] /\ i - n \in DOMAIN g /\ j - n \in DOMAIN g
      BY <1>5, <1>7, <1>9, <2>4
    <3>2. i - n = j - n
      BY <3>1 DEF Enumerates
    <3> QED BY <3>2
  <2> QED BY <2>1, <2>2, <2>3, <2>4
<1>10. Enumerates(h, S \cup T)
  BY <1>4, <1>5, <1>8, <1>9 DEF Enumerates
<1> QED BY <1>10 DEF h

-----------------------------------------------------------------------------
\* The lines drawn from a list that has each node of S once are the links within S.
LEMMA LinesAreLinks ==
  ASSUME NetInv, NEW S, NEW nodes, Enumerates(nodes, S)
  PROVE  LET inside == {l \in DOMAIN links : Ends(l) \subseteq S}
         IN  /\ Cardinality(Lines(nodes)) = Cardinality(inside)
             /\ \A l \in inside : \E n \in Ends(l) : LineOf(l, n) \in Lines(nodes)
<1> DEFINE inside == {l \in DOMAIN links : Ends(l) \subseteq S}
           Joined(x, l) == {x.n1, x.n2} = Ends(l)
           f == [l \in inside |-> CHOOSE x \in Lines(nodes) : Joined(x, l)]
<1>1. /\ links \in Seq(LinkSet) /\ IsFiniteSet(inside)
      /\ \A l \in DOMAIN links : \E a, b : a # b /\ Ends(l) = {a, b}
  <2>1. links \in Seq(LinkSet) /\ Len(links) \in Nat /\ DOMAIN links = 1..Len(links)
    BY LenProperties DEF NetInv, NetTypes
  <2>2. IsFiniteSet(DOMAIN links) /\ inside \in SUBSET DOMAIN links
    BY <2>1, FS_Interval
  <2>3. IsFiniteSet(inside)
    BY <2>2, FS_Subset
  <2>4. \A l \in DOMAIN links : links[l].ends[1] # links[l].ends[2]
    BY DEF NetInv, LinksOK, Joins
  <2> QED BY <2>1, <2>3, <2>4 DEF Ends
<1>2. nodes \in Seq(S) /\ DOMAIN nodes = 1..Len(nodes) /\ Len(nodes) \in Nat
  BY LenProperties DEF Enumerates
\* What a link says of two nodes.
<1>3. ASSUME NEW a, NEW b, a # b, NEW l \in DOMAIN links, Ends(l) = {a, b}
      PROVE  /\ Line(a, b) = LineOf(l, a)
             /\ \A k \in DOMAIN links : a \in Ends(k) /\ b \in Ends(k) => k = l
  <2>1. \A k \in DOMAIN links : a \in Ends(k) /\ b \in Ends(k) => k = l
    <3>1. ASSUME NEW k \in DOMAIN links, a \in Ends(k), b \in Ends(k) PROVE k = l
      <4>1. Ends(k) = Ends(l)
        BY <1>3, <3>1 DEF Ends
      <4> QED BY <4>1 DEF NetInv, LinksOK, EndSet, Ends
    <3> QED BY <3>1
  <2>2. {k \in Devices(a) : b \in Ends(k)} = {l}
    BY <1>3, <2>1 DEF Devices
  <2>3. First({l}) = l
    <3>1. l \in Nat
      BY <1>1, LenProperties
    <3>2. {l} \subseteq Nat /\ {l} # {}
      BY <3>1
    <3> QED BY <3>2, FirstIsMember
  <2>4. getBandwidth(a, b) = links[l].bw
    BY <2>2, <2>3 DEF getBandwidth
  <2>5. (CHOOSE n \in Ends(l) : n # a) = b
    BY <1>3
  <2> QED BY <2>1, <2>4, <2>5 DEF Line, LineOf
<1>4. ASSUME NEW l \in inside
      PROVE  \E n \in Ends(l) : LineOf(l, n) \in Lines(nodes) /\ Joined(LineOf(l, n), l)
  <2>1. PICK a, b : a # b /\ Ends(l) = {a, b}
    BY <1>1
  <2>2. PICK i \in DOMAIN nodes, j \in DOMAIN nodes : nodes[i] = a /\ nodes[j] = b
    <3>1. a \in S /\ b \in S
      BY <2>1
    <3> QED BY <3>1 DEF Enumerates
  <2>3. nodesConnected(a, b) /\ nodesConnected(b, a)
    BY <2>1 DEF nodesConnected, Devices
  <2>4. LineOf(l, a) = Line(a, b) /\ LineOf(l, b) = Line(b, a)
    <3>1. l \in DOMAIN links /\ Ends(l) = {b, a} /\ b # a
      BY <2>1
    <3> QED BY <1>3, <2>1, <3>1
  <2>5. Joined(Line(a, b), l) /\ Joined(Line(b, a), l)
    BY <2>1 DEF Line
  <2>6. i < j \/ j < i
    BY <1>2, <2>1, <2>2
  <2>7. CASE i < j
    <3>1. Line(a, b) \in Lines(nodes)
      <4>1. <<i, j>> \in {p \in (DOMAIN nodes) \X (DOMAIN nodes) :
                            p[1] < p[2] /\ nodesConnected(nodes[p[1]], nodes[p[2]])}
        BY <2>2, <2>3, <2>7
      <4>2. Line(a, b) = Line(nodes[<<i, j>>[1]], nodes[<<i, j>>[2]])
        BY <2>2
      <4> QED BY <4>1, <4>2, Zenon DEF Lines
    <3> QED BY <2>1, <2>4, <2>5, <3>1
  <2>8. CASE j < i
    <3>1. Line(b, a) \in Lines(nodes)
      <4>1. <<j, i>> \in {p \in (DOMAIN nodes) \X (DOMAIN nodes) :
                            p[1] < p[2] /\ nodesConnected(nodes[p[1]], nodes[p[2]])}
        BY <2>2, <2>3, <2>8
      <4>2. Line(b, a) = Line(nodes[<<j, i>>[1]], nodes[<<j, i>>[2]])
        BY <2>2
      <4> QED BY <4>1, <4>2, Zenon DEF Lines
    <3> QED BY <2>1, <2>4, <2>5, <3>1
  <2> QED BY <2>6, <2>7, <2>8
<1>5. ASSUME NEW l \in inside PROVE f[l] \in Lines(nodes) /\ Joined(f[l], l)
  <2> HIDE DEF inside, Joined
  <2> QED BY <1>4
<1>6. f \in [inside -> Lines(nodes)]
  <2> HIDE DEF inside, Joined
  <2> QED BY <1>5
<1>7. ASSUME NEW k \in inside, NEW l \in inside, f[k] = f[l] PROVE k = l
  <2> HIDE DEF f
  <2>1. Ends(k) = Ends(l)
    BY <1>5, <1>7
  <2> QED BY <2>1 DEF NetInv, LinksOK, EndSet, Ends
<1>8. ASSUME NEW x \in Lines(nodes)
      PROVE  \E i, j \in DOMAIN nodes : i < j /\ x.n1 = nodes[i] /\ x.n2 = nodes[j] /\ x = Line(nodes[i], nodes[j])
  <2>1. PICK p \in (DOMAIN nodes) \X (DOMAIN nodes) : p[1] < p[2] /\ x = Line(nodes[p[1]], nodes[p[2]])
    BY DEF Lines
  <2>2. x.n1 = nodes[p[1]] /\ x.n2 = nodes[p[2]]
    BY <2>1 DEF Line
  <2> QED BY <2>1, <2>2
<1>9. ASSUME NEW x \in Lines(nodes) PROVE \E l \in inside : f[l] = x
  <2>1. PICK p \in (DOMAIN nodes) \X (DOMAIN nodes) :
          p[1] < p[2] /\ nodesConnected(nodes[p[1]], nodes[p[2]]) /\ x = Line(nodes[p[1]], nodes[p[2]])
    BY DEF Lines
  <2>2. PICK i \in DOMAIN nodes, j \in DOMAIN nodes : i = p[1] /\ j = p[2]
    BY <2>1
  <2>3. PICK l \in DOMAIN links : nodes[i] \in Ends(l) /\ nodes[j] \in Ends(l)
    BY <2>1, <2>2 DEF nodesConnected, Devices
  <2>4. nodes[i] # nodes[j]
    BY <1>2, <2>1, <2>2 DEF Enumerates
  <2>5. Ends(l) = {nodes[i], nodes[j]}
    BY <2>3, <2>4 DEF Ends
  <2>6. l \in inside
    BY <1>2, <2>5, ElementOfSeq
  <2>7. PICK u \in DOMAIN nodes, v \in DOMAIN nodes :
          u < v /\ f[l].n1 = nodes[u] /\ f[l].n2 = nodes[v] /\ f[l] = Line(nodes[u], nodes[v])
    BY <1>5, <1>8, <2>6
  <2>8. {nodes[u], nodes[v]} = {nodes[i], nodes[j]}
    BY <1>5, <2>5, <2>6, <2>7
  <2>9. (nodes[u] = nodes[i] /\ nodes[v] = nodes[j]) \/ (nodes[u] = nodes[j] /\ nodes[v] = nodes[i])
    BY <2>8
  <2>10. (u = i /\ v = j) \/ (u = j /\ v = i)
    BY <2>9 DEF Enumerates
  <2>11. u = i /\ v = j
    BY <1>2, <2>1, <2>2, <2>7, <2>10
  <2> QED BY <2>1, <2>2, <2>6, <2>7, <2>11
<1>10. Cardinality(Lines(nodes)) = Cardinality(inside)
  <2> HIDE DEF inside, f
  <2>1. f \in Bijection(inside, Lines(nodes))
    BY <1>6, <1>7, <1>9 DEF Bijection, Injection, Surjection, IsInjective
  <2> QED BY <1>1, <2>1, FS_Bijection DEF ExistsBijection
<1> QED BY <1>4, <1>10

(* No node is placed twice and none in an AS.                               *)
PlacedApart ==
  /\ \A id \in Identifier : custom[id] \cap getAllASNodes = {}
  /\ \A x, y \in Identifier : x # y => custom[x] \cap custom[y] = {}

\* The nodes of a container exist.
LEMMA PlacedNodes ==
  ASSUME NetInv
  PROVE  /\ numNodes \in Nat /\ getAllASNodes \subseteq 0..numNodes - 1
         /\ \A id \in Identifier : custom[id] \subseteq 0..numNodes - 1
         /\ getAllASNodes \in SUBSET Int /\ IsFiniteSet(getAllASNodes)
         /\ \A id : id = "" \/ id \in Identifier =>
              Exported(id) \in SUBSET Int /\ IsFiniteSet(Exported(id))
<1>1. /\ numNodes \in Nat /\ getAllASNodes \subseteq 0..numNodes - 1
      /\ \A id \in Identifier : custom[id] \subseteq 0..numNodes - 1
  BY DEF NetInv, NetTypes, Containers
<1>2. IsFiniteSet(0..numNodes - 1) /\ 0..numNodes - 1 \subseteq Int
  BY <1>1, FS_Interval
<1>3. getAllASNodes \in SUBSET Int /\ IsFiniteSet(getAllASNodes)
  BY <1>1, <1>2, FS_Subset
<1>4. ASSUME NEW id, id = "" \/ id \in Identifier
      PROVE  Exported(id) \in SUBSET Int /\ IsFiniteSet(Exported(id))
  <2>1. CASE id = ""
    BY <2>1, FS_EmptySet DEF Exported
  <2>2. CASE id # ""
    <3>1. Exported(id) = custom[id] /\ id \in Identifier
      BY <1>4, <2>2 DEF Exported
    <3> QED BY <1>1, <1>2, <3>1, FS_Subset
  <2> QED BY <2>1, <2>2
<1> QED BY <1>1, <1>3, <1>4

\* The device a line is read from is one of its first node that leads to the second.
LeadsTo(a, b) == {l \in Devices(a) : b \in Ends(l)}

LEMMA DeviceFound ==
  ASSUME NetInv, NEW a, NEW b, nodesConnected(a, b)
  PROVE  First(LeadsTo(a, b)) \in LeadsTo(a, b) /\ First(LeadsTo(a, b)) \in Nat
<1>1. LeadsTo(a, b) # {}
  BY DEF nodesConnected, LeadsTo
<1>2. LeadsTo(a, b) \subseteq Nat
  <2>1. links \in Seq(LinkSet)
    BY DEF NetInv, NetTypes
  <2>2. DOMAIN links = 1..Len(links) /\ Len(links) \in Nat
    BY <2>1, LenProperties
  <2> QED BY <2>2 DEF Devices, LeadsTo
<1> QED BY <1>1, <1>2, FirstIsMember

\* The devices of a node are counted upwards.
LEMMA IndexGrows ==
  ASSUME NetInv, NEW a, NEW l \in Devices(a), NEW m \in Devices(a), l < m
  PROVE  DeviceIndex(a, l) # DeviceIndex(a, m)
<1> DEFINE L == {x \in Devices(a) : x < l}
           M == {x \in Devices(a) : x < m}
<1>1. links \in Seq(LinkSet) /\ Len(links) \in Nat /\ DOMAIN links = 1..Len(links)
  BY LenProperties DEF NetInv, NetTypes
<1>2. IsFiniteSet(M)
  <2>1. IsFiniteSet(DOMAIN links) /\ M \in SUBSET DOMAIN links
    BY <1>1, FS_Interval DEF Devices
  <2> QED BY <2>1, FS_Subset
<1>3. L \subseteq M /\ l \in M /\ l \notin L
  BY <1>1 DEF Devices
<1> HIDE DEF L, M
<1>4. Cardinality(L) # Cardinality(M)
  <2>1. L # M
    BY <1>3
  <2> QED BY <1>2, <1>3, <2>1, FS_Subset
<1> QED BY <1>4 DEF DeviceIndex, L, M

\* Two lines of one first node give different faces.
LEMMA FacesDiffer ==
  ASSUME NetInv, NEW a, NEW b, NEW c, a # b, a # c,
         nodesConnected(a, b), nodesConnected(a, c),
         FaceIds(Line(a, b))[1] = FaceIds(Line(a, c))[1]
  PROVE  b = c
<1> DEFINE l == First(LeadsTo(a, b))
           m == First(LeadsTo(a, c))
<1>1. l \in LeadsTo(a, b) /\ m \in LeadsTo(a, c) /\ l \in Nat /\ m \in Nat
  BY DeviceFound
<1>2. /\ Line(a, b).n1 = a /\ Line(a, b).n2 = b
      /\ Line(a, c).n1 = a /\ Line(a, c).n2 = c
  BY DEF Line
<1>3. DeviceIndex(a, l) = DeviceIndex(a, m)
  <2>1. FaceIds(Line(a, b))[1] = DeviceIndex(a, l) + 256
    BY <1>2 DEF FaceIds, LeadsTo
  <2>2. FaceIds(Line(a, c))[1] = DeviceIndex(a, m) + 256
    BY <1>2 DEF FaceIds, LeadsTo
  <2>3. DeviceIndex(a, l) \in Nat /\ DeviceIndex(a, m) \in Nat
    <3>1. links \in Seq(LinkSet) /\ Len(links) \in Nat /\ DOMAIN links = 1..Len(links)
      BY LenProperties DEF NetInv, NetTypes
    <3>2. IsFiniteSet(DOMAIN links) /\ Devices(a) \subseteq DOMAIN links
      BY <3>1, FS_Interval DEF Devices
    <3>3. \A x : IsFiniteSet({y \in Devices(a) : y < x})
      BY <3>2, FS_Subset
    <3> QED BY <3>3, FS_CardinalityType DEF DeviceIndex
  <2>4. PICK i \in Nat : i = DeviceIndex(a, l)
    BY <2>3
  <2>5. PICK j \in Nat : j = DeviceIndex(a, m)
    BY <2>3
  <2>6. i + 256 = j + 256
    BY <2>1, <2>2, <2>4, <2>5, Zenon
  <2> QED BY <2>4, <2>5, <2>6
<1> HIDE DEF l, m
<1>4. l \in Devices(a) /\ m \in Devices(a) /\ b \in Ends(l) /\ c \in Ends(m)
  BY <1>1 DEF LeadsTo
<1>5. l = m
  BY <1>1, <1>3, <1>4, IndexGrows
<1>6. b \in Ends(l) /\ c \in Ends(l) /\ a \in Ends(l)
  BY <1>4, <1>5 DEF Devices
<1> QED BY <1>6 DEF Ends

\* A line is that of two connected nodes.
LEMMA LineOfTwo ==
  ASSUME NEW S, NEW nodes, Enumerates(nodes, S), NEW z \in Lines(nodes)
  PROVE  \E a, b : a # b /\ nodesConnected(a, b) /\ z = Line(a, b)
<1>1. PICK i \in DOMAIN nodes, j \in DOMAIN nodes :
        i < j /\ nodesConnected(nodes[i], nodes[j]) /\ z = Line(nodes[i], nodes[j])
  BY DEF Lines
<1>2. DOMAIN nodes = 1..Len(nodes)
  BY LenProperties DEF Enumerates
<1>3. i # j
  BY <1>1, <1>2
<1> QED BY <1>1, <1>3 DEF Enumerates

LEMMA ExportByInv == NetInv /\ PlacedApart => ExportIsTopology
<1> SUFFICES ASSUME NetInv, PlacedApart PROVE ExportIsTopology
  OBVIOUS
<1> DEFINE A == getAllASNodes
           B(server) == Exported(server)
           nodes(server, client) == Ascending(A) \o Ascending(B(server)) \o Ascending(B(client))
<1>0. ASSUME NEW server \in Identifier \cup {""}, NEW client \in Identifier \cup {""},
             server # client \/ server = ""
      PROVE  /\ exportTopology(server, client) = Lines(nodes(server, client))
             /\ Enumerates(nodes(server, client), (A \cup B(server)) \cup B(client))
  <2>1. /\ Enumerates(Ascending(A), A)
        /\ Enumerates(Ascending(B(server)), B(server))
        /\ Enumerates(Ascending(B(client)), B(client))
    BY PlacedNodes, AscendingEnumerates
  <2>2. A \cap B(server) = {} /\ (A \cup B(server)) \cap B(client) = {}
    BY <1>0 DEF PlacedApart, Exported
  <2>3. exportTopology(server, client) = Lines(nodes(server, client))
    BY DEF exportTopology
  <2> HIDE DEF A, B
  <2>4. Enumerates(nodes(server, client), (A \cup B(server)) \cup B(client))
    BY <2>1, <2>2, ConcatEnumerates
  <2> QED BY <2>3, <2>4
<1> HIDE DEF A, B, nodes
<1>1. ASSUME NEW server \in Identifier \cup {""}, NEW client \in Identifier \cup {""},
             server # client \/ server = ""
      PROVE  LET lines == exportTopology(server, client)
                 inside == {l \in DOMAIN links :
                              Ends(l) \subseteq getAllASNodes \cup Exported(server) \cup Exported(client)}
             IN  /\ Cardinality(lines) = Cardinality(inside)
                 /\ \A l \in inside : \E n \in Ends(l) : LineOf(l, n) \in lines
  <2>1. PICK list : list = nodes(server, client)
    OBVIOUS
  <2>2. PICK S : S = (A \cup B(server)) \cup B(client)
    OBVIOUS
  <2>3. exportTopology(server, client) = Lines(list) /\ Enumerates(list, S)
    BY <1>0, <1>1, <2>1, <2>2, Zenon
  <2>4. LET inside == {l \in DOMAIN links : Ends(l) \subseteq S}
        IN  /\ Cardinality(Lines(list)) = Cardinality(inside)
            /\ \A l \in inside : \E n \in Ends(l) : LineOf(l, n) \in Lines(list)
    BY <2>3, LinesAreLinks, Zenon
  <2> QED BY <2>2, <2>3, <2>4, Zenon DEF A, B
<1>2. ASSUME NEW x \in exportTopology("", ""), NEW y \in exportTopology("", ""),
             x.n1 = y.n1, FaceIds(x)[1] = FaceIds(y)[1]
      PROVE  x = y
  <2>1. PICK none : none = ""
    OBVIOUS
  <2>2. PICK list : list = nodes(none, none)
    OBVIOUS
  <2>3. /\ exportTopology("", "") = Lines(list)
        /\ Enumerates(list, (A \cup B(none)) \cup B(none))
    <3>1. none \in Identifier \cup {""} /\ none = ""
      BY <2>1, Zenon
    <3>2. /\ exportTopology(none, none) = Lines(nodes(none, none))
          /\ Enumerates(nodes(none, none), (A \cup B(none)) \cup B(none))
      BY <1>0, <3>1, Zenon
    <3> QED BY <2>1, <2>2, <3>2, Zenon
  <2>4. ASSUME NEW z \in Lines(list)
        PROVE  \E a, b : a # b /\ nodesConnected(a, b) /\ z = Line(a, b)
    BY <2>3, LineOfTwo, Zenon
  <2>5. PICK a, b : a # b /\ nodesConnected(a, b) /\ x = Line(a, b)
    BY <2>3, <2>4, Zenon
  <2>6. PICK d, c : d # c /\ nodesConnected(d, c) /\ y = Line(d, c)
    BY <2>3, <2>4, Zenon
  <2>7. a = d
    <3>1. x.n1 = a /\ y.n1 = d
      BY <2>5, <2>6 DEF Line
    <3> QED BY <1>2, <3>1, Zenon
  <2>8. b = c
    BY <1>2, <2>5, <2>6, <2>7, FacesDiffer, Zenon
  <2> QED BY <2>5, <2>6, <2>7, <2>8, Zenon
<1> QED BY <1>1, <1>2 DEF ExportIsTopology

LEMMA PlacedApartNext == NetInv /\ PlacedApart /\ [Next]_vars => PlacedApart'
<1> SUFFICES ASSUME NetInv, PlacedApart, [Next]_vars PROVE PlacedApart'
  OBVIOUS
<1>1. ASSUME UNCHANGED <<nodesByAs, custom>> PROVE PlacedApart'
  BY <1>1 DEF PlacedApart, getAllASNodes, AllAS
<1>2. CASE Construct
  <2>1. numNodes = 0 /\ custom' = custom
    BY <1>2 DEF Construct, BuildBriteTopology, genVars
  <2>2. \A id \in Identifier : custom'[id] = {}
    <3>1. \A id \in Identifier : custom[id] \subseteq 0..numNodes - 1
      BY PlacedNodes
    <3>2. 0..numNodes - 1 = {}
      BY <2>1
    <3> QED BY <2>1, <3>1, <3>2
  <2> QED BY <2>2 DEF PlacedApart
<1>3. ASSUME NEW c \in Places, randomlyPlaceNodes(c) PROVE PlacedApart'
  <2> DEFINE new == numNodes..numNodes + c.count - 1
  <2>1. /\ nodesByAs' = nodesByAs /\ c.id \in Identifier /\ c.count \in Nat
        /\ custom' = [custom EXCEPT ![c.id] = new] /\ custom \in [Identifier -> SUBSET Nat]
    BY <1>3, CallsAssumption DEF randomlyPlaceNodes, Identifier, NetInv, NetTypes
  <2>2. new \cap (0..numNodes - 1) = {}
    <3>1. numNodes \in Nat
      BY PlacedNodes
    <3> QED BY <2>1, <3>1
  <2> HIDE DEF new
  <2>3. getAllASNodes' = getAllASNodes
    BY <2>1 DEF getAllASNodes, AllAS
  <2>4. \A id \in Identifier : custom'[id] = IF id = c.id THEN new ELSE custom[id]
    BY <2>1
  <2>5. new \cap getAllASNodes = {} /\ \A id \in Identifier : new \cap custom[id] = {}
    BY <2>2, PlacedNodes
  <2> QED BY <2>3, <2>4, <2>5 DEF PlacedApart
<1>4. CASE UNCHANGED vars
  BY <1>1, <1>4 DEF vars, briteVars, genVars
<1>5. ASSUME NEW c \in Calls, randomlyAddConnections(c) PROVE PlacedApart'
  BY <1>1, <1>5 DEF randomlyAddConnections, briteVars
<1>6. CASE AddConnection
  BY <1>1, <1>6 DEF AddConnection
<1>7. CASE creatRandomLinkFailure
  BY <1>1, <1>7 DEF creatRandomLinkFailure, briteVars
<1>8. CASE Outage
  BY <1>1, <1>8 DEF Outage, briteVars
<1>9. ASSUME introduceError PROVE PlacedApart'
  BY <1>1, <1>9 DEF introduceError, briteVars
<1>10. CASE Run
  BY <1>1, <1>10 DEF Run, briteVars
<1>11. CASE RunEvent /\ UNCHANGED <<briteVars, genVars>>
  BY <1>1, <1>11 DEF briteVars, genVars
<1> QED BY <1>2, <1>3, <1>4, <1>5, <1>6, <1>7, <1>8, <1>9, <1>10, <1>11 DEF Next

LEMMA PlacedApartInit == Init => PlacedApart
BY DEF Init, PlacedApart

-----------------------------------------------------------------------------
LEMMA FailInvariant == Spec => []FailInv
BY NetInvariant, FailInvInit, FailInvNext, PTL DEF Spec

(* The nodes, containers, links, events and error models fit together.      *)
THEOREM TopologyTypes == Spec => []TypeOK
BY NetInvariant, NetInvProperties, PTL

(* No call and no order of calls joins two nodes twice or one to itself.    *)
THEOREM NoPairTwice == Spec => []NoParallelLinks
BY NetInvariant, NetInvProperties, PTL

(* A failure that meets no other on its link lasts for its whole interval,  *)
(* for any topology, failures, lengths and rates.                           *)
THEOREM LoneFailures == Spec => []LoneFailureLasts
BY FailInvariant, FailInvProperties, PTL

(* A link is up once its failures are over and as it was until the first    *)
(* begins, whatever happens to other links.                                 *)
THEOREM LinksFollow == Spec => []LinkFollowsItsFailures
BY FailInvariant, FailInvProperties, PTL

(* A finished call added the links it was asked for or as many as there was *)
(* room for, whatever graph, calls and draws: the search for a pair to join *)
(* gives up only when all are joined.                                       *)
THEOREM CallsDeliver == Spec => []CallDelivers
BY NetInvariant, CallInvInit, CallInvNext, CallInvDelivers, PTL DEF Spec

(* The exported files list the links among the nodes they cover, each once, *)
(* with its bandwidth and the first node's face.                            *)
THEOREM ExportsMatch == Spec => []ExportIsTopology
BY NetInvariant, PlacedApartInit, PlacedApartNext, ExportByInv, PTL DEF Spec
===============================================================================
