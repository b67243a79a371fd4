----------------------------- MODULE NetworkGenerator -----------------------------
(***************************************************************************)
(* NetworkGenerator (extensions/randnetworks/networkgenerator.cc): random   *)
(* links added to the topology BRITE drew, nodes placed on it, failures     *)
(* drawn for its links, in any order the API allows, exports of what came   *)
(* out, and then the run in which the failures happen.  A random draw is    *)
(* any of its outcomes.  A call that adds links adds one per step, and no   *)
(* other call begins before it is done; bandwidths are the least of a       *)
(* call's range, delays are left out.                                       *)
(***************************************************************************)
EXTENDS LinkControl, FiniteSetsExt

CONSTANTS
  Calls,        \* [op, k, bw]: what the scenario asks for, k links per pair or AS
  Places,       \* [id, count, place, as, bw]: calls of randomlyPlaceNodes, as = {} for every AS
  StartTimes,   \* minTimestamp..maxTimestamp of creatRandomLinkFailure
  ErrorRates,   \* minErrorRate..maxErrorRate, in percent
  BaseErrors,   \* the error rates of introduceError
  MaxCalls      \* bound on the calls before the run

NoCall == [op |-> "none"]
Identifier == {p.id : p \in Places}

ASSUME CallsAssumption ==
  /\ Calls \subseteq [op : {"BetweenAllAS", "BetweenTwoAS", "PerAS"}, k : Nat, bw : Nat]
  /\ Places \subseteq [id : STRING, count : Nat, place : {"LeafNode", "ASNode"}, as : SUBSET Nat, bw : Nat]
  /\ StartTimes \subseteq Nat
  /\ ErrorRates \subseteq 0..100
  /\ BaseErrors \subseteq 0..100
  /\ MaxCalls \in Nat

VARIABLES
  custom,   \* nodeContainerMap
  call,     \* the last call that adds links, and how many links there were before it
  todo,     \* what is left of it: <<as1, as2, c>>
  calls,    \* how many calls were made
  base      \* for checking, errorModel when the run began

genVars == <<custom, call, todo, calls, base>>
vars == <<briteVars, linkVars, genVars>>

Init ==
  /\ BriteInit
  /\ LinkInit
  /\ custom = [id \in Identifier |-> {}]
  /\ call = NoCall
  /\ todo = {}
  /\ calls = 0
  /\ base = << >>

Ready == numNodes > 0 /\ todo = {} /\ ~running

Called == calls < MaxCalls /\ calls' = calls + 1

-----------------------------------------------------------------------------
(* getPairOfUnconnectedNodes: the draws without replacement find a pair     *)
(* whenever there is one.                                                   *)
\* Mutant: the pair may be connected already.
AnyPair(as1, as2) ==
  {p \in getAllASNodesFromAS(as1) \X getAllASNodesFromAS(as2) : p[1] # p[2]}
\* Mutant: gives up when the first node drawn is connected to all the others.
PairOfOneNode(as1, as2) ==
  {p \in getAllASNodesFromAS(as1) \X getAllASNodesFromAS(as2) :
     p[1] = Min(getAllASNodesFromAS(as1)) /\ p[1] # p[2] /\ ~nodesConnected(p[1], p[2])}
getPairOfUnconnectedNodes(as1, as2) ==
  {p \in getAllASNodesFromAS(as1) \X getAllASNodesFromAS(as2) :
     p[1] # p[2] /\ ~nodesConnected(p[1], p[2])}

Install(p, bw) == links' = Append(links, Link(p[1], p[2], bw))

(* The iterations of a call's loops; BetweenTwoAS draws its ASes in each.   *)
Iterations(c) ==
  CASE c.op = "BetweenAllAS" ->
         {r \in AllAS \X AllAS \X (1..c.k) : r[1] < r[2]}
    [] c.op = "PerAS" -> {r \in AllAS \X AllAS \X (1..c.k) : r[1] = r[2]}
    [] c.op = "BetweenTwoAS" -> IF GetNAs <= 1 THEN {} ELSE {0} \X {0} \X (1..c.k)

Earlier(r, s) ==
  \/ r[1] < s[1]
  \/ r[1] = s[1] /\ r[2] < s[2]
  \/ r[1] = s[1] /\ r[2] = s[2] /\ r[3] < s[3]

(* randomlyAddConnectionsBetweenAllAS, ...BetweenTwoAS and                  *)
(* ...BetweenTwoNodesPerAS: the call, and one iteration of it.              *)
randomlyAddConnections(c) ==
  /\ Ready
  /\ Called
  /\ call' = [op |-> c.op, k |-> c.k, bw |-> c.bw, before |-> Len(links)]
  /\ todo' = Iterations(c)
  /\ UNCHANGED <<briteVars, linkVars, custom, base>>

Drawn(r) ==
  IF call.op = "BetweenTwoAS" THEN {p \in AllAS \X AllAS : p[1] # p[2]} ELSE {<<r[1], r[2]>>}

AddConnection ==
  \E r \in todo :
    /\ \A s \in todo : s = r \/ Earlier(r, s)
    /\ todo' = todo \ {r}
    /\ \E as \in Drawn(r) :
         LET pairs == getPairOfUnconnectedNodes(as[1], as[2])
         IN  \/ \E p \in pairs : Install(p, call.bw)
             \/ pairs = {} /\ UNCHANGED links
    /\ UNCHANGED <<numNodes, nodesByAs, asLeafNodes, linkVars, custom, call, calls, base>>

-----------------------------------------------------------------------------
(* randomlyPlaceNodes: each new node gets one link to a node of the chosen  *)
(* ASes, a leaf unless place is ASNode.  An AS number above the count of    *)
(* ASes adds none; one equal to it passes the guard and is read out of      *)
(* bounds, which no caller does.                                            *)
ASNumbers(c) == IF c.as = {} THEN AllAS ELSE c.as

Container(c) ==
  UNION {IF c.place = "ASNode" THEN getAllASNodesFromAS(as) ELSE getAllLeafNodesFromAS(as)
           : as \in ASNumbers(c) \cap AllAS}

randomlyPlaceNodes(c) ==
  /\ Ready
  /\ Called
  /\ GetNAs \notin ASNumbers(c)
  /\ custom[c.id] = {}
  /\ Container(c) # {}
  /\ \E at \in [1..c.count -> Container(c)] :
       links' = links \o [i \in 1..c.count |-> Link(numNodes + i - 1, at[i], c.bw)]
  /\ custom' = [custom EXCEPT ![c.id] = numNodes..numNodes + c.count - 1]
  /\ numNodes' = numNodes + c.count
  /\ UNCHANGED <<nodesByAs, asLeafNodes, linkVars, call, todo, base>>

-----------------------------------------------------------------------------
(* creatRandomLinkFailure: an AS, one of its nodes, one of that node's      *)
(* devices; the link may lead to a placed node.                             *)
creatRandomLinkFailure ==
  /\ Ready
  /\ Called
  /\ \E as \in AllAS : \E n \in getAllASNodesFromAS(as) : \E l \in Devices(n) :
       \E start \in StartTimes, duration \in Durations, rate \in ErrorRates :
         Log(<<Failure(l, start, duration, rate)>>)
  /\ UNCHANGED <<briteVars, now, running, errorModel, custom, call, todo, base>>

(* introduceError: each device of an AS node draws a rate of its own.  (A   *)
(* range that is empty or holds 0 only changes nothing.)                    *)
introduceError ==
  /\ Ready
  /\ Called
  /\ \E rate \in [{d \in (DOMAIN links) \X {1, 2} : links[d[1]].ends[d[2]] \in getAllASNodes}
                     -> BaseErrors] :
       errorModel' = WithRates(rate)
  /\ UNCHANGED <<briteVars, now, running, events, uid, failures, custom, call, todo, base>>

-----------------------------------------------------------------------------
(* The exports.  getBandwidth is that of the first device that leads to the *)
(* second node; a device index counts the devices of its node.              *)
getBandwidth(a, b) == links[First({l \in Devices(a) : b \in Ends(l)})].bw
DeviceIndex(a, l) == Cardinality({m \in Devices(a) : m < l})

(* The nodes of a container in the order they were created.                 *)
Ascending(S) ==
  [i \in 1..Cardinality(S) |-> CHOOSE n \in S : Cardinality({m \in S : m < n}) = i - 1]

Line(a, b) == [n1 |-> a, n2 |-> b, bw |-> getBandwidth(a, b)]

\* Mutant: a pair of nodes is visited in both orders.
LinesBothWays(nodes) ==
  {Line(nodes[p[1]], nodes[p[2]]) : p \in
     {p \in (DOMAIN nodes) \X (DOMAIN nodes) :
        p[1] # p[2] /\ nodesConnected(nodes[p[1]], nodes[p[2]])}}
Lines(nodes) ==
  {Line(nodes[p[1]], nodes[p[2]]) : p \in
     {p \in (DOMAIN nodes) \X (DOMAIN nodes) :
        p[1] < p[2] /\ nodesConnected(nodes[p[1]], nodes[p[2]])}}

(* exportTopology: a line for each pair of connected nodes.                 *)
Exported(id) == IF id = "" THEN {} ELSE custom[id]   \* "" is the default argument
exportTopology(server, client) ==
  Lines(Ascending(getAllASNodes) \o Ascending(Exported(server)) \o Ascending(Exported(client)))

(* exportCoreNetworkWithFaceInformation: the same for the AS nodes, with    *)
(* the index of the device that leads to the other end for the first node   *)
(* and the position on the channel for the second, each plus 256.           *)
\* Mutant: the positions on the channel for both.
FaceByPosition(line) ==
  LET l == First({l \in Devices(line.n1) : line.n2 \in Ends(l)})
  IN  <<(IF links[l].ends[1] = line.n1 THEN 0 ELSE 1) + 256,
        (IF links[l].ends[1] = line.n2 THEN 0 ELSE 1) + 256>>
FaceIds(line) ==
  LET l == First({l \in Devices(line.n1) : line.n2 \in Ends(l)})
  IN  <<DeviceIndex(line.n1, l) + 256, (IF links[l].ends[1] = line.n2 THEN 0 ELSE 1) + 256>>

-----------------------------------------------------------------------------
(* The constructor builds the topology; the scenario makes its calls and    *)
(* runs the simulation.                                                     *)
Construct == BuildBriteTopology /\ UNCHANGED <<linkVars, genVars>>

Outage ==
  /\ Ready
  /\ Called
  /\ ScheduleOutages
  /\ UNCHANGED <<briteVars, custom, call, todo, base>>

Run ==
  /\ Ready
  /\ running' = TRUE
  /\ base' = errorModel
  /\ UNCHANGED <<briteVars, now, events, uid, failures, errorModel, custom, call, todo, calls>>

Next ==
  \/ Construct
  \/ \E c \in Calls : randomlyAddConnections(c)
  \/ AddConnection
  \/ \E c \in Places : randomlyPlaceNodes(c)
  \/ creatRandomLinkFailure
  \/ Outage
  \/ introduceError
  \/ Run
  \/ RunEvent /\ UNCHANGED <<briteVars, genVars>>

Spec == Init /\ [][Next]_vars

-----------------------------------------------------------------------------
(* Types: links join existing nodes, containers hold them.                  *)
TypeOK ==
  /\ numNodes \in Nat
  /\ \A as \in AllAS : asLeafNodes[as] \subseteq nodesByAs[as]
  /\ getAllASNodes \cup UNION {custom[id] : id \in Identifier} = 0..numNodes - 1
  /\ \A l \in DOMAIN links : Ends(l) \subseteq 0..numNodes - 1
  /\ \A e \in events : e.n1 \in 0..numNodes - 1 /\ e.n2 \in 0..numNodes - 1 /\ e.uid < uid
  /\ DOMAIN errorModel \subseteq (DOMAIN links) \X {1, 2}

(* However calls are mixed, no two nodes are joined twice and none to       *)
(* itself: a link is named by its two nodes everywhere else in the code     *)
(* (setErrorRate, getBandwidth, the exports).                               *)
NoParallelLinks ==
  \A k, l \in DOMAIN links :
    /\ links[k].ends[1] # links[k].ends[2]
    /\ Ends(k) = Ends(l) => k = l

(* A finished call added the links it was asked for, for each AS pair or    *)
(* AS, unless every pair of nodes it could join is joined: none is refused  *)
(* ("Unable to add new Connections") while there is still room.             *)
Between(as1, as2, n) ==
  Cardinality({l \in 1..n : \E a \in nodesByAs[as1], b \in nodesByAs[as2] : Ends(l) = {a, b}})
Room(as1, as2) ==
  IF as1 = as2 THEN (Cardinality(nodesByAs[as1]) * (Cardinality(nodesByAs[as1]) - 1)) \div 2
               ELSE Cardinality(nodesByAs[as1]) * Cardinality(nodesByAs[as2])
Delivered(as1, as2) ==
  Between(as1, as2, Len(links)) =
    Min({Between(as1, as2, call.before) + call.k, Room(as1, as2)})

CallDelivers ==
  todo = {} /\ call # NoCall =>
    CASE call.op = "BetweenAllAS" -> \A i, j \in AllAS : i < j => Delivered(i, j)
      [] call.op = "PerAS" -> \A i \in AllAS : Delivered(i, i)
      [] call.op = "BetweenTwoAS" ->
           \/ Len(links) >= call.before + (IF GetNAs <= 1 THEN 0 ELSE call.k)
           \/ \E i, j \in AllAS : i # j /\ Between(i, j, Len(links)) = Room(i, j)

(* An exported topology lists exactly the links among the nodes it covers,  *)
(* each once and with its bandwidth; in the core network's export no two    *)
(* lines of a first node give the same face of it.                          *)
LineOf(l, n1) ==
  [n1 |-> n1, n2 |-> CHOOSE n \in Ends(l) : n # n1, bw |-> links[l].bw]

ExportIsTopology == ~running =>
  /\ \A server, client \in Identifier \cup {""} : server # client \/ server = "" =>
       LET lines == exportTopology(server, client)
           inside == {l \in DOMAIN links :
                        Ends(l) \subseteq getAllASNodes \cup Exported(server) \cup Exported(client)}
       IN  /\ Cardinality(lines) = Cardinality(inside)
           /\ \A l \in inside : \E n \in Ends(l) : LineOf(l, n) \in lines
  /\ \A x, y \in exportTopology("", "") :
       x.n1 = y.n1 /\ FaceIds(x)[1] = FaceIds(y)[1] => x = y

(* Nothing is due any more at the present time.                             *)
Settled == running /\ \A e \in events : e.at > now

On(l) == {i \in DOMAIN failures : failures[i].link = l}
Over(i) == failures[i].stop <= now
Begun(i) == failures[i].start <= now

(* A failure that meets no other one on its link takes the link down for    *)
(* its whole interval.  (Of two that overlap, the first UpLink ends both.)  *)
LoneFailureLasts ==
  Settled =>
    \A i \in DOMAIN failures :
      /\ Begun(i) /\ ~Over(i)
      /\ \A j \in On(failures[i].link) :
           j = i \/ failures[j].stop < failures[i].start \/ failures[i].stop < failures[j].start
      => \A end \in {1, 2} : Rate(failures[i].link, end) = failures[i].rate

(* A link is up again whenever every failure drawn for it is over, in       *)
(* whatever order they overlapped, and no failure of another link touches   *)
(* the errors introduced on it before its own first one.  (Up means without *)
(* any error: UpLink does not put back the rate introduceError had set.)    *)
LinkFollowsItsFailures ==
  Settled =>
    \A l \in DOMAIN links : \A end \in {1, 2} :
      /\ (\A i \in On(l) : ~Begun(i)) =>
            (<<l, end>> \in DOMAIN errorModel <=> <<l, end>> \in DOMAIN base)
            /\ (<<l, end>> \in DOMAIN base => errorModel[<<l, end>>] = base[<<l, end>>])
      /\ On(l) # {} /\ (\A i \in On(l) : Over(i)) => Rate(l, end) = 0
==================================================================================
