---------------------------- MODULE PushNetwork -----------------------------
(***************************************************************************)
(* A network of forwarders with one Persistent Interest name: consumers    *)
(* subscribe and renew (push-consumer.cpp), the producer numbers and       *)
(* pushes Data once the first Interest arrives (push-producer.cpp), and    *)
(* every node runs the pipelines of forwarder.cpp on its one PIT entry,    *)
(* with the multicast strategy and a bitvector of Size bits per node.      *)
(*                                                                         *)
(* The stretch of time modelled is shorter than an Interest's lifetime, so *)
(* records do not expire.  Nacks are left out: they answer a duplicate     *)
(* nonce, and the multicast strategy does nothing on one.                  *)
(***************************************************************************)
EXTENDS BitmaskLoopDetection, FiniteSets, Sequences, Functions

CONSTANTS
  Node,      \* the network's nodes
  Link,      \* its links, as pairs of nodes, both directions
  Fib,       \* Fib[n]: next hops of n towards the producer, by face
  Root,      \* the producer's node
  Consumer,  \* the nodes with a consumer
  App,       \* the face of a node's application
  MaxAsks,   \* Interests a consumer sends: bounds the model
  Stop,      \* the producer sends the numbers below it: bounds the model
  Overlap,   \* may Interests of several origins and new Data be under way
             \* at a time?  FALSE bounds the model
  Lossy      \* do links lose packets?

ASSUME NetworkAssumption ==
  /\ Link \subseteq Node \X Node
  /\ \A l \in Link : <<l[2], l[1]>> \in Link
  /\ Root \in Node /\ Consumer \subseteq Node /\ App \notin Node
  /\ MaxAsks \in Nat /\ Stop \in Nat /\ Stop < SeqMod
  /\ Overlap \in BOOLEAN /\ Lossy \in BOOLEAN

VARIABLES
  ins,      \* ins[n]: faces with an in-record at n, with the record's nonce
  outs,     \* outs[n]: faces with an out-record at n, with the record's nonce
  bld,      \* bld[n]: the bitvector of n's entry
  wire,     \* wire[<<m, n>>]: packets under way from m to n, in order
  asks,     \* asks[c]: Interests consumer c has sent
  started,  \* m_producing: has an Interest reached the producer?
  next,     \* m_seq: the producer's next number
  \* History, for the properties only:
  got,      \* got[c][s]: copies of s handed to consumer c, counted up to 2
  settled   \* numbers sent when the last Interest had arrived everywhere

vars == <<ins, outs, bld, wire, asks, started, next, got, settled>>

Number     == 0 .. Stop - 1
Nonce      == Consumer \X (1 .. MaxAsks)
Interest   == [type : {"interest"}, nonce : Nonce]
Data       == [type : {"data"}, seq : Number]
AnInterest(nonce) == [type |-> "interest", nonce |-> nonce]
ADatum(s)         == [type |-> "data", seq |-> s]

Face(n) == {m \in Node : <<n, m>> \in Link} \cup {App}
NoNonce == <<>>

InFaces(n) == {f \in Face(n) : ins[n][f] # NoNonce}

UnderWay(p) == \E l \in Link : p \in Range(wire[l])
NoInterestUnderWay ==
  \A l \in Link : \A p \in Range(wire[l]) : p.type # "interest"

Init ==
  /\ ins = [n \in Node |-> [f \in Face(n) |-> NoNonce]]
  /\ outs = ins
  /\ bld = [n \in Node |-> EmptyVector]
  /\ wire = [l \in Link |-> <<>>]
  /\ asks = [c \in Consumer |-> 0]
  /\ started = FALSE
  /\ next = 0
  /\ got = [c \in Consumer |-> [s \in Number |-> 0]]
  /\ settled = {}

-----------------------------------------------------------------------------
\* The wires once a packet has left wires and p was sent by n to faces.
Send(wires, n, p, faces) ==
  [l \in Link |-> IF l[1] = n /\ l[2] \in faces THEN Append(wires[l], p)
                                                ELSE wires[l]]

Arrived(l) == [wire EXCEPT ![l] = Tail(@)]

\* Mutant: only the consumer's own node knows its nonces.
findDuplicateAtOrigin(n, nonce) == ins[n][App] = nonce

findDuplicateNonce(n, nonce) == nonce \in Range(ins[n]) \cup Range(outs[n])

\* canForwardToLegacy on a Persistent Interest: another face has asked.
Nexthops(n, faces) == {g \in Fib[n] : faces \ {g} # {}}

\* onIncomingInterest of nonce from face f of n, in a network left with wires.
IncomingInterest(n, f, nonce, wires) ==
  IF findDuplicateNonce(n, nonce)
    THEN wire' = wires /\ UNCHANGED <<ins, outs, started>>
    ELSE LET hops == Nexthops(n, InFaces(n) \cup {f}) IN
         /\ ins' = [ins EXCEPT ![n][f] = nonce]
         /\ outs' = [outs EXCEPT ![n] =
                       [g \in Face(n) |-> IF g \in hops THEN nonce ELSE @[g]]]
         /\ wire' = Send(wires, n, AnInterest(nonce), hops)
         /\ started' = (started \/ (n = Root /\ App \in hops))

\* Mutant: the nonce is taken before it is renewed.
AskStale(c) ==
  /\ asks[c] < MaxAsks
  /\ Overlap \/ NoInterestUnderWay
  /\ asks' = [asks EXCEPT ![c] = @ + 1]
  /\ IncomingInterest(c, App, <<c, asks[c]>>, wire)
  /\ UNCHANGED <<bld, next, got, settled>>

\* PushConsumer::SendPacket: a new nonce each time. The code draws the time in ms plus
\* a number below 1000 (209): two consumers may draw the same, which is left out.
Ask(c) ==
  /\ asks[c] < MaxAsks
  /\ Overlap \/ NoInterestUnderWay
  /\ asks' = [asks EXCEPT ![c] = @ + 1]
  /\ IncomingInterest(c, App, <<c, asks[c] + 1>>, wire)
  /\ UNCHANGED <<bld, next, got, settled>>

ReceiveInterest(l) ==
  /\ wire[l] # <<>> /\ Head(wire[l]).type = "interest"
  /\ IncomingInterest(l[2], l[1], Head(wire[l]).nonce, Arrived(l))
  /\ UNCHANGED <<bld, asks, next, got, settled>>

-----------------------------------------------------------------------------
\* Where onIncomingData sends s, having come to n by f: nowhere when it is
\* unsolicited or looping.
Downstreams(n, f, s) == IF Contains(bld[n], s) THEN {} ELSE InFaces(n) \ {f}

IncomingData(n, f, s, wires) ==
  LET downs == Downstreams(n, f, s) IN
  /\ bld' = IF InFaces(n) = {} \/ Contains(bld[n], s) THEN bld
            ELSE [bld EXCEPT ![n] = Add(@, s)]
  /\ wire' = Send(wires, n, ADatum(s), downs)
  /\ got' = IF n \in Consumer /\ App \in downs /\ got[n][s] < 2
              THEN [got EXCEPT ![n][s] = @ + 1] ELSE got

ReceiveData(l) ==
  /\ wire[l] # <<>> /\ Head(wire[l]).type = "data"
  /\ IncomingData(l[2], l[1], Head(wire[l]).seq, Arrived(l))
  /\ UNCHANGED <<ins, outs, asks, started, next, settled>>

\* Assumed of the bitvector's length: when a number is sent, no copy of one
\* that it pushes out of the window is under way.
WindowClear ==
  \A l \in Link : \A p \in Range(wire[l]) : p.type = "data" => p.seq > next - Size

\* PushProducer::SendPacket, and its node's forwarding.
Produce ==
  /\ started /\ next < Stop
  /\ Overlap \/ NoInterestUnderWay
  /\ WindowClear
  /\ next' = next + 1
  /\ IncomingData(Root, App, next, wire)
  /\ settled' = IF NoInterestUnderWay /\ \A c \in Consumer : asks[c] = MaxAsks
                  THEN settled \cup {next} ELSE settled
  /\ UNCHANGED <<ins, outs, asks, started>>

\* A link drops a packet (its error rate, its queue, its failure).
Lose(l) ==
  /\ Lossy /\ wire[l] # <<>>
  /\ wire' = Arrived(l)
  /\ UNCHANGED <<ins, outs, bld, asks, started, next, got, settled>>

Next == \/ \E c \in Consumer : Ask(c)
        \/ \E l \in Link : ReceiveInterest(l) \/ ReceiveData(l) \/ Lose(l)
        \/ Produce

Spec == Init /\ [][Next]_vars

\* A link delivers what it holds; nobody need ask or produce.
FairSpec == Spec /\ \A l \in Link : WF_vars(ReceiveInterest(l) \/ ReceiveData(l))

-----------------------------------------------------------------------------
\* Of the FIB, where consumers are to be served: next hops are faces, and lead
\* from every consumer to the producer's node.
FibOnLinks == \A n \in Node : Fib[n] \subseteq Face(n)
LeadsToRoot ==
  \A c \in Consumer : \A S \in SUBSET Node :
    c \in S /\ (\A n \in S : Fib[n] \ {App} \subseteq S) => Root \in S

TypeOK ==
  /\ \A n \in Node : /\ ins[n] \in [Face(n) -> Nonce \cup {NoNonce}]
                     /\ outs[n] \in [Face(n) -> Nonce \cup {NoNonce}]
  /\ bld \in [Node -> Vector]
  /\ wire \in [Link -> Seq(Interest \cup Data)]
  /\ asks \in [Consumer -> 0 .. MaxAsks]
  /\ started \in BOOLEAN
  /\ next \in 0 .. Stop
  /\ got \in [Consumer -> [Number -> 0 .. 2]]
  /\ settled \subseteq 0 .. next - 1

DataUnderWay == \E s \in Number : UnderWay(ADatum(s))

\* "Data loop prevention when using Persistent Interests" (README.md:2): no
\* copy of a number is forwarded for ever.
DataLoopsEnd == next = Stop ~> ~ DataUnderWay

\* What of it the code achieves: the copies of every number sent after the
\* last change of the subscriptions are all dropped in the end, once the
\* stream has filled a window.
SettledDataLoopsEnd ==
  <>[] \A s \in settled : s + Size <= next => ~ UnderWay(ADatum(s))

\* Interest loops end: the nonces in the records, which a renewal
\* overwrites, still stop every copy of every Interest.
InterestLoopsEnd == []<>NoInterestUnderWay

\* Data sent while the subscriptions are in place reaches every consumer: no
\* node drops its first copy for a loop.
SubscribersServed ==
  ~ DataUnderWay => \A s \in settled, c \in Consumer : got[c][s] > 0

\* And reaches it once, though copies come by several paths, once the stream
\* has filled a window.
NoDuplicateDelivered ==
  \A s \in settled, c \in Consumer : s >= Size - 1 => got[c][s] < 2
=============================================================================
