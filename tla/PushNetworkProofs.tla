------------------------- MODULE PushNetworkProofs --------------------------
(***************************************************************************)
(* Proofs about the network of PushNetwork, for any graph, FIB, consumers  *)
(* and length of the bitvector, in four parts: the types; what records and *)
(* nonces there are (SubscriptionInv); where the Interests have been       *)
(* (HeardInv); and where the numbers sent since the subscriptions settled  *)
(* have come to (DataInv).  The last three give that every consumer gets   *)
(* every such number, and gets it once.                                    *)
(***************************************************************************)
EXTENDS PushNetwork, BitmaskLoopDetectionProofs, TLAPS

USE NetworkAssumption

-----------------------------------------------------------------------------
(* Packets and wires.                                                      *)
Packet == Interest \cup Data

\* A packet is an Interest with its nonce or Data with its number.
LEMMA Packets ==
  /\ \A k \in Nonce : AnInterest(k) \in Packet /\ AnInterest(k).type = "interest"
                      /\ AnInterest(k).nonce = k
  /\ \A s \in Number : ADatum(s) \in Packet /\ ADatum(s).type = "data" /\ ADatum(s).seq = s
  /\ \A p \in Packet : p.type = "interest" => p.nonce \in Nonce
  /\ \A p \in Packet : p.type = "data" => p.seq \in Number
  /\ \A p \in Packet : p.type \in {"interest", "data"}
BY DEF Packet, Interest, Data, AnInterest, ADatum

\* Every wire has its packets in order; ins and outs have one record a face.
NetTypes ==
  /\ TypeOK
  /\ wire \in [Link -> Seq(Packet)]
  /\ ins = [n \in Node |-> ins[n]]
  /\ outs = [n \in Node |-> outs[n]]

At(l) == 1 .. Len(wire[l])

\* The heads of the links in P leave, and n sends p to faces.
Moves(P, n, p, faces) ==
  /\ \A l \in P : wire[l] # << >>
  /\ wire' = [l \in Link |-> IF l[1] = n /\ l[2] \in faces
                               THEN Append(IF l \in P THEN Tail(wire[l]) ELSE wire[l], p)
                               ELSE IF l \in P THEN Tail(wire[l]) ELSE wire[l]]

Left(P, l) == IF l \in P THEN 1 ELSE 0

\* What that does to a link, place by place.
LEMMA Moved ==
  ASSUME wire \in [Link -> Seq(Packet)], NEW P, NEW n, NEW p, NEW faces,
         p \in Packet \/ faces = {}, Moves(P, n, p, faces)
  PROVE  /\ wire' \in [Link -> Seq(Packet)]
         /\ \A l \in Link :
              /\ Len(wire[l]) \in Nat /\ Left(P, l) \in {0, 1} /\ Left(P, l) <= Len(wire[l])
              /\ \A i \in At(l)' :
                   \/ i + Left(P, l) \in At(l) /\ wire'[l][i] = wire[l][i + Left(P, l)]
                   \/ /\ l[1] = n /\ l[2] \in faces /\ wire'[l][i] = p
                      /\ i + Left(P, l) = Len(wire[l]) + 1
              /\ \A i \in At(l) : i > Left(P, l) =>
                   i - Left(P, l) \in At(l)' /\ wire'[l][i - Left(P, l)] = wire[l][i]
              /\ l[1] = n /\ l[2] \in faces => \E i \in At(l)' : wire'[l][i] = p
<1> SUFFICES ASSUME NEW l \in Link
             PROVE  /\ wire'[l] \in Seq(Packet)
                    /\ Len(wire[l]) \in Nat /\ Left(P, l) \in {0, 1} /\ Left(P, l) <= Len(wire[l])
                    /\ \A i \in At(l)' :
                         \/ i + Left(P, l) \in At(l) /\ wire'[l][i] = wire[l][i + Left(P, l)]
                         \/ /\ l[1] = n /\ l[2] \in faces /\ wire'[l][i] = p
                            /\ i + Left(P, l) = Len(wire[l]) + 1
                    /\ \A i \in At(l) : i > Left(P, l) =>
                         i - Left(P, l) \in At(l)' /\ wire'[l][i - Left(P, l)] = wire[l][i]
                    /\ l[1] = n /\ l[2] \in faces => \E i \in At(l)' : wire'[l][i] = p
  BY DEF Moves
<1> DEFINE w == wire[l]
           k == Left(P, l)
           u == IF l \in P THEN Tail(w) ELSE w
           v == wire'[l]
<1>1. w \in Seq(Packet) /\ Len(w) \in Nat
  OBVIOUS
<1>2. k \in {0, 1} /\ k <= Len(w) /\ (l \in P => w # << >>)
  <2>1. l \in P => w # << >>
    BY DEF Moves
  <2> QED
    BY <1>1, <2>1 DEF Left
<1>3. u \in Seq(Packet) /\ Len(u) = Len(w) - k /\ \A i \in 1 .. Len(w) - k : u[i] = w[i + k]
  <2> HIDE DEF w
  <2> QED
    BY <1>1, <1>2 DEF Left
<1>4. IF l[1] = n /\ l[2] \in faces THEN v = Append(u, p) ELSE v = u
  BY DEF Moves
<1> HIDE DEF w, k, u, v
<1>5. CASE l[1] = n /\ l[2] \in faces
  <2>1. p \in Packet
    BY <1>5
  <2>2. v = Append(u, p)
    BY <1>4, <1>5
  <2>3. /\ v \in Seq(Packet) /\ Len(v) = Len(u) + 1 /\ v[Len(u) + 1] = p
        /\ \A i \in 1 .. Len(u) : v[i] = u[i]
    BY <1>3, <2>1, <2>2
  <2>4. /\ \A i \in 1 .. Len(v) : \/ i + k \in 1 .. Len(w) /\ v[i] = w[i + k]
                                  \/ v[i] = p /\ i + k = Len(w) + 1
        /\ \A i \in 1 .. Len(w) : i > k => i - k \in 1 .. Len(v) /\ v[i - k] = w[i]
        /\ \E i \in 1 .. Len(v) : v[i] = p
    BY <1>1, <1>2, <1>3, <2>3
  <2> QED
    BY <1>1, <1>2, <1>5, <2>3, <2>4 DEF At, k, w, v
<1>6. CASE ~ (l[1] = n /\ l[2] \in faces)
  <2>1. v = u
    BY <1>4, <1>6
  <2>2. /\ \A i \in 1 .. Len(v) : i + k \in 1 .. Len(w) /\ v[i] = w[i + k]
        /\ \A i \in 1 .. Len(w) : i > k => i - k \in 1 .. Len(v) /\ v[i - k] = w[i]
    BY <1>1, <1>2, <1>3, <2>1
  <2> QED
    BY <1>1, <1>2, <1>3, <1>6, <2>1, <2>2 DEF At, k, w, v
<1> QED
  BY <1>5, <1>6

\* Every packet on a wire was there or is the one sent.
LEMMA MovedFrom ==
  ASSUME wire \in [Link -> Seq(Packet)], NEW P, NEW n, NEW p, NEW faces,
         p \in Packet \/ faces = {}, Moves(P, n, p, faces)
  PROVE  \A l \in Link : \A i \in At(l)' :
           \/ \E j \in At(l) : wire'[l][i] = wire[l][j]
           \/ l[1] = n /\ l[2] \in faces /\ wire'[l][i] = p
<1>1. ASSUME NEW l \in Link, NEW i \in At(l)'
      PROVE  \/ i + Left(P, l) \in At(l) /\ wire'[l][i] = wire[l][i + Left(P, l)]
             \/ l[1] = n /\ l[2] \in faces /\ wire'[l][i] = p
  BY Moved
<1> QED
  BY <1>1, Zenon

\* What is sent after a head has left is such a move, and so is what is sent without.
LEMMA SendMoves ==
  ASSUME wire \in [Link -> Seq(Packet)], NEW n, NEW p, NEW faces
  PROVE  /\ wire' = Send(wire, n, p, faces) => Moves({}, n, p, faces)
         /\ \A l \in Link : wire[l] # << >> /\ wire' = Send(Arrived(l), n, p, faces) =>
              Moves({l}, n, p, faces)
         /\ wire' = wire => Moves({}, n, p, {})
         /\ \A l \in Link : wire[l] # << >> /\ wire' = Arrived(l) => Moves({l}, n, p, {})
<1>1. \A l, m \in Link : Arrived(l)[m] = IF m \in {l} THEN Tail(wire[m]) ELSE wire[m]
  BY DEF Arrived
<1>2. \A l \in Link : Arrived(l) = [m \in Link |-> Arrived(l)[m]]
  BY DEF Arrived
<1> QED
  BY <1>1, <1>2 DEF Moves, Send

\* The first packet on a wire.
LEMMA HeadOf ==
  ASSUME wire \in [Link -> Seq(Packet)], NEW l \in Link, wire[l] # << >>
  PROVE  1 \in At(l) /\ Head(wire[l]) = wire[l][1] /\ wire[l][1] \in Packet
<1> DEFINE w == wire[l]
<1>1. w \in Seq(Packet) /\ w # << >>
  OBVIOUS
<1> HIDE DEF w
<1>2. Len(w) \in Nat \ {0} /\ Head(w) = w[1] /\ w[1] \in Packet
  BY <1>1
<1> QED
  BY <1>2 DEF At, w

\* No Interest is under way when no place on a wire has one.
InterestsByPlace ==
  wire \in [Link -> Seq(Packet)] =>
    (NoInterestUnderWay <=> \A l \in Link : \A i \in At(l) : wire[l][i].type # "interest")

LEMMA InterestPlaces == InterestsByPlace
<1> SUFFICES ASSUME wire \in [Link -> Seq(Packet)]
             PROVE  NoInterestUnderWay <=>
                      \A l \in Link : \A i \in At(l) : wire[l][i].type # "interest"
  BY DEF InterestsByPlace
<1>1. \A l \in Link : Range(wire[l]) = {wire[l][i] : i \in At(l)}
  BY DEF Range, At
<1> QED
  BY <1>1 DEF NoInterestUnderWay

\* What is under way, by places.
LEMMA ByPlaces ==
  ASSUME wire \in [Link -> Seq(Packet)]
  PROVE  /\ NoInterestUnderWay <=> \A l \in Link : \A i \in At(l) : wire[l][i].type # "interest"
         /\ DataUnderWay <=> \E l \in Link : \E i \in At(l) : \E s \in Number : wire[l][i] = ADatum(s)
         /\ \A l \in Link : \A i \in At(l) : wire[l][i] \in Packet
         /\ WindowClear <=> \A l \in Link : \A i \in At(l) :
                              wire[l][i].type = "data" => wire[l][i].seq > next - Size
<1>1. \A l \in Link : Range(wire[l]) = {wire[l][i] : i \in At(l)}
  BY DEF Range, At
<1>2. \A l \in Link : \A i \in At(l) : wire[l][i] \in Packet
  BY DEF At
<1>3. NoInterestUnderWay <=> \A l \in Link : \A i \in At(l) : wire[l][i].type # "interest"
  BY <1>1 DEF NoInterestUnderWay
<1>4. DataUnderWay <=> \E l \in Link : \E i \in At(l) : \E s \in Number : wire[l][i] = ADatum(s)
  BY <1>1 DEF DataUnderWay, UnderWay
<1>5. WindowClear <=> \A l \in Link : \A i \in At(l) :
                        wire[l][i].type = "data" => wire[l][i].seq > next - Size
  BY <1>1 DEF WindowClear
<1> QED
  BY <1>2, <1>3, <1>4, <1>5

-----------------------------------------------------------------------------
(* The steps, by what they have in common.                                 *)

\* Nonce k comes to n by face f.
Heard(P, n, f, k) ==
  /\ n \in Node /\ f \in Face(n) /\ k \in Nonce
  /\ UNCHANGED <<bld, next, got, settled>>
  /\ \/ /\ findDuplicateNonce(n, k)
        /\ Moves(P, n, AnInterest(k), {})
        /\ UNCHANGED <<ins, outs, started>>
     \/ LET hops == Nexthops(n, InFaces(n) \cup {f}) IN
        /\ ~ findDuplicateNonce(n, k)
        /\ ins' = [ins EXCEPT ![n][f] = k]
        /\ outs' = [outs EXCEPT ![n] = [g \in Face(n) |-> IF g \in hops THEN k ELSE @[g]]]
        /\ Moves(P, n, AnInterest(k), hops)
        /\ started' = (started \/ (n = Root /\ App \in hops))

\* Number s comes to n by face f.
Carried(P, n, f, s) ==
  /\ n \in Node /\ s \in Number
  /\ UNCHANGED <<ins, outs, asks, started>>
  /\ bld' = IF InFaces(n) = {} \/ Contains(bld[n], s) THEN bld
            ELSE [bld EXCEPT ![n] = Add(@, s)]
  /\ Moves(P, n, ADatum(s), Downstreams(n, f, s))
  /\ got' = IF n \in Consumer /\ App \in Downstreams(n, f, s) /\ got[n][s] < 2
              THEN [got EXCEPT ![n][s] = @ + 1] ELSE got

\* A consumer's Interest comes to its node from the application.
LEMMA AskIs ==
  ASSUME NetTypes, NEW c \in Consumer, Ask(c)
  PROVE  /\ Heard({}, c, App, <<c, asks[c] + 1>>)
         /\ asks' = [asks EXCEPT ![c] = @ + 1] /\ asks[c] \in Nat
         /\ asks[c] < MaxAsks
<1> DEFINE k == <<c, asks[c] + 1>>
<1>1. asks[c] \in Nat /\ asks[c] < MaxAsks /\ c \in Node /\ App \in Face(c)
  BY DEF NetTypes, TypeOK, Ask, Face
<1>2. k \in Nonce
  BY <1>1 DEF Nonce
<1> HIDE DEF k
<1>3. /\ IncomingInterest(c, App, k, wire)
      /\ UNCHANGED <<bld, next, got, settled>>
      /\ asks' = [asks EXCEPT ![c] = @ + 1]
  BY DEF Ask, k
<1>4. wire \in [Link -> Seq(Packet)]
  BY DEF NetTypes
<1>5. CASE findDuplicateNonce(c, k)
  <2>1. wire' = wire /\ UNCHANGED <<ins, outs, started>>
    BY <1>3, <1>5, Zenon DEF IncomingInterest
  <2>2. Moves({}, c, AnInterest(k), {})
    BY <1>4, <2>1, SendMoves
  <2> QED
    BY <1>1, <1>2, <1>3, <1>5, <2>1, <2>2 DEF Heard, k
<1>6. CASE ~ findDuplicateNonce(c, k)
  <2> DEFINE hops == Nexthops(c, InFaces(c) \cup {App})
  <2>1. /\ ins' = [ins EXCEPT ![c][App] = k]
        /\ outs' = [outs EXCEPT ![c] = [g \in Face(c) |-> IF g \in hops THEN k ELSE @[g]]]
        /\ wire' = Send(wire, c, AnInterest(k), hops)
        /\ started' = (started \/ (c = Root /\ App \in hops))
    BY <1>3, <1>6, Zenon DEF IncomingInterest
  <2>2. Moves({}, c, AnInterest(k), hops)
    <3> HIDE DEF hops
    <3> QED
      BY <1>4, <2>1, SendMoves
  <2>3. Heard({}, c, App, k)
    BY <1>1, <1>2, <1>3, <1>6, <2>1, <2>2, Zenon DEF Heard
  <2> QED
    BY <1>1, <1>3, <2>3 DEF k
<1> QED
  BY <1>5, <1>6

\* An Interest that arrives comes from the link's other end.
LEMMA ReceiveInterestIs ==
  ASSUME NetTypes, NEW l \in Link, ReceiveInterest(l)
  PROVE  /\ Heard({l}, l[2], l[1], wire[l][1].nonce) /\ asks' = asks
         /\ 1 \in At(l) /\ wire[l][1].type = "interest" /\ wire[l][1].nonce \in Nonce
<1> DEFINE k == wire[l][1].nonce
           n == l[2]
           f == l[1]
<1>1. wire \in [Link -> Seq(Packet)]
  BY DEF NetTypes
<1>2. wire[l] # << >> /\ 1 \in At(l) /\ Head(wire[l]) = wire[l][1] /\ wire[l][1] \in Packet
  BY <1>1, HeadOf DEF ReceiveInterest
<1>3. wire[l][1].type = "interest" /\ k \in Nonce
  BY <1>2, Packets DEF ReceiveInterest
<1>4. n \in Node /\ f \in Face(n)
  BY DEF Face
<1>5. /\ IncomingInterest(n, f, k, Arrived(l))
      /\ UNCHANGED <<bld, asks, next, got, settled>>
  BY <1>2 DEF ReceiveInterest
<1> HIDE DEF k, n, f
<1>6. CASE findDuplicateNonce(n, k)
  <2>1. wire' = Arrived(l) /\ UNCHANGED <<ins, outs, started>>
    BY <1>5, <1>6, Zenon DEF IncomingInterest
  <2>2. Moves({l}, n, AnInterest(k), {})
    BY <1>1, <1>2, <2>1, SendMoves
  <2>3. Heard({l}, n, f, k)
    BY <1>3, <1>4, <1>5, <1>6, <2>1, <2>2 DEF Heard
  <2> QED
    BY <1>2, <1>3, <1>5, <2>3 DEF k, n, f
<1>7. CASE ~ findDuplicateNonce(n, k)
  <2> DEFINE hops == Nexthops(n, InFaces(n) \cup {f})
  <2>1. /\ ins' = [ins EXCEPT ![n][f] = k]
        /\ outs' = [outs EXCEPT ![n] = [g \in Face(n) |-> IF g \in hops THEN k ELSE @[g]]]
        /\ wire' = Send(Arrived(l), n, AnInterest(k), hops)
        /\ started' = (started \/ (n = Root /\ App \in hops))
    BY <1>5, <1>7, Zenon DEF IncomingInterest
  <2>2. Moves({l}, n, AnInterest(k), hops)
    <3> HIDE DEF hops
    <3> QED
      BY <1>1, <1>2, <2>1, SendMoves
  <2>3. UNCHANGED <<bld, next, got, settled>>
    BY <1>5
  <2>4. Heard({l}, n, f, k)
    BY <1>3, <1>4, <1>7, <2>1, <2>2, <2>3, Zenon DEF Heard
  <2> QED
    BY <1>2, <1>3, <1>5, <2>4 DEF k, n, f
<1> QED
  BY <1>6, <1>7

\* So does Data.
LEMMA ReceiveDataIs ==
  ASSUME NetTypes, NEW l \in Link, ReceiveData(l)
  PROVE  \E s \in Number : /\ Carried({l}, l[2], l[1], s) /\ UNCHANGED <<next, settled>>
                           /\ 1 \in At(l) /\ wire[l][1] = ADatum(s)
<1>1. wire \in [Link -> Seq(Packet)]
  BY DEF NetTypes
<1>2. wire[l] # << >> /\ 1 \in At(l) /\ Head(wire[l]) = wire[l][1] /\ wire[l][1] \in Packet
  BY <1>1, HeadOf DEF ReceiveData
<1>3. wire[l][1] \in Data
  BY <1>2 DEF ReceiveData, Packet, Interest
<1>4. PICK s \in Number : wire[l][1] = ADatum(s)
  BY <1>3 DEF Data, ADatum
<1>5. /\ IncomingData(l[2], l[1], s, Arrived(l))
      /\ UNCHANGED <<ins, outs, asks, started, next, settled>>
  BY <1>2, <1>4, Packets DEF ReceiveData
<1>6. Moves({l}, l[2], ADatum(s), Downstreams(l[2], l[1], s))
  <2>1. wire' = Send(Arrived(l), l[2], ADatum(s), Downstreams(l[2], l[1], s))
    BY <1>5 DEF IncomingData
  <2> QED
    BY <1>1, <1>2, <2>1, SendMoves
<1>7. Carried({l}, l[2], l[1], s)
  BY <1>5, <1>6 DEF Carried, IncomingData
<1> QED
  BY <1>2, <1>4, <1>5, <1>7

\* The producer's Data comes to its node from the application.
LEMMA ProduceIs ==
  ASSUME NetTypes, Produce
  PROVE  /\ Carried({}, Root, App, next) /\ next \in Number /\ next' = next + 1
         /\ started /\ WindowClear
         /\ settled' = IF NoInterestUnderWay /\ \A c \in Consumer : asks[c] = MaxAsks
                         THEN settled \cup {next} ELSE settled
<1>1. next \in Number
  BY DEF Produce, NetTypes, TypeOK, Number
<1>2. IncomingData(Root, App, next, wire) /\ UNCHANGED <<ins, outs, asks, started>>
  BY DEF Produce
<1>3. Moves({}, Root, ADatum(next), Downstreams(Root, App, next))
  <2>1. wire' = Send(wire, Root, ADatum(next), Downstreams(Root, App, next))
    BY <1>2 DEF IncomingData
  <2> QED
    BY <2>1, SendMoves DEF NetTypes
<1>4. Carried({}, Root, App, next)
  BY <1>1, <1>2, <1>3 DEF Carried, IncomingData
<1> QED
  BY <1>1, <1>4 DEF Produce

-----------------------------------------------------------------------------
(* Types.                                                                  *)

\* Interests keep the types.
LEMMA HeardTyped ==
  ASSUME NetTypes, NEW P, NEW n, NEW f, NEW k, Heard(P, n, f, k)
  PROVE  /\ wire' \in [Link -> Seq(Packet)]
         /\ ins' = [m \in Node |-> ins'[m]] /\ outs' = [m \in Node |-> outs'[m]]
         /\ \A m \in Node : /\ ins'[m] \in [Face(m) -> Nonce \cup {NoNonce}]
                            /\ outs'[m] \in [Face(m) -> Nonce \cup {NoNonce}]
         /\ started' \in BOOLEAN
<1>1. wire' \in [Link -> Seq(Packet)]
  <2>1. AnInterest(k) \in Packet /\ \E faces : Moves(P, n, AnInterest(k), faces)
    BY Packets, Zenon DEF Heard
  <2> QED
    BY <2>1, Moved DEF NetTypes
<1>2. CASE UNCHANGED <<ins, outs, started>>
  BY <1>1, <1>2 DEF NetTypes, TypeOK
<1>3. CASE ~ UNCHANGED <<ins, outs, started>>
  <2>1. PICK hops : /\ n \in Node /\ f \in Face(n) /\ k \in Nonce
                    /\ ins' = [ins EXCEPT ![n][f] = k]
                    /\ outs' = [outs EXCEPT ![n] =
                                  [g \in Face(n) |-> IF g \in hops THEN k ELSE @[g]]]
                    /\ started' = (started \/ (n = Root /\ App \in hops))
    BY <1>3, Zenon DEF Heard
  <2>2. /\ \A m \in Node : ins[m] \in [Face(m) -> Nonce \cup {NoNonce}]
        /\ \A m \in Node : outs[m] \in [Face(m) -> Nonce \cup {NoNonce}]
        /\ ins = [m \in Node |-> ins[m]] /\ outs = [m \in Node |-> outs[m]]
    BY DEF NetTypes, TypeOK
  <2>3. ins' = [m \in Node |-> ins'[m]] /\ outs' = [m \in Node |-> outs'[m]]
    BY <2>1, <2>2
  <2>4. \A m \in Node : ins'[m] \in [Face(m) -> Nonce \cup {NoNonce}]
    BY <2>1, <2>2
  <2>5. \A m \in Node : outs'[m] \in [Face(m) -> Nonce \cup {NoNonce}]
    BY <2>1, <2>2
  <2> QED
    BY <1>1, <2>1, <2>3, <2>4, <2>5 DEF NetTypes, TypeOK
<1> QED
  BY <1>2, <1>3

\* Data does.
LEMMA CarriedTyped ==
  ASSUME NetTypes, NEW P, NEW n, NEW f, NEW s, Carried(P, n, f, s)
  PROVE  /\ wire' \in [Link -> Seq(Packet)]
         /\ bld' \in [Node -> Vector]
         /\ got' \in [Consumer -> [Number -> 0 .. 2]]
<1>1. wire' \in [Link -> Seq(Packet)]
  <2>1. ADatum(s) \in Packet /\ Moves(P, n, ADatum(s), Downstreams(n, f, s))
    BY Packets DEF Carried
  <2> QED
    BY <2>1, Moved DEF NetTypes
<1>2. bld' \in [Node -> Vector]
  <2>1. s \in Seqno /\ n \in Node
    BY SizesAssumption DEF Carried, Number, Seqno
  <2>2. bld \in [Node -> Vector]
    BY DEF NetTypes, TypeOK
  <2>3. Add(bld[n], s) \in Vector
    BY <2>1, <2>2, AddTyped
  <2> QED
    BY <2>2, <2>3 DEF Carried
<1>3. got' \in [Consumer -> [Number -> 0 .. 2]]
  <2>1. got \in [Consumer -> [Number -> 0 .. 2]] /\ s \in Number
    BY DEF NetTypes, TypeOK, Carried
  <2>2. CASE n \in Consumer /\ got[n][s] < 2 /\ got' = [got EXCEPT ![n][s] = @ + 1]
    <3>1. got[n] \in [Number -> 0 .. 2] /\ got[n][s] + 1 \in 0 .. 2
      BY <2>1, <2>2
    <3> QED
      BY <2>1, <2>2, <3>1
  <2> QED
    BY <2>1, <2>2 DEF Carried
<1> QED
  BY <1>1, <1>2, <1>3

\* A loss does.
LEMMA LoseTyped ==
  ASSUME NetTypes, NEW l \in Link, Lose(l)
  PROVE  wire' \in [Link -> Seq(Packet)]
<1>1. Moves({l}, Root, Root, {})
  BY SendMoves DEF Lose, NetTypes
<1> QED
  BY <1>1, Moved DEF NetTypes

\* The network starts with them.
LEMMA NetTypesInit == Init => NetTypes
<1> SUFFICES ASSUME Init PROVE NetTypes
  OBVIOUS
<1>1. wire \in [Link -> Seq(Packet)]
  BY DEF Init
<1>2. bld \in [Node -> Vector]
  BY EmptyTyped DEF Init
<1>3. /\ ins = [n \in Node |-> ins[n]] /\ outs = [n \in Node |-> outs[n]]
      /\ \A n \in Node : /\ ins[n] \in [Face(n) -> Nonce \cup {NoNonce}]
                         /\ outs[n] \in [Face(n) -> Nonce \cup {NoNonce}]
  BY DEF Init
<1>4. got \in [Consumer -> [Number -> 0 .. 2]]
  BY DEF Init
<1>5. /\ asks \in [Consumer -> 0 .. MaxAsks] /\ started \in BOOLEAN /\ next \in 0 .. Stop
      /\ settled \subseteq 0 .. next - 1
  <2>0. asks = [c \in Consumer |-> 0] /\ started = FALSE /\ next = 0 /\ settled = {}
    BY Zenon DEF Init
  <2>1. asks \in [Consumer -> 0 .. MaxAsks]
    BY <2>0
  <2>2. started \in BOOLEAN
    BY <2>0, Zenon
  <2>3. next \in 0 .. Stop
    BY <2>0
  <2>4. settled \subseteq 0 .. next - 1
    BY <2>0, Zenon
  <2> QED
    BY <2>0, <2>1, <2>2, <2>3, <2>4, Zenon
<1> QED
  BY <1>1, <1>2, <1>3, <1>4, <1>5 DEF NetTypes, TypeOK, Packet

\* Every step keeps them.
LEMMA NetTypesStep == NetTypes /\ [Next]_vars => NetTypes'
<1> SUFFICES ASSUME NetTypes, [Next]_vars PROVE NetTypes'
  OBVIOUS
<1>0. /\ \A n \in Node : ins[n] \in [Face(n) -> Nonce \cup {NoNonce}]
      /\ \A n \in Node : outs[n] \in [Face(n) -> Nonce \cup {NoNonce}]
      /\ bld \in [Node -> Vector] /\ asks \in [Consumer -> 0 .. MaxAsks]
      /\ started \in BOOLEAN /\ next \in 0 .. Stop
      /\ got \in [Consumer -> [Number -> 0 .. 2]] /\ settled \subseteq 0 .. next - 1
      /\ wire \in [Link -> Seq(Packet)]
      /\ ins = [n \in Node |-> ins[n]] /\ outs = [n \in Node |-> outs[n]]
  BY DEF NetTypes, TypeOK
<1>1. ASSUME NEW c \in Consumer, Ask(c) PROVE NetTypes'
  <2>1. Heard({}, c, App, <<c, asks[c] + 1>>) /\ asks' \in [Consumer -> 0 .. MaxAsks]
    BY <1>0, <1>1, AskIs
  <2>2. UNCHANGED <<bld, next, got, settled>>
    BY <2>1 DEF Heard
  <2> QED
    BY <1>0, <2>1, <2>2, HeardTyped DEF NetTypes, TypeOK, Packet
<1>2. ASSUME NEW l \in Link, ReceiveInterest(l) PROVE NetTypes'
  <2>1. Heard({l}, l[2], l[1], wire[l][1].nonce) /\ asks' = asks
    BY <1>2, ReceiveInterestIs
  <2>2. UNCHANGED <<bld, next, got, settled>>
    BY <2>1 DEF Heard
  <2> QED
    BY <1>0, <2>1, <2>2, HeardTyped DEF NetTypes, TypeOK, Packet
<1>3. ASSUME NEW l \in Link, ReceiveData(l) PROVE NetTypes'
  <2>1. PICK s \in Number : Carried({l}, l[2], l[1], s) /\ UNCHANGED <<next, settled>>
    BY <1>3, ReceiveDataIs
  <2>2. UNCHANGED <<ins, outs, asks, started>>
    BY <2>1 DEF Carried
  <2> QED
    BY <1>0, <2>1, <2>2, CarriedTyped DEF NetTypes, TypeOK, Packet
<1>4. ASSUME Produce PROVE NetTypes'
  <2>1. /\ Carried({}, Root, App, next) /\ next \in Number /\ next' = next + 1
        /\ settled' \subseteq settled \cup {next}
    BY <1>4, ProduceIs
  <2>2. UNCHANGED <<ins, outs, asks, started>>
    BY <2>1 DEF Carried
  <2>3. next' \in 0 .. Stop /\ settled' \subseteq 0 .. next' - 1
    <3>1. next \in 0 .. Stop - 1
      BY <2>1 DEF Number
    <3>2. next' \in 0 .. Stop
      BY <2>1, <3>1
    <3>3. ASSUME NEW t \in settled' PROVE t \in 0 .. next' - 1
      <4>1. t \in 0 .. next - 1 \/ t = next
        BY <1>0, <2>1
      <4> QED
        BY <2>1, <3>1, <4>1
    <3> QED
      BY <3>2, <3>3
  <2> QED
    BY <1>0, <2>1, <2>2, <2>3, CarriedTyped DEF NetTypes, TypeOK, Packet
<1>5. ASSUME NEW l \in Link, Lose(l) PROVE NetTypes'
  <2>1. UNCHANGED <<ins, outs, bld, asks, started, next, got, settled>>
    BY <1>5 DEF Lose
  <2> QED
    BY <1>0, <1>5, <2>1, LoseTyped DEF NetTypes, TypeOK, Packet
<1>6. CASE UNCHANGED vars
  BY <1>0, <1>6 DEF vars, NetTypes, TypeOK
<1> QED
  BY <1>1, <1>2, <1>3, <1>4, <1>5, <1>6 DEF Next

\* In every network, lossy or not, the records, vectors, packets and counters keep
\* their ranges.
THEOREM TypeCorrect == Spec => []TypeOK
<1>1. NetTypes => TypeOK
  BY DEF NetTypes
<1> QED
  BY <1>1, NetTypesInit, NetTypesStep, PTL DEF Spec

-----------------------------------------------------------------------------
(* Subscriptions: records only ever come, and lead on to a node that has   *)
(* records itself or to an application.                                    *)
InterestAt(l, i) == wire[l][i].type = "interest"
Known(a, k) == k # NoNonce => k[2] <= a[k[1]]

NoncesAsked ==
  /\ \A l \in Link : \A i \in At(l) : InterestAt(l, i) => Known(asks, wire[l][i].nonce)
  /\ \A n \in Node : \A f \in Face(n) : Known(asks, ins[n][f]) /\ Known(asks, outs[n][f])

SubscriptionInv ==
  /\ NoncesAsked
  /\ \A l \in Link : \A i \in At(l) : InterestAt(l, i) => InFaces(l[1]) # {}
  /\ \A m \in Node : \A n \in InFaces(m) \cap Node : InFaces(n) # {}
  /\ \A c \in Consumer : asks[c] > 0 => App \in InFaces(c)
  /\ started => InFaces(Root) # {} /\ MaxAsks > 0
  /\ next > 0 => started
  /\ settled # {} => NoInterestUnderWay /\ \A c \in Consumer : asks[c] = MaxAsks

\* What a nonce changes in the records of its node.
LEMMA HeardRecords ==
  ASSUME NetTypes, NEW P, NEW n, NEW f, NEW k, Heard(P, n, f, k)
  PROVE  /\ \A m \in Node : InFaces(m) \subseteq InFaces(m)'
         /\ \A m \in Node : \A g \in InFaces(m)' : g \in InFaces(m) \/ (m = n /\ g = f)
         /\ \A m \in Node : \A g \in Face(m) : /\ ins'[m][g] = ins[m][g] \/ (m = n /\ ins'[m][g] = k)
                                               /\ outs'[m][g] = outs[m][g] \/ (m = n /\ outs'[m][g] = k)
         /\ findDuplicateNonce(n, k) \/ f \in InFaces(n)'
<1>0. /\ \A m \in Node : ins[m] \in [Face(m) -> Nonce \cup {NoNonce}]
      /\ \A m \in Node : outs[m] \in [Face(m) -> Nonce \cup {NoNonce}]
      /\ ins = [m \in Node |-> ins[m]] /\ outs = [m \in Node |-> outs[m]]
  BY DEF NetTypes, TypeOK
<1>1. CASE findDuplicateNonce(n, k) /\ UNCHANGED <<ins, outs>>
  BY <1>1 DEF InFaces
<1>2. ASSUME ~ findDuplicateNonce(n, k) \/ ~ UNCHANGED <<ins, outs>>
      PROVE  \E hops : /\ n \in Node /\ f \in Face(n) /\ k \in Nonce
                       /\ ins' = [ins EXCEPT ![n][f] = k]
                       /\ outs' = [outs EXCEPT ![n] =
                                     [g \in Face(n) |-> IF g \in hops THEN k ELSE @[g]]]
  BY <1>2, Zenon DEF Heard
<1>3. CASE ~ findDuplicateNonce(n, k) \/ ~ UNCHANGED <<ins, outs>>
  <2>1. PICK hops : /\ n \in Node /\ f \in Face(n) /\ k \in Nonce
                    /\ ins' = [ins EXCEPT ![n][f] = k]
                    /\ outs' = [outs EXCEPT ![n] =
                                  [g \in Face(n) |-> IF g \in hops THEN k ELSE @[g]]]
    BY <1>2, <1>3
  <2>2. \A m \in Node : \A g \in Face(m) :
          ins'[m][g] = IF m = n /\ g = f THEN k ELSE ins[m][g]
    BY <1>0, <2>1
  <2>3. \A m \in Node : \A g \in Face(m) :
          outs'[m][g] = outs[m][g] \/ (m = n /\ outs'[m][g] = k)
    BY <1>0, <2>1
  <2>4. k # NoNonce
    BY <2>1 DEF Nonce, NoNonce
  <2> QED
    BY <2>1, <2>2, <2>3, <2>4 DEF InFaces
<1> QED
  BY <1>1, <1>3

\* What it sends on is the Interest it is in.
LEMMA HeardMoves ==
  ASSUME NetTypes, NEW P, NEW n, NEW f, NEW k, Heard(P, n, f, k)
  PROVE  \E faces : /\ Moves(P, n, AnInterest(k), faces)
                    /\ faces # {} => ~ findDuplicateNonce(n, k) /\ faces = Nexthops(n, InFaces(n) \cup {f})
                    /\ ~ findDuplicateNonce(n, k) => faces = Nexthops(n, InFaces(n) \cup {f})
BY Zenon DEF Heard

\* What an Interest leaves alone.
LEMMA HeardLeaves ==
  ASSUME NEW P, NEW n, NEW f, NEW k, Heard(P, n, f, k)
  PROVE  next' = next /\ settled' = settled /\ bld' = bld /\ got' = got /\ (started => started')
<1>1. next' = next /\ settled' = settled /\ bld' = bld /\ got' = got
  BY DEF Heard
<1>2. (started' = started) \/ \E b : started' = (started \/ b)
  BY DEF Heard
<1>3. started => started'
  BY <1>2, Zenon
<1> QED
  BY <1>1, <1>3

\* An Interest from a node that has an in-record itself keeps the subscriptions
\* in order.
LEMMA HeardSubscriptions ==
  ASSUME NetTypes, SubscriptionInv, NEW P, NEW n, NEW f, NEW k, Heard(P, n, f, k),
         f \in Node => InFaces(f) # {},
         \A c \in Consumer : asks[c] <= asks'[c] /\ asks[c] \in Int /\ asks'[c] \in Int,
         Known(asks', k)
  PROVE  /\ NoncesAsked'
         /\ \A l \in Link : \A i \in At(l)' : InterestAt(l, i)' => InFaces(l[1])' # {}
         /\ \A m \in Node : \A g \in InFaces(m)' \cap Node : InFaces(g)' # {}
         /\ started' => InFaces(Root)' # {} /\ MaxAsks > 0
<1>1. PICK faces : /\ Moves(P, n, AnInterest(k), faces)
                   /\ faces # {} => ~ findDuplicateNonce(n, k)
  BY HeardMoves
<1>2. k \in Nonce /\ n \in Node /\ wire \in [Link -> Seq(Packet)]
  BY DEF Heard, NetTypes
<1>3. \A l \in Link : \A i \in At(l)' : InterestAt(l, i)' =>
        \/ \E j \in At(l) : wire'[l][i] = wire[l][j] /\ InterestAt(l, j)
        \/ l[1] = n /\ wire'[l][i].nonce = k /\ f \in InFaces(n)'
  <2> SUFFICES ASSUME NEW l \in Link, NEW i \in At(l)', InterestAt(l, i)'
               PROVE  \/ \E j \in At(l) : wire'[l][i] = wire[l][j] /\ InterestAt(l, j)
                      \/ l[1] = n /\ wire'[l][i].nonce = k /\ f \in InFaces(n)'
    OBVIOUS
  <2>1. \/ \E j \in At(l) : wire'[l][i] = wire[l][j]
        \/ l[1] = n /\ l[2] \in faces /\ wire'[l][i] = AnInterest(k)
    BY <1>1, <1>2, Packets, MovedFrom
  <2>2. CASE \E j \in At(l) : wire'[l][i] = wire[l][j]
    BY <2>2 DEF InterestAt
  <2>3. CASE l[1] = n /\ l[2] \in faces /\ wire'[l][i] = AnInterest(k)
    <3>1. f \in InFaces(n)'
      BY <1>1, <2>3, HeardRecords
    <3> QED
      BY <1>2, <2>3, <3>1, Packets
  <2> QED
    BY <2>1, <2>2, <2>3
<1>4. \A q \in Nonce \cup {NoNonce} : Known(asks, q) => Known(asks', q)
  BY DEF Known, Nonce
<1>5. \A l \in Link : \A i \in At(l) : InterestAt(l, i) => wire[l][i].nonce \in Nonce
  BY <1>2, ByPlaces, Packets DEF InterestAt
<1>6. \A l \in Link : \A i \in At(l)' : InterestAt(l, i)' => Known(asks', wire'[l][i].nonce)
  <2> SUFFICES ASSUME NEW l \in Link, NEW i \in At(l)', InterestAt(l, i)'
               PROVE  Known(asks', wire'[l][i].nonce)
    OBVIOUS
  <2>1. CASE \E j \in At(l) : wire'[l][i] = wire[l][j] /\ InterestAt(l, j)
    <3>1. PICK j \in At(l) : wire'[l][i] = wire[l][j] /\ InterestAt(l, j)
      BY <2>1
    <3>2. Known(asks, wire[l][j].nonce) /\ wire[l][j].nonce \in Nonce
      BY <1>5, <3>1 DEF SubscriptionInv, NoncesAsked
    <3> QED
      BY <1>4, <3>1, <3>2
  <2>2. CASE wire'[l][i].nonce = k
    BY <2>2 DEF Known
  <2> QED
    BY <1>3, <2>1, <2>2
<1>7. ASSUME NEW m \in Node, NEW g \in Face(m) PROVE Known(asks', ins'[m][g]) /\ Known(asks', outs'[m][g])
  <2>1. /\ ins[m][g] \in Nonce \cup {NoNonce} /\ outs[m][g] \in Nonce \cup {NoNonce}
        /\ Known(asks, ins[m][g]) /\ Known(asks, outs[m][g])
    BY DEF NetTypes, TypeOK, SubscriptionInv, NoncesAsked
  <2>2. ins'[m][g] \in {ins[m][g], k} /\ outs'[m][g] \in {outs[m][g], k}
    BY HeardRecords
  <2>3. Known(asks', ins'[m][g])
    BY <2>1, <2>2, <1>4 DEF Known, Nonce
  <2>4. Known(asks', outs'[m][g])
    BY <2>1, <2>2, <1>4 DEF Known, Nonce
  <2> QED
    BY <2>3, <2>4
<1>8. NoncesAsked'
  BY <1>6, <1>7, Zenon DEF NoncesAsked
<1>9. \A l \in Link : \A i \in At(l)' : InterestAt(l, i)' => InFaces(l[1])' # {}
  BY <1>3, HeardRecords DEF SubscriptionInv
<1>10. ASSUME NEW m \in Node, NEW g \in InFaces(m)', g \in Node PROVE InFaces(g)' # {}
  <2>1. InFaces(g) # {}
    BY <1>10, HeardRecords DEF SubscriptionInv
  <2> QED
    BY <1>10, <2>1, HeardRecords
<1>11. started' => InFaces(Root)' # {} /\ MaxAsks > 0
  <2>1. MaxAsks > 0
    BY <1>2 DEF Nonce
  <2>2. started' => started \/ (n = Root /\ ~ findDuplicateNonce(n, k))
    BY Zenon DEF Heard
  <2>3. started => InFaces(Root)' # {}
    BY HeardRecords DEF SubscriptionInv
  <2>4. n = Root /\ ~ findDuplicateNonce(n, k) => InFaces(Root)' # {}
    BY HeardRecords
  <2> QED
    BY <2>1, <2>2, <2>3, <2>4
<1> QED
  BY <1>8, <1>9, <1>10, <1>11

\* Steps that bring no Interest anywhere keep the subscriptions as they are.
LEMMA QuietSubscriptions ==
  ASSUME NetTypes, SubscriptionInv, NEW P, NEW n, NEW p, NEW faces,
         p \in Packet \/ faces = {}, p \in Packet => p.type # "interest",
         Moves(P, n, p, faces), UNCHANGED <<ins, outs, asks, started>>,
         next' > 0 => started,
         settled' # {} => NoInterestUnderWay /\ \A c \in Consumer : asks[c] = MaxAsks
  PROVE  SubscriptionInv'
<1>1. wire \in [Link -> Seq(Packet)] /\ wire' \in [Link -> Seq(Packet)]
  BY Moved DEF NetTypes
<1>2. \A l \in Link : \A i \in At(l)' : InterestAt(l, i)' =>
        \E j \in At(l) : wire'[l][i] = wire[l][j] /\ InterestAt(l, j)
  <2> SUFFICES ASSUME NEW l \in Link, NEW i \in At(l)', InterestAt(l, i)'
               PROVE  \E j \in At(l) : wire'[l][i] = wire[l][j] /\ InterestAt(l, j)
    OBVIOUS
  <2>1. (\E j \in At(l) : wire'[l][i] = wire[l][j]) \/ (l[2] \in faces /\ wire'[l][i] = p)
    BY <1>1, MovedFrom
  <2> QED
    BY <2>1 DEF InterestAt
<1>3. \A m \in Node : InFaces(m)' = InFaces(m)
  BY DEF InFaces
<1>4. NoncesAsked'
  <2>1. \A m \in Node : \A f \in Face(m) : Known(asks', ins'[m][f]) /\ Known(asks', outs'[m][f])
    BY DEF SubscriptionInv, NoncesAsked, Known
  <2>2. \A l \in Link : \A i \in At(l)' : InterestAt(l, i)' => Known(asks', wire'[l][i].nonce)
    <3> SUFFICES ASSUME NEW l \in Link, NEW i \in At(l)', InterestAt(l, i)'
                 PROVE  Known(asks', wire'[l][i].nonce)
      OBVIOUS
    <3>1. PICK j \in At(l) : wire'[l][i] = wire[l][j] /\ InterestAt(l, j)
      BY <1>2
    <3>2. Known(asks, wire[l][j].nonce)
      BY <3>1 DEF SubscriptionInv, NoncesAsked
    <3> QED
      BY <3>1, <3>2 DEF Known
  <2> QED
    BY <2>1, <2>2, Zenon DEF NoncesAsked
<1>5. NoInterestUnderWay => NoInterestUnderWay'
  <2>1. NoInterestUnderWay <=> \A l \in Link : \A i \in At(l) : ~ InterestAt(l, i)
    BY <1>1, ByPlaces DEF InterestAt
  <2>2. InterestsByPlace'
    BY InterestPlaces, PTL
  <2> QED
    BY <1>1, <1>2, <2>1, <2>2 DEF InterestAt, InterestsByPlace
<1>6. \A l \in Link : \A i \in At(l)' : InterestAt(l, i)' => InFaces(l[1])' # {}
  BY <1>2, <1>3 DEF SubscriptionInv
<1> QED
  BY <1>3, <1>4, <1>5, <1>6 DEF SubscriptionInv

\* No records and no Interests at first.
LEMMA SubscriptionInit == Init => SubscriptionInv
<1> SUFFICES ASSUME Init PROVE SubscriptionInv
  OBVIOUS
<1>1. \A l \in Link : At(l) = {}
  BY DEF Init, At
<1>2. \A n \in Node : \A f \in Face(n) : ins[n][f] = NoNonce /\ outs[n][f] = NoNonce
  BY DEF Init
<1>3. \A n \in Node : InFaces(n) = {}
  BY <1>2 DEF InFaces
<1>4. \A c \in Consumer : asks[c] = 0
  BY DEF Init
<1>5. started = FALSE /\ next = 0 /\ settled = {}
  BY Zenon DEF Init
<1>6. NoncesAsked
  BY <1>1, <1>2 DEF NoncesAsked, Known
<1> QED
  BY <1>1, <1>3, <1>4, <1>5, <1>6 DEF SubscriptionInv

\* A consumer's new nonce is in no record yet: its node takes it.
LEMMA NewNonceTaken ==
  ASSUME NetTypes, SubscriptionInv, NEW c \in Consumer, asks[c] \in Nat
  PROVE  ~ findDuplicateNonce(c, <<c, asks[c] + 1>>)
<1> DEFINE k == <<c, asks[c] + 1>>
<1>1. ~ Known(asks, k)
  BY DEF Known, NoNonce
<1>2. \A f \in Face(c) : Known(asks, ins[c][f]) /\ Known(asks, outs[c][f])
  BY DEF SubscriptionInv, NoncesAsked
<1>3. DOMAIN ins[c] = Face(c) /\ DOMAIN outs[c] = Face(c)
  BY DEF NetTypes, TypeOK
<1> HIDE DEF k
<1>4. k \notin Range(ins[c]) /\ k \notin Range(outs[c])
  BY <1>1, <1>2, <1>3 DEF Range
<1> QED
  BY <1>4 DEF findDuplicateNonce, k

\* Every step keeps the subscriptions in order.
LEMMA SubscriptionStep == NetTypes /\ SubscriptionInv /\ [Next]_vars => SubscriptionInv'
<1> SUFFICES ASSUME NetTypes, SubscriptionInv, [Next]_vars PROVE SubscriptionInv'
  OBVIOUS
<1>0. /\ asks \in [Consumer -> 0 .. MaxAsks] /\ next \in 0 .. Stop
      /\ wire \in [Link -> Seq(Packet)]
  BY DEF NetTypes, TypeOK
<1>1. ASSUME NEW c \in Consumer, Ask(c) PROVE SubscriptionInv'
  <2> DEFINE k == <<c, asks[c] + 1>>
  <2>1. /\ Heard({}, c, App, k) /\ asks' = [asks EXCEPT ![c] = @ + 1]
        /\ asks[c] \in Nat /\ asks[c] < MaxAsks
    BY <1>1, AskIs
  <2>2. \A d \in Consumer : /\ asks[d] <= asks'[d] /\ asks[d] \in Int /\ asks'[d] \in Int
                            /\ asks'[d] = IF d = c THEN asks[d] + 1 ELSE asks[d]
    BY <1>0, <2>1
  <2>3. Known(asks', k)
    BY <2>2 DEF Known
  <2>4. ~ findDuplicateNonce(c, k)
    BY <2>1, NewNonceTaken
  <2> HIDE DEF k
  <2>5. /\ NoncesAsked'
        /\ \A l \in Link : \A i \in At(l)' : InterestAt(l, i)' => InFaces(l[1])' # {}
        /\ \A m \in Node : \A g \in InFaces(m)' \cap Node : InFaces(g)' # {}
        /\ started' => InFaces(Root)' # {} /\ MaxAsks > 0
    BY <2>1, <2>2, <2>3, HeardSubscriptions
  <2>6. \A d \in Consumer : asks'[d] > 0 => App \in InFaces(d)'
    <3>1. App \in InFaces(c)'
      BY <2>1, <2>4, HeardRecords
    <3>2. \A d \in Consumer : App \in InFaces(d) => App \in InFaces(d)'
      BY <2>1, HeardRecords
    <3> QED
      BY <2>2, <3>1, <3>2 DEF SubscriptionInv
  <2>7. next' = next /\ settled' = settled /\ (started => started')
    BY <2>1, HeardLeaves
  <2>8. settled' = {}
    BY <1>0, <2>1, <2>7 DEF SubscriptionInv
  <2> QED
    BY <2>5, <2>6, <2>7, <2>8 DEF SubscriptionInv
<1>2. ASSUME NEW l \in Link, ReceiveInterest(l) PROVE SubscriptionInv'
  <2> DEFINE k == wire[l][1].nonce
  <2>1. /\ Heard({l}, l[2], l[1], k) /\ asks' = asks
        /\ 1 \in At(l) /\ InterestAt(l, 1) /\ k \in Nonce
    BY <1>2, ReceiveInterestIs DEF InterestAt
  <2>2. InFaces(l[1]) # {} /\ Known(asks', k)
    BY <2>1 DEF SubscriptionInv, NoncesAsked
  <2>3. \A d \in Consumer : asks[d] <= asks'[d] /\ asks[d] \in Int /\ asks'[d] \in Int
    BY <1>0, <2>1
  <2> HIDE DEF k
  <2>4. /\ NoncesAsked'
        /\ \A m \in Link : \A i \in At(m)' : InterestAt(m, i)' => InFaces(m[1])' # {}
        /\ \A m \in Node : \A g \in InFaces(m)' \cap Node : InFaces(g)' # {}
        /\ started' => InFaces(Root)' # {} /\ MaxAsks > 0
    BY <2>1, <2>2, <2>3, HeardSubscriptions
  <2>5. \A d \in Consumer : asks'[d] > 0 => App \in InFaces(d)'
    BY <2>1, HeardRecords DEF SubscriptionInv
  <2>6. next' = next /\ settled' = settled /\ (started => started')
    BY <2>1, HeardLeaves
  <2>7. settled' = {}
    <3>1. ~ NoInterestUnderWay
      BY <1>0, <2>1, InterestPlaces DEF InterestAt, InterestsByPlace
    <3> QED
      BY <2>6, <3>1 DEF SubscriptionInv
  <2> QED
    BY <2>4, <2>5, <2>6, <2>7 DEF SubscriptionInv
<1>3. ASSUME NEW l \in Link, ReceiveData(l) PROVE SubscriptionInv'
  <2>1. PICK s \in Number : Carried({l}, l[2], l[1], s) /\ UNCHANGED <<next, settled>>
    BY <1>3, ReceiveDataIs
  <2>2. /\ Moves({l}, l[2], ADatum(s), Downstreams(l[2], l[1], s))
        /\ UNCHANGED <<ins, outs, asks, started>>
    BY <2>1 DEF Carried
  <2>3. /\ next' > 0 => started
        /\ settled' # {} => NoInterestUnderWay /\ \A c \in Consumer : asks[c] = MaxAsks
    BY <2>1 DEF SubscriptionInv
  <2>4. ADatum(s) \in Packet /\ ADatum(s).type # "interest"
    BY Packets
  <2> QED
    BY <2>2, <2>3, <2>4, QuietSubscriptions
<1>4. ASSUME Produce PROVE SubscriptionInv'
  <2>1. /\ Carried({}, Root, App, next) /\ next \in Number /\ started
        /\ settled' = IF NoInterestUnderWay /\ \A c \in Consumer : asks[c] = MaxAsks
                        THEN settled \cup {next} ELSE settled
    BY <1>4, ProduceIs
  <2>2. /\ Moves({}, Root, ADatum(next), Downstreams(Root, App, next))
        /\ UNCHANGED <<ins, outs, asks, started>>
    BY <2>1 DEF Carried
  <2>3. /\ next' > 0 => started
        /\ settled' # {} => NoInterestUnderWay /\ \A c \in Consumer : asks[c] = MaxAsks
    BY <2>1 DEF SubscriptionInv
  <2>4. ADatum(next) \in Packet /\ ADatum(next).type # "interest"
    BY <2>1, Packets
  <2> QED
    BY <2>2, <2>3, <2>4, QuietSubscriptions
<1>5. ASSUME NEW l \in Link, Lose(l) PROVE SubscriptionInv'
  <2>1. Moves({l}, Root, ADatum(0), {}) /\ UNCHANGED <<ins, outs, asks, started, next, settled>>
    BY <1>0, <1>5, SendMoves DEF Lose
  <2>2. /\ next' > 0 => started
        /\ settled' # {} => NoInterestUnderWay /\ \A c \in Consumer : asks[c] = MaxAsks
    BY <2>1 DEF SubscriptionInv
  <2>3. ADatum(0).type # "interest"
    BY DEF ADatum
  <2> QED
    BY <2>1, <2>2, <2>3, QuietSubscriptions
<1>6. CASE UNCHANGED vars
  <2>1. UNCHANGED <<wire, ins, outs, asks, started, next, settled>>
    BY <1>6 DEF vars
  <2>2. Moves({}, Root, ADatum(0), {})
    BY <1>0, <2>1, SendMoves
  <2>3. ADatum(0).type # "interest"
    BY DEF ADatum
  <2>4. /\ next' > 0 => started
        /\ settled' # {} => NoInterestUnderWay /\ \A c \in Consumer : asks[c] = MaxAsks
    BY <2>1 DEF SubscriptionInv
  <2> QED
    BY <2>1, <2>2, <2>3, <2>4, QuietSubscriptions
<1> QED
  BY <1>1, <1>2, <1>3, <1>4, <1>5, <1>6 DEF Next

-----------------------------------------------------------------------------
(* Where the Interests of a consumer have been.  The model keeps no trace   *)
(* of it (a renewal overwrites the nonces), so the invariant says that some *)
(* sets of nodes fit the records and the wires.                            *)

\* S holds every node with an in-record from one of S.
Upward(S) == \A m \in Node : InFaces(m) \cap S # {} => m \in S

HeardAt(heard) ==
  /\ heard \in [Consumer -> SUBSET Node]
  /\ \A c \in Consumer : asks[c] > 0 => c \in heard[c]
  /\ \A c \in Consumer : \A S \in SUBSET Node : c \in S /\ Upward(S) => heard[c] \subseteq S
  /\ \A n \in Node : \A k \in Nonce : findDuplicateNonce(n, k) => n \in heard[k[1]]
  /\ \A l \in Link : \A i \in At(l) : InterestAt(l, i) => l[1] \in heard[wire[l][i].nonce[1]]
  /\ \A c \in Consumer : \A n \in heard[c] : \A g \in Fib[n] \ {App} :
       g \in heard[c] \/ \E i \in At(<<n, g>>) : /\ InterestAt(<<n, g>>, i)
                                                 /\ wire[<<n, g>>][i].nonce[1] = c

HeardInv == \E heard : HeardAt(heard)

\* An Interest that comes to n has been at n too.
LEMMA HeardOn ==
  ASSUME FibOnLinks, NetTypes, NEW heard, HeardAt(heard), NEW P, NEW n, NEW f, NEW k,
         Heard(P, n, f, k),
         \A c \in Consumer : asks'[c] > 0 => asks[c] > 0 \/ (c = k[1] /\ c = n),
         f \in heard[k[1]] \/ (f = App /\ n = k[1]),
         \A l \in P : l \in Link /\ l[2] = n /\ wire[l][1] = AnInterest(k)
  PROVE  HeardInv'
<1> DEFINE c == k[1]
           new == [heard EXCEPT ![c] = @ \cup {n}]
<1>1. k \in Nonce /\ c \in Consumer /\ n \in Node /\ f \in Face(n)
  BY DEF Heard, Nonce
<1>2. /\ heard \in [Consumer -> SUBSET Node]
      /\ wire \in [Link -> Seq(Packet)]
  BY DEF HeardAt, NetTypes
<1>3. /\ new \in [Consumer -> SUBSET Node]
      /\ \A d \in Consumer : new[d] = IF d = c THEN heard[d] \cup {n} ELSE heard[d]
  BY <1>1, <1>2
<1> HIDE DEF new
<1>4. findDuplicateNonce(n, k) => n \in heard[c]
  BY <1>1 DEF HeardAt
<1>5. PICK faces : /\ Moves(P, n, AnInterest(k), faces)
                   /\ faces # {} => /\ ~ findDuplicateNonce(n, k)
                                    /\ faces = Nexthops(n, InFaces(n) \cup {f})
                   /\ ~ findDuplicateNonce(n, k) => faces = Nexthops(n, InFaces(n) \cup {f})
  <2> HIDE DEF c
  <2> QED
    BY Zenon DEF Heard
<1>6. AnInterest(k) \in Packet /\ AnInterest(k).type = "interest" /\ AnInterest(k).nonce = k
  BY <1>1, Packets
<1> HIDE DEF c
<1>7. \A d \in Consumer : asks'[d] > 0 => d \in new[d]
  BY <1>3 DEF HeardAt, c
<1>8. ASSUME NEW d \in Consumer, NEW S \in SUBSET Node, d \in S, Upward(S)'
      PROVE  new[d] \subseteq S
  <2>1. Upward(S)
    <3>1. \A m \in Node : InFaces(m) \subseteq InFaces(m)'
      BY HeardRecords
    <3> QED
      BY <1>8, <3>1 DEF Upward
  <2>2. heard[d] \subseteq S
    BY <1>8, <2>1 DEF HeardAt
  <2>3. d = c => n \in S
    <3> SUFFICES ASSUME d = c PROVE n \in S
      OBVIOUS
    <3>1. CASE findDuplicateNonce(n, k)
      BY <1>4, <2>2, <3>1
    <3>2. CASE f = App /\ n = k[1]
      BY <1>8, <3>2 DEF c
    <3>3. CASE ~ findDuplicateNonce(n, k) /\ f \in heard[c]
      <4>1. f \in InFaces(n)' /\ f \in S
        BY <2>2, <3>3, HeardRecords
      <4> QED
        BY <1>1, <1>8, <4>1 DEF Upward
    <3> QED
      BY <3>1, <3>2, <3>3 DEF c
  <2> QED
    BY <1>3, <2>2, <2>3
<1>9. ASSUME NEW m \in Node, NEW q \in Nonce, findDuplicateNonce(m, q)'
      PROVE  m \in new[q[1]]
  <2>0. q[1] \in Consumer
    BY DEF Nonce
  <2>1. findDuplicateNonce(m, q) \/ (m = n /\ q = k)
    <3>1. /\ DOMAIN ins[m] = Face(m) /\ DOMAIN outs[m] = Face(m)
          /\ DOMAIN ins'[m] = Face(m) /\ DOMAIN outs'[m] = Face(m)
      <4>1. DOMAIN ins[m] = Face(m) /\ DOMAIN outs[m] = Face(m)
        BY DEF NetTypes, TypeOK
      <4>2. DOMAIN ins'[m] = Face(m) /\ DOMAIN outs'[m] = Face(m)
        BY HeardTyped
      <4> QED
        BY <4>1, <4>2
    <3>2. \A g \in Face(m) : /\ ins'[m][g] = ins[m][g] \/ (m = n /\ ins'[m][g] = k)
                             /\ outs'[m][g] = outs[m][g] \/ (m = n /\ outs'[m][g] = k)
      BY HeardRecords
    <3>3. \E g \in Face(m) : ins'[m][g] = q \/ outs'[m][g] = q
      BY <1>9, <3>1 DEF findDuplicateNonce, Range
    <3>4. \A g \in Face(m) : ins[m][g] = q \/ outs[m][g] = q => findDuplicateNonce(m, q)
      BY <3>1 DEF findDuplicateNonce, Range
    <3> QED
      BY <3>2, <3>3, <3>4
  <2>2. findDuplicateNonce(m, q) => m \in heard[q[1]]
    BY DEF HeardAt
  <2> QED
    BY <1>3, <2>0, <2>1, <2>2 DEF c
<1>10. ASSUME NEW l \in Link, NEW i \in At(l)', InterestAt(l, i)'
       PROVE  l[1] \in new[wire'[l][i].nonce[1]]
  <2>1. \/ \E j \in At(l) : wire'[l][i] = wire[l][j]
        \/ l[1] = n /\ wire'[l][i] = AnInterest(k)
    BY <1>2, <1>5, <1>6, MovedFrom
  <2>2. CASE \E j \in At(l) : wire'[l][i] = wire[l][j]
    <3>1. PICK j \in At(l) : wire'[l][i] = wire[l][j]
      BY <2>2
    <3>2. InterestAt(l, j) /\ wire[l][j].nonce[1] \in Consumer
      <4>1. InterestAt(l, j)
        BY <1>10, <3>1 DEF InterestAt
      <4>2. wire[l][j].nonce \in Nonce
        BY <1>2, <4>1, ByPlaces, Packets DEF InterestAt
      <4> QED
        BY <4>1, <4>2 DEF Nonce
    <3>3. l[1] \in heard[wire[l][j].nonce[1]]
      BY <3>2 DEF HeardAt
    <3> QED
      BY <1>3, <3>1, <3>2, <3>3
  <2>3. CASE l[1] = n /\ wire'[l][i] = AnInterest(k)
    BY <1>1, <1>3, <1>6, <2>3 DEF c
  <2> QED
    BY <2>1, <2>2, <2>3
<1>11. ASSUME NEW d \in Consumer, NEW m \in new[d], NEW g \in Fib[m] \ {App}, g \notin new[d]
       PROVE  \E i \in At(<<m, g>>)' : /\ InterestAt(<<m, g>>, i)'
                                       /\ wire'[<<m, g>>][i].nonce[1] = d
  <2> DEFINE l == <<m, g>>
  <2>1. m \in Node /\ l \in Link /\ l[1] = m /\ l[2] = g
    BY <1>3, <1>11 DEF FibOnLinks, Face
  <2>2. g \notin heard[d] /\ ~ (d = c /\ g = n)
    BY <1>3, <1>11
  <2> HIDE DEF l
  <2>3. /\ Left(P, l) \in {0, 1} /\ Len(wire[l]) \in Nat
        /\ \A i \in At(l) : i > Left(P, l) =>
             i - Left(P, l) \in At(l)' /\ wire'[l][i - Left(P, l)] = wire[l][i]
        /\ l[1] = n /\ l[2] \in faces => \E i \in At(l)' : wire'[l][i] = AnInterest(k)
    BY <1>2, <1>5, <1>6, <2>1, Moved
  <2>4. CASE m \in heard[d]
    <3>1. PICK i \in At(l) : InterestAt(l, i) /\ wire[l][i].nonce[1] = d
      BY <1>11, <2>2, <2>4 DEF HeardAt, l
    <3>2. i > Left(P, l)
      <4> SUFFICES ASSUME l \in P PROVE i # 1
        BY <2>3 DEF Left, At
      <4>1. l[2] = n /\ wire[l][1].nonce = k
        BY <1>6
      <4> QED
        BY <2>1, <2>2, <3>1, <4>1 DEF c
    <3>3. i - Left(P, l) \in At(l)' /\ wire'[l][i - Left(P, l)] = wire[l][i]
      BY <2>3, <3>2
    <3> QED
      BY <3>1, <3>3 DEF InterestAt, l
  <2>5. CASE m \notin heard[d]
    <3>1. m = n /\ d = c
      BY <1>3, <1>11, <2>5
    <3>2. ~ findDuplicateNonce(n, k)
      BY <1>4, <2>5, <3>1
    <3>3. f # g
      BY <1>11, <2>2, <3>1 DEF c
    <3>4. g \in Nexthops(n, InFaces(n) \cup {f})
      BY <1>11, <3>1, <3>3 DEF Nexthops
    <3>5. \E i \in At(l)' : wire'[l][i] = AnInterest(k)
      BY <1>5, <2>1, <2>3, <3>1, <3>2, <3>4
    <3> QED
      BY <1>6, <3>1, <3>5 DEF InterestAt, c, l
  <2> QED
    BY <2>4, <2>5
<1>12. HeardAt(new)'
  BY <1>3, <1>7, <1>8, <1>9, <1>10, <1>11 DEF HeardAt
<1> QED
  BY <1>12 DEF HeardInv

\* Data does not touch what the Interests have left.
LEMMA HeardKept ==
  ASSUME NetTypes, FibOnLinks, NEW heard, HeardAt(heard), NEW P, NEW n, NEW s \in Number, NEW faces,
         Moves(P, n, ADatum(s), faces), UNCHANGED <<ins, outs, asks>>,
         \A l \in P : wire[l][1].type = "data"
  PROVE  HeardInv'
<1>1. wire \in [Link -> Seq(Packet)]
  BY DEF NetTypes
<1>2. ADatum(s) \in Packet /\ ADatum(s).type = "data"
  BY Packets
<1>3. \A m \in Node : InFaces(m)' = InFaces(m)
  BY DEF InFaces
<1>4. \A S \in SUBSET Node : Upward(S)' <=> Upward(S)
  BY <1>3 DEF Upward
<1>5. \A m \in Node : \A k \in Nonce : findDuplicateNonce(m, k)' <=> findDuplicateNonce(m, k)
  BY DEF findDuplicateNonce
<1>6. \A l \in Link : \A i \in At(l)' : InterestAt(l, i)' =>
        \E j \in At(l) : wire'[l][i] = wire[l][j] /\ InterestAt(l, j)
  <2> SUFFICES ASSUME NEW l \in Link, NEW i \in At(l)', InterestAt(l, i)'
               PROVE  \E j \in At(l) : wire'[l][i] = wire[l][j] /\ InterestAt(l, j)
    OBVIOUS
  <2>1. (\E j \in At(l) : wire'[l][i] = wire[l][j]) \/ wire'[l][i] = ADatum(s)
    BY <1>1, <1>2, MovedFrom
  <2> QED
    BY <1>2, <2>1 DEF InterestAt
<1>7. \A l \in Link : \A i \in At(l) : InterestAt(l, i) =>
        \E j \in At(l)' : wire'[l][j] = wire[l][i] /\ InterestAt(l, j)'
  <2> SUFFICES ASSUME NEW l \in Link, NEW i \in At(l), InterestAt(l, i)
               PROVE  \E j \in At(l)' : wire'[l][j] = wire[l][i] /\ InterestAt(l, j)'
    OBVIOUS
  <2>1. /\ Left(P, l) \in {0, 1} /\ Len(wire[l]) \in Nat
        /\ i > Left(P, l) => i - Left(P, l) \in At(l)' /\ wire'[l][i - Left(P, l)] = wire[l][i]
    BY <1>1, <1>2, Moved
  <2>2. i > Left(P, l)
    BY <2>1 DEF Left, At, InterestAt
  <2> QED
    BY <2>1, <2>2 DEF InterestAt
<1>8. \A l \in Link : \A i \in At(l)' : InterestAt(l, i)' => l[1] \in heard[wire'[l][i].nonce[1]]
  BY <1>6 DEF HeardAt
<1>9. ASSUME NEW c \in Consumer, NEW m \in heard[c], NEW g \in Fib[m] \ {App}, g \notin heard[c]
      PROVE  \E i \in At(<<m, g>>)' : /\ InterestAt(<<m, g>>, i)'
                                      /\ wire'[<<m, g>>][i].nonce[1] = c
  <2> DEFINE l == <<m, g>>
  <2>1. l \in Link
    BY <1>9 DEF HeardAt, FibOnLinks, Face
  <2>2. PICK i \in At(l) : InterestAt(l, i) /\ wire[l][i].nonce[1] = c
    BY <1>9 DEF HeardAt
  <2>3. PICK j \in At(l)' : wire'[l][j] = wire[l][i] /\ InterestAt(l, j)'
    BY <1>7, <2>1, <2>2
  <2> QED
    BY <2>2, <2>3
<1>10. HeardAt(heard)'
  BY <1>4, <1>5, <1>8, <1>9 DEF HeardAt
<1> QED
  BY <1>10 DEF HeardInv

\* Nobody has asked yet.
LEMMA HeardInit == Init => HeardInv
<1> SUFFICES ASSUME Init PROVE HeardInv
  OBVIOUS
<1> DEFINE none == [c \in Consumer |-> {}]
<1>1. /\ none \in [Consumer -> SUBSET Node]
      /\ \A c \in Consumer : none[c] = {}
  OBVIOUS
<1> HIDE DEF none
<1>2. \A c \in Consumer : asks[c] = 0
  BY DEF Init
<1>3. \A l \in Link : At(l) = {}
  BY DEF Init, At
<1>4. \A n \in Node : \A k \in Nonce : ~ findDuplicateNonce(n, k)
  <2>1. \A n \in Node : /\ ins[n] = [f \in Face(n) |-> NoNonce]
                        /\ outs[n] = [f \in Face(n) |-> NoNonce]
    BY DEF Init
  <2>2. \A k \in Nonce : k # NoNonce
    BY DEF Nonce, NoNonce
  <2> QED
    BY <2>1, <2>2 DEF findDuplicateNonce, Range
<1>5. HeardAt(none)
  BY <1>1, <1>2, <1>3, <1>4 DEF HeardAt
<1> QED
  BY <1>5 DEF HeardInv

\* Where no packet is lost, every step leaves such sets.
LEMMA HeardStep ==
  ASSUME FibOnLinks, ~ Lossy
  PROVE  NetTypes /\ HeardInv /\ [Next]_vars => HeardInv'
<1> SUFFICES ASSUME NetTypes, HeardInv, [Next]_vars PROVE HeardInv'
  OBVIOUS
<1>0. PICK heard : HeardAt(heard)
  BY DEF HeardInv
<1>1. ASSUME NEW c \in Consumer, Ask(c) PROVE HeardInv'
  <2> DEFINE k == <<c, asks[c] + 1>>
  <2>1. /\ Heard({}, c, App, k) /\ asks' = [asks EXCEPT ![c] = @ + 1] /\ k[1] = c
    BY <1>1, AskIs
  <2>2. \A d \in Consumer : asks'[d] > 0 => asks[d] > 0 \/ (d = k[1] /\ d = c)
    <3>1. asks \in [Consumer -> 0 .. MaxAsks]
      BY DEF NetTypes, TypeOK
    <3> QED
      BY <2>1, <3>1
  <2> HIDE DEF k
  <2> QED
    BY <1>0, <2>1, <2>2, HeardOn
<1>2. ASSUME NEW l \in Link, ReceiveInterest(l) PROVE HeardInv'
  <2> DEFINE k == wire[l][1].nonce
  <2>1. /\ Heard({l}, l[2], l[1], k) /\ asks' = asks
        /\ 1 \in At(l) /\ wire[l][1].type = "interest" /\ k \in Nonce
    BY <1>2, ReceiveInterestIs
  <2>2. l[1] \in heard[k[1]]
    BY <1>0, <2>1 DEF HeardAt, InterestAt
  <2>3. wire[l][1] = AnInterest(k)
    <3>1. wire[l][1] \in Packet
      BY <2>1, ByPlaces DEF NetTypes
    <3>2. wire[l][1] \in Interest
      BY <2>1, <3>1 DEF Packet, Data
    <3> QED
      BY <3>2 DEF Interest, AnInterest
  <2> HIDE DEF k
  <2> QED
    BY <1>0, <2>1, <2>2, <2>3, HeardOn
<1>3. ASSUME NEW l \in Link, ReceiveData(l) PROVE HeardInv'
  <2>1. PICK s \in Number : Carried({l}, l[2], l[1], s) /\ wire[l][1] = ADatum(s)
    BY <1>3, ReceiveDataIs
  <2>2. /\ Moves({l}, l[2], ADatum(s), Downstreams(l[2], l[1], s))
        /\ UNCHANGED <<ins, outs, asks>>
    BY <2>1 DEF Carried
  <2>3. ADatum(s).type = "data"
    BY Packets
  <2> QED
    BY <1>0, <2>1, <2>2, <2>3, HeardKept
<1>4. ASSUME Produce PROVE HeardInv'
  <2>1. Carried({}, Root, App, next) /\ next \in Number
    BY <1>4, ProduceIs
  <2>2. /\ Moves({}, Root, ADatum(next), Downstreams(Root, App, next))
        /\ UNCHANGED <<ins, outs, asks>>
    BY <2>1 DEF Carried
  <2> QED
    BY <1>0, <2>1, <2>2, HeardKept
<1>5. ASSUME NEW l \in Link, Lose(l) PROVE HeardInv'
  BY <1>5 DEF Lose
<1>6. CASE UNCHANGED vars
  <2>1. UNCHANGED <<wire, ins, outs, asks>>
    BY <1>6 DEF vars
  <2>2. /\ \A n \in Node : InFaces(n)' = InFaces(n)
        /\ \A n \in Node : \A k \in Nonce : findDuplicateNonce(n, k)' <=> findDuplicateNonce(n, k)
        /\ \A l : At(l)' = At(l) /\ \A i : InterestAt(l, i)' <=> InterestAt(l, i)
    BY <2>1 DEF InFaces, findDuplicateNonce, At, InterestAt
  <2>3. \A S : Upward(S)' <=> Upward(S)
    BY <2>2 DEF Upward
  <2>4. HeardAt(heard)'
    BY <1>0, <2>1, <2>2, <2>3 DEF HeardAt
  <2> QED
    BY <2>4 DEF HeardInv
<1> QED
  BY <1>1, <1>2, <1>3, <1>4, <1>5, <1>6 DEF Next

\* Once a number is settled, the in-records lead from every consumer to the
\* producer's node.
LEMMA RootSubscribed ==
  ASSUME FibOnLinks, LeadsToRoot, NetTypes, SubscriptionInv, HeardInv, settled # {},
         NEW c \in Consumer, NEW S \in SUBSET Node, c \in S, Upward(S)
  PROVE  Root \in S
<1>1. PICK heard : HeardAt(heard)
  BY DEF HeardInv
<1>2. next > 0
  BY DEF NetTypes, TypeOK
<1>3. c \in heard[c]
  BY <1>1, <1>2 DEF SubscriptionInv, HeardAt
<1>4. \A n \in heard[c] : Fib[n] \ {App} \subseteq heard[c]
  <2>1. NoInterestUnderWay /\ wire \in [Link -> Seq(Packet)]
    BY DEF SubscriptionInv, NetTypes
  <2>2. \A l : (\E i \in At(l) : InterestAt(l, i)) => l \notin Link
    BY <2>1, ByPlaces DEF InterestAt
  <2>3. \A n \in heard[c] : \A g \in Fib[n] \ {App} : g \notin heard[c] => <<n, g>> \in Link
    BY <1>1 DEF HeardAt, FibOnLinks, Face
  <2>4. \A n \in heard[c] : \A g \in Fib[n] \ {App} :
          g \in heard[c] \/ \E i \in At(<<n, g>>) : InterestAt(<<n, g>>, i)
    BY <1>1 DEF HeardAt
  <2> QED
    BY <2>2, <2>3, <2>4
<1>5. heard[c] \in SUBSET Node /\ heard[c] \subseteq S
  BY <1>1 DEF HeardAt
<1>6. Root \in heard[c]
  BY <1>3, <1>4, <1>5 DEF LeadsToRoot
<1> QED
  BY <1>5, <1>6

-----------------------------------------------------------------------------
(* The numbers.                                                            *)
Newest(n) == NewestIn(bld[n])
DataAt(l, i, s) == wire[l][i] = ADatum(s)

NumbersInv ==
  /\ \A l \in Link : \A i \in At(l) : \A s \in Number :
       DataAt(l, i, s) => s < next /\ next <= s + Size
  /\ \A n \in Node : (bld[n].bits = {} => bld[n].highest = 0) /\ Newest(n) < next
  /\ \A c \in Consumer : \A s \in Number : s >= next => got[c][s] = 0
  /\ \A s \in settled : \A t \in s .. next - 1 : t \in settled

\* Where the numbers of S have come to, in the order they were sent: every
\* sender of one has seen it; every neighbour with an in-record at a node that
\* has seen it has seen it or is about to; a later number overtakes none; a
\* node recalls what is recent; consumers have what their node has seen.
Ahead(S) ==
  \A l \in Link : \A i \in At(l) : \A s \in S :
    DataAt(l, i, s) => s <= Newest(l[1]) /\ l[2] \in InFaces(l[1])
Spread(S) ==
  \A l \in Link : \A s \in S :
    l[2] \in InFaces(l[1]) /\ s <= Newest(l[1]) =>
      s <= Newest(l[2]) \/ \E i \in At(l) : DataAt(l, i, s)
InOrder(S) ==
  \A l \in Link : \A i \in At(l) : \A s, t \in S :
    DataAt(l, i, s) /\ t < s =>
      t <= Newest(l[2]) \/ \E j \in At(l) : j < i /\ DataAt(l, j, t)
Recalling(S) == \A n \in Node : \A s \in S : Recent(bld[n], s) => Recalled(bld[n], s)
Handed(S) ==
  \A c \in Consumer : \A s \in S : /\ got[c][s] > 0 <=> s <= Newest(c)
                                   /\ s >= Size - 1 => got[c][s] < 2

Flow(S) == Ahead(S) /\ Spread(S) /\ InOrder(S) /\ Recalling(S) /\ Handed(S)

\* What number s is when it comes to n by face f.
Timely(S, n, f, s) ==
  /\ s \in S => /\ InFaces(n) # {}
                /\ f = App \/ s <= Newest(f)
                /\ \A t \in S : t < s => t <= Newest(n)
                /\ n \in Consumer => f # App /\ App \in InFaces(n)
                /\ Newest(n) < s + Size
  /\ s \notin S => \A t \in S : s < t

\* The highest numbers after it has come.
LEMMA CarriedNewest ==
  ASSUME Size > 1, NetTypes, NEW S \in SUBSET Number, NEW P, NEW n, NEW f, NEW s,
         bld[n].bits = {} => bld[n].highest = 0,
         Carried(P, n, f, s), Timely(S, n, f, s)
  PROVE  /\ \A m \in Node : Newest(m) \in Int /\ Newest(m)' \in Int /\ Newest(m) <= Newest(m)'
         /\ \A m \in Node : m # n => bld'[m] = bld[m]
         /\ \A m \in Node : \A t \in S : t <= Newest(m)' => t <= Newest(m) \/ (m = n /\ t = s)
         /\ s \in S => s <= Newest(n)'
         /\ Newest(n)' = Newest(n) \/ Newest(n)' = s
         /\ bld'[n] = bld[n] \/ bld'[n] = Add(bld[n], s)
<1>1. n \in Node /\ s \in Number /\ s \in Seqno /\ S \subseteq Int
  BY SizesAssumption DEF Carried, Number, Seqno
<1>2. bld \in [Node -> Vector]
  BY DEF NetTypes, TypeOK
<1>3. \A m \in Node : Newest(m) \in Int
  <2>1. \A v \in Vector : NewestIn(v) \in Int
    BY SizesAssumption DEF Vector, Seqno, NewestIn
  <2> QED
    BY <1>2, <2>1 DEF Newest
<1>4. \A m \in Node : m # n => bld'[m] = bld[m]
  BY <1>1, <1>2 DEF Carried
<1>5. \/ bld'[n] = bld[n] /\ (InFaces(n) = {} \/ Contains(bld[n], s))
      \/ bld'[n] = Add(bld[n], s)
  BY <1>1, <1>2 DEF Carried
<1>6. NewestIn(Add(bld[n], s)) = IF s > Newest(n) THEN s ELSE Newest(n)
  BY <1>1, <1>2, AddNewest DEF Newest
<1>7. \/ Newest(n)' = Newest(n) /\ (InFaces(n) = {} \/ s <= Newest(n))
      \/ Newest(n)' = IF s > Newest(n) THEN s ELSE Newest(n)
  <2>1. Contains(bld[n], s) => s <= Newest(n)
    BY <1>1, <1>2, ContainsRecent DEF Newest
  <2> QED
    BY <1>5, <1>6, <2>1 DEF Newest
<1>8. \A m \in Node : m # n => Newest(m)' = Newest(m)
  BY <1>4 DEF Newest
<1>9. Newest(n) \in Int /\ s \in Int
  BY <1>1, <1>3 DEF Number
<1>10. \A m \in Node : Newest(m)' \in Int /\ Newest(m) <= Newest(m)'
  BY <1>3, <1>7, <1>8, <1>9
<1>11. s \in S => s <= Newest(n)'
  BY <1>7, <1>9 DEF Timely
<1>12. ASSUME NEW m \in Node, NEW t \in S, t <= Newest(m)'
       PROVE  t <= Newest(m) \/ (m = n /\ t = s)
  <2>1. t \in Int
    BY <1>1
  <2> QED
    BY <1>7, <1>8, <1>9, <1>12, <2>1 DEF Timely
<1>13. Newest(n)' = Newest(n) \/ Newest(n)' = s
  BY <1>7
<1> QED
  BY <1>3, <1>4, <1>5, <1>10, <1>11, <1>12, <1>13

\* A number that comes to a node in time leaves the numbers of S, and itself, as
\* they should be.
LEMMA FlowCarried ==
  ASSUME Size > 1, NetTypes, NEW S \in SUBSET Number, Flow(S),
         NEW P, NEW n, NEW f, NEW s, bld[n].bits = {} => bld[n].highest = 0,
         Carried(P, n, f, s), Timely(S, n, f, s),
         \A l \in P : l \in Link /\ l[2] = n /\ DataAt(l, 1, s)
  PROVE  Flow(S)'
<1> DEFINE downs == Downstreams(n, f, s)
<1>1. /\ n \in Node /\ s \in Number /\ s \in Seqno /\ S \subseteq Int /\ s \in Int
      /\ S \subseteq Number
  BY SizesAssumption DEF Carried, Number, Seqno
<1>2. /\ wire \in [Link -> Seq(Packet)] /\ wire' \in [Link -> Seq(Packet)]
      /\ ADatum(s) \in Packet /\ Moves(P, n, ADatum(s), downs)
  BY <1>1, CarriedTyped, Packets DEF NetTypes, Carried
<1>3. /\ \A m \in Node : Newest(m) \in Int /\ Newest(m)' \in Int /\ Newest(m) <= Newest(m)'
      /\ \A m \in Node : m # n => bld'[m] = bld[m]
      /\ \A m \in Node : \A t \in S : t <= Newest(m)' => t <= Newest(m) \/ (m = n /\ t = s)
      /\ s \in S => s <= Newest(n)'
      /\ bld'[n] = bld[n] \/ bld'[n] = Add(bld[n], s)
  BY <1>1, CarriedNewest
<1>4. \A m \in Node : \A t \in S : t <= Newest(m) => t <= Newest(m)'
  BY <1>1, <1>3
<1>5. \A m \in Node : InFaces(m)' = InFaces(m)
  BY DEF Carried, InFaces
<1>6. /\ downs \subseteq InFaces(n) \ {f}
      /\ Contains(bld[n], s) => downs = {} /\ s <= Newest(n)
      /\ ~ Contains(bld[n], s) => downs = InFaces(n) \ {f}
  <2>1. bld[n] \in Vector
    BY <1>1 DEF NetTypes, TypeOK
  <2> QED
    BY <1>1, <2>1, ContainsRecent DEF Downstreams, Newest
<1>7. \A t, u \in Number : ADatum(t) = ADatum(u) => t = u
  BY Packets
<1> HIDE DEF downs
\* The places of the packets, before and after.
<1>8. ASSUME NEW l \in Link, NEW i \in At(l)', NEW t \in S, DataAt(l, i, t)'
      PROVE  \/ i + Left(P, l) \in At(l) /\ DataAt(l, i + Left(P, l), t)
             \/ l[1] = n /\ l[2] \in downs /\ t = s /\ i + Left(P, l) = Len(wire[l]) + 1
  <2>1. \/ i + Left(P, l) \in At(l) /\ wire'[l][i] = wire[l][i + Left(P, l)]
        \/ l[1] = n /\ l[2] \in downs /\ wire'[l][i] = ADatum(s) /\ i + Left(P, l) = Len(wire[l]) + 1
    BY <1>2, Moved
  <2> QED
    BY <1>1, <1>7, <1>8, <2>1 DEF DataAt
<1>9. ASSUME NEW l \in Link, NEW i \in At(l), NEW t \in S, DataAt(l, i, t)
      PROVE  \/ i - Left(P, l) \in At(l)' /\ DataAt(l, i - Left(P, l), t)'
             \/ l[2] = n /\ t = s /\ i = 1 /\ Left(P, l) = 1
  <2>1. /\ Left(P, l) \in {0, 1} /\ i \in Int /\ i > 0
        /\ i > Left(P, l) => i - Left(P, l) \in At(l)' /\ wire'[l][i - Left(P, l)] = wire[l][i]
    BY <1>2, Moved DEF At
  <2>2. CASE i > Left(P, l)
    BY <1>9, <2>1, <2>2 DEF DataAt
  <2>3. CASE ~ (i > Left(P, l))
    <3>1. i = 1 /\ Left(P, l) = 1 /\ l \in P
      BY <2>1, <2>3 DEF Left
    <3>2. wire[l][1] = ADatum(t) /\ wire[l][1] = ADatum(s) /\ l[2] = n
      BY <1>9, <3>1 DEF DataAt
    <3> QED
      BY <1>1, <1>7, <3>1, <3>2
  <2> QED
    BY <2>2, <2>3
<1>10. \A l \in Link : l[1] = n /\ l[2] \in downs => \E i \in At(l)' : DataAt(l, i, s)'
  BY <1>2, Moved DEF DataAt
<1>11. Ahead(S)'
  <2> SUFFICES ASSUME NEW l \in Link, NEW i \in At(l)', NEW t \in S, DataAt(l, i, t)'
               PROVE  t <= Newest(l[1])' /\ l[2] \in InFaces(l[1])'
    BY DEF Ahead
  <2>1. CASE i + Left(P, l) \in At(l) /\ DataAt(l, i + Left(P, l), t)
    <3>1. t <= Newest(l[1]) /\ l[2] \in InFaces(l[1])
      BY <2>1 DEF Flow, Ahead
    <3> QED
      BY <1>4, <1>5, <3>1
  <2>2. CASE l[1] = n /\ l[2] \in downs /\ t = s
    BY <1>3, <1>5, <1>6, <2>2
  <2> QED
    BY <1>8, <2>1, <2>2
<1>12. Spread(S)'
  <2> SUFFICES ASSUME NEW l \in Link, NEW t \in S, l[2] \in InFaces(l[1]), t <= Newest(l[1])'
               PROVE  t <= Newest(l[2])' \/ \E i \in At(l)' : DataAt(l, i, t)'
    BY <1>5 DEF Spread
  <2>1. CASE t <= Newest(l[1])
    <3>1. t <= Newest(l[2]) \/ \E i \in At(l) : DataAt(l, i, t)
      BY <2>1 DEF Flow, Spread
    <3>2. CASE t <= Newest(l[2])
      BY <1>4, <3>2
    <3>3. CASE \E i \in At(l) : DataAt(l, i, t)
      <4>1. PICK i \in At(l) : DataAt(l, i, t)
        BY <3>3
      <4>2. (i - Left(P, l) \in At(l)' /\ DataAt(l, i - Left(P, l), t)') \/ (l[2] = n /\ t = s)
        BY <1>9, <4>1
      <4> QED
        BY <1>3, <4>2
    <3> QED
      BY <3>1, <3>2, <3>3
  <2>2. CASE ~ (t <= Newest(l[1]))
    <3>1. l[1] = n /\ t = s
      BY <1>3, <2>2
    <3>2. ~ Contains(bld[n], s)
      BY <1>6, <2>2, <3>1
    <3>3. CASE l[2] = f
      <4>1. s <= Newest(f) /\ f \in Node
        BY <3>1, <3>3 DEF Timely
      <4> QED
        BY <1>4, <3>1, <3>3, <4>1
    <3>4. CASE l[2] # f
      <4>1. l[2] \in downs
        BY <1>6, <3>1, <3>2, <3>4
      <4> QED
        BY <1>10, <3>1, <4>1
    <3> QED
      BY <3>3, <3>4
  <2> QED
    BY <2>1, <2>2
<1>13. InOrder(S)'
  <2> SUFFICES ASSUME NEW l \in Link, NEW i \in At(l)', NEW u \in S, NEW t \in S,
                      DataAt(l, i, u)', t < u
               PROVE  t <= Newest(l[2])' \/ \E j \in At(l)' : j < i /\ DataAt(l, j, t)'
    BY DEF InOrder
  <2>0. i \in Int /\ Left(P, l) \in {0, 1} /\ At(l) \subseteq Int /\ Len(wire[l]) \in Int
    BY <1>2, Moved DEF At
  <2>1. ASSUME NEW j \in At(l), DataAt(l, j, t), j < i + Left(P, l)
        PROVE  t <= Newest(l[2])' \/ \E m \in At(l)' : m < i /\ DataAt(l, m, t)'
    <3>1. CASE j - Left(P, l) \in At(l)' /\ DataAt(l, j - Left(P, l), t)'
      <4>1. j - Left(P, l) < i
        BY <2>0, <2>1
      <4> QED
        BY <3>1, <4>1
    <3>2. CASE l[2] = n /\ t = s
      BY <1>3, <3>2
    <3> QED
      BY <1>9, <2>1, <3>1, <3>2
  <2>2. CASE i + Left(P, l) \in At(l) /\ DataAt(l, i + Left(P, l), u)
    <3>1. t <= Newest(l[2]) \/ \E j \in At(l) : j < i + Left(P, l) /\ DataAt(l, j, t)
      BY <2>2 DEF Flow, InOrder
    <3> QED
      BY <1>4, <2>1, <3>1
  <2>3. CASE l[1] = n /\ l[2] \in downs /\ u = s /\ i + Left(P, l) = Len(wire[l]) + 1
    <3>1. t <= Newest(l[1]) /\ l[2] \in InFaces(l[1])
      BY <1>6, <2>3 DEF Timely
    <3>2. t <= Newest(l[2]) \/ \E j \in At(l) : DataAt(l, j, t)
      BY <3>1 DEF Flow, Spread
    <3>3. \A j \in At(l) : j < i + Left(P, l)
      BY <2>0, <2>3 DEF At
    <3> QED
      BY <1>4, <2>1, <3>2, <3>3
  <2> QED
    BY <1>8, <2>2, <2>3
<1>14. Recalling(S)'
  <2> SUFFICES ASSUME NEW m \in Node, NEW t \in S, Recent(bld'[m], t)
               PROVE  Recalled(bld'[m], t)
    BY DEF Recalling
  <2>1. Recent(bld[m], t) => Recalled(bld[m], t)
    BY DEF Flow, Recalling
  <2>2. CASE bld'[m] = bld[m]
    BY <2>1, <2>2
  <2>3. CASE m = n /\ bld'[n] = Add(bld[n], s)
    <3>1. bld[n] \in Vector /\ t \in Int
      BY <1>1 DEF NetTypes, TypeOK
    <3>2. t <= NewestIn(bld[n]) \/ t = s
      BY <1>3, <2>3 DEF Recent, Newest
    <3> QED
      BY <1>1, <2>1, <2>3, <3>1, <3>2, AddRecalls
  <2> QED
    BY <1>3, <2>2, <2>3
<1>15. Handed(S)'
  <2> SUFFICES ASSUME NEW c \in Consumer, NEW t \in S
               PROVE  /\ got'[c][t] > 0 <=> t <= Newest(c)'
                      /\ t >= Size - 1 => got'[c][t] < 2
    BY DEF Handed
  <2>1. /\ got \in [Consumer -> [Number -> 0 .. 2]] /\ t \in Number /\ t \in Int /\ c \in Node
        /\ got[c][t] \in 0 .. 2
    BY <1>1 DEF NetTypes, TypeOK
  <2>2. got[c][t] > 0 <=> t <= Newest(c)
    BY DEF Flow, Handed
  <2>3. t >= Size - 1 => got[c][t] < 2
    BY DEF Flow, Handed
  <2>4. CASE got'[c][t] = got[c][t] /\ ~ (c = n /\ t = s)
    BY <1>3, <1>4, <2>1, <2>2, <2>3, <2>4
  <2>5. CASE c = n /\ t = s
    <3>1. f # App /\ App \in InFaces(n) /\ Newest(n) < s + Size
      BY <2>5 DEF Timely
    <3>2. t <= Newest(c)'
      BY <1>3, <2>5
    <3>3. CASE got[n][s] = 0
      <4>1. App \in downs
        BY <1>6, <2>2, <2>5, <3>1, <3>3
      <4>2. got'[n][s] = 1
        BY <2>1, <2>5, <3>3, <4>1 DEF Carried, downs
      <4> QED
        BY <2>5, <3>2, <4>2
    <3>4. CASE got[n][s] > 0
      <4>1. got'[n][s] = got[n][s] \/ (App \in downs /\ got'[n][s] > 0)
        BY <2>1, <2>5, <3>4 DEF Carried, downs
      <4>2. s >= Size - 1 => downs = {}
        <5>1. Recent(bld[n], s) /\ Recalled(bld[n], s)
          BY <1>1, <2>2, <2>5, <3>1, <3>4 DEF Recent, Newest, Flow, Recalling
        <5>2. bld[n] \in Vector
          BY <1>1 DEF NetTypes, TypeOK
        <5> QED
          BY <1>1, <1>6, <5>1, <5>2, ContainsRecent
      <4> QED
        BY <2>3, <2>5, <3>2, <3>4, <4>1, <4>2
    <3> QED
      BY <2>1, <2>5, <3>3, <3>4
  <2>6. got'[c][t] = got[c][t] \/ (c = n /\ t = s)
    BY <1>1, <2>1 DEF Carried
  <2> QED
    BY <2>4, <2>5, <2>6
<1> QED
  BY <1>11, <1>12, <1>13, <1>14, <1>15 DEF Flow

\* What a number does to the bitvectors, whatever is settled.
LEMMA CarriedVectors ==
  ASSUME Size > 1, NetTypes, NEW P, NEW n, NEW f, NEW s,
         bld[n].bits = {} => bld[n].highest = 0, Carried(P, n, f, s)
  PROVE  /\ \A m \in Node : m # n => bld'[m] = bld[m]
         /\ Newest(n)' = Newest(n) \/ Newest(n)' = s
         /\ bld'[n] = bld[n] \/ bld'[n] = Add(bld[n], s)
         /\ \A m \in Node : Newest(m) \in Int
<1>1. PICK none \in SUBSET Number : none = {}
  OBVIOUS
<1>2. Timely(none, n, f, s)
  BY <1>1 DEF Timely
<1>3. Newest(n)' = Newest(n) \/ Newest(n)' = s
  BY <1>2, CarriedNewest
<1>4. bld'[n] = bld[n] \/ bld'[n] = Add(bld[n], s)
  BY DEF Carried, NetTypes, TypeOK
<1>5. \A m \in Node : Newest(m) \in Int
  BY <1>2, CarriedNewest
<1>6. \A m \in Node : m # n => bld'[m] = bld[m]
  BY DEF Carried, NetTypes, TypeOK
<1> QED
  BY <1>3, <1>4, <1>5, <1>6

\* A window's numbers are under way at most, none is recorded or handed out
\* before it is sent, and all that follow a settled number are settled.
LEMMA NumbersCarried ==
  ASSUME Size > 1, NetTypes, NumbersInv, NEW P, NEW n, NEW f, NEW s, Carried(P, n, f, s),
         next \in Int, next' \in Int, s < next', next' <= s + Size, next <= next',
         \A l \in Link : \A i \in At(l) : \A t \in Number : DataAt(l, i, t) => next' <= t + Size,
         \A t \in settled' : \A u \in t .. next' - 1 : u \in settled'
  PROVE  NumbersInv'
<1>1. /\ n \in Node /\ s \in Number /\ s \in Seqno /\ s \in Int
      /\ wire \in [Link -> Seq(Packet)] /\ bld \in [Node -> Vector]
  BY SizesAssumption DEF Carried, Number, Seqno, NetTypes, TypeOK
<1>2. /\ \A m \in Node : m # n => bld'[m] = bld[m]
      /\ Newest(n)' = Newest(n) \/ Newest(n)' = s
      /\ bld'[n] = bld[n] \/ bld'[n] = Add(bld[n], s)
      /\ \A m \in Node : Newest(m) \in Int
  <2>1. bld[n].bits = {} => bld[n].highest = 0
    BY <1>1 DEF NumbersInv
  <2> QED
    BY <2>1, CarriedVectors
<1>3. \A l \in Link : \A i \in At(l)' : \A t \in Number :
        DataAt(l, i, t)' => t < next' /\ next' <= t + Size
  <2> SUFFICES ASSUME NEW l \in Link, NEW i \in At(l)', NEW t \in Number, DataAt(l, i, t)'
               PROVE  t < next' /\ next' <= t + Size
    OBVIOUS
  <2>1. ADatum(s) \in Packet /\ Moves(P, n, ADatum(s), Downstreams(n, f, s))
    BY <1>1, Packets DEF Carried
  <2>2. (\E j \in At(l) : wire'[l][i] = wire[l][j]) \/ wire'[l][i] = ADatum(s)
    BY <1>1, <2>1, MovedFrom
  <2>3. CASE wire'[l][i] = ADatum(s)
    <3>1. t = s
      <4>1. ADatum(t) = ADatum(s)
        BY <2>3 DEF DataAt
      <4>2. ADatum(t).seq = t /\ ADatum(s).seq = s
        BY <1>1, Packets
      <4> QED
        BY <4>1, <4>2
    <3> QED
      BY <3>1
  <2>4. CASE \E j \in At(l) : wire'[l][i] = wire[l][j]
    <3>1. PICK j \in At(l) : DataAt(l, j, t)
      BY <2>4 DEF DataAt
    <3>2. t < next /\ next' <= t + Size /\ t \in Int
      BY <3>1 DEF NumbersInv, Number
    <3> QED
      BY <3>2
  <2> QED
    BY <2>2, <2>3, <2>4
<1>4. ASSUME NEW m \in Node
      PROVE  (bld'[m].bits = {} => bld'[m].highest = 0) /\ Newest(m)' < next'
  <2>1. (bld[m].bits = {} => bld[m].highest = 0) /\ Newest(m) < next /\ Newest(m) \in Int
    BY <1>2 DEF NumbersInv
  <2>2. CASE bld'[m] = bld[m]
    BY <2>1, <2>2 DEF Newest
  <2>3. CASE m = n /\ bld'[n] = Add(bld[n], s)
    <3>1. bld'[m].bits = {} => bld'[m].highest = 0
      BY <1>1, <2>1, <2>3, AddShows
    <3>2. Newest(m)' < next'
      BY <1>1, <1>2, <2>1, <2>3
    <3> QED
      BY <3>1, <3>2
  <2> QED
    BY <1>2, <2>2, <2>3
<1>5. ASSUME NEW c \in Consumer, NEW t \in Number, t >= next'
      PROVE  got'[c][t] = 0
  <2>1. got \in [Consumer -> [Number -> 0 .. 2]] /\ t \in Int /\ t # s /\ t >= next
    BY <1>1, <1>5 DEF NetTypes, TypeOK, Number
  <2>2. got'[c][t] = got[c][t]
    BY <1>1, <2>1 DEF Carried
  <2> QED
    BY <2>1, <2>2 DEF NumbersInv
<1> QED
  BY <1>3, <1>4, <1>5 DEF NumbersInv

\* Other steps.
LEMMA NumbersKept ==
  ASSUME NetTypes, NumbersInv, UNCHANGED <<bld, next, got, settled>>,
         \A l \in Link : \A i \in At(l)' : \A t \in Number :
           DataAt(l, i, t)' => \E j \in At(l) : DataAt(l, j, t)
  PROVE  NumbersInv'
<1>1. \A n \in Node : Newest(n)' = Newest(n)
  BY DEF Newest
<1> QED
  BY <1>1 DEF NumbersInv

DataInv ==
  /\ NumbersInv
  /\ Flow(settled)
  /\ \A s \in settled : s <= Newest(Root)

\* Nothing has been sent.
LEMMA DataInit == Init => DataInv
<1> SUFFICES ASSUME Init PROVE DataInv
  OBVIOUS
<1>1. \A l \in Link : At(l) = {}
  BY DEF Init, At
<1>2. \A n \in Node : bld[n] = EmptyVector /\ Newest(n) = -1
  BY DEF Init, EmptyVector, Newest, NewestIn
<1>3. \A c \in Consumer : \A s \in Number : got[c][s] = 0
  BY DEF Init
<1>4. next = 0 /\ settled = {}
  BY Zenon DEF Init
<1>5. NumbersInv
  <2>1. \A n \in Node : (bld[n].bits = {} => bld[n].highest = 0) /\ Newest(n) < next
    BY <1>2, <1>4 DEF EmptyVector
  <2> QED
    BY <1>1, <1>3, <1>4, <2>1 DEF NumbersInv
<1>6. Flow(settled)
  BY <1>4 DEF Flow, Ahead, Spread, InOrder, Recalling, Handed
<1> QED
  BY <1>4, <1>5, <1>6 DEF DataInv

\* The flow of a set is that of the settled numbers when they are the set.
LEMMA FlowOf ==
  ASSUME NEW S, S = settled', Flow(S)'
  PROVE  Flow(settled)'
BY DEF Flow, Ahead, Spread, InOrder, Recalling, Handed

\* While nothing is settled there is nothing to keep.
LEMMA Unsettled == settled' = {} => Flow(settled)'
BY DEF Flow, Ahead, Spread, InOrder, Recalling, Handed

\* Every step keeps the flow of the settled numbers.
LEMMA DataStep ==
  ASSUME Size > 1, ~ Lossy, Root \notin Consumer
  PROVE  NetTypes /\ SubscriptionInv /\ DataInv /\ [Next]_vars => DataInv'
<1> SUFFICES ASSUME NetTypes, SubscriptionInv, DataInv, [Next]_vars PROVE DataInv'
  OBVIOUS
<1>0. /\ wire \in [Link -> Seq(Packet)] /\ next \in 0 .. Stop /\ settled \subseteq 0 .. next - 1
      /\ settled \subseteq Number /\ next \in Int /\ Number \subseteq Int
      /\ \A c \in Consumer : asks[c] \in 0 .. MaxAsks
      /\ NumbersInv
  BY DEF NetTypes, TypeOK, Number, DataInv
<1>1. ASSUME NEW P, NEW n, NEW f, NEW k, Heard(P, n, f, k), settled = {} PROVE DataInv'
  <2>1. /\ UNCHANGED <<bld, next, got, settled>>
        /\ AnInterest(k) \in Packet /\ AnInterest(k).type = "interest"
    BY <1>1, Packets DEF Heard
  <2>2. PICK faces : Moves(P, n, AnInterest(k), faces)
    BY <1>1, HeardMoves
  <2>3. \A l \in Link : \A i \in At(l)' : \A t \in Number :
          DataAt(l, i, t)' => \E j \in At(l) : DataAt(l, j, t)
    <3> SUFFICES ASSUME NEW l \in Link, NEW i \in At(l)', NEW t \in Number, DataAt(l, i, t)'
                 PROVE  \E j \in At(l) : DataAt(l, j, t)
      OBVIOUS
    <3>1. (\E j \in At(l) : wire'[l][i] = wire[l][j]) \/ wire'[l][i] = AnInterest(k)
      BY <1>0, <2>1, <2>2, MovedFrom
    <3>2. wire'[l][i].type = "data"
      BY <3>1, Packets DEF DataAt
    <3> QED
      BY <2>1, <3>1, <3>2 DEF DataAt
  <2>4. NumbersInv'
    BY <1>0, <2>1, <2>3, NumbersKept
  <2>5. settled' = {}
    BY <1>1, <2>1
  <2> QED
    BY <2>4, <2>5, Unsettled DEF DataInv
<1>2. ASSUME NEW c \in Consumer, Ask(c) PROVE DataInv'
  <2>1. Heard({}, c, App, <<c, asks[c] + 1>>) /\ asks[c] < MaxAsks
    BY <1>2, AskIs
  <2>2. settled = {}
    BY <1>0, <2>1 DEF SubscriptionInv
  <2> QED
    BY <1>1, <2>1, <2>2
<1>3. ASSUME NEW l \in Link, ReceiveInterest(l) PROVE DataInv'
  <2>1. /\ Heard({l}, l[2], l[1], wire[l][1].nonce)
        /\ 1 \in At(l) /\ wire[l][1].type = "interest"
    BY <1>3, ReceiveInterestIs
  <2>2. settled = {}
    BY <1>0, <2>1, ByPlaces DEF SubscriptionInv
  <2> QED
    BY <1>1, <2>1, <2>2
<1>4. ASSUME NEW l \in Link, ReceiveData(l) PROVE DataInv'
  <2>1. PICK s \in Number : /\ Carried({l}, l[2], l[1], s) /\ UNCHANGED <<next, settled>>
                            /\ 1 \in At(l) /\ DataAt(l, 1, s)
    BY <1>4, ReceiveDataIs DEF DataAt
  <2>2. s < next /\ next <= s + Size /\ s \in Int
    BY <1>0, <2>1 DEF NumbersInv
  <2>3. PICK S \in SUBSET Number : S = settled
    BY <1>0
  <2>4. Flow(S) /\ settled' = S
    BY <2>1, <2>3 DEF DataInv
  <2>5. Timely(S, l[2], l[1], s)
    <3>1. ASSUME s \in S
          PROVE  /\ InFaces(l[2]) # {} /\ s <= Newest(l[1])
                 /\ \A t \in S : t < s => t <= Newest(l[2])
                 /\ l[2] \in Consumer => l[1] # App /\ App \in InFaces(l[2])
                 /\ Newest(l[2]) < s + Size
      <4>1. s <= Newest(l[1]) /\ l[2] \in InFaces(l[1])
        BY <2>1, <2>4, <3>1 DEF Flow, Ahead
      <4>2. InFaces(l[2]) # {}
        BY <4>1 DEF SubscriptionInv
      <4>3. \A t \in S : t < s => t <= Newest(l[2])
        <5>1. \A j \in At(l) : ~ (j < 1)
          BY DEF At
        <5> QED
          BY <2>1, <2>4, <3>1, <5>1 DEF Flow, InOrder
      <4>4. l[2] \in Consumer => App \in InFaces(l[2])
        <5>1. next > 0 /\ MaxAsks > 0 /\ \A c \in Consumer : asks[c] = MaxAsks
          BY <1>0, <2>3, <3>1 DEF SubscriptionInv
        <5> QED
          BY <5>1 DEF SubscriptionInv
      <4>5. Newest(l[2]) < s + Size
        <5>1. \A v \in Vector : NewestIn(v) \in Int
          BY SizesAssumption DEF Vector, Seqno, NewestIn
        <5>2. Newest(l[2]) \in Int /\ Newest(l[2]) < next
          BY <1>0, <5>1 DEF NetTypes, TypeOK, Newest, NumbersInv
        <5> QED
          BY <1>0, <2>2, <5>2, SizesAssumption
      <4> QED
        BY <4>1, <4>2, <4>3, <4>4, <4>5
    <3>2. ASSUME s \notin S, NEW t \in S PROVE s < t
      <4>1. ~ (s \in t .. next - 1) /\ t \in Int
        BY <1>0, <2>3, <3>2 DEF NumbersInv
      <4> QED
        BY <1>0, <2>2, <4>1
    <3> QED
      BY <3>1, <3>2 DEF Timely
  <2>6. bld[l[2]].bits = {} => bld[l[2]].highest = 0
    BY <1>0 DEF NumbersInv
  <2>7. Flow(S)'
    BY <2>1, <2>4, <2>5, <2>6, FlowCarried
  <2>8. NumbersInv'
    <3>1. /\ s < next' /\ next' <= s + Size /\ next' \in Int /\ next <= next'
          /\ \A m \in Link : \A i \in At(m) : \A t \in Number : DataAt(m, i, t) => next' <= t + Size
          /\ \A t \in settled' : \A u \in t .. next' - 1 : u \in settled'
      BY <1>0, <2>1, <2>2 DEF NumbersInv
    <3> QED
      BY <1>0, <2>1, <3>1, NumbersCarried
  <2>9. \A t \in settled' : t <= Newest(Root)'
    <3>1. /\ \A m \in Node : Newest(m) \in Int /\ Newest(m)' \in Int /\ Newest(m) <= Newest(m)'
      BY <2>1, <2>5, <2>6, CarriedNewest
    <3>2. \A t \in S : t <= Newest(Root) /\ t \in Int
      BY <1>0, <2>3 DEF DataInv
    <3> QED
      BY <2>4, <3>1, <3>2
  <2> QED
    BY <2>4, <2>7, <2>8, <2>9, FlowOf DEF DataInv
<1>5. ASSUME Produce PROVE DataInv'
  <2>1. /\ Carried({}, Root, App, next) /\ next \in Number /\ next' = next + 1
        /\ started /\ WindowClear
        /\ settled' = IF NoInterestUnderWay /\ \A c \in Consumer : asks[c] = MaxAsks
                        THEN settled \cup {next} ELSE settled
    BY <1>5, ProduceIs
  <2>2. Newest(Root) < next /\ \A m \in Node : Newest(m) < next /\ Newest(m) \in Int
    <3>1. \A v \in Vector : NewestIn(v) \in Int
      BY SizesAssumption DEF Vector, Seqno, NewestIn
    <3> QED
      BY <1>0, <3>1 DEF NetTypes, TypeOK, Newest, NumbersInv
  <2>3. PICK S \in SUBSET Number : S = settled'
    BY <1>0, <2>1
  <2>4. Flow(S)
    <3>1. /\ \A l \in Link : \A i \in At(l) : ~ DataAt(l, i, next)
          /\ \A m \in Node : ~ (next <= Newest(m))
          /\ \A c \in Consumer : got[c][next] = 0
      BY <1>0, <2>1, <2>2 DEF NumbersInv
    <3>2. \A t \in S : t \in settled \/ t = next
      BY <2>1, <2>3
    <3>3. \A t \in settled : t < next
      BY <1>0
    <3>4. Flow(settled)
      BY DEF DataInv
    <3>5. Ahead(S)
      BY <3>1, <3>2, <3>4 DEF Flow, Ahead
    <3>6. Spread(S)
      BY <3>1, <3>2, <3>4 DEF Flow, Spread
    <3>7. InOrder(S)
      <4> SUFFICES ASSUME NEW l \in Link, NEW i \in At(l), NEW u \in S, NEW t \in S,
                          DataAt(l, i, u), t < u
                   PROVE  t <= Newest(l[2]) \/ \E j \in At(l) : j < i /\ DataAt(l, j, t)
        BY DEF InOrder
      <4>1. u \in settled
        BY <3>1, <3>2
      <4>2. t \in settled
        BY <1>0, <3>2, <3>3, <4>1
      <4> QED
        BY <3>4, <4>1, <4>2 DEF Flow, InOrder
    <3>8. Recalling(S)
      BY <3>1, <3>2, <3>4 DEF Flow, Recalling, Recent, Newest
    <3>9. Handed(S)
      BY <3>1, <3>2, <3>4 DEF Flow, Handed
    <3> QED
      BY <3>5, <3>6, <3>7, <3>8, <3>9 DEF Flow
  <2>5. \A t \in settled : next \in S
    BY <2>1, <2>3 DEF SubscriptionInv
  <2>6. Timely(S, Root, App, next)
    <3>1. InFaces(Root) # {} /\ Newest(Root) < next + Size
      BY <1>0, <2>1, <2>2, SizesAssumption DEF SubscriptionInv
    <3>2. \A t \in S : t < next => t <= Newest(Root)
      BY <1>0, <2>1, <2>3 DEF DataInv
    <3>3. next \notin S => S = {}
      BY <2>1, <2>3, <2>5
    <3> QED
      BY <3>1, <3>2, <3>3 DEF Timely
  <2>7. bld[Root].bits = {} => bld[Root].highest = 0
    BY <1>0 DEF NumbersInv
  <2>8. Flow(S)'
    BY <2>1, <2>4, <2>6, <2>7, FlowCarried
  <2>9. NumbersInv'
    <3>1. next < next' /\ next' <= next + Size /\ next' \in Int /\ next <= next'
      BY <1>0, <2>1, SizesAssumption
    <3>2. \A l \in Link : \A i \in At(l) : \A t \in Number : DataAt(l, i, t) => next' <= t + Size
      <4> SUFFICES ASSUME NEW l \in Link, NEW i \in At(l), NEW t \in Number, DataAt(l, i, t)
                   PROVE  next' <= t + Size
        OBVIOUS
      <4>1. t > next - Size /\ t \in Int
        BY <1>0, <2>1, ByPlaces, Packets DEF DataAt
      <4> QED
        BY <1>0, <2>1, <4>1, SizesAssumption
    <3>3. ASSUME NEW t \in settled', NEW u \in t .. next' - 1 PROVE u \in settled'
      <4>1. CASE t \in settled
        <5>1. next \in settled'
          BY <2>3, <2>5, <4>1
        <5>2. u \in settled \/ u = next
          BY <1>0, <2>1, <3>3, <4>1 DEF NumbersInv
        <5> QED
          BY <2>1, <5>1, <5>2
      <4>2. CASE t = next
        <5>1. u = next
          BY <1>0, <2>1, <3>3, <4>2
        <5> QED
          BY <3>3, <4>2, <5>1
      <4> QED
        BY <2>1, <3>3, <4>1, <4>2
    <3> QED
      BY <1>0, <2>1, <3>1, <3>2, <3>3, NumbersCarried
  <2>10. \A t \in settled' : t <= Newest(Root)'
    <3>1. /\ \A m \in Node : Newest(m) \in Int /\ Newest(m)' \in Int /\ Newest(m) <= Newest(m)'
          /\ next \in S => next <= Newest(Root)'
      BY <2>1, <2>6, <2>7, CarriedNewest
    <3>2. \A t \in S : t \in Int /\ (t <= Newest(Root) \/ t = next)
      BY <1>0, <2>1, <2>3 DEF DataInv
    <3> QED
      BY <2>3, <3>1, <3>2
  <2> QED
    BY <2>3, <2>8, <2>9, <2>10, FlowOf DEF DataInv
<1>6. ASSUME NEW l \in Link, Lose(l) PROVE DataInv'
  BY <1>6 DEF Lose
<1>7. CASE UNCHANGED vars
  <2>1. UNCHANGED <<wire, ins, bld, next, got, settled>>
    BY <1>7 DEF vars
  <2>2. /\ \A n : Newest(n)' = Newest(n) /\ InFaces(n)' = InFaces(n)
        /\ \A l : At(l)' = At(l)
        /\ \A l, i, s : DataAt(l, i, s)' <=> DataAt(l, i, s)
    BY <2>1 DEF Newest, InFaces, At, DataAt
  <2>3. NumbersInv'
    BY <1>0, <2>1, <2>2, NumbersKept
  <2>4. Flow(settled)'
    BY <2>1, <2>2 DEF DataInv, Flow, Ahead, Spread, InOrder, Recalling, Handed
  <2> QED
    BY <2>1, <2>2, <2>3, <2>4 DEF DataInv
<1> QED
  BY <1>2, <1>3, <1>4, <1>5, <1>6, <1>7 DEF Next

\* All of it.
NetInv == NetTypes /\ SubscriptionInv /\ DataInv

\* Whatever the graph and the length of the bitvector, no consumer gets a second
\* copy of a number sent since the last Interest had arrived everywhere, once the
\* stream has filled a window, where links lose nothing (onIncomingData of
\* forwarder.cpp).
THEOREM NoDuplicateDeliveredHolds ==
  ASSUME ~ Lossy, Size > 1, Root \notin Consumer
  PROVE  Spec => []NoDuplicateDelivered
<1>1. Init => NetInv
  BY NetTypesInit, SubscriptionInit, DataInit DEF NetInv
<1>2. NetInv /\ [Next]_vars => NetInv'
  BY NetTypesStep, SubscriptionStep, DataStep DEF NetInv
<1>3. NetInv => NoDuplicateDelivered
  BY DEF NetInv, DataInv, Flow, Handed, NoDuplicateDelivered
<1> QED
  BY <1>1, <1>2, <1>3, PTL DEF Spec

\* Who has seen s and an in-record's face of his who has not have s between them
\* (Spread); once nothing is under way there are no two such nodes on the way of
\* the in-records from a consumer to the producer's node, which has seen s.
LEMMA ServedByInv ==
  ASSUME FibOnLinks, LeadsToRoot, NetInv, HeardInv
  PROVE  SubscribersServed
<1> SUFFICES ASSUME ~ DataUnderWay, NEW s \in settled, NEW c \in Consumer PROVE got[c][s] > 0
  BY DEF SubscribersServed
<1>1. wire \in [Link -> Seq(Packet)] /\ s \in Number
  BY DEF NetInv, NetTypes, TypeOK, Number
<1>2. \A l \in Link : \A i \in At(l) : ~ DataAt(l, i, s)
  BY <1>1, ByPlaces DEF DataAt
<1> DEFINE S == {m \in Node : s <= Newest(m) => s <= Newest(c)}
<1>3. c \in S /\ S \in SUBSET Node
  OBVIOUS
<1>4. Upward(S)
  <2> SUFFICES ASSUME NEW m \in Node, NEW g \in InFaces(m) \cap S, s <= Newest(m)
               PROVE  s <= Newest(c)
    BY DEF Upward
  <2> DEFINE l == <<m, g>>
  <2>1. l \in Link /\ l[1] = m /\ l[2] = g
    BY DEF InFaces, Face
  <2> HIDE DEF l
  <2>2. s <= Newest(g)
    BY <1>2, <2>1 DEF NetInv, DataInv, Flow, Spread
  <2> QED
    BY <2>2
<1>5. Root \in S
  <2> HIDE DEF S
  <2> QED
    BY <1>3, <1>4, RootSubscribed DEF NetInv
<1>6. s <= Newest(c)
  BY <1>5 DEF NetInv, DataInv
<1> QED
  BY <1>6 DEF NetInv, DataInv, Flow, Handed

\* And every consumer gets every such number, where the FIB leads to the producer:
\* the bitvector drops no first copy (onIncomingData of forwarder.cpp).
THEOREM SubscribersServedHolds ==
  ASSUME ~ Lossy, Size > 1, Root \notin Consumer, FibOnLinks, LeadsToRoot
  PROVE  Spec => []SubscribersServed
<1>1. Init => NetInv /\ HeardInv
  BY NetTypesInit, SubscriptionInit, DataInit, HeardInit DEF NetInv
<1>2. NetInv /\ HeardInv /\ [Next]_vars => NetInv' /\ HeardInv'
  BY NetTypesStep, SubscriptionStep, DataStep, HeardStep DEF NetInv
<1>3. NetInv /\ HeardInv => SubscribersServed
  BY ServedByInv
<1> QED
  BY <1>1, <1>2, <1>3, PTL DEF Spec
=============================================================================
