------------------------- MODULE LowestCostStrategyProofs --------------------------
(* For any FIB, probes and losses: records stay sound, one for each face; the       *)
(* teardown of the last downstream always has an upstream; tainted probes are        *)
(* accounted for and find the way back; probes are measured where they are sent; and *)
(* with one Persistent Interest under the prefix, whoever asks for it, every working *)
(* face it was sent on and given up is pending its teardown.                         *)
EXTENDS LowestCostStrategy, SequenceTheorems, WellFoundedInduction, TLAPS

\* The smallest member of a set of naturals.
LEMMA NatMin ==
  ASSUME NEW T, T \subseteq Nat, T # {}
  PROVE  \E m \in T : \A n \in T : m <= n
<1>1. PICK m \in T : \A n \in T : <<n, m>> \notin OpToRel(<, Nat)
  BY WFMin, NatLessThanWellFounded, Zenon
<1>2. ASSUME NEW n \in T PROVE ~ (n < m)
  BY <1>1, Zenon DEF OpToRel
<1> QED
  BY <1>2

-------------------------------------------------------------------------------------
(* The choice of the face ends in a next hop.                                       *)
LEMMA HopsAreFaces ==
  /\ DOMAIN NextHops \subseteq Nat
  /\ 1 \in DOMAIN NextHops
  /\ \A i \in DOMAIN NextHops : NextHops[i] \in Hops
  /\ Hops \subseteq Face
  /\ NoFace \notin Hops
BY StrategyAssumption DEF Hops, ToSet

LEMMA BestRouteIsHop ==
  ASSUME NEW e, NEW push
  PROVE  getFaceIdViaBestRoute(e, push) \in Hops
<1> DEFINE fit == {i \in DOMAIN NextHops : canForwardToLegacy(e, NextHops[i], push)}
<1>1. CASE fit = {}
  BY <1>1, HopsAreFaces DEF getFaceIdViaBestRoute
<1>2. CASE fit # {}
  <2>1. \E i \in fit : \A j \in fit : i <= j
    <3>1. fit \subseteq Nat
      BY HopsAreFaces
    <3> HIDE DEF fit
    <3> QED
      BY <1>2, <3>1, NatMin
  <2>2. (CHOOSE i \in fit : \A j \in fit : i <= j) \in fit
    <3> HIDE DEF fit
    <3> QED
      BY <2>1
  <2> QED
    BY <1>2, <2>2, HopsAreFaces DEF getFaceIdViaBestRoute
<1> QED
  BY <1>1, <1>2

LEMMA StartedIsHop ==
  ASSUME NEW e, NEW push, working \in Hops \cup {NoFace}
  PROVE  started(e, push) \in Hops
BY BestRouteIsHop DEF started

\* A set of places in the list has one of the lowest loss, the first if there are several.
LEMMA LowestLossChosen ==
  ASSUME NEW I, I \subseteq DOMAIN NextHops, I # {}, NEW loss \in [Hops -> Levels]
  PROVE  lowestLoss(I, loss) \in I
<1> DEFINE l(i) == loss[NextHops[i]]
           L == {l(i) : i \in I}
<1>1. \A i \in I : l(i) \in Nat /\ i \in Nat
  <2>1. \A i \in I : NextHops[i] \in Hops /\ i \in Nat
    BY HopsAreFaces
  <2>2. \A g \in Hops : loss[g] \in Nat
    <3>1. Levels \subseteq Nat
      BY StrategyAssumption
    <3> QED
      BY <3>1
  <2> QED
    BY <2>1, <2>2
<1>2. PICK m \in L : \A n \in L : m <= n
  <2>1. L \subseteq Nat /\ L # {}
    BY <1>1
  <2> HIDE DEF L
  <2> QED
    BY <2>1, NatMin
<1> DEFINE F == {j \in I : l(j) = m}
<1>3. PICK i \in F : \A k \in F : i <= k
  <2>1. F \subseteq Nat /\ F # {}
    BY <1>1, <1>2
  <2> HIDE DEF F
  <2> QED
    BY <2>1, NatMin
<1>4. ASSUME NEW j \in I PROVE l(i) < l(j) \/ (l(i) = l(j) /\ i <= j)
  <2>1. m <= l(j) /\ l(i) = m /\ l(j) \in Nat /\ m \in Nat
    BY <1>1, <1>2, <1>3
  <2> QED
    BY <2>1, <1>3
<1>5. \E k \in I : \A j \in I : l(k) < l(j) \/ (l(k) = l(j) /\ k <= j)
  BY <1>3, <1>4
<1> QED
  BY <1>5 DEF lowestLoss

LEMMA BetterIsHop ==
  ASSUME NEW e, NEW f, NEW now \in Hops, NEW loss \in [Hops -> Levels]
  PROVE  lookForBetterOutFaceId(e, f, now, loss) \in Hops
<1> DEFINE others == {i \in DOMAIN NextHops : NextHops[i] \notin {f, now}}
<1>1. others # {} => NextHops[lowestLoss(others, loss)] \in Hops
  <2> SUFFICES ASSUME others # {} PROVE NextHops[lowestLoss(others, loss)] \in Hops
    OBVIOUS
  <2>1. others \subseteq DOMAIN NextHops
    OBVIOUS
  <2>2. lowestLoss(others, loss) \in others
    <3> HIDE DEF others
    <3> QED
      BY <2>1, LowestLossChosen
  <2> QED
    BY <2>1, <2>2, HopsAreFaces
<1> QED
  BY <1>1, BestRouteIsHop DEF lookForBetterOutFaceId

-------------------------------------------------------------------------------------
(* The old face is torn down.                                                       *)
OneName == \A p, q \in PI : p = q

\* Strengthened with the faces being next hops and nothing asked before the start.
TornDownInv ==
  /\ working \in Hops \cup {NoFace}
  /\ pending \subseteq Hops
  /\ asked \in [PI -> SUBSET Hops]
  /\ working = NoFace => \A p \in PI : asked[p] = {}
  /\ OldFaceTornDown

\* What the two ways a PI's subscriptions can move do to the invariant.
LEMMA PersistentStep ==
  ASSUME TornDownInv, NEW p \in PI, NEW f \in Face, ReceivePersistent(p, f)
  PROVE  TornDownInv'
<1> DEFINE now == started(insertOrUpdateInRecord(entry[p], f), TRUE)
<1>1. now \in Hops /\ (working # NoFace => now = working)
  BY StartedIsHop DEF TornDownInv, started
<1> DEFINE out == getFaceViaId(notBack(f, now))
<1>2. /\ working' = now
      /\ asked' = [asked EXCEPT ![p] = @ \cup ({out} \cap {now})]
      /\ pending' = pending
  BY DEF ReceivePersistent
<1> HIDE DEF now, out
<1>3. asked' \in [PI -> SUBSET Hops]
  BY <1>1, <1>2 DEF TornDownInv
<1>4. OldFaceTornDown'
  <2> SUFFICES ASSUME NEW q \in PI PROVE asked'[q] \subseteq pending' \cup {working'}
    BY DEF OldFaceTornDown
  <2>1. asked'[q] \subseteq asked[q] \cup {now}
    BY <1>2 DEF TornDownInv
  <2>2. asked[q] \subseteq pending \cup {now}
    BY <1>1 DEF TornDownInv, OldFaceTornDown
  <2> QED
    BY <2>1, <2>2, <1>2
<1> QED
  BY <1>1, <1>2, <1>3, <1>4, HopsAreFaces DEF TornDownInv

LEMMA ProbeStep ==
  ASSUME TornDownInv, NEW n \in Probe, NEW f \in Face, ReceiveProbe(n, f)
  PROVE  TornDownInv'
<1> DEFINE e   == insertOrUpdateInRecord(entry[n], f)
           old == started(e, FALSE)
<1>1. old \in Hops /\ (working # NoFace => old = working)
  BY StartedIsHop DEF TornDownInv, started
<1>2. PICK loss \in [Hops -> Levels] :
        /\ working' = lookForBetterOutFaceId(e, f, old, loss)
        /\ pending' = Abandon(old, lookForBetterOutFaceId(e, f, old, loss))
        /\ asked' = asked
  BY DEF ReceiveProbe
<1> HIDE DEF e, old
<1>3. working' \in Hops
  BY <1>1, <1>2, BetterIsHop
<1>4. pending' \subseteq Hops /\ pending \subseteq pending' /\ (working' # old => old \in pending')
  BY <1>1, <1>2 DEF Abandon, TornDownInv
<1>5. OldFaceTornDown'
  <2> SUFFICES ASSUME NEW q \in PI PROVE asked'[q] \subseteq pending' \cup {working'}
    BY DEF OldFaceTornDown
  <2>1. asked[q] \subseteq pending \cup {old}
    BY <1>1 DEF TornDownInv, OldFaceTornDown
  <2> QED
    BY <2>1, <1>2, <1>4
<1> QED
  BY <1>2, <1>3, <1>4, <1>5, HopsAreFaces DEF TornDownInv

LEMMA PushDataStep ==
  ASSUME OneName, TornDownInv, NEW p \in PI, NEW f \in Face, ReceivePushData(p, f)
  PROVE  TornDownInv'
<1>1. CASE f = working
  <2>1. \A g \in pending : getFaceViaId(g) = g
    BY DEF TornDownInv, getFaceViaId
  <2>2. /\ asked' = [asked EXCEPT ![p] = @ \ {getFaceViaId(g) : g \in pending \ {working}}]
        /\ pending' = {} /\ working' = working
    BY <1>1 DEF ReceivePushData
  <2>3. asked' \in [PI -> SUBSET Hops] /\ \A q \in PI : asked'[q] \subseteq asked[q]
    BY <2>2 DEF TornDownInv
  <2>4. asked'[p] = asked[p] \ {getFaceViaId(g) : g \in pending \ {working}}
    BY <2>2 DEF TornDownInv
  <2>5. asked'[p] \subseteq {working}
    BY <2>1, <2>4 DEF TornDownInv, OldFaceTornDown
  <2>6. OldFaceTornDown'
    BY <2>2, <2>5 DEF OldFaceTornDown, OneName
  <2> QED
    BY <2>2, <2>3, <2>6 DEF TornDownInv
<1>2. CASE f # working
  BY <1>2 DEF ReceivePushData, TornDownInv, OldFaceTornDown
<1> QED
  BY <1>1, <1>2

\* Every other step leaves the faces alone or takes subscriptions away.
LEMMA LesserStep ==
  ASSUME TornDownInv, working' = working, pending' = pending, asked' \in [PI -> SUBSET Hops],
         \A q \in PI : asked'[q] \subseteq asked[q]
  PROVE  TornDownInv'
BY DEF TornDownInv, OldFaceTornDown

LEMMA TaintedProbeStep ==
  ASSUME TornDownInv, NEW n \in Probe, NEW f \in Face, ReceiveTaintedProbe(n, f)
  PROVE  TornDownInv'
<1> DEFINE now == started(insertOrUpdateInRecord(entry[n], f), FALSE)
<1>1. now \in Hops /\ (working # NoFace => now = working)
  BY StartedIsHop DEF TornDownInv, started
<1>2. working' = now /\ pending' = pending /\ asked' = asked
  BY DEF ReceiveTaintedProbe
<1> HIDE DEF now
<1> QED
  BY <1>1, <1>2, HopsAreFaces DEF TornDownInv, OldFaceTornDown

LEMMA TornDownStep ==
  ASSUME OneName, TornDownInv, [Next]_vars
  PROVE  TornDownInv'
<1>a. asked \in [PI -> SUBSET Hops]
  BY DEF TornDownInv
<1>1. ASSUME NEW p \in PI, NEW f \in Face, ReceiveTeardown(p, f) PROVE TornDownInv'
  <2>1. working' = working /\ pending' = pending
    BY <1>1 DEF ReceiveTeardown
  <2>2. \E told : asked' = [asked EXCEPT ![p] = @ \ told]
    BY <1>1 DEF ReceiveTeardown
  <2>3. asked' \in [PI -> SUBSET Hops] /\ \A q \in PI : asked'[q] \subseteq asked[q]
    BY <2>2, <1>a
  <2> QED
    BY <2>1, <2>3, LesserStep
<1>2. ASSUME NEW n \in Probe, NEW f \in Face,
             \/ \E tainted \in BOOLEAN : ReceiveProbeData(n, f, tainted)
             \/ ReceiveTaintedNack(n, f)
             \/ ProbeLost(n, f)
      PROVE  TornDownInv'
  <2>1. working' = working /\ pending' = pending /\ asked' = asked
    BY <1>2 DEF ReceiveProbeData, ReceiveTaintedNack, ProbeLost
  <2> QED
    BY <2>1, <1>a, LesserStep
<1>3. ASSUME NEW n \in Name, EntryExpires(n) PROVE TornDownInv'
  <2>1. /\ working' = working /\ pending' = pending
        /\ asked' = [p \in PI |-> IF p = n THEN {} ELSE asked[p]]
    BY <1>3 DEF EntryExpires
  <2>2. asked' \in [PI -> SUBSET Hops] /\ \A q \in PI : asked'[q] \subseteq asked[q]
    BY <2>1, <1>a
  <2> QED
    BY <2>1, <2>2, LesserStep
<1>4. CASE UNCHANGED vars
  BY <1>4, <1>a, LesserStep DEF vars
<1> QED
  BY <1>1, <1>2, <1>3, <1>4, PersistentStep, ProbeStep, PushDataStep, TaintedProbeStep DEF Next

\* With one Persistent Interest under the prefix, whoever asks for it, next hops included,
\* no working face it was sent on and given up is forgotten (lowest-cost-strategy.cpp:89).
THEOREM AbandonedFacesTornDown ==
  ASSUME OneName
  PROVE  Spec => []OldFaceTornDown
<1>1. Init => TornDownInv
  BY DEF Init, TornDownInv, OldFaceTornDown
<1>2. TornDownInv /\ [Next]_vars => TornDownInv'
  BY TornDownStep
<1>3. TornDownInv => OldFaceTornDown
  BY DEF TornDownInv
<1> QED
  BY <1>1, <1>2, <1>3, PTL DEF Spec

-------------------------------------------------------------------------------------
(* Entries are functions with the two fields, assigned one at a time.               *)
Shaped(e) == e = [in |-> e.in, out |-> e.out]

LEMMA FieldPut ==
  ASSUME NEW i, NEW o, NEW v
  PROVE  /\ [[in |-> i, out |-> o] EXCEPT !.in = v] = [in |-> v, out |-> o]
         /\ [[in |-> i, out |-> o] EXCEPT !.out = v] = [in |-> i, out |-> v]
OBVIOUS

-------------------------------------------------------------------------------------
(* The records of an entry: one per face, whatever is inserted, deleted or passed.  *)
OutFaceList(o) == [i \in DOMAIN o |-> o[i].face]

EntryOK(e) ==
  /\ Shaped(e)
  /\ e.in \in Seq(Face) /\ IsInjective(e.in)
  /\ e.out \in Seq(OutRecord) /\ IsInjective(OutFaceList(e.out))

\* A sequence without its i-th member.
LEMMA Removed ==
  ASSUME NEW S, NEW s \in Seq(S), NEW i \in 1 .. Len(s)
  PROVE  /\ RemoveAt(s, i) \in Seq(S)
         /\ Len(RemoveAt(s, i)) = Len(s) - 1
         /\ \A j \in 1 .. Len(s) - 1 : RemoveAt(s, i)[j] = IF j < i THEN s[j] ELSE s[j + 1]
<1> DEFINE u == SubSeq(s, 1, i - 1)
           v == SubSeq(s, i + 1, Len(s))
<1>1. /\ u \in Seq(S) /\ Len(u) = i - 1
      /\ \A j \in 1 .. i - 1 : u[j] = s[j]
  BY SubSeqProperties
<1>2. /\ v \in Seq(S) /\ Len(v) = Len(s) - i
      /\ \A j \in 1 .. Len(s) - i : v[j] = s[i + j]
  BY SubSeqProperties
<1> HIDE DEF u, v
<1>3. /\ u \o v \in Seq(S) /\ Len(u \o v) = Len(s) - 1
      /\ \A j \in 1 .. Len(s) - 1 : (u \o v)[j] = IF j < i THEN s[j] ELSE s[j + 1]
  <2>1. /\ u \o v \in Seq(S) /\ Len(u \o v) = Len(u) + Len(v)
        /\ \A j \in 1 .. Len(u) + Len(v) : (u \o v)[j] = IF j <= Len(u) THEN u[j] ELSE v[j - Len(u)]
    BY <1>1, <1>2, ConcatProperties, Zenon
  <2>2. ASSUME NEW j \in 1 .. Len(s) - 1
        PROVE  (u \o v)[j] = IF j < i THEN s[j] ELSE s[j + 1]
    <3>1. (u \o v)[j] = IF j <= i - 1 THEN u[j] ELSE v[j - (i - 1)]
      BY <1>1, <1>2, <2>1
    <3>2. j < i => u[j] = s[j]
      BY <1>1
    <3>3. ~ (j < i) => v[j - (i - 1)] = s[j + 1]
      BY <1>2
    <3> QED
      BY <3>1, <3>2, <3>3
  <2> QED
    BY <1>1, <1>2, <2>1, <2>2
<1> QED
  BY <1>3 DEF RemoveAt, u, v

\* The first place of a set of places is one of them.
LEMMA FirstPlace ==
  ASSUME NEW I, I \subseteq Nat, I # {}
  PROVE  Min(I) \in I
BY NatMin DEF Min

\* Deleting a face's in-record: one member goes, or none.
LEMMA InRecordGone ==
  ASSUME NEW s \in Seq(Face), NEW f
  PROVE  RemoveFirst(s, f) = s \/ \E i \in 1 .. Len(s) : RemoveFirst(s, f) = RemoveAt(s, i)
<1>1. CASE \E i \in 1 .. Len(s) : s[i] = f
  <2> DEFINE I == {i \in 1 .. Len(s) : s[i] = f}
  <2>1. Min(I) \in I
    <3>1. I \subseteq Nat /\ I # {}
      BY <1>1
    <3> HIDE DEF I
    <3> QED
      BY <3>1, FirstPlace
  <2>2. RemoveFirst(s, f) = RemoveAt(s, Min(I))
    BY <1>1, Zenon DEF RemoveFirst, SelectInSeq
  <2> QED
    BY <2>1, <2>2
<1>2. CASE ~ \E i \in 1 .. Len(s) : s[i] = f
  BY <1>2, Zenon DEF RemoveFirst
<1> QED
  BY <1>1, <1>2

\* Deleting a face's out-record.
OutWithout(s, g) == RemoveFirstMatch(s, LAMBDA r : r.face = g)

LEMMA OutRecordGone ==
  ASSUME NEW e, EntryOK(e), NEW g
  PROVE  IF g \in OutFaces(e)
         THEN \E i \in 1 .. Len(e.out) : OutWithout(e.out, g) = RemoveAt(e.out, i)
         ELSE OutWithout(e.out, g) = e.out
<1> DEFINE s == e.out
           o == OutWithout(s, g)
<1>0. g \in OutFaces(e) <=> \E i \in 1 .. Len(s) : s[i].face = g
  BY DEF OutFaces, EntryOK
<1>1. CASE \E i \in 1 .. Len(s) : s[i].face = g
  <2> DEFINE I == {i \in 1 .. Len(s) : s[i].face = g}
  <2>1. Min(I) \in I
    <3>1. I \subseteq Nat /\ I # {}
      BY <1>1
    <3> HIDE DEF I
    <3> QED
      BY <3>1, FirstPlace
  <2>2. o = RemoveAt(s, Min(I))
    BY <1>1, Zenon DEF OutWithout, RemoveFirstMatch, SelectInSeq
  <2> QED
    BY <1>0, <1>1, <2>1, <2>2
<1>2. CASE ~ \E i \in 1 .. Len(s) : s[i].face = g
  <2>1. o = s
    BY <1>2, Zenon DEF OutWithout, RemoveFirstMatch
  <2> QED
    BY <1>0, <1>2, <2>1
<1> QED
  BY <1>1, <1>2

\* Assigning a field keeps an entry one.
LEMMA InPut ==
  ASSUME NEW e, EntryOK(e), NEW v \in Seq(Face), IsInjective(v), NEW u, u = [e EXCEPT !.in = v]
  PROVE  EntryOK(u) /\ u.in = v /\ u.out = e.out
<1> DEFINE i == e.in
           o == e.out
<1>1. e = [in |-> i, out |-> o] /\ o \in Seq(OutRecord) /\ IsInjective(OutFaceList(o))
  BY DEF EntryOK, Shaped
<1> HIDE DEF i, o
<1>2. u = [[in |-> i, out |-> o] EXCEPT !.in = v]
  BY <1>1
<1>3. u = [in |-> v, out |-> o]
  BY <1>2, FieldPut, Zenon
<1>4. u.in = v /\ u.out = o
  BY <1>3
<1>5. EntryOK(u)
  BY <1>1, <1>3, <1>4, Zenon DEF EntryOK, Shaped
<1> QED
  BY <1>4, <1>5 DEF o

LEMMA OutPut ==
  ASSUME NEW e, EntryOK(e), NEW v \in Seq(OutRecord), IsInjective(OutFaceList(v)),
         NEW u, u = [e EXCEPT !.out = v]
  PROVE  EntryOK(u) /\ u.in = e.in /\ u.out = v
<1> DEFINE i == e.in
           o == e.out
<1>1. e = [in |-> i, out |-> o] /\ i \in Seq(Face) /\ IsInjective(i)
  BY DEF EntryOK, Shaped
<1> HIDE DEF i, o
<1>2. u = [[in |-> i, out |-> o] EXCEPT !.out = v]
  BY <1>1
<1>3. u = [in |-> i, out |-> v]
  BY <1>2, FieldPut, Zenon
<1>4. u.in = i /\ u.out = v
  BY <1>3
<1>5. EntryOK(u)
  BY <1>1, <1>3, <1>4, Zenon DEF EntryOK, Shaped
<1> QED
  BY <1>4, <1>5 DEF i

LEMMA InRecordDeleted ==
  ASSUME NEW e, EntryOK(e), NEW f
  PROVE  EntryOK(deleteInRecord(e, f)) /\ deleteInRecord(e, f).out = e.out
<1> DEFINE s == e.in
           v == RemoveFirst(s, f)
<1>1. s \in Seq(Face) /\ IsInjective(s)
  BY DEF EntryOK
<1>2. v \in Seq(Face) /\ IsInjective(v)
  <2>1. CASE v = s
    BY <1>1, <2>1
  <2>2. ASSUME NEW i \in 1 .. Len(s), v = RemoveAt(s, i)
        PROVE  v \in Seq(Face) /\ IsInjective(v)
    <3> HIDE DEF s, v
    <3>1. /\ v \in Seq(Face) /\ Len(v) = Len(s) - 1
          /\ \A j \in 1 .. Len(s) - 1 : v[j] = IF j < i THEN s[j] ELSE s[j + 1]
      BY <1>1, <2>2, Removed
    <3>2. \A j, k \in 1 .. Len(s) : s[j] = s[k] => j = k
      BY <1>1 DEF IsInjective
    <3>3. ASSUME NEW j \in 1 .. Len(v), NEW k \in 1 .. Len(v), v[j] = v[k]
          PROVE  j = k
      <4> DEFINE J == IF j < i THEN j ELSE j + 1
                 K == IF k < i THEN k ELSE k + 1
      <4>1. J \in 1 .. Len(s) /\ K \in 1 .. Len(s) /\ v[j] = s[J] /\ v[k] = s[K]
        BY <1>1, <3>1
      <4>2. J = K
        BY <3>2, <3>3, <4>1
      <4> QED
        BY <4>2
    <3> QED
      BY <3>1, <3>3 DEF IsInjective
  <2> HIDE DEF v
  <2> QED
    BY <1>1, <2>1, <2>2, InRecordGone DEF v
<1>3. deleteInRecord(e, f) = [e EXCEPT !.in = v]
  BY Zenon DEF deleteInRecord
<1> HIDE DEF v
<1> QED
  BY <1>2, <1>3, InPut

LEMMA OutRecordDeleted ==
  ASSUME NEW e, EntryOK(e), NEW g
  PROVE  LET u == deleteOutRecord(e, g)
         IN  /\ EntryOK(u) /\ u.in = e.in
             /\ g \in OutFaces(e) /\ Len(e.out) <= 1 => u.out = << >>
<1> DEFINE s == e.out
           v == OutWithout(s, g)
<1>1. s \in Seq(OutRecord) /\ IsInjective(OutFaceList(s))
  BY DEF EntryOK
<1>2. ASSUME NEW i \in 1 .. Len(s), v = RemoveAt(s, i)
      PROVE  /\ v \in Seq(OutRecord) /\ IsInjective(OutFaceList(v))
             /\ Len(s) <= 1 => v = << >>
  <2> HIDE DEF s, v
  <2>1. /\ v \in Seq(OutRecord) /\ Len(v) = Len(s) - 1
        /\ \A j \in 1 .. Len(s) - 1 : v[j] = IF j < i THEN s[j] ELSE s[j + 1]
    BY <1>1, <1>2, Removed
  <2>2. \A j, k \in 1 .. Len(s) : s[j].face = s[k].face => j = k
    BY <1>1 DEF IsInjective, OutFaceList
  <2>3. ASSUME NEW j \in 1 .. Len(v), NEW k \in 1 .. Len(v), v[j].face = v[k].face
        PROVE  j = k
    <3> DEFINE J == IF j < i THEN j ELSE j + 1
               K == IF k < i THEN k ELSE k + 1
    <3>1. J \in 1 .. Len(s) /\ K \in 1 .. Len(s) /\ v[j] = s[J] /\ v[k] = s[K]
      BY <1>1, <2>1
    <3>2. J = K
      BY <2>2, <2>3, <3>1
    <3> QED
      BY <3>2
  <2>4. DOMAIN v = 1 .. Len(v)
    BY <2>1
  <2>5. IsInjective(OutFaceList(v))
    BY <2>3, <2>4 DEF IsInjective, OutFaceList
  <2> QED
    BY <1>1, <2>1, <2>5
<1>3. IF g \in OutFaces(e) THEN \E i \in 1 .. Len(s) : v = RemoveAt(s, i) ELSE v = s
  BY OutRecordGone, Zenon
<1>4. deleteOutRecord(e, g) = [e EXCEPT !.out = v]
  BY Zenon DEF deleteOutRecord, OutWithout
<1> HIDE DEF v
<1>5. /\ v \in Seq(OutRecord) /\ IsInjective(OutFaceList(v))
      /\ g \in OutFaces(e) /\ Len(s) <= 1 => v = << >>
  BY <1>1, <1>2, <1>3
<1> QED
  BY <1>4, <1>5, OutPut

LEMMA InRecordPut ==
  ASSUME NEW e, EntryOK(e), NEW f \in Face
  PROVE  LET u == insertOrUpdateInRecord(e, f)
         IN  EntryOK(u) /\ u.out = e.out /\ f \in ToSet(u.in)
<1> DEFINE s == e.in
           v == <<f>> \o s
<1>1. s \in Seq(Face) /\ IsInjective(s)
  BY DEF EntryOK
<1>2. CASE f \in ToSet(s)
  BY <1>2 DEF insertOrUpdateInRecord
<1>3. CASE f \notin ToSet(s)
  <2> HIDE DEF s
  <2>1. v \in Seq(Face) /\ Len(v) = Len(s) + 1 /\ v[1] = f
        /\ \A j \in 2 .. Len(s) + 1 : v[j] = s[j - 1]
    BY <1>1
  <2> HIDE DEF v
  <2>2. \A j \in 1 .. Len(s) : s[j] # f
    BY <1>1, <1>3 DEF ToSet
  <2>3. ASSUME NEW j \in 1 .. Len(v), NEW k \in 1 .. Len(v), v[j] = v[k]
        PROVE  j = k
    <3>1. CASE j = 1 \/ k = 1
      BY <1>1, <2>1, <2>2, <2>3, <3>1
    <3>2. CASE j # 1 /\ k # 1
      <4>1. s[j - 1] = s[k - 1] /\ j - 1 \in 1 .. Len(s) /\ k - 1 \in 1 .. Len(s)
        BY <1>1, <2>1, <2>3, <3>2
      <4>2. j - 1 = k - 1
        BY <1>1, <4>1 DEF IsInjective
      <4> QED
        BY <4>2
    <3> QED
      BY <3>1, <3>2
  <2>4. IsInjective(v) /\ f \in ToSet(v)
    BY <1>1, <2>1, <2>3 DEF IsInjective, ToSet
  <2>5. insertOrUpdateInRecord(e, f) = [e EXCEPT !.in = v]
    BY <1>3, Zenon DEF insertOrUpdateInRecord, s, v
  <2> QED
    BY <1>3, <2>1, <2>4, <2>5, InPut DEF s
<1> QED
  BY <1>2, <1>3

LEMMA OutRecordPut ==
  ASSUME NEW e, EntryOK(e), NEW g \in Face, NEW tainted \in BOOLEAN
  PROVE  LET u == insertOrUpdateOutRecord(e, g, tainted)
         IN  /\ EntryOK(u) /\ u.in = e.in /\ u.out # << >>
             /\ e.out = << >> => u.out = <<[face |-> g, tainted |-> tainted]>>
<1> DEFINE r == [face |-> g, tainted |-> tainted]
           s == e.out
           t == [i \in DOMAIN s |-> IF s[i].face = g THEN r ELSE s[i]]
           o == IF g \in OutFaces(e) THEN t ELSE <<r>> \o s
<1>1. r \in OutRecord /\ r.face = g
  BY Zenon DEF OutRecord
<1>2. s \in Seq(OutRecord) /\ IsInjective(OutFaceList(s))
  BY DEF EntryOK
<1>3. \A j, k \in 1 .. Len(s) : s[j].face = s[k].face => j = k
  <2> HIDE DEF s
  <2> QED
    BY <1>2 DEF IsInjective, OutFaceList
<1>4. ASSUME g \in OutFaces(e)
      PROVE  t \in Seq(OutRecord) /\ IsInjective(OutFaceList(t)) /\ t # << >>
  <2>0. DOMAIN s # {}
    BY <1>4 DEF OutFaces
  <2> HIDE DEF r, s
  <2>1. t \in Seq(OutRecord) /\ DOMAIN t = 1 .. Len(s)
        /\ \A j \in 1 .. Len(s) : t[j].face = s[j].face
    BY <1>1, <1>2
  <2> HIDE DEF t
  <2>2. IsInjective(OutFaceList(t))
    BY <1>3, <2>1 DEF IsInjective, OutFaceList
  <2> QED
    BY <1>2, <2>0, <2>1, <2>2
<1> DEFINE v == <<r>> \o s
<1>5. ASSUME g \notin OutFaces(e)
      PROVE  v \in Seq(OutRecord) /\ IsInjective(OutFaceList(v)) /\ v # << >>
  <2>0. \A j \in 1 .. Len(s) : s[j].face # g
    BY <1>2, <1>5 DEF OutFaces
  <2> HIDE DEF r, s
  <2>1. v \in Seq(OutRecord) /\ Len(v) = Len(s) + 1 /\ v[1] = r
        /\ \A j \in 2 .. Len(s) + 1 : v[j] = s[j - 1]
    BY <1>1, <1>2
  <2> HIDE DEF v
  <2>2. ASSUME NEW j \in 1 .. Len(v), NEW k \in 1 .. Len(v), v[j].face = v[k].face
        PROVE  j = k
    <3>1. CASE j = 1 \/ k = 1
      BY <1>1, <1>2, <2>0, <2>1, <2>2, <3>1
    <3>2. CASE j # 1 /\ k # 1
      <4>1. s[j - 1].face = s[k - 1].face /\ j - 1 \in 1 .. Len(s) /\ k - 1 \in 1 .. Len(s)
        BY <1>2, <2>1, <2>2, <3>2
      <4>2. j - 1 = k - 1
        BY <1>3, <4>1
      <4> QED
        BY <4>2
    <3> QED
      BY <3>1, <3>2
  <2>3. IsInjective(OutFaceList(v))
    BY <2>1, <2>2 DEF IsInjective, OutFaceList
  <2> QED
    BY <2>1, <2>3
<1>6. o \in Seq(OutRecord) /\ IsInjective(OutFaceList(o)) /\ o # << >>
  BY <1>4, <1>5
<1>8. s = << >> => o = <<r>>
  <2>1. s = << >> => g \notin OutFaces(e)
    BY DEF OutFaces
  <2>2. <<r>> \o << >> = <<r>>
    <3> HIDE DEF r
    <3> QED
      BY <1>1
  <2> QED
    BY <2>1, <2>2
<1>7. insertOrUpdateOutRecord(e, g, tainted) = [e EXCEPT !.out = o]
  BY Zenon DEF insertOrUpdateOutRecord
<1> HIDE DEF o
<1> QED
  BY <1>6, <1>7, <1>8, OutPut

-------------------------------------------------------------------------------------
(* The strategy's types, and what it keeps of its probes.                           *)
OneRecord(o, g, tainted) == o = <<[face |-> g, tainted |-> tainted]>>

\* A probe, unlike a Persistent Interest, is sent once: it has one out-record or none.
\* Sent tainted, it is this router's or is not measured where it went; this router's, it
\* is tainted and has somewhere to return to.
ProbeOK(n) ==
  \/ entry[n].out = << >>
  \/ \E g \in Face, tainted \in BOOLEAN :
       /\ OneRecord(entry[n].out, g, tainted)
       /\ n \in mine => tainted /\ entry[n].in # << >>
       /\ tainted /\ n \in measured[g] => n \in mine

ScalarsOK ==
  /\ working \in Hops \cup {NoFace}
  /\ pending \subseteq Hops
  /\ mine \subseteq Probe
  /\ measured \in [Face -> SUBSET Probe]
  /\ asked \in [PI -> SUBSET Face]
  /\ detoured \in [PI -> SUBSET Face]

StrategyInv ==
  /\ ScalarsOK
  /\ entry = [n \in Name |-> entry[n]]
  /\ \A n \in Name : EntryOK(entry[n])
  /\ TeardownHasUpstream
  /\ \A n \in Probe : ProbeOK(n)

LEMMA NoEntryOK == EntryOK(NoEntry) /\ NoEntry.out = << >>
BY DEF EntryOK, NoEntry, Shaped, IsInjective, OutFaceList

\* The invariant gives the properties.
LEMMA StrategyInvGives == StrategyInv => TypeOK /\ TaintedProbeCounts /\ RedirectedProbeReturns
<1> SUFFICES ASSUME StrategyInv PROVE TypeOK /\ TaintedProbeCounts /\ RedirectedProbeReturns
  OBVIOUS
<1>1. TypeOK
  <2>1. DOMAIN entry = Name
    BY DEF StrategyInv
  <2> QED
    BY <2>1 DEF StrategyInv, ScalarsOK, TypeOK, EntryOK, OutFaceList
<1>2. ASSUME NEW n \in Probe, NEW g \in Face, n \in measured[g],
             [face |-> g, tainted |-> TRUE] \in ToSet(entry[n].out)
      PROVE  n \in mine
  <2>1. entry[n].out # << >>
    BY <1>2 DEF ToSet
  <2>2. PICK h \in Face, t \in BOOLEAN :
          /\ entry[n].out = <<[face |-> h, tainted |-> t]>>
          /\ t /\ n \in measured[h] => n \in mine
    BY <2>1 DEF StrategyInv, ProbeOK, OneRecord
  <2>3. [face |-> g, tainted |-> TRUE] = [face |-> h, tainted |-> t]
    BY <1>2, <2>2 DEF ToSet
  <2>4. g = h /\ t
    BY <2>3
  <2> QED
    BY <1>2, <2>2, <2>4
<1>3. RedirectedProbeReturns
  BY DEF StrategyInv, ScalarsOK, ProbeOK, RedirectedProbeReturns
<1> QED
  BY <1>1, <1>2, <1>3 DEF TaintedProbeCounts

\* A step changes the entry of one name, and what is kept of no other probe.
LEMMA EntryPut ==
  ASSUME StrategyInv, ScalarsOK', NEW n \in Name, NEW e, EntryOK(e),
         entry' = [entry EXCEPT ![n] = e],
         n \in PI => e = NoEntry \/ e.out # << >>,
         \A m \in Probe \ {n} : /\ m \in mine' <=> m \in mine
                                /\ \A g \in Face : m \in measured'[g] => m \in measured[g],
         n \in Probe => ProbeOK(n)'
  PROVE  StrategyInv'
<1>1. \A m \in Name : entry'[m] = IF m = n THEN e ELSE entry[m]
  BY DEF StrategyInv
<1>2. entry' = [m \in Name |-> entry'[m]]
  BY DEF StrategyInv
<1>3. \A m \in Name : EntryOK(entry'[m])
  BY <1>1 DEF StrategyInv
<1>4. \A p \in PI : entry'[p] # NoEntry => entry'[p].out # << >>
  BY <1>1 DEF StrategyInv, TeardownHasUpstream, Name
<1>5. ASSUME NEW m \in Probe, m # n PROVE ProbeOK(m)'
  <2>1. entry'[m] = entry[m] /\ ProbeOK(m)
    BY <1>1, <1>5 DEF StrategyInv, Name
  <2> QED
    BY <2>1, <1>5 DEF ProbeOK
<1> QED
  BY <1>2, <1>3, <1>4, <1>5 DEF StrategyInv, TeardownHasUpstream

\* The same for a step that leaves the entries alone.
LEMMA EntriesKept ==
  ASSUME StrategyInv, ScalarsOK', entry' = entry,
         \A m \in Probe : /\ m \in mine' <=> m \in mine
                          /\ \A g \in Face : m \in measured'[g] => m \in measured[g]
  PROVE  StrategyInv'
BY DEF StrategyInv, TeardownHasUpstream, ProbeOK

LEMMA FaceOfHop == \A g : getFaceViaId(g) \in Hops /\ getFaceViaId(g) \in Face
BY HopsAreFaces, StrategyAssumption DEF getFaceViaId

\* Names of probes are none of Persistent Interests.
LEMMA ProbeNames == \A n \in Probe : n \in Name /\ n \notin PI
BY StrategyAssumption DEF Name

LEMMA PersistentKeeps ==
  ASSUME StrategyInv, NEW p \in PI, NEW f \in Face, ReceivePersistent(p, f)
  PROVE  StrategyInv'
<1> DEFINE e   == insertOrUpdateInRecord(entry[p], f)
           now == started(e, TRUE)
           g   == getFaceViaId(notBack(f, now))
           u   == insertOrUpdateOutRecord(e, g, FALSE)
<1>1. now \in Hops /\ g \in Face
  BY StartedIsHop, FaceOfHop DEF StrategyInv, ScalarsOK
<1>2. EntryOK(e)
  BY InRecordPut DEF StrategyInv, Name
<1>3. EntryOK(u) /\ u.out # << >>
  <2> HIDE DEF e, g
  <2> QED
    BY <1>1, <1>2, OutRecordPut
<1>4. /\ working' = now /\ UNCHANGED <<pending, mine, measured>>
      /\ entry' = [entry EXCEPT ![p] = u]
      /\ asked' = [asked EXCEPT ![p] = @ \cup ({g} \cap {now})]
      /\ detoured' = [detoured EXCEPT ![p] = @ \cup ({g} \ {now})]
  BY DEF ReceivePersistent
<1> HIDE DEF now, g, u
<1>5. ScalarsOK'
  BY <1>1, <1>4 DEF StrategyInv, ScalarsOK
<1>6. p \in Name /\ p \notin Probe
  BY StrategyAssumption DEF Name
<1> QED
  BY <1>3, <1>4, <1>5, <1>6, EntryPut

LEMMA TaintedProbeKeeps ==
  ASSUME StrategyInv, NEW n \in Probe, NEW f \in Face, ReceiveTaintedProbe(n, f)
  PROVE  StrategyInv'
<1> DEFINE e   == insertOrUpdateInRecord(entry[n], f)
           now == started(e, FALSE)
           g   == getFaceViaId(notBack(f, now))
           u   == insertOrUpdateOutRecord(e, g, TRUE)
<1>1. now \in Hops /\ g \in Face
  BY StartedIsHop, FaceOfHop DEF StrategyInv, ScalarsOK
<1>2. entry[n].out = << >> /\ n \notin mine /\ \A h \in Face : n \notin measured[h]
  BY NoEntryOK DEF ReceiveTaintedProbe, Fresh
<1>3. EntryOK(e) /\ e.out = << >>
  BY <1>2, InRecordPut DEF StrategyInv, Name
<1>4. EntryOK(u) /\ OneRecord(u.out, g, TRUE)
  <2> HIDE DEF e, g
  <2> QED
    BY <1>1, <1>3, OutRecordPut DEF OneRecord
<1>5. /\ working' = now /\ UNCHANGED <<pending, mine, measured, asked, detoured>>
      /\ entry' = [entry EXCEPT ![n] = u]
  BY DEF ReceiveTaintedProbe
<1> HIDE DEF now, g, u
<1>6. ScalarsOK'
  BY <1>1, <1>5 DEF StrategyInv, ScalarsOK
<1>7. entry'[n] = u
  BY <1>5, ProbeNames DEF StrategyInv
<1>8. ProbeOK(n)'
  BY <1>1, <1>2, <1>4, <1>5, <1>7 DEF ProbeOK
<1> QED
  BY <1>4, <1>5, <1>6, <1>8, EntryPut, ProbeNames

LEMMA ProbeKeeps ==
  ASSUME StrategyInv, NEW n \in Probe, NEW f \in Face, ReceiveProbe(n, f)
  PROVE  StrategyInv'
<1> DEFINE e   == insertOrUpdateInRecord(entry[n], f)
           old == started(e, FALSE)
<1>1. PICK loss \in [Hops -> Levels] :
        LET new == lookForBetterOutFaceId(e, f, old, loss)
        IN \E selected \in getProbingOutFaceId(f, new) :
             LET tainted == selected # new
                 back    == IF tainted THEN NackTainted(e, f) ELSE e
             IN  /\ working' = new
                 /\ pending' = Abandon(old, new)
                 /\ mine' = Remember(n, tainted)
                 /\ measured' = [measured EXCEPT ![selected] = @ \cup {n}]
                 /\ entry' = [entry EXCEPT ![n] =
                      insertOrUpdateOutRecord(back, getFaceViaId(notBack(f, selected)), tainted)]
  BY Zenon DEF ReceiveProbe
<1> DEFINE new == lookForBetterOutFaceId(e, f, old, loss)
<1>2. PICK selected \in getProbingOutFaceId(f, new) :
        LET tainted == selected # new
            back    == IF tainted THEN NackTainted(e, f) ELSE e
        IN  /\ working' = new
            /\ pending' = Abandon(old, new)
            /\ mine' = Remember(n, tainted)
            /\ measured' = [measured EXCEPT ![selected] = @ \cup {n}]
            /\ entry' = [entry EXCEPT ![n] =
                 insertOrUpdateOutRecord(back, getFaceViaId(notBack(f, selected)), tainted)]
  BY <1>1, Zenon
<1>3. asked' = asked /\ detoured' = detoured /\ Fresh(n)
  BY DEF ReceiveProbe
<1>4. old \in Hops
  BY StartedIsHop DEF StrategyInv, ScalarsOK
<1>5. new \in Hops
  <2> HIDE DEF e, old
  <2> QED
    BY <1>4, BetterIsHop
<1> HIDE DEF old, new
<1>6. selected \in Hops /\ selected \in Face
  BY <1>2, <1>5, HopsAreFaces DEF getProbingOutFaceId
<1>7. entry[n].out = << >> /\ n \notin mine /\ \A h \in Face : n \notin measured[h]
  BY <1>3, NoEntryOK DEF Fresh
<1>8. EntryOK(e) /\ e.out = << >>
  BY <1>7, InRecordPut DEF StrategyInv, Name
<1> HIDE DEF e
<1> DEFINE back    == IF selected # new THEN NackTainted(e, f) ELSE e
           tainted == selected # new
           g       == getFaceViaId(notBack(f, selected))
           u       == insertOrUpdateOutRecord(back, g, tainted)
<1>9. EntryOK(back) /\ back.out = << >> /\ (tainted => back.in # << >>)
  <2> DEFINE d == deleteInRecord(e, f)
  <2>1. EntryOK(d) /\ d.out = << >>
    BY <1>8, InRecordDeleted
  <2> HIDE DEF d
  <2>2. LET v == insertOrUpdateInRecord(d, f)
        IN  EntryOK(v) /\ v.out = << >> /\ f \in ToSet(v.in)
    BY <2>1, InRecordPut
  <2>3. NackTainted(e, f) = insertOrUpdateInRecord(d, f)
    BY DEF NackTainted, d
  <2> QED
    BY <1>8, <2>2, <2>3 DEF ToSet
<1>10. g \in Face
  BY FaceOfHop
<1>11. EntryOK(u) /\ OneRecord(u.out, g, tainted) /\ u.in = back.in
  <2> HIDE DEF back, g, tainted
  <2>1. tainted \in BOOLEAN
    BY DEF tainted
  <2> QED
    BY <1>9, <1>10, <2>1, OutRecordPut DEF OneRecord
<1>12. /\ working' = new /\ pending' = Abandon(old, new)
       /\ mine' = IF tainted THEN mine \cup {n} ELSE mine
       /\ measured' = [measured EXCEPT ![selected] = @ \cup {n}]
       /\ entry' = [entry EXCEPT ![n] = u]
  BY <1>2 DEF Remember
<1> HIDE DEF back, g, u
<1>13. ScalarsOK'
  BY <1>3, <1>4, <1>5, <1>6, <1>12 DEF StrategyInv, ScalarsOK, Abandon
<1>14. entry'[n] = u
  BY <1>12, ProbeNames DEF StrategyInv
<1>15. ProbeOK(n)'
  BY <1>7, <1>9, <1>10, <1>11, <1>12, <1>14 DEF ProbeOK
<1>16. ASSUME NEW m \in Probe, m # n
       PROVE  /\ m \in mine' <=> m \in mine
              /\ \A h \in Face : m \in measured'[h] => m \in measured[h]
  BY <1>12, <1>16 DEF StrategyInv, ScalarsOK
<1> QED
  BY <1>11, <1>12, <1>13, <1>15, <1>16, EntryPut, ProbeNames

LEMMA ProbeDataKeeps ==
  ASSUME StrategyInv, NEW n \in Probe, NEW f \in Face, NEW tainted \in BOOLEAN,
         ReceiveProbeData(n, f, tainted)
  PROVE  StrategyInv'
<1> DEFINE c == clearInRecords(entry[n])
           u == deleteOutRecord(c, f)
<1>1. EntryOK(entry[n]) /\ ProbeOK(n) /\ n \in Name
  BY ProbeNames DEF StrategyInv
<1>2. EntryOK(c) /\ c.out = entry[n].out
  <2> DEFINE v == << >>
  <2>1. c = [entry[n] EXCEPT !.in = v]
    BY Zenon DEF clearInRecords
  <2>2. v \in Seq(Face) /\ IsInjective(v)
    BY DEF IsInjective
  <2> HIDE DEF c, v
  <2> QED
    BY <1>1, <2>1, <2>2, InPut
<1>3. Len(c.out) <= 1 /\ f \in OutFaces(c)
  <2>1. Len(entry[n].out) <= 1
    <3>1. entry[n].out = << >> \/ \E r : entry[n].out = <<r>>
      BY <1>1, Zenon DEF ProbeOK, OneRecord
    <3>2. Len(<< >>) <= 1 /\ \A r : Len(<<r>>) <= 1
      OBVIOUS
    <3> QED
      BY <3>1, <3>2, Zenon
  <2>2. f \in OutFaces(entry[n])
    BY DEF ReceiveProbeData
  <2> HIDE DEF c
  <2> QED
    BY <1>2, <2>1, <2>2 DEF OutFaces
<1> HIDE DEF c
<1>4. EntryOK(u) /\ u.out = << >>
  BY <1>2, <1>3, OutRecordDeleted
<1>5. /\ entry' = [entry EXCEPT ![n] = u] /\ mine' = mine \ {n}
      /\ measured' = measured \/ measured' = [measured EXCEPT ![f] = @ \ {n}]
      /\ UNCHANGED <<working, pending, asked, detoured>>
  BY DEF ReceiveProbeData, c
<1> HIDE DEF u
<1>6. ScalarsOK'
  BY <1>5 DEF StrategyInv, ScalarsOK
<1>7. ProbeOK(n)'
  BY <1>1, <1>4, <1>5 DEF ProbeOK, StrategyInv
<1>8. ASSUME NEW m \in Probe, m # n
      PROVE  /\ m \in mine' <=> m \in mine
             /\ \A g \in Face : m \in measured'[g] => m \in measured[g]
  BY <1>5, <1>8 DEF StrategyInv, ScalarsOK
<1> QED
  BY <1>4, <1>5, <1>6, <1>7, <1>8, EntryPut, ProbeNames

\* A probe that a Nack can take an in-record of went out untainted: it is none of mine.
LEMMA TaintedNackKeeps ==
  ASSUME StrategyInv, NEW n \in Probe, NEW f \in Face, ReceiveTaintedNack(n, f)
  PROVE  StrategyInv'
<1> DEFINE s == entry[n].in
           v == IF s = << >> THEN s ELSE Tail(s)
           u == [entry[n] EXCEPT !.in = v]
<1>1. EntryOK(entry[n]) /\ ProbeOK(n) /\ n \in Name
  BY ProbeNames DEF StrategyInv
<1>2. v \in Seq(Face) /\ IsInjective(v)
  <2>1. s \in Seq(Face) /\ IsInjective(s)
    BY <1>1 DEF EntryOK
  <2> HIDE DEF s
  <2>2. CASE s # << >>
    <3>1. /\ Tail(s) \in Seq(Face) /\ Len(Tail(s)) = Len(s) - 1
          /\ \A i \in 1 .. Len(s) - 1 : Tail(s)[i] = s[i + 1]
      BY <2>1, <2>2
    <3>2. \A j, k \in 1 .. Len(s) : s[j] = s[k] => j = k
      BY <2>1 DEF IsInjective
    <3>3. ASSUME NEW j \in 1 .. Len(Tail(s)), NEW k \in 1 .. Len(Tail(s)), Tail(s)[j] = Tail(s)[k]
          PROVE  j = k
      <4>1. s[j + 1] = s[k + 1] /\ j + 1 \in 1 .. Len(s) /\ k + 1 \in 1 .. Len(s)
        BY <2>1, <3>1, <3>3
      <4>2. j + 1 = k + 1
        BY <3>2, <4>1
      <4> QED
        BY <4>2
    <3> HIDE DEF v
    <3>4. IsInjective(Tail(s))
      BY <3>1, <3>3 DEF IsInjective
    <3> QED
      BY <2>2, <3>1, <3>4 DEF v
  <2> QED
    BY <2>1, <2>2
<1> HIDE DEF v
<1>3. EntryOK(u) /\ u.out = entry[n].out
  BY <1>1, <1>2, InPut
<1>4. /\ entry' = [entry EXCEPT ![n] = u]
      /\ measured' = [measured EXCEPT ![f] = @ \ {n}]
      /\ UNCHANGED <<working, pending, mine, asked, detoured>>
  BY DEF ReceiveTaintedNack, v
<1>5. n \notin mine /\ \E g \in Face : OneRecord(entry[n].out, g, FALSE)
  <2>1. [face |-> f, tainted |-> FALSE] \in ToSet(entry[n].out)
    BY DEF ReceiveTaintedNack
  <2>2. entry[n].out # << >>
    BY <2>1 DEF ToSet
  <2>3. PICK g \in Face, t \in BOOLEAN :
          entry[n].out = <<[face |-> g, tainted |-> t]>> /\ (n \in mine => t)
    BY <1>1, <2>2 DEF ProbeOK, OneRecord
  <2>4. [face |-> f, tainted |-> FALSE] = [face |-> g, tainted |-> t]
    BY <2>1, <2>3 DEF ToSet
  <2>5. t = FALSE
    BY <2>4
  <2> QED
    BY <2>3, <2>5 DEF OneRecord
<1> HIDE DEF u
<1>6. ScalarsOK'
  BY <1>4 DEF StrategyInv, ScalarsOK
<1>7. ProbeOK(n)'
  <2>1. entry'[n] = u
    BY <1>1, <1>4 DEF StrategyInv
  <2> QED
    BY <1>3, <1>4, <1>5, <2>1 DEF ProbeOK
<1>8. ASSUME NEW m \in Probe, m # n
      PROVE  /\ m \in mine' <=> m \in mine
             /\ \A g \in Face : m \in measured'[g] => m \in measured[g]
  BY <1>4, <1>8 DEF StrategyInv, ScalarsOK
<1> QED
  BY <1>3, <1>4, <1>6, <1>7, <1>8, EntryPut, ProbeNames

LEMMA TeardownKeeps ==
  ASSUME StrategyInv, NEW p \in PI, NEW f \in Face, ReceiveTeardown(p, f)
  PROVE  StrategyInv'
<1> DEFINE e == deleteInRecord(entry[p], f)
<1>1. p \in Name /\ p \notin Probe /\ EntryOK(entry[p])
  BY StrategyAssumption DEF Name, StrategyInv
<1>2. EntryOK(e) /\ e.out = entry[p].out
  BY <1>1, InRecordDeleted
<1>3. /\ entry' = [entry EXCEPT ![p] = e] /\ entry[p] # NoEntry
      /\ UNCHANGED <<working, pending, mine, measured>>
      /\ \E told : /\ asked' = [asked EXCEPT ![p] = @ \ told]
                   /\ detoured' = [detoured EXCEPT ![p] = @ \ told]
  BY DEF ReceiveTeardown
<1>4. e.out # << >>
  BY <1>2, <1>3 DEF StrategyInv, TeardownHasUpstream
<1> HIDE DEF e
<1>5. ScalarsOK'
  BY <1>3 DEF StrategyInv, ScalarsOK
<1> QED
  BY <1>1, <1>2, <1>3, <1>4, <1>5, EntryPut

LEMMA StrategyStep == StrategyInv /\ [Next]_vars => StrategyInv'
<1> SUFFICES ASSUME StrategyInv, [Next]_vars PROVE StrategyInv'
  OBVIOUS
<1>1. ASSUME NEW p \in PI, NEW f \in Face, ReceivePushData(p, f) PROVE StrategyInv'
  <2>1. /\ UNCHANGED <<working, mine, measured, entry>>
        /\ pending' \in {pending, {}}
        /\ asked' = asked \/ \E left : asked' = [asked EXCEPT ![p] = @ \ left]
        /\ detoured' = detoured \/ \E left : detoured' = [detoured EXCEPT ![p] = @ \ left]
    BY <1>1 DEF ReceivePushData
  <2>2. ScalarsOK'
    BY <2>1 DEF StrategyInv, ScalarsOK
  <2> QED
    BY <2>1, <2>2, EntriesKept
<1>2. ASSUME NEW n \in Probe, NEW f \in Face, ProbeLost(n, f) PROVE StrategyInv'
  <2>1. /\ UNCHANGED <<working, pending, mine, entry, asked, detoured>>
        /\ measured' = [measured EXCEPT ![f] = @ \ {n}]
    BY <1>2 DEF ProbeLost
  <2>2. ScalarsOK' /\ \A m \in Probe, g \in Face : m \in measured'[g] => m \in measured[g]
    BY <2>1 DEF StrategyInv, ScalarsOK
  <2> QED
    BY <2>1, <2>2, EntriesKept
<1>3. ASSUME NEW n \in Name, EntryExpires(n) PROVE StrategyInv'
  <2>1. /\ entry' = [entry EXCEPT ![n] = NoEntry]
        /\ asked' = [p \in PI |-> IF p = n THEN {} ELSE asked[p]]
        /\ detoured' = [p \in PI |-> IF p = n THEN {} ELSE detoured[p]]
        /\ UNCHANGED <<working, pending, mine, measured>>
    BY <1>3 DEF EntryExpires
  <2>2. ScalarsOK'
    BY <2>1 DEF StrategyInv, ScalarsOK
  <2>3. ProbeOK(n)'
    BY <2>1, NoEntryOK DEF ProbeOK, StrategyInv
  <2> QED
    BY <2>1, <2>2, <2>3, NoEntryOK, EntryPut
<1>4. CASE UNCHANGED vars
  BY <1>4, EntriesKept DEF vars, StrategyInv, ScalarsOK
<1> QED
  BY <1>1, <1>2, <1>3, <1>4, PersistentKeeps, TeardownKeeps, ProbeKeeps, TaintedProbeKeeps,
     ProbeDataKeeps, TaintedNackKeeps DEF Next

LEMMA StrategyInvInit == Init => StrategyInv
<1> SUFFICES ASSUME Init PROVE StrategyInv
  OBVIOUS
<1>1. entry = [n \in Name |-> NoEntry]
  BY DEF Init
<1>2. \A n \in Name : entry[n] = NoEntry
  BY <1>1
<1>3. ScalarsOK
  BY DEF Init, ScalarsOK
<1>4. \A n \in Probe : ProbeOK(n)
  BY <1>2, NoEntryOK, ProbeNames DEF ProbeOK
<1>5. TeardownHasUpstream
  BY <1>2 DEF TeardownHasUpstream, Name
<1> QED
  BY <1>1, <1>2, <1>3, <1>4, <1>5, NoEntryOK DEF StrategyInv

\* The inductive invariant: whatever Interests, Data, Nacks and expiries come, in any
\* order, every entry has one record per face and every probe's is sound.
THEOREM StrategyInvHolds == Spec => []StrategyInv
BY StrategyInvInit, StrategyStep, PTL DEF Spec

\* The working face and those given up are next hops, and no face has two records.
THEOREM TypeCorrect == Spec => []TypeOK
BY StrategyInvHolds, StrategyInvGives, PTL

\* The teardown that the last downstream's Nack sends on finds an out-record, whatever
\* Data, expiry and Nacks came before: begin() in afterReceiveNack is no end().
THEOREM TeardownHasUpstreamHolds == Spec => []TeardownHasUpstream
<1>1. StrategyInv => TeardownHasUpstream
  BY DEF StrategyInv
<1> QED
  BY <1>1, StrategyInvHolds, PTL

\* A redirected probe that is still measured where it went is remembered as this
\* router's, so that its answer counts.
THEOREM TaintedProbeCountsHolds == Spec => []TaintedProbeCounts
BY StrategyInvHolds, StrategyInvGives, PTL

\* The in-record that the router's own Nack deletes is back before the Data comes, and
\* no Nack from upstream takes it again.
THEOREM RedirectedProbeReturnsHolds == Spec => []RedirectedProbeReturns
BY StrategyInvHolds, StrategyInvGives, PTL

-------------------------------------------------------------------------------------
(* A probe is measured where it is sent.                                            *)
MeasureInv ==
  /\ working \in Hops \cup {NoFace}
  /\ measured = [g \in Face |-> measured[g]]
  /\ entry = [n \in Name |-> entry[n]]

\* The first out-record of a new entry.
LEMMA FirstOutRecord ==
  ASSUME NEW i, NEW g, NEW tainted
  PROVE  LET u == insertOrUpdateOutRecord([in |-> i, out |-> << >>], g, tainted)
         IN  u.in = i /\ g \in OutFaces(u)
<1> DEFINE r == [face |-> g, tainted |-> tainted]
           e == [in |-> i, out |-> << >>]
           u == insertOrUpdateOutRecord(e, g, tainted)
<1>1. g \notin OutFaces(e)
  BY DEF OutFaces
<1>2. u = [e EXCEPT !.out = <<r>> \o << >>]
  BY <1>1, Zenon DEF insertOrUpdateOutRecord
<1>3. <<r>> \o << >> = <<r>>
  OBVIOUS
<1>4. u = [in |-> i, out |-> <<r>>]
  BY <1>2, <1>3, FieldPut, Zenon
<1>5. g \in OutFaces([in |-> i, out |-> <<r>>])
  BY DEF OutFaces
<1> QED
  BY <1>4, <1>5

\* A new probe has one in-record and no out-record yet, its own Nack or not.
LEMMA FreshRecords ==
  ASSUME NEW f
  PROVE  /\ insertOrUpdateInRecord(NoEntry, f) = [in |-> <<f>>, out |-> << >>]
         /\ \E i : NackTainted(insertOrUpdateInRecord(NoEntry, f), f) = [in |-> i, out |-> << >>]
<1>1. insertOrUpdateInRecord(NoEntry, f) = [in |-> <<f>>, out |-> << >>]
  <2>1. f \notin ToSet(NoEntry.in)
    BY DEF ToSet, NoEntry
  <2>2. insertOrUpdateInRecord(NoEntry, f) = [NoEntry EXCEPT !.in = <<f>> \o << >>]
    BY <2>1, Zenon DEF insertOrUpdateInRecord, NoEntry
  <2>3. <<f>> \o << >> = <<f>>
    OBVIOUS
  <2> QED
    BY <2>2, <2>3, FieldPut, Zenon DEF NoEntry
<1> DEFINE e == [in |-> <<f>>, out |-> << >>]
           v == RemoveFirst(<<f>>, f)
<1>2. deleteInRecord(e, f) = [e EXCEPT !.in = v]
  BY Zenon DEF deleteInRecord
<1>3. deleteInRecord(e, f) = [in |-> v, out |-> << >>]
  <2> HIDE DEF v
  <2> QED
    BY <1>2, FieldPut, Zenon
<1>4. insertOrUpdateInRecord([in |-> v, out |-> << >>], f) \in
        {[in |-> v, out |-> << >>], [[in |-> v, out |-> << >>] EXCEPT !.in = <<f>> \o v]}
  BY Zenon DEF insertOrUpdateInRecord
<1>5. [[in |-> v, out |-> << >>] EXCEPT !.in = <<f>> \o v] = [in |-> <<f>> \o v, out |-> << >>]
  <2> DEFINE w == <<f>> \o v
  <2> HIDE DEF v, w
  <2>1. [[in |-> v, out |-> << >>] EXCEPT !.in = w] = [in |-> w, out |-> << >>]
    OBVIOUS
  <2> QED
    BY <2>1, Zenon DEF w
<1> QED
  BY <1>1, <1>3, <1>4, <1>5, Zenon DEF NackTainted

\* The one step that adds a measurement.
LEMMA ProbeMeasured ==
  ASSUME MeasureInv, NEW n \in Probe, NEW f \in Face, ReceiveProbe(n, f),
         NEW m \in Probe, NEW g \in Face, m \in measured'[g] \ measured[g]
  PROVE  g \in OutFaces(entry'[m]) \cup ToSet(entry'[m].in)
<1> DEFINE e   == insertOrUpdateInRecord(entry[n], f)
           old == started(e, FALSE)
<1>1. old \in Hops
  BY StartedIsHop DEF MeasureInv
<1>2. PICK loss \in [Hops -> Levels] :
        \E selected \in getProbingOutFaceId(f, lookForBetterOutFaceId(e, f, old, loss)) :
          LET tainted == selected # lookForBetterOutFaceId(e, f, old, loss)
              back    == IF tainted THEN NackTainted(e, f) ELSE e
          IN  /\ measured' = [measured EXCEPT ![selected] = @ \cup {n}]
              /\ entry' = [entry EXCEPT ![n] =
                   insertOrUpdateOutRecord(back, getFaceViaId(notBack(f, selected)), tainted)]
  BY Zenon DEF ReceiveProbe
<1> DEFINE new == lookForBetterOutFaceId(e, f, old, loss)
<1>3. new \in Hops
  <2> HIDE DEF e, old
  <2> QED
    BY <1>1, BetterIsHop
<1>4. entry[n] = NoEntry /\ n \in Name
  BY DEF ReceiveProbe, Fresh, Name
<1> HIDE DEF old
<1>5. e = [in |-> <<f>>, out |-> << >>] /\ \E i : NackTainted(e, f) = [in |-> i, out |-> << >>]
  BY <1>4, FreshRecords, Zenon
<1> HIDE DEF e, new
<1>6. PICK selected \in getProbingOutFaceId(f, new) :
        LET tainted == selected # new
            back    == IF tainted THEN NackTainted(e, f) ELSE e
        IN  /\ measured' = [measured EXCEPT ![selected] = @ \cup {n}]
            /\ entry' = [entry EXCEPT ![n] =
                 insertOrUpdateOutRecord(back, getFaceViaId(notBack(f, selected)), tainted)]
  BY <1>2, Zenon DEF new
<1>7. selected = new \/ selected \in Hops \ {f, new}
  BY <1>6 DEF getProbingOutFaceId
<1>8. m = n /\ g = selected
  BY <1>6, <1>7, <1>3, HopsAreFaces DEF MeasureInv
<1> DEFINE back == IF selected # new THEN NackTainted(e, f) ELSE e
           sent == getFaceViaId(notBack(f, selected))
           u    == insertOrUpdateOutRecord(back, sent, selected # new)
<1>9. entry'[n] = u
  BY <1>4, <1>6 DEF MeasureInv
<1>10. PICK i : back = [in |-> i, out |-> << >>] /\ (selected = new => i = <<f>>)
  BY <1>5
<1>11. u.in = i /\ sent \in OutFaces(u)
  <2> HIDE DEF back, sent
  <2> QED
    BY <1>10, FirstOutRecord
<1>12. CASE selected = f
  <2>1. i = <<f>>
    BY <1>7, <1>10, <1>12
  <2>2. f \in ToSet(<<f>>)
    BY DEF ToSet
  <2> HIDE DEF u
  <2> QED
    BY <1>8, <1>9, <1>11, <1>12, <2>1, <2>2
<1>13. CASE selected # f
  <2>1. sent = selected
    BY <1>3, <1>7, <1>13 DEF notBack, getFaceViaId
  <2> HIDE DEF u, sent
  <2> QED
    BY <1>8, <1>9, <1>11, <2>1
<1> QED
  BY <1>12, <1>13

\* No other step adds one, and every step keeps the invariant.
LEMMA MeasureStep ==
  ASSUME MeasureInv, [Next]_vars
  PROVE  /\ MeasureInv'
         /\ \A m \in Probe, g \in Face :
              m \in measured'[g] \ measured[g] => g \in OutFaces(entry'[m]) \cup ToSet(entry'[m].in)
<1> DEFINE Kept == measured' = [g \in Face |-> measured'[g]] /\ entry' = [n \in Name |-> entry'[n]]
           NoneAdded == \A g \in Face : measured'[g] \subseteq measured[g]
<1>1. ASSUME NEW p \in PI, NEW f \in Face, ReceivePersistent(p, f)
      PROVE  working' \in Hops /\ measured' = measured /\ Kept
  <2>1. /\ working' = started(insertOrUpdateInRecord(entry[p], f), TRUE)
        /\ measured' = measured
        /\ \E e : entry' = [entry EXCEPT ![p] = e]
    BY <1>1, Zenon DEF ReceivePersistent
  <2> QED
    BY <2>1, StartedIsHop DEF MeasureInv
<1>2. ASSUME NEW n \in Probe, NEW f \in Face, ReceiveTaintedProbe(n, f)
      PROVE  working' \in Hops /\ measured' = measured /\ Kept
  <2>1. /\ working' = started(insertOrUpdateInRecord(entry[n], f), FALSE)
        /\ measured' = measured
        /\ \E e : entry' = [entry EXCEPT ![n] = e]
    BY <1>2, Zenon DEF ReceiveTaintedProbe
  <2> QED
    BY <2>1, StartedIsHop DEF MeasureInv
<1>3. ASSUME NEW n \in Probe, NEW f \in Face, ReceiveProbe(n, f)
      PROVE  working' \in Hops /\ Kept
  <2> DEFINE e   == insertOrUpdateInRecord(entry[n], f)
             old == started(e, FALSE)
  <2>1. old \in Hops
    BY StartedIsHop DEF MeasureInv
  <2>2. /\ \E loss \in [Hops -> Levels] : working' = lookForBetterOutFaceId(e, f, old, loss)
        /\ \E g : measured' = [measured EXCEPT ![g] = @ \cup {n}]
        /\ \E d : entry' = [entry EXCEPT ![n] = d]
    BY <1>3, Zenon DEF ReceiveProbe
  <2> HIDE DEF e, old
  <2> QED
    BY <2>1, <2>2, BetterIsHop DEF MeasureInv
<1>4. ASSUME NEW p \in PI, NEW f \in Face, ReceivePushData(p, f) \/ ReceiveTeardown(p, f)
      PROVE  working' = working /\ measured' = measured /\ Kept
  <2>1. /\ working' = working
        /\ measured' = measured
        /\ entry' = entry \/ \E e : entry' = [entry EXCEPT ![p] = e]
    BY <1>4, Zenon DEF ReceivePushData, ReceiveTeardown
  <2> QED
    BY <2>1 DEF MeasureInv
<1>5. ASSUME NEW n \in Probe, NEW f \in Face,
             \/ \E tainted \in BOOLEAN : ReceiveProbeData(n, f, tainted)
             \/ ReceiveTaintedNack(n, f)
             \/ ProbeLost(n, f)
      PROVE  working' = working /\ NoneAdded /\ Kept
  <2>1. /\ working' = working
        /\ measured' = measured \/ measured' = [measured EXCEPT ![f] = @ \ {n}]
    BY <1>5 DEF ReceiveProbeData, ReceiveTaintedNack, ProbeLost
  <2>2. entry' = entry \/ \E e : entry' = [entry EXCEPT ![n] = e]
    BY <1>5 DEF ReceiveProbeData, ReceiveTaintedNack, ProbeLost
  <2> QED
    BY <2>1, <2>2 DEF MeasureInv
<1>6. ASSUME NEW n \in Name, EntryExpires(n)
      PROVE  working' = working /\ measured' = measured /\ Kept
  BY <1>6 DEF EntryExpires, MeasureInv
<1>7. CASE UNCHANGED vars
  BY <1>7 DEF vars, MeasureInv
<1>8. MeasureInv'
  BY <1>1, <1>2, <1>3, <1>4, <1>5, <1>6, <1>7 DEF Next, MeasureInv
<1>9. ASSUME NEW m \in Probe, NEW g \in Face, m \in measured'[g] \ measured[g]
      PROVE  g \in OutFaces(entry'[m]) \cup ToSet(entry'[m].in)
  <2>1. measured' # measured /\ ~ NoneAdded
    BY <1>9
  <2>2. PICK n \in Probe, f \in Face : ReceiveProbe(n, f)
    BY <2>1, <1>1, <1>2, <1>4, <1>5, <1>6 DEF Next, vars
  <2> QED
    BY <2>2, <1>9, ProbeMeasured
<1> QED
  BY <1>8, <1>9

\* A probe is counted on the face it goes out on, or, when the next hop after its own
\* face replaces that face, on the face it came from; on no third one.
THEOREM MeasuredWhereSentHolds == Spec => MeasuredWhereSent
<1>1. Init => MeasureInv
  BY DEF Init, MeasureInv
<1>2. MeasureInv /\ [Next]_vars => MeasureInv'
  BY MeasureStep
<1>3. MeasureInv /\ [Next]_vars =>
        [\A n \in Probe, g \in Face :
           n \in measured'[g] \ measured[g] => g \in OutFaces(entry'[n]) \cup ToSet(entry'[n].in)]_vars
  BY MeasureStep
<1> QED
  BY <1>1, <1>2, <1>3, PTL DEF Spec, MeasuredWhereSent
=====================================================================================
