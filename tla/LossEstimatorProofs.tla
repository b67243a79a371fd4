---------------------------- MODULE LossEstimatorProofs ----------------------------
(* The estimator keeps its types, invents no loss, forgets no probe and lets every  *)
(* sample stand, for every set of probes, lifetime, window and refresh period.      *)
EXTENDS LossEstimator, TLAPS

\* What the maps of std::map look like from outside.
LEMMA MapsDef ==
  ASSUME NEW D, NEW R, NEW f
  PROVE  f \in Maps(D, R) <=> DOMAIN f \subseteq D /\ f \in [DOMAIN f -> R]
BY DEF Maps

\* insert and erase keep a map's domain and range.
LEMMA InsertType ==
  ASSUME NEW D, NEW R, NEW f \in Maps(D, R), NEW K \in SUBSET D, NEW v \in R
  PROVE  Insert(f, K, v) \in Maps(D, R)
<1>1. DOMAIN f \subseteq D /\ f \in [DOMAIN f -> R]
  BY MapsDef
<1>2. Insert(f, K, v) \in [DOMAIN f \cup K -> R] /\ DOMAIN f \cup K \in SUBSET D
  BY <1>1 DEF Insert
<1> QED
  BY <1>2 DEF Maps

LEMMA EraseType ==
  ASSUME NEW D, NEW R, NEW f \in Maps(D, R), NEW K
  PROVE  Erase(f, K) \in Maps(D, R)
<1>1. DOMAIN f \subseteq D /\ f \in [DOMAIN f -> R]
  BY MapsDef
<1>2. Erase(f, K) \in [DOMAIN f \ K -> R] /\ DOMAIN f \ K \in SUBSET D
  BY <1>1 DEF Erase
<1> QED
  BY <1>2 DEF Maps

\* An age stays one, and below the window it grows by one.
LEMMA OlderAge ==
  ASSUME NEW a \in Age
  PROVE  /\ Older(a) \in Age
         /\ Older(a) < Window => Older(a) = a + 1
BY LossAssumption DEF Older, Age

\* What each step does to the maps, written without the std::map operators.
LEMMA UpdateSteps ==
  ASSUME updateMeasurements
  PROVE  \E S \in SUBSET Due, E \in SUBSET Expired :
           /\ lossMap' = Erase(Insert(Settle(lossMap, S), {unknownMap[p] : p \in E}, "LOST"), {Window})
           /\ unknownMap' = Erase(unknownMap, E)
           /\ timer' = Refresh
           /\ unanswered' = unanswered
BY DEF updateMeasurements, Visited

-------------------------------------------------------------------------------------
\* The inductive invariant: beside the two safety properties, an undecided probe is
\* unanswered, and a loss has a probe that is decided, long enough after its sending
\* for nothing to take it back.
PendingUnanswered == \A p \in DOMAIN unknownMap : <<p, unknownMap[p]>> \in unanswered

LossSettled ==
  \A a \in DOMAIN lossMap : lossMap[a] = "LOST" /\ a < Window =>
    /\ a > Lifetime
    /\ \E p \in Probes : /\ <<p, a>> \in unanswered
                         /\ ~ (p \in DOMAIN unknownMap /\ unknownMap[p] = a)

IInv == TypeOK /\ PendingUnanswered /\ LossSettled /\ NoProbeForgotten

\* The maps keep their types through every operation.
LEMMA TypeStep == TypeOK /\ [Next]_vars => TypeOK'
<1> SUFFICES ASSUME TypeOK, [Next]_vars PROVE TypeOK'
  OBVIOUS
<1> USE LossAssumption
<1>a. /\ unknownMap \in Maps(Probes, Age)
      /\ lossMap \in Maps(Age, PacketType)
      /\ timer \in 0..NoTimer
      /\ unanswered \subseteq Probes \X Age
  BY DEF TypeOK
<1>b. 0 \in Age /\ "LOST" \in PacketType /\ "SATISFIED" \in PacketType /\ "FUTURESATISFIED" \in PacketType
  BY DEF Age, PacketType
<1>c. /\ DOMAIN unknownMap \subseteq Probes /\ unknownMap \in [DOMAIN unknownMap -> Age]
      /\ DOMAIN lossMap \subseteq Age /\ lossMap \in [DOMAIN lossMap -> PacketType]
  BY <1>a, MapsDef
<1>1. ASSUME NEW p \in Probes, addSentInterest(p) PROVE TypeOK'
  <2>1. unknownMap' \in Maps(Probes, Age)
    BY <1>1, <1>a, <1>b, InsertType DEF addSentInterest
  <2>2. unanswered' \subseteq Probes \X Age
    BY <1>1, <1>a, <1>b DEF addSentInterest
  <2> QED
    BY <1>1, <1>a, <2>1, <2>2 DEF addSentInterest, TypeOK
<1>2. ASSUME NEW p \in Probes, removeSentInterest(p) PROVE TypeOK'
  <2>1. unknownMap' \in Maps(Probes, Age)
    BY <1>2, <1>a, EraseType DEF removeSentInterest
  <2> QED
    BY <1>2, <1>a, <2>1 DEF removeSentInterest, TypeOK
<1>3. ASSUME NEW p \in Probes, addSatisfiedInterest(p) PROVE TypeOK'
  <2>1. unknownMap' \in Maps(Probes, Age)
    BY <1>3, <1>a, EraseType DEF addSatisfiedInterest
  <2>2. {IF p \in DOMAIN unknownMap THEN unknownMap[p] ELSE 0} \in SUBSET Age
    BY <1>b, <1>c
  <2>3. lossMap' \in Maps(Age, PacketType)
    BY <1>3, <1>a, <1>b, <2>2, InsertType DEF addSatisfiedInterest
  <2> QED
    BY <1>3, <1>a, <2>1, <2>3 DEF addSatisfiedInterest, TypeOK
<1>4. ASSUME updateMeasurements PROVE TypeOK'
  <2>1. PICK S \in SUBSET Due, E \in SUBSET Expired :
           /\ lossMap' = Erase(Insert(Settle(lossMap, S), {unknownMap[p] : p \in E}, "LOST"), {Window})
           /\ unknownMap' = Erase(unknownMap, E)
           /\ timer' = Refresh
           /\ unanswered' = unanswered
    BY <1>4, UpdateSteps
  <2>2. unknownMap' \in Maps(Probes, Age)
    BY <2>1, <1>a, EraseType
  <2>3. Settle(lossMap, S) \in Maps(Age, PacketType)
    <3>1. Settle(lossMap, S) \in [DOMAIN lossMap -> PacketType]
      BY <1>b, <1>c DEF Settle
    <3> QED
      BY <3>1, <1>c DEF Maps
  <2>4. {unknownMap[p] : p \in E} \in SUBSET Age
    BY <1>c DEF Expired
  <2>5. Insert(Settle(lossMap, S), {unknownMap[p] : p \in E}, "LOST") \in Maps(Age, PacketType)
    BY <2>3, <2>4, <1>b, InsertType
  <2>6. lossMap' \in Maps(Age, PacketType)
    BY <2>1, <2>5, EraseType
  <2>7. timer' \in 0..NoTimer
    BY <2>1 DEF NoTimer
  <2> QED
    BY <2>1, <2>2, <2>6, <2>7, <1>a DEF TypeOK
<1>5. ASSUME Tick PROVE TypeOK'
  <2>1. unknownMap' \in [DOMAIN unknownMap -> Age]
    BY <1>5, <1>c, OlderAge DEF Tick
  <2>2. lossMap' \in [{Older(b) : b \in DOMAIN lossMap} -> PacketType]
    <3>1. ASSUME NEW b \in DOMAIN lossMap, NEW a, a = Older(b)
          PROVE  lossMap[IF a \in DOMAIN lossMap /\ a = Window THEN Window ELSE a - 1] \in PacketType
      <4>1. CASE a \in DOMAIN lossMap /\ a = Window
        BY <4>1, <1>c
      <4>2. CASE ~ (a \in DOMAIN lossMap /\ a = Window)
        <5>1. b < Window
          BY <3>1, <4>2, <1>c DEF Older, Age
        <5>2. a - 1 = b
          BY <3>1, <5>1, <1>c DEF Older, Age
        <5> QED
          BY <4>2, <5>2, <1>c
      <4> QED
        BY <4>1, <4>2
    <3> QED
      BY <3>1, <1>5 DEF Tick
  <2>3. {Older(b) : b \in DOMAIN lossMap} \in SUBSET Age
    BY <1>c, OlderAge
  <2>4. unanswered' \subseteq Probes \X Age
    BY <1>5, <1>a, OlderAge DEF Tick
  <2>5. timer' \in 0..NoTimer
    BY <1>5, <1>a DEF Tick, NoTimer
  <2>6. unknownMap' \in Maps(Probes, Age)
    BY <2>1, <1>c DEF Maps
  <2>7. lossMap' \in Maps(Age, PacketType)
    BY <2>2, <2>3 DEF Maps
  <2> QED
    BY <2>4, <2>5, <2>6, <2>7 DEF TypeOK
<1>6. CASE UNCHANGED vars
  BY <1>6 DEF TypeOK, vars
<1> QED
  BY <1>1, <1>2, <1>3, <1>4, <1>5, <1>6 DEF Next, getLossPercentage, RefreshTimer

LEMMA TypeInit == Init => TypeOK
<1> SUFFICES ASSUME Init PROVE TypeOK
  OBVIOUS
<1>1. unknownMap \in [{} -> Age] /\ lossMap \in [{} -> PacketType]
  BY DEF Init
<1>2. timer \in 0..NoTimer
  BY LossAssumption DEF Init, NoTimer
<1> QED
  BY <1>1, <1>2 DEF Init, TypeOK, Maps

\* The maps, the timer and the undecided probes have their types in every state.
THEOREM TypeCorrect == Spec => []TypeOK
<1> QED
  BY TypeInit, TypeStep, PTL DEF Spec

-------------------------------------------------------------------------------------
LEMMA InvInit == Init => IInv
BY TypeInit DEF Init, IInv, PendingUnanswered, LossSettled, NoProbeForgotten

\* The invariant, one operation at a time.
LEMMA SentStep ==
  ASSUME IInv, NEW p \in Probes, addSentInterest(p)
  PROVE  PendingUnanswered' /\ LossSettled' /\ NoProbeForgotten'
<1> USE LossAssumption
<1>1. /\ DOMAIN unknownMap' = DOMAIN unknownMap \cup {p}
      /\ \A q \in DOMAIN unknownMap : unknownMap'[q] = unknownMap[q]
      /\ p \notin DOMAIN unknownMap => unknownMap'[p] = 0
      /\ lossMap' = lossMap
      /\ unanswered \subseteq unanswered'
      /\ unanswered' \subseteq unanswered \cup {<<p, 0>>}
      /\ p \notin DOMAIN unknownMap => <<p, 0>> \in unanswered'
  BY DEF addSentInterest, Insert
<1>2. PendingUnanswered'
  BY <1>1 DEF IInv, PendingUnanswered
<1>3. LossSettled'
  <2> SUFFICES ASSUME NEW a \in DOMAIN lossMap, lossMap[a] = "LOST", a < Window
               PROVE  /\ a > Lifetime
                      /\ \E q \in Probes : /\ <<q, a>> \in unanswered'
                                           /\ ~ (q \in DOMAIN unknownMap' /\ unknownMap'[q] = a)
    BY <1>1 DEF LossSettled
  <2>1. PICK q \in Probes : /\ a > Lifetime
                            /\ <<q, a>> \in unanswered
                            /\ ~ (q \in DOMAIN unknownMap /\ unknownMap[q] = a)
    BY DEF IInv, LossSettled
  <2>2. ~ (q \in DOMAIN unknownMap' /\ unknownMap'[q] = a)
    BY <1>1, <2>1
  <2> QED
    BY <1>1, <2>1, <2>2
<1>4. NoProbeForgotten'
  <2> SUFFICES ASSUME NEW q \in Probes, NEW a \in 0..(Window - 1), <<q, a>> \in unanswered'
               PROVE  a \in DOMAIN lossMap \/ (q \in DOMAIN unknownMap' /\ unknownMap'[q] = a)
    BY <1>1 DEF NoProbeForgotten
  <2>1. CASE <<q, a>> \in unanswered
    BY <2>1, <1>1 DEF IInv, NoProbeForgotten
  <2>2. CASE <<q, a>> \notin unanswered
    <3>1. q = p /\ a = 0
      BY <2>2, <1>1
    <3>2. p \notin DOMAIN unknownMap
      BY <2>2 DEF addSentInterest
    <3> QED
      BY <1>1, <3>1, <3>2
  <2> QED
    BY <2>1, <2>2
<1> QED
  BY <1>2, <1>3, <1>4

LEMMA RemovedStep ==
  ASSUME IInv, NEW p \in Probes, removeSentInterest(p)
  PROVE  PendingUnanswered' /\ LossSettled' /\ NoProbeForgotten'
<1> USE LossAssumption
<1>1. /\ DOMAIN unknownMap' = DOMAIN unknownMap \ {p}
      /\ \A q \in DOMAIN unknownMap' : unknownMap'[q] = unknownMap[q]
      /\ lossMap' = lossMap
      /\ unanswered' = unanswered \ (InTime(p) \cup Undecided(p))
  BY DEF removeSentInterest, Erase
<1>2. PendingUnanswered'
  BY <1>1 DEF IInv, PendingUnanswered, InTime, Undecided
<1>3. LossSettled'
  <2> SUFFICES ASSUME NEW a \in DOMAIN lossMap, lossMap[a] = "LOST", a < Window
               PROVE  /\ a > Lifetime
                      /\ \E q \in Probes : /\ <<q, a>> \in unanswered'
                                           /\ ~ (q \in DOMAIN unknownMap' /\ unknownMap'[q] = a)
    BY <1>1 DEF LossSettled
  <2>1. PICK q \in Probes : /\ a > Lifetime
                            /\ <<q, a>> \in unanswered
                            /\ ~ (q \in DOMAIN unknownMap /\ unknownMap[q] = a)
    BY DEF IInv, LossSettled
  <2>2. <<q, a>> \notin InTime(p) /\ <<q, a>> \notin Undecided(p)
    BY <2>1 DEF InTime, Undecided
  <2> QED
    BY <1>1, <2>1, <2>2
<1>4. NoProbeForgotten'
  BY <1>1 DEF IInv, NoProbeForgotten, InTime, Undecided, Age
<1> QED
  BY <1>2, <1>3, <1>4

LEMMA SatisfiedStep ==
  ASSUME IInv, NEW p \in Probes, addSatisfiedInterest(p)
  PROVE  PendingUnanswered' /\ LossSettled' /\ NoProbeForgotten'
<1> USE LossAssumption
<1> DEFINE at == IF p \in DOMAIN unknownMap THEN unknownMap[p] ELSE 0
<1>1. /\ DOMAIN unknownMap' = DOMAIN unknownMap \ {p}
      /\ \A q \in DOMAIN unknownMap' : unknownMap'[q] = unknownMap[q]
      /\ DOMAIN lossMap' = DOMAIN lossMap \cup {at}
      /\ \A a \in DOMAIN lossMap : lossMap'[a] = lossMap[a]
      /\ at \notin DOMAIN lossMap => lossMap'[at] = "FUTURESATISFIED"
      /\ unanswered' = unanswered \ InTime(p)
  BY DEF addSatisfiedInterest, Erase, Insert
<1>2. PendingUnanswered'
  BY <1>1 DEF IInv, PendingUnanswered, InTime
<1>3. LossSettled'
  <2> SUFFICES ASSUME NEW a \in DOMAIN lossMap, lossMap[a] = "LOST", a < Window
               PROVE  /\ a > Lifetime
                      /\ \E q \in Probes : /\ <<q, a>> \in unanswered'
                                           /\ ~ (q \in DOMAIN unknownMap' /\ unknownMap'[q] = a)
    BY <1>1 DEF LossSettled
  <2>1. PICK q \in Probes : /\ a > Lifetime
                            /\ <<q, a>> \in unanswered
                            /\ ~ (q \in DOMAIN unknownMap /\ unknownMap[q] = a)
    BY DEF IInv, LossSettled
  <2>2. <<q, a>> \notin InTime(p)
    BY <2>1 DEF InTime
  <2> QED
    BY <1>1, <2>1, <2>2
<1>4. NoProbeForgotten'
  BY <1>1 DEF IInv, NoProbeForgotten
<1> QED
  BY <1>2, <1>3, <1>4

LEMMA UpdatedStep ==
  ASSUME IInv, updateMeasurements
  PROVE  PendingUnanswered' /\ LossSettled' /\ NoProbeForgotten'
<1> USE LossAssumption
<1>1. PICK S \in SUBSET Due, E \in SUBSET Expired :
         /\ lossMap' = Erase(Insert(Settle(lossMap, S), {unknownMap[p] : p \in E}, "LOST"), {Window})
         /\ unknownMap' = Erase(unknownMap, E)
         /\ timer' = Refresh
         /\ unanswered' = unanswered
  BY UpdateSteps
<1> DEFINE K == {unknownMap[p] : p \in E}
<1>2. /\ DOMAIN unknownMap' = DOMAIN unknownMap \ E
      /\ \A q \in DOMAIN unknownMap' : unknownMap'[q] = unknownMap[q]
  BY <1>1 DEF Erase
<1>3. /\ DOMAIN lossMap' = (DOMAIN lossMap \cup K) \ {Window}
      /\ \A a \in DOMAIN lossMap' : lossMap'[a] = "LOST" =>
           \/ a \in DOMAIN lossMap /\ lossMap[a] = "LOST"
           \/ a \in K
  BY <1>1 DEF Erase, Insert, Settle
<1>4. PendingUnanswered'
  BY <1>1, <1>2 DEF IInv, PendingUnanswered
<1>5. LossSettled'
  <2> SUFFICES ASSUME NEW a \in DOMAIN lossMap', lossMap'[a] = "LOST", a < Window
               PROVE  /\ a > Lifetime
                      /\ \E q \in Probes : /\ <<q, a>> \in unanswered'
                                           /\ ~ (q \in DOMAIN unknownMap' /\ unknownMap'[q] = a)
    BY DEF LossSettled
  <2>1. CASE a \in DOMAIN lossMap /\ lossMap[a] = "LOST"
    BY <2>1, <1>1, <1>2 DEF IInv, LossSettled
  <2>2. CASE a \in K
    <3>1. PICK q \in E : a = unknownMap[q]
      BY <2>2
    <3>2. q \in DOMAIN unknownMap /\ a > Lifetime
      BY <3>1 DEF Expired
    <3>3. DOMAIN unknownMap \subseteq Probes
      BY MapsDef DEF IInv, TypeOK
    <3> QED
      BY <1>1, <1>2, <3>1, <3>2, <3>3 DEF IInv, PendingUnanswered
  <2> QED
    BY <1>3, <2>1, <2>2
<1>6. NoProbeForgotten'
  <2> SUFFICES ASSUME NEW p \in Probes, NEW a \in 0..(Window - 1), <<p, a>> \in unanswered,
                      ~ (p \in DOMAIN unknownMap' /\ unknownMap'[p] = a)
               PROVE  a \in DOMAIN lossMap'
    BY <1>1 DEF NoProbeForgotten
  <2>1. a \in DOMAIN lossMap \/ (p \in DOMAIN unknownMap /\ unknownMap[p] = a)
    BY DEF IInv, NoProbeForgotten
  <2>2. a # Window
    OBVIOUS
  <2>3. CASE a \in DOMAIN lossMap
    BY <2>2, <2>3, <1>3
  <2>4. CASE p \in DOMAIN unknownMap /\ unknownMap[p] = a
    <3>1. p \in E
      BY <1>2, <2>4
    <3> QED
      BY <2>2, <2>4, <3>1, <1>3
  <2> QED
    BY <2>1, <2>3, <2>4
<1> QED
  BY <1>4, <1>5, <1>6

LEMMA TickStep ==
  ASSUME IInv, Tick
  PROVE  PendingUnanswered' /\ LossSettled' /\ NoProbeForgotten'
<1> USE LossAssumption
<1>1. /\ DOMAIN unknownMap \subseteq Probes /\ unknownMap \in [DOMAIN unknownMap -> Age]
      /\ DOMAIN lossMap \subseteq Age
      /\ unanswered \subseteq Probes \X Age
  BY MapsDef DEF IInv, TypeOK
<1>2. /\ DOMAIN unknownMap' = DOMAIN unknownMap
      /\ \A q \in DOMAIN unknownMap : unknownMap'[q] = Older(unknownMap[q])
      /\ DOMAIN lossMap' = {Older(b) : b \in DOMAIN lossMap}
      /\ \A a \in DOMAIN lossMap' : a < Window => lossMap'[a] = lossMap[a - 1]
      /\ unanswered' = {<<u[1], Older(u[2])>> : u \in unanswered}
  BY DEF Tick
<1>3. \A b \in Age : Older(b) < Window => b = Older(b) - 1
  BY OlderAge DEF Age
<1>4. \A b \in Age : b < Window => Older(b) = b + 1
  BY DEF Older, Age
<1>5. \A q \in Probes, b \in Age : <<q, b>> \in unanswered => <<q, Older(b)>> \in unanswered'
  BY <1>2
<1>6. PendingUnanswered'
  BY <1>1, <1>2, <1>5 DEF IInv, PendingUnanswered
<1>7. LossSettled'
  <2> SUFFICES ASSUME NEW a \in DOMAIN lossMap', lossMap'[a] = "LOST", a < Window
               PROVE  /\ a > Lifetime
                      /\ \E q \in Probes : /\ <<q, a>> \in unanswered'
                                           /\ ~ (q \in DOMAIN unknownMap' /\ unknownMap'[q] = a)
    BY DEF LossSettled
  <2>1. PICK b \in DOMAIN lossMap : a = Older(b)
    BY <1>2
  <2>2. b \in Age /\ b < Window /\ a = b + 1 /\ b = a - 1
    BY <2>1, <1>1, <1>3, OlderAge DEF Age, Older
  <2> lossMap[b] = "LOST"
    BY <2>2, <1>2
  <2>3. PICK q \in Probes : /\ b > Lifetime
                            /\ <<q, b>> \in unanswered
                            /\ ~ (q \in DOMAIN unknownMap /\ unknownMap[q] = b)
    BY <2>2 DEF IInv, LossSettled
  <2>4. a > Lifetime
    <3>1. b \in Int /\ b > Lifetime /\ a = b + 1
      BY <2>2, <2>3 DEF Age
    <3> QED
      BY <3>1
  <2>5. <<q, a>> \in unanswered'
    BY <2>1, <2>2, <2>3, <1>5
  <2>6. ~ (q \in DOMAIN unknownMap' /\ unknownMap'[q] = a)
    BY <2>2, <2>3, <1>1, <1>2, <1>3
  <2> QED
    BY <2>4, <2>5, <2>6
<1>8. NoProbeForgotten'
  <2> SUFFICES ASSUME NEW q \in Probes, NEW a \in 0..(Window - 1), <<q, a>> \in unanswered'
               PROVE  a \in DOMAIN lossMap' \/ (q \in DOMAIN unknownMap' /\ unknownMap'[q] = a)
    BY DEF NoProbeForgotten
  <2>1. PICK b \in Age : <<q, b>> \in unanswered /\ a = Older(b)
    BY <1>1, <1>2
  <2>2. b = a - 1 /\ b \in 0..(Window - 1)
    BY <2>1, <1>3 DEF Age
  <2>3. b \in DOMAIN lossMap \/ (q \in DOMAIN unknownMap /\ unknownMap[q] = b)
    BY <2>1, <2>2 DEF IInv, NoProbeForgotten
  <2> QED
    BY <2>1, <2>3, <1>2
<1> QED
  BY <1>6, <1>7, <1>8

LEMMA InvStep == IInv /\ [Next]_vars => IInv'
<1> SUFFICES ASSUME IInv, [Next]_vars PROVE IInv'
  OBVIOUS
<1>1. TypeOK'
  BY TypeStep DEF IInv
<1>2. PendingUnanswered' /\ LossSettled' /\ NoProbeForgotten'
  <2>1. CASE UNCHANGED vars
    BY <2>1 DEF IInv, vars, PendingUnanswered, LossSettled, NoProbeForgotten
  <2> QED
    BY <2>1, SentStep, RemovedStep, SatisfiedStep, UpdatedStep, TickStep
    DEF Next, getLossPercentage, RefreshTimer
<1> QED
  BY <1>1, <1>2 DEF IInv

LEMMA Invariant == Spec => []IInv
BY InvInit, InvStep, PTL DEF Spec

\* Every loss in the window is a probe's that was sent and not answered in time.
THEOREM NoLossInvented == Spec => []LossIsAProbes
<1>1. IInv => LossIsAProbes
  BY DEF IInv, LossSettled, LossIsAProbes
<1> QED
  BY <1>1, Invariant, PTL

\* Every probe that was not answered in time is undecided or leaves a sample.
THEOREM NoLossForgotten == Spec => []NoProbeForgotten
<1>1. IInv => NoProbeForgotten
  BY DEF IInv
<1> QED
  BY <1>1, Invariant, PTL

\* Between two ticks of the clock no sample in the window goes or changes its verdict,
\* save an answer's that the end of its lifetime makes SATISFIED.
THEOREM SamplesStand == Spec => SampleStands
<1> DEFINE Stands == Tick \/ \A a \in DOMAIN lossMap :
             a < Window => /\ a \in DOMAIN lossMap'
                           /\ \/ lossMap'[a] = lossMap[a]
                              \/ lossMap[a] = "FUTURESATISFIED" /\ lossMap'[a] = "SATISFIED" /\ a > Lifetime
<1>1. [Next]_vars => [Stands]_vars
  <2> SUFFICES ASSUME Next PROVE Stands
    OBVIOUS
  <2>1. ASSUME NEW p \in Probes, addSentInterest(p) \/ removeSentInterest(p) PROVE Stands
    BY <2>1 DEF addSentInterest, removeSentInterest
  <2>2. ASSUME NEW p \in Probes, addSatisfiedInterest(p) PROVE Stands
    BY <2>2 DEF addSatisfiedInterest, Insert
  <2>3. ASSUME updateMeasurements PROVE Stands
    <3>1. PICK S \in SUBSET Due, E \in SUBSET Expired :
             lossMap' = Erase(Insert(Settle(lossMap, S), {unknownMap[p] : p \in E}, "LOST"), {Window})
      BY <2>3, UpdateSteps
    <3>2. \A a \in DOMAIN lossMap : a < Window =>
             a \in DOMAIN lossMap' /\ lossMap'[a] = IF a \in S THEN "SATISFIED" ELSE lossMap[a]
      BY <3>1, LossAssumption DEF Erase, Insert, Settle
    <3> QED
      BY <3>2 DEF Due
  <2>4. CASE Tick
    BY <2>4
  <2> QED
    BY <2>1, <2>2, <2>3, <2>4 DEF Next, getLossPercentage, RefreshTimer
<1> QED
  BY <1>1, PTL DEF Spec, SampleStands
=====================================================================================
