------------------------------- MODULE LossEstimator -------------------------------
(* The loss estimator a router keeps for one face and one prefix                  *)
(* (loss-estimator-time-window.cpp): the probes sent and still undecided, and the *)
(* samples of the last Window ticks, by the time of the probe. A time is written  *)
(* as its age, the ticks since then; every age of Window or more is written       *)
(* Window, because the code treats all of them alike.                             *)
EXTENDS Integers, FiniteSets

CONSTANTS Probes,    \* names of probes
          Lifetime,  \* m_interestLifetime
          Window,    \* m_windowSize
          Refresh    \* period of the refresh timer

\* The constructor refuses a window no longer than the lifetime.
ASSUME LossAssumption == /\ Lifetime \in Nat
                         /\ Window \in Nat
                         /\ Lifetime < Window
                         /\ Refresh \in Nat \ {0}

VARIABLES unknownMap,  \* undecided probe |-> the age of its sending
          lossMap,     \* age |-> PacketType of the sample of that time
          timer,       \* ticks until updateMeasurements runs by itself, or NoTimer
          unanswered   \* <<probe, age>>: for checking, the probes sent at that age
                       \* and neither answered nor withdrawn within the lifetime

vars == <<unknownMap, lossMap, timer, unanswered>>

PacketType == {"SATISFIED", "LOST", "FUTURESATISFIED"}
Age == 0..Window
NoTimer == Refresh + 1

Maps(D, R) == UNION {[S -> R] : S \in SUBSET D}

TypeOK == /\ unknownMap \in Maps(Probes, Age)
          /\ lossMap \in Maps(Age, PacketType)
          /\ timer \in 0..NoTimer
          /\ unanswered \subseteq Probes \X Age

Init == /\ unknownMap = [p \in {} |-> 0]
        /\ lossMap = [a \in {} |-> "LOST"]
        /\ timer = NoTimer
        /\ unanswered = {}

-------------------------------------------------------------------------------------
(* std::map                                                                         *)

\* Mutant: operator[] in the place of insert.
InsertOver(map, K, v) == [k \in DOMAIN map \cup K |-> IF k \in K THEN v ELSE map[k]]

\* insert leaves a key alone that is taken already.
Insert(map, K, v) == [k \in DOMAIN map \cup K |-> IF k \in DOMAIN map THEN map[k] ELSE v]

Erase(map, K) == [k \in DOMAIN map \ K |-> map[k]]

\* The loops over the two maps erase the element they stand on and go on from it.
\* That is undefined; where it survives, it has handled one element or more.
Visited(S) == {T \in SUBSET S : S # {} => T # {}}

-------------------------------------------------------------------------------------
\* For checking: what an answer or a Nack for p may still take back.
InTime(p) == {p} \X (0..Lifetime)
Undecided(p) == {u \in {p} \X Age : p \in DOMAIN unknownMap /\ u[2] = unknownMap[p]}

\* Mutant: sent again, the probe counts from now.
addSentInterestRenewed(p) ==
  /\ unknownMap' = InsertOver(unknownMap, {p}, 0)
  /\ unanswered' = IF p \in DOMAIN unknownMap THEN unanswered ELSE unanswered \cup {<<p, 0>>}
  /\ UNCHANGED <<lossMap, timer>>

addSentInterest(p) ==
  /\ unknownMap' = Insert(unknownMap, {p}, 0)
  /\ unanswered' = IF p \in DOMAIN unknownMap THEN unanswered ELSE unanswered \cup {<<p, 0>>}
  /\ UNCHANGED <<lossMap, timer>>

\* A probe a TAINTED Nack came for.
removeSentInterest(p) ==
  /\ unknownMap' = Erase(unknownMap, {p})
  /\ unanswered' = unanswered \ (InTime(p) \cup Undecided(p))
  /\ UNCHANGED <<lossMap, timer>>

\* Mutants: the sample stands at the time the probe would have expired; at the present.
addSatisfiedAtExpiry(p) ==
  /\ lossMap' = Insert(lossMap, {IF p \in DOMAIN unknownMap THEN unknownMap[p] - Lifetime ELSE 0},
                       "FUTURESATISFIED")
  /\ unknownMap' = Erase(unknownMap, {p})
  /\ unanswered' = unanswered \ InTime(p)
  /\ UNCHANGED timer

addSatisfiedAtPresent(p) ==
  /\ lossMap' = Insert(lossMap, {0}, "FUTURESATISFIED")
  /\ unknownMap' = Erase(unknownMap, {p})
  /\ unanswered' = unanswered \ InTime(p)
  /\ UNCHANGED timer

\* The sample stands at the time the probe was sent; for a probe that is not undecided
\* (sent elsewhere, withdrawn, lost already or answered already), at the present.
addSatisfiedInterest(p) ==
  /\ lossMap' = Insert(lossMap, {IF p \in DOMAIN unknownMap THEN unknownMap[p] ELSE 0},
                       "FUTURESATISFIED")
  /\ unknownMap' = Erase(unknownMap, {p})
  /\ unanswered' = unanswered \ InTime(p)
  /\ UNCHANGED timer

\* Mutant: lost as the lifetime ends, not after it.
ExpiredEarly == {p \in DOMAIN unknownMap : unknownMap[p] >= Lifetime}

Due == {a \in DOMAIN lossMap : a > Lifetime /\ lossMap[a] = "FUTURESATISFIED"}
Expired == {p \in DOMAIN unknownMap : unknownMap[p] > Lifetime}

Settle(map, S) == [a \in DOMAIN map |-> IF a \in S THEN "SATISFIED" ELSE map[a]]

updateMeasurements ==
  /\ \E S \in Visited(Due), E \in Visited(Expired) :
       /\ lossMap' = Erase(Insert(Settle(lossMap, S), {unknownMap[p] : p \in E}, "LOST"), {Window})
       /\ unknownMap' = Erase(unknownMap, E)
  /\ timer' = Refresh
  /\ UNCHANGED unanswered

\* Reading the loss brings the maps up to date first.
getLossPercentage == updateMeasurements

RefreshTimer == timer = 0 /\ updateMeasurements

Older(a) == IF a < Window THEN a + 1 ELSE Window

\* Time passes; an event that is due runs first.
Tick ==
  /\ timer # 0
  /\ timer' = IF timer = NoTimer THEN NoTimer ELSE timer - 1
  /\ unknownMap' = [p \in DOMAIN unknownMap |-> Older(unknownMap[p])]
  /\ lossMap' = [a \in {Older(b) : b \in DOMAIN lossMap} |->
                   lossMap[IF a \in DOMAIN lossMap /\ a = Window THEN Window ELSE a - 1]]
  /\ unanswered' = {<<u[1], Older(u[2])>> : u \in unanswered}

Next == \/ \E p \in Probes : addSentInterest(p) \/ removeSentInterest(p) \/ addSatisfiedInterest(p)
        \/ getLossPercentage
        \/ RefreshTimer
        \/ Tick

Spec == Init /\ [][Next]_vars

\* The simulator runs the events that are due and then lets time pass.
Fairness == WF_vars(RefreshTimer) /\ WF_vars(Tick)
FairSpec == Spec /\ Fairness

-------------------------------------------------------------------------------------
\* A loss in the window is the loss of a probe: one was sent at that time and nothing
\* took it back before its lifetime was over (addSatisfiedInterest, removeSentInterest,
\* updateMeasurements), whatever came late, twice or for probes sent elsewhere.
LossIsAProbes ==
  \A a \in DOMAIN lossMap : lossMap[a] = "LOST" /\ a < Window => \E p \in Probes : <<p, a>> \in unanswered

\* A probe nothing answered in time is not forgotten while the window covers it: it is
\* undecided, or there is a sample at its time. The sample may be an answer's: insert
\* keeps the first sample of an instant.
NoProbeForgotten ==
  \A p \in Probes, a \in 0..(Window - 1) :
    <<p, a>> \in unanswered => a \in DOMAIN lossMap \/ (p \in DOMAIN unknownMap /\ unknownMap[p] = a)

\* No sample changes its verdict or goes before the window has passed over it: an
\* answered probe is SATISFIED after its lifetime, and LOST never becomes anything else.
SampleStands ==
  [][Tick \/ \A a \in DOMAIN lossMap :
       a < Window => /\ a \in DOMAIN lossMap'
                     /\ \/ lossMap'[a] = lossMap[a]
                        \/ lossMap[a] = "FUTURESATISFIED" /\ lossMap'[a] = "SATISFIED" /\ a > Lifetime]_vars

\* Once a reading has started the refresh timer, every probe is decided, the loops'
\* broken iterators notwithstanding.
EveryProbeDecided ==
  \A p \in Probes : (timer # NoTimer /\ p \in DOMAIN unknownMap) ~> p \notin DOMAIN unknownMap
=====================================================================================
