--------------------------- MODULE CallScenarioProofs ---------------------------
(***************************************************************************)
(* The safety properties of a call, for any number of consumers and clients *)
(* and any intervals that satisfy the assumptions of the applications: the  *)
(* push applications first, then the clients, the pull caller, and all.     *)
(***************************************************************************)
EXTENDS CallScenario, TLAPS

USE DelayAssumption, PushAssumption

(* What one event at a time makes of a queue.                               *)
LEMMA QueueOps ==
  ASSUME NEW max \in Nat, NEW q \in Queue(max), NEW d \in 0..max
  PROVE  /\ << >> \in Queue(max) /\ <<d>> \in Queue(max)
         /\ q = << >> => Schedule(q, d) = <<d>>
         /\ Due(q) => q = <<0>> /\ Run(q) = << >> /\ Schedule(Run(q), d) = <<d>>
         /\ CancelLast(q) = << >>
         /\ Waiting(q) /\ q # << >> => q[1] \in 1..max /\ Passed(q) = <<q[1] - 1>>
         /\ Waiting(q) => Passed(q) \in Queue(max) /\ (Passed(q) = << >> <=> q = << >>)
<1>1. CASE q = << >>
  BY <1>1 DEF Queue, Schedule, Due, CancelLast, Waiting, Passed
<1>2. CASE q # << >>
  <2>1. PICK t \in 0..max : q = <<t>>
    BY <1>2 DEF Queue
  <2>2. Run(q) = << >> /\ CancelLast(q) = << >>
    BY <2>1 DEF Run, CancelLast
  <2>3. Due(q) => q = <<0>> /\ Schedule(Run(q), d) = <<d>>
    BY <2>1, <2>2 DEF Due, Schedule
  <2>4. Passed(q) = <<t - 1>> /\ (Waiting(q) <=> t > 0)
    BY <2>1 DEF Passed, Waiting
  <2>5. /\ << >> \in Queue(max) /\ <<d>> \in Queue(max)
        /\ Waiting(q) => Passed(q) \in Queue(max)
    BY <2>4 DEF Queue
  <2> QED BY <1>2, <2>1, <2>2, <2>3, <2>4, <2>5
<1> QED BY <1>1, <1>2

LEMMA QueueScheduled ==
  ASSUME NEW max \in Nat, NEW q \in Queue(max)
  PROVE  /\ <<max>> \in Queue(max) /\ << >> \in Queue(max)
         /\ q = << >> => Schedule(q, max) = <<max>>
         /\ Due(q) => q # << >> /\ Run(q) = << >> /\ Schedule(Run(q), max) = <<max>>
<1>1. max \in 0..max
  OBVIOUS
<1> QED BY <1>1, QueueOps

LEMMA QueuePassed ==
  ASSUME NEW max \in Nat, NEW q \in Queue(max), Waiting(q)
  PROVE  /\ Passed(q) \in Queue(max)
         /\ Passed(q) = << >> <=> q = << >>
<1>1. 0 \in 0..max
  OBVIOUS
<1> QED BY <1>1, QueueOps

(* Until its next Interest is under way, the time left to a subscription    *)
(* covers the wait for the next renewal, every renewal that may still be    *)
(* lost, and the way of the one after; when an Interest is under way, it    *)
(* arrives before the subscription ends.                                    *)
Spare(m) == (Tolerated - m) * Refresh

CoveredTo(c) ==
  phase[c] = "active" /\ missed[c] <= Tolerated =>
    /\ subscribed[c] > 0
    /\ flight[c] = {} => subscribed[c] > renewals[c][1] + Spare(missed[c]) + MaxDelay
    /\ flight[c] # {} => \E d \in flight[c] : d < subscribed[c]

Unasked(c) == phase[c] = "new" => missed[c] = Tolerated + 1 /\ flight[c] = {}

EventsOf(c) ==
  /\ phase[c] = "new" => firstTime[c] /\ renewals[c] = << >> /\ probes[c] = << >>
  /\ phase[c] = "active" =>
       /\ renewals[c] # << >>
       /\ probes[c] # << >> <=> ~firstTime[c] /\ ProbeInterval > 0
  /\ phase[c] # "stopped" /\ firstTime[c] => probes[c] = << >>

PushTypes ==
  /\ PushTypeOK
  /\ renewals \in [Consumer -> Queue(Refresh)]
  /\ probes \in [Consumer -> Queue(ProbeInterval)]
  /\ production \in Queue(Period)

PushInv ==
  /\ PushTypes
  /\ \A c \in Consumer : EventsOf(c) /\ CoveredTo(c) /\ Unasked(c)
  /\ production # << >> <=> producing

LEMMA SpareType == \A m \in 0..Tolerated : Spare(m) \in Nat /\ Spare(m) <= Tolerated * Refresh
  BY DEF Spare

LEMMA SpareLess ==
  ASSUME NEW m \in Nat
  PROVE  Spare(m) = Spare(m + 1) + Refresh
<1> DEFINE k == Tolerated - (m + 1)
<1>1. k \in Int
  OBVIOUS
<1>2. (k + 1) * Refresh = k * Refresh + Refresh
  BY <1>1
<1>3. Tolerated - m = k + 1
  OBVIOUS
<1> QED BY <1>1, <1>2, <1>3 DEF Spare

(* A full lifetime covers a refresh interval, all losses and a delay.       *)
LEMMA LifetimeCovers == Lifetime > Refresh + Spare(0) + MaxDelay
<1>1. (Tolerated + 1) * Refresh = Tolerated * Refresh + Refresh
  OBVIOUS
<1>2. Spare(0) = Tolerated * Refresh
  BY DEF Spare
<1> QED BY <1>1, <1>2

LEMMA PushInvInit == PushInit => PushInv
<1> SUFFICES ASSUME PushInit PROVE PushInv
  OBVIOUS
<1>1. PushTypes
  <2>1. firstTime \in [Consumer -> BOOLEAN] /\ producing \in BOOLEAN
    BY Zenon DEF PushInit
  <2>2. /\ phase \in [Consumer -> {"new", "active", "stopped"}]
        /\ sendEvent \in [Consumer -> {"none", "renewal", "probe"}]
        /\ flight \in [Consumer -> SUBSET (0..MaxDelay)]
        /\ missed \in [Consumer -> 0..Tolerated + 1]
        /\ subscribed \in [Consumer -> 0..Lifetime]
    BY DEF PushInit
  <2>3. /\ renewals \in [Consumer -> Queue(Refresh)]
        /\ probes \in [Consumer -> Queue(ProbeInterval)]
        /\ production \in Queue(Period)
    BY DEF PushInit, Queue, NoEvent
  <2> QED BY <2>1, <2>2, <2>3 DEF PushTypes, PushTypeOK
<1>2. \A c \in Consumer : EventsOf(c) /\ CoveredTo(c) /\ Unasked(c)
  BY DEF PushInit, EventsOf, CoveredTo, Unasked, NoEvent
<1> QED BY <1>1, <1>2 DEF PushInit, PushInv, NoEvent

(* The rest of a consumer's part that an action on another one leaves.      *)
ConsumerInv(c) == EventsOf(c) /\ CoveredTo(c) /\ Unasked(c)

LEMMA OtherConsumer ==
  ASSUME NEW c \in Consumer, ConsumerInv(c),
         phase'[c] = phase[c], firstTime'[c] = firstTime[c], renewals'[c] = renewals[c],
         probes'[c] = probes[c], flight'[c] = flight[c], missed'[c] = missed[c],
         subscribed'[c] = subscribed[c]
  PROVE  ConsumerInv(c)'
BY DEF ConsumerInv, EventsOf, CoveredTo, Unasked, Spare

LEMMA StartConsumerInv ==
  ASSUME PushInv, NEW a \in Consumer, StartConsumer(a)
  PROVE  PushInv'
<1>1. /\ Schedule(renewals[a], Refresh) = <<Refresh>>
      /\ <<Refresh>> \in Queue(Refresh)
  <2>1. renewals[a] = << >> /\ renewals[a] \in Queue(Refresh)
    BY DEF PushInv, PushTypes, EventsOf, StartConsumer
  <2> QED BY <2>1, QueueOps
<1>2. PushTypes'
  <2>1. phase' \in [Consumer -> {"new", "active", "stopped"}]
    BY DEF PushInv, PushTypes, PushTypeOK, StartConsumer
  <2>2. sendEvent' \in [Consumer -> {"none", "renewal", "probe"}]
    BY DEF PushInv, PushTypes, PushTypeOK, StartConsumer
  <2>3. renewals' = [renewals EXCEPT ![a] = <<Refresh>>]
    BY <1>1 DEF StartConsumer, ScheduleNextPacket, PushInv, PushTypes
  <2>4. renewals' \in [Consumer -> Queue(Refresh)]
    BY <1>1, <2>3 DEF PushInv, PushTypes
  <2> QED BY <2>1, <2>2, <2>4 DEF PushInv, PushTypes, PushTypeOK, StartConsumer, producerVars
<1>3. ConsumerInv(a)'
  <2>1. renewals'[a] = <<Refresh>>
    BY <1>1 DEF StartConsumer, ScheduleNextPacket, PushInv, PushTypes
  <2>2. /\ phase'[a] = "active" /\ missed'[a] = Tolerated + 1
        /\ firstTime'[a] /\ probes'[a] = << >>
    BY DEF StartConsumer, PushInv, PushTypes, PushTypeOK, Unasked, EventsOf
  <2> QED BY <2>1, <2>2 DEF ConsumerInv, EventsOf, CoveredTo, Unasked, PushInv
<1>4. \A c \in Consumer : ConsumerInv(c)'
  BY <1>3, OtherConsumer DEF StartConsumer, PushInv, PushTypes, PushTypeOK, ConsumerInv
<1> QED BY <1>2, <1>4 DEF PushInv, ConsumerInv, StartConsumer, producerVars

(* An active consumer's event of SendPacket and, with the first, of         *)
(* SendProbe are replaced by one more each.                                 *)
LEMMA SendPacketInv ==
  ASSUME PushInv, NEW a \in Consumer, SendPacket(a)
  PROVE  PushInv'
<1> DEFINE p == IF firstTime[a] /\ ProbeInterval > 0 THEN <<ProbeInterval>> ELSE probes[a]
<1>1. /\ renewals[a] = <<0>>
      /\ Schedule(Run(renewals[a]), Refresh) = <<Refresh>>
      /\ <<Refresh>> \in Queue(Refresh)
  <2>1. renewals[a] \in Queue(Refresh) /\ Due(renewals[a])
    BY DEF PushInv, PushTypes, SendPacket
  <2> QED BY <2>1, QueueOps
<1>2. /\ (IF firstTime[a] THEN ScheduleNextProbe(probes[a]) ELSE probes[a]) = p
      /\ p \in Queue(ProbeInterval)
  <2>1. /\ probes[a] \in Queue(ProbeInterval) /\ firstTime[a] \in BOOLEAN
        /\ firstTime[a] => probes[a] = << >>
    BY DEF PushInv, PushTypes, PushTypeOK, EventsOf, SendPacket
  <2>2. /\ probes[a] = << >> => Schedule(probes[a], ProbeInterval) = <<ProbeInterval>>
        /\ <<ProbeInterval>> \in Queue(ProbeInterval)
    <3>1. ProbeInterval \in Nat /\ ProbeInterval \in 0..ProbeInterval
      OBVIOUS
    <3> QED BY <2>1, <3>1, QueueOps
  <2> QED BY <2>1, <2>2 DEF ScheduleNextProbe
<1>3. /\ renewals' = [renewals EXCEPT ![a] = <<Refresh>>]
      /\ probes' = [probes EXCEPT ![a] = p]
  BY <1>1, <1>2 DEF SendPacket, ScheduleNextPacket, PushInv, PushTypes
<1> HIDE DEF p
<1>4. PushTypes'
  <2>1. firstTime' \in [Consumer -> BOOLEAN]
    BY Zenon DEF PushInv, PushTypes, PushTypeOK, SendPacket
  <2>2. sendEvent' \in [Consumer -> {"none", "renewal", "probe"}]
    BY DEF PushInv, PushTypes, PushTypeOK, SendPacket
  <2>3. renewals' \in [Consumer -> Queue(Refresh)] /\ probes' \in [Consumer -> Queue(ProbeInterval)]
    BY <1>1, <1>2, <1>3 DEF PushInv, PushTypes
  <2>4. flight' \in [Consumer -> SUBSET (0..MaxDelay)]
    <3>1. ASSUME NEW d \in 0..MaxDelay, flight' = [flight EXCEPT ![a] = @ \cup {d}]
          PROVE  flight' \in [Consumer -> SUBSET (0..MaxDelay)]
      BY <3>1 DEF PushInv, PushTypes, PushTypeOK
    <3> QED BY <3>1 DEF PushInv, PushTypes, PushTypeOK, SendPacket
  <2>5. missed' \in [Consumer -> 0..Tolerated + 1]
    <3> DEFINE m == IF missed[a] > Tolerated THEN missed[a] ELSE missed[a] + 1
    <3>1. missed[a] \in 0..Tolerated + 1
      BY DEF PushInv, PushTypes, PushTypeOK
    <3>2. m \in 0..Tolerated + 1
      BY <3>1
    <3>3. missed' = missed \/ missed' = [missed EXCEPT ![a] = m]
      BY DEF SendPacket
    <3> HIDE DEF m
    <3> QED BY <3>2, <3>3 DEF PushInv, PushTypes, PushTypeOK
  <2> QED BY <2>1, <2>2, <2>3, <2>4, <2>5 DEF PushInv, PushTypes, PushTypeOK, SendPacket, producerVars
<1>5. /\ phase'[a] = "active" /\ ~firstTime'[a] /\ renewals'[a] = <<Refresh>> /\ probes'[a] = p
      /\ subscribed'[a] = subscribed[a]
  BY <1>3 DEF SendPacket, PushInv, PushTypes, PushTypeOK
<1>6. EventsOf(a)'
  <2>1. probes[a] # << >> <=> ~firstTime[a] /\ ProbeInterval > 0
    BY DEF PushInv, EventsOf, SendPacket
  <2>2. p # << >> <=> ProbeInterval > 0
    BY <2>1 DEF p
  <2> QED BY <1>5, <2>2 DEF EventsOf
<1>7. CoveredTo(a)'
  <2> SUFFICES ASSUME missed'[a] <= Tolerated
               PROVE  /\ subscribed[a] > 0
                      /\ flight'[a] = {} => subscribed[a] > Refresh + Spare(missed'[a]) + MaxDelay
                      /\ flight'[a] # {} => \E d \in flight'[a] : d < subscribed[a]
    BY <1>5 DEF CoveredTo
  <2>1. /\ missed[a] \in 0..Tolerated + 1 /\ subscribed[a] \in 0..Lifetime
        /\ flight[a] \subseteq 0..MaxDelay
    BY DEF PushInv, PushTypes, PushTypeOK
  <2>2. CASE \E d \in 0..MaxDelay : flight' = [flight EXCEPT ![a] = @ \cup {d}] /\ UNCHANGED missed
    <3>1. PICK d \in 0..MaxDelay : flight' = [flight EXCEPT ![a] = @ \cup {d}] /\ UNCHANGED missed
      BY <2>2
    <3>2. flight'[a] = flight[a] \cup {d} /\ missed'[a] = missed[a]
      BY <3>1 DEF PushInv, PushTypes, PushTypeOK
    <3>3. CoveredTo(a) /\ phase[a] = "active"
      BY DEF PushInv, SendPacket
    <3>4. Spare(missed[a]) \in Nat
      BY <2>1, <3>2, SpareType
    <3> QED BY <1>1, <2>1, <3>2, <3>3, <3>4 DEF CoveredTo
  <2>3. CASE missed' = [missed EXCEPT ![a] = IF @ > Tolerated THEN @ ELSE @ + 1] /\ UNCHANGED flight
    <3>1. missed[a] <= Tolerated /\ missed'[a] = missed[a] + 1 /\ flight'[a] = flight[a]
      BY <2>1, <2>3 DEF PushInv, PushTypes, PushTypeOK
    <3>2. CoveredTo(a) /\ phase[a] = "active"
      BY DEF PushInv, SendPacket
    <3>3. Spare(missed[a]) = Spare(missed'[a]) + Refresh /\ Spare(missed'[a]) \in Nat
      BY <2>1, <3>1, SpareLess, SpareType
    <3> QED BY <1>1, <2>1, <3>1, <3>2, <3>3 DEF CoveredTo
  <2> QED BY <2>2, <2>3 DEF SendPacket
<1>8. \A c \in Consumer : ConsumerInv(c)'
  <2>1. ConsumerInv(a)'
    BY <1>5, <1>6, <1>7 DEF ConsumerInv, Unasked
  <2>2. ASSUME NEW c \in Consumer, c # a PROVE ConsumerInv(c)'
    <3>1. /\ phase'[c] = phase[c] /\ firstTime'[c] = firstTime[c] /\ renewals'[c] = renewals[c]
          /\ probes'[c] = probes[c] /\ subscribed'[c] = subscribed[c]
      BY <1>3, <2>2 DEF SendPacket, PushInv, PushTypes, PushTypeOK
    <3>2. flight'[c] = flight[c] /\ missed'[c] = missed[c]
      BY <2>2 DEF SendPacket, PushInv, PushTypes, PushTypeOK
    <3> QED BY <3>1, <3>2, OtherConsumer DEF ConsumerInv, PushInv
  <2> QED BY <2>1, <2>2
<1> QED BY <1>4, <1>8 DEF PushInv, ConsumerInv, SendPacket, producerVars

LEMMA SendProbeInv ==
  ASSUME PushInv, NEW a \in Consumer, SendProbe(a)
  PROVE  PushInv'
<1>1. probes[a] \in Queue(ProbeInterval) /\ Due(probes[a])
  BY DEF PushInv, PushTypes, SendProbe
<1>2. ProbeInterval \in Nat /\ ProbeInterval \in 0..ProbeInterval
  OBVIOUS
<1>3. /\ probes[a] # << >> /\ Run(probes[a]) = << >>
      /\ Schedule(Run(probes[a]), ProbeInterval) = <<ProbeInterval>>
      /\ <<ProbeInterval>> \in Queue(ProbeInterval)
  BY <1>1, <1>2, QueueOps
<1>4. ~firstTime[a] /\ ProbeInterval > 0
  <2>1. phase[a] = "active" /\ EventsOf(a)
    BY DEF PushInv, SendProbe
  <2> QED BY <1>3, <2>1 DEF EventsOf
<1>5. probes' = [probes EXCEPT ![a] = <<ProbeInterval>>]
  <2>1. ScheduleNextProbe(Run(probes[a])) = <<ProbeInterval>>
    BY <1>3, <1>4 DEF ScheduleNextProbe
  <2> QED BY <2>1 DEF SendProbe
<1>6. PushTypes'
  <2>1. sendEvent' \in [Consumer -> {"none", "renewal", "probe"}]
    BY DEF PushInv, PushTypes, PushTypeOK, SendProbe
  <2>2. probes' \in [Consumer -> Queue(ProbeInterval)]
    BY <1>3, <1>5 DEF PushInv, PushTypes
  <2> QED BY <2>1, <2>2 DEF PushInv, PushTypes, PushTypeOK, SendProbe, producerVars
<1>7. \A c \in Consumer : ConsumerInv(c)'
  <2>1. ConsumerInv(a)'
    <3>1. UNCHANGED <<phase, firstTime, renewals, flight, missed, subscribed>>
      BY DEF SendProbe
    <3>2. phase[a] = "active" /\ probes'[a] = <<ProbeInterval>>
      BY <1>5 DEF SendProbe, PushInv, PushTypes
    <3>3. EventsOf(a) /\ CoveredTo(a) /\ Unasked(a)
      BY DEF PushInv
    <3>4. EventsOf(a)'
      BY <1>4, <3>1, <3>2, <3>3 DEF EventsOf
    <3>5. CoveredTo(a)' /\ Unasked(a)'
      BY <3>1, <3>3 DEF CoveredTo, Unasked, Spare
    <3> QED BY <3>4, <3>5 DEF ConsumerInv
  <2>2. ASSUME NEW c \in Consumer, c # a PROVE ConsumerInv(c)'
    <3>1. probes'[c] = probes[c]
      BY <1>5, <2>2 DEF PushInv, PushTypes
    <3> QED BY <3>1, OtherConsumer DEF ConsumerInv, PushInv, SendProbe
  <2> QED BY <2>1, <2>2
<1> QED BY <1>6, <1>7 DEF PushInv, ConsumerInv, SendProbe, producerVars

(* After the stop of a consumer its events may only become fewer.           *)
LEMMA StoppedInv ==
  ASSUME PushInv, NEW a \in Consumer, phase'[a] = "stopped",
         phase' = [phase EXCEPT ![a] = "stopped"],
         NEW r \in Queue(Refresh), renewals' = [renewals EXCEPT ![a] = r],
         NEW p \in Queue(ProbeInterval), probes' = [probes EXCEPT ![a] = p],
         UNCHANGED <<firstTime, sendEvent, flight, missed, subscribed, producerVars>>
  PROVE  PushInv'
<1>1. PushTypes'
  <2>1. phase' \in [Consumer -> {"new", "active", "stopped"}]
    BY DEF PushInv, PushTypes, PushTypeOK
  <2>2. renewals' \in [Consumer -> Queue(Refresh)] /\ probes' \in [Consumer -> Queue(ProbeInterval)]
    BY DEF PushInv, PushTypes
  <2> QED BY <2>1, <2>2 DEF PushInv, PushTypes, PushTypeOK, producerVars
<1>2. \A c \in Consumer : ConsumerInv(c)'
  <2>1. ConsumerInv(a)'
    BY DEF ConsumerInv, EventsOf, CoveredTo, Unasked
  <2>2. ASSUME NEW c \in Consumer, c # a PROVE ConsumerInv(c)'
    <3>1. phase'[c] = phase[c] /\ renewals'[c] = renewals[c] /\ probes'[c] = probes[c]
      BY <2>2 DEF PushInv, PushTypes, PushTypeOK
    <3> QED BY <3>1, OtherConsumer DEF ConsumerInv, PushInv
  <2> QED BY <2>1, <2>2
<1> QED BY <1>1, <1>2 DEF PushInv, ConsumerInv, producerVars

LEMMA StopConsumerInv ==
  ASSUME PushInv, NEW a \in Consumer, StopConsumer(a)
  PROVE  PushInv'
<1> DEFINE r == IF sendEvent[a] = "renewal" THEN CancelLast(renewals[a]) ELSE renewals[a]
           p == IF sendEvent[a] = "probe" THEN CancelLast(probes[a]) ELSE probes[a]
<1>1. /\ renewals[a] \in Queue(Refresh) /\ probes[a] \in Queue(ProbeInterval)
      /\ 0 \in 0..Refresh /\ 0 \in 0..ProbeInterval
  BY DEF PushInv, PushTypes
<1>2. /\ CancelLast(renewals[a]) = << >> /\ << >> \in Queue(Refresh)
      /\ CancelLast(probes[a]) = << >> /\ << >> \in Queue(ProbeInterval)
  BY <1>1, QueueOps
<1>3. r \in Queue(Refresh) /\ p \in Queue(ProbeInterval)
  BY <1>1, <1>2
<1>4. renewals' = [renewals EXCEPT ![a] = r] /\ probes' = [probes EXCEPT ![a] = p]
  BY DEF StopConsumer
<1> HIDE DEF r, p
<1>5. phase' = [phase EXCEPT ![a] = "stopped"] /\ phase'[a] = "stopped"
  BY DEF StopConsumer, PushInv, PushTypes, PushTypeOK
<1> QED BY <1>3, <1>4, <1>5, StoppedInv DEF StopConsumer

LEMMA LateEventInv ==
  ASSUME PushInv, NEW a \in Consumer, LateEvent(a)
  PROVE  PushInv'
<1>1. /\ renewals[a] \in Queue(Refresh) /\ probes[a] \in Queue(ProbeInterval)
      /\ 0 \in 0..Refresh /\ 0 \in 0..ProbeInterval
      /\ renewals = [renewals EXCEPT ![a] = renewals[a]]
      /\ probes = [probes EXCEPT ![a] = probes[a]]
      /\ phase = [phase EXCEPT ![a] = "stopped"] /\ phase[a] = "stopped"
  BY DEF PushInv, PushTypes, PushTypeOK, LateEvent
<1>2. /\ Due(renewals[a]) => Run(renewals[a]) \in Queue(Refresh)
      /\ Due(probes[a]) => Run(probes[a]) \in Queue(ProbeInterval)
  <2>1. Due(renewals[a]) => Run(renewals[a]) = << >>
    BY <1>1, QueueOps
  <2>2. Due(probes[a]) => Run(probes[a]) = << >>
    BY <1>1, QueueOps
  <2> QED BY <2>1, <2>2 DEF Queue
<1>3. CASE Due(renewals[a]) /\ renewals' = [renewals EXCEPT ![a] = Run(@)] /\ UNCHANGED probes
  BY <1>1, <1>2, <1>3, StoppedInv DEF LateEvent
<1>4. CASE Due(probes[a]) /\ probes' = [probes EXCEPT ![a] = Run(@)] /\ UNCHANGED renewals
  BY <1>1, <1>2, <1>4, StoppedInv DEF LateEvent
<1> QED BY <1>3, <1>4 DEF LateEvent

(* An Interest that arrives renews the subscription for longer than the     *)
(* next one may take.                                                       *)
LEMMA InterestArrivesInv ==
  ASSUME PushInv, NEW a \in Consumer, InterestArrives(a)
  PROVE  PushInv'
<1>1. production' \in Queue(Period) /\ production' # << >> /\ producing'
  <2>1. CASE producing
    BY <2>1 DEF PushInv, PushTypes, InterestArrives, OnInterest
  <2>2. CASE ~producing
    <3>1. production = << >> /\ Period \in Nat /\ Period \in 0..Period
      BY <2>2 DEF PushInv
    <3>2. Schedule(production, Period) = <<Period>> /\ <<Period>> \in Queue(Period)
      BY <3>1, QueueOps DEF PushInv, PushTypes
    <3> QED BY <2>2, <3>2 DEF InterestArrives, OnInterest
  <2> QED BY <2>1, <2>2 DEF PushInv, PushTypes, PushTypeOK
<1>2. PushTypes'
  <2>1. flight' \in [Consumer -> SUBSET (0..MaxDelay)]
    BY DEF PushInv, PushTypes, PushTypeOK, InterestArrives
  <2>2. missed' \in [Consumer -> 0..Tolerated + 1]
    BY DEF PushInv, PushTypes, PushTypeOK, InterestArrives
  <2>3. subscribed' \in [Consumer -> 0..Lifetime]
    BY DEF PushInv, PushTypes, PushTypeOK, InterestArrives
  <2>4. producing' \in BOOLEAN
    BY Zenon DEF InterestArrives
  <2> QED BY <1>1, <2>1, <2>2, <2>3, <2>4 DEF PushInv, PushTypes, PushTypeOK, InterestArrives
<1>3. ConsumerInv(a)'
  <2>1. /\ missed'[a] = 0 /\ subscribed'[a] = Lifetime /\ flight'[a] = flight[a] \ {0}
        /\ flight[a] \subseteq 0..MaxDelay /\ 0 \in flight[a]
    BY DEF PushInv, PushTypes, PushTypeOK, InterestArrives
  <2>2. phase[a] # "new"
    BY <2>1 DEF PushInv, Unasked
  <2>3. phase[a] = "active" => renewals[a][1] \in 0..Refresh
    BY DEF PushInv, PushTypes, EventsOf, Queue
  <2>4. Lifetime > Refresh + Spare(0) + MaxDelay /\ Spare(0) \in Nat
    BY LifetimeCovers, SpareType
  <2>5. CoveredTo(a)'
    BY <2>1, <2>3, <2>4 DEF CoveredTo, InterestArrives
  <2> QED BY <2>2, <2>5 DEF ConsumerInv, EventsOf, Unasked, PushInv, InterestArrives
<1>4. ASSUME NEW c \in Consumer, c # a PROVE ConsumerInv(c)'
  <2>1. flight'[c] = flight[c] /\ missed'[c] = missed[c] /\ subscribed'[c] = subscribed[c]
    BY <1>4 DEF PushInv, PushTypes, PushTypeOK, InterestArrives
  <2> QED BY <2>1, OtherConsumer DEF ConsumerInv, PushInv, InterestArrives
<1> QED BY <1>1, <1>2, <1>3, <1>4 DEF PushInv, ConsumerInv

LEMMA ProducerSendPacketInv ==
  ASSUME PushInv, ProducerSendPacket
  PROVE  PushInv'
<1>1. Period \in Nat /\ Period \in 0..Period /\ production \in Queue(Period) /\ Due(production)
  BY DEF PushInv, PushTypes, ProducerSendPacket
<1>2. /\ production # << >> /\ <<Period>> \in Queue(Period)
      /\ Schedule(Run(production), Period) = <<Period>>
  BY <1>1, QueueOps
<1>3. production' = <<Period>>
  BY <1>2 DEF ProducerSendPacket
<1>4. PushTypes'
  BY <1>2, <1>3 DEF PushInv, PushTypes, PushTypeOK, ProducerSendPacket, consumerVars
<1>5. \A c \in Consumer : ConsumerInv(c)'
  BY OtherConsumer DEF ConsumerInv, PushInv, ProducerSendPacket, consumerVars
<1> QED BY <1>2, <1>3, <1>4, <1>5 DEF PushInv, ConsumerInv, ProducerSendPacket

LEMMA PushTickInv ==
  ASSUME PushInv, PushTick
  PROVE  PushInv'
<1>1. ASSUME NEW c \in Consumer
      PROVE  /\ renewals'[c] \in Queue(Refresh) /\ (renewals'[c] = << >> <=> renewals[c] = << >>)
             /\ probes'[c] \in Queue(ProbeInterval) /\ (probes'[c] = << >> <=> probes[c] = << >>)
             /\ renewals[c] # << >> =>
                  renewals[c][1] \in 1..Refresh /\ renewals'[c][1] = renewals[c][1] - 1
  <2>1. /\ renewals[c] \in Queue(Refresh) /\ probes[c] \in Queue(ProbeInterval)
        /\ Waiting(renewals[c]) /\ Waiting(probes[c])
        /\ renewals'[c] = Passed(renewals[c]) /\ probes'[c] = Passed(probes[c])
    BY DEF PushInv, PushTypes, PushTick
  <2>2. 0 \in 0..Refresh
    OBVIOUS
  <2>3. /\ renewals'[c] \in Queue(Refresh) /\ (renewals'[c] = << >> <=> renewals[c] = << >>)
        /\ renewals[c] # << >> =>
             renewals[c][1] \in 1..Refresh /\ renewals'[c] = <<renewals[c][1] - 1>>
    <3>1. /\ Passed(renewals[c]) \in Queue(Refresh)
          /\ Passed(renewals[c]) = << >> <=> renewals[c] = << >>
      BY <2>1, QueuePassed
    <3>2. renewals[c] # << >> => /\ renewals[c][1] \in 1..Refresh
                                 /\ Passed(renewals[c]) = <<renewals[c][1] - 1>>
      BY <2>1, <2>2, QueueOps
    <3> QED BY <2>1, <3>1, <3>2
  <2>4. probes'[c] \in Queue(ProbeInterval) /\ (probes'[c] = << >> <=> probes[c] = << >>)
    <3>1. /\ Passed(probes[c]) \in Queue(ProbeInterval)
          /\ Passed(probes[c]) = << >> <=> probes[c] = << >>
      BY <2>1, QueuePassed
    <3> QED BY <2>1, <3>1
  <2> QED BY <2>3, <2>4
<1>2. production' \in Queue(Period) /\ (production' = << >> <=> production = << >>)
  <2>1. production \in Queue(Period) /\ 0 \in 0..Period /\ Waiting(production)
    BY DEF PushInv, PushTypes, PushTick
  <2>2. Passed(production) \in Queue(Period) /\ (Passed(production) = << >> <=> production = << >>)
    BY <2>1, QueuePassed
  <2> QED BY <2>2 DEF PushTick
<1>3. ASSUME NEW c \in Consumer
      PROVE  /\ flight'[c] = {d - 1 : d \in flight[c]} /\ flight[c] \subseteq 1..MaxDelay
             /\ subscribed[c] \in 0..Lifetime
             /\ subscribed'[c] = IF subscribed[c] > 0 THEN subscribed[c] - 1 ELSE 0
  BY DEF PushInv, PushTypes, PushTypeOK, PushTick
<1>4. PushTypes'
  <2>1. renewals' \in [Consumer -> Queue(Refresh)] /\ probes' \in [Consumer -> Queue(ProbeInterval)]
    BY <1>1 DEF PushTick
  <2>2. flight' \in [Consumer -> SUBSET (0..MaxDelay)]
    <3>1. \A c \in Consumer : {d - 1 : d \in flight[c]} \in SUBSET (0..MaxDelay)
      BY <1>3
    <3> QED BY <3>1 DEF PushTick
  <2>3. subscribed' \in [Consumer -> 0..Lifetime]
    <3>1. \A c \in Consumer : subscribed'[c] \in 0..Lifetime
      BY <1>3
    <3> QED BY <3>1 DEF PushTick
  <2> QED BY <1>2, <2>1, <2>2, <2>3 DEF PushInv, PushTypes, PushTypeOK, PushTick
<1>5. ASSUME NEW c \in Consumer PROVE ConsumerInv(c)'
  <2>1. EventsOf(c)' /\ Unasked(c)'
    BY <1>1, <1>3 DEF EventsOf, Unasked, PushInv, PushTick
  <2>2. CoveredTo(c)'
    <3> SUFFICES ASSUME phase[c] = "active", missed[c] <= Tolerated
                 PROVE  /\ subscribed'[c] > 0
                        /\ flight'[c] = {} =>
                             subscribed'[c] > renewals'[c][1] + Spare(missed[c]) + MaxDelay
                        /\ flight'[c] # {} => \E d \in flight'[c] : d < subscribed'[c]
      BY DEF CoveredTo, PushTick, Spare
    <3>1. CoveredTo(c) /\ renewals[c] # << >> /\ missed[c] \in 0..Tolerated
      BY DEF PushInv, PushTypes, PushTypeOK, EventsOf
    <3>2. Spare(missed[c]) \in Nat
      BY <3>1, SpareType
    <3>3. CASE flight[c] = {}
      <4>1. flight'[c] = {} /\ subscribed[c] > renewals[c][1] + Spare(missed[c]) + MaxDelay
        BY <1>3, <3>1, <3>3 DEF CoveredTo
      <4> QED BY <1>1, <1>3, <3>1, <3>2, <4>1
    <3>4. CASE flight[c] # {}
      <4>1. PICK d \in flight[c] : d < subscribed[c]
        BY <3>1, <3>4 DEF CoveredTo
      <4>2. d - 1 \in flight'[c] /\ d \in 1..MaxDelay
        BY <1>3, <4>1
      <4>3. subscribed'[c] > 0 /\ d - 1 < subscribed'[c]
        BY <1>3, <4>1, <4>2
      <4> QED BY <4>2, <4>3
    <3> QED BY <3>3, <3>4
  <2> QED BY <2>1, <2>2 DEF ConsumerInv
<1> QED BY <1>2, <1>4, <1>5 DEF PushInv, ConsumerInv, PushTick

LEMMA PushInvNext == PushInv /\ [PushNext]_pushVars => PushInv'
<1> SUFFICES ASSUME PushInv, [PushNext]_pushVars PROVE PushInv'
  OBVIOUS
<1>1. CASE \E c \in Consumer : StartConsumer(c) \/ StopConsumer(c)
  BY <1>1, StartConsumerInv, StopConsumerInv
<1>2. CASE \E c \in Consumer : SendPacket(c) \/ SendProbe(c) \/ LateEvent(c) \/ InterestArrives(c)
  BY <1>2, SendPacketInv, SendProbeInv, LateEventInv, InterestArrivesInv
<1>3. CASE ProducerSendPacket
  BY <1>3, ProducerSendPacketInv
<1>4. CASE PushTick
  BY <1>4, PushTickInv
<1>5. CASE UNCHANGED pushVars
  BY <1>5 DEF PushInv, PushTypes, PushTypeOK, EventsOf, CoveredTo, Unasked, Spare,
              pushVars, consumerVars, producerVars
<1> QED BY <1>1, <1>2, <1>3, <1>4, <1>5 DEF PushNext, PushEvent

LEMMA PushInvProperties == PushInv => PushTypeOK /\ PushOneEventEach /\ SubscriptionSurvives
<1> SUFFICES ASSUME PushInv PROVE PushTypeOK /\ PushOneEventEach /\ SubscriptionSurvives
  OBVIOUS
<1>1. PushTypeOK
  BY DEF PushInv, PushTypes
<1>2. PushOneEventEach
  BY DEF PushInv, PushTypes, EventsOf, PushOneEventEach
<1>3. SubscriptionSurvives
  BY DEF PushInv, CoveredTo, SubscriptionSurvives
<1> QED BY <1>1, <1>2, <1>3

-----------------------------------------------------------------------------
HIDE PushAssumption
USE CallAssumption, PullAssumption

(* The VoipClients: the types, with the queues of EventQueue, and the       *)
(* events of a pair.                                                        *)
VoipTypes ==
  /\ VoipTypeOK
  /\ chain \in [Client -> [Client -> Queue(CallRefresh)]]
  /\ stream \in [Client -> Queue(DataPeriod)]

Chained(a, b) ==
  /\ client[a] = "new" => chain[a][b] = << >>
  /\ client[a] = "active" => (chain[a][b] # << >> <=> timeouts[a][b] # Unknown)

VoipInv ==
  /\ VoipTypes
  /\ \A a, b \in Client : Chained(a, b)
  /\ \A a \in Client : stream[a] # << >> => sending[a]

LEMMA VoipInvInit == VoipInit => VoipInv
<1> SUFFICES ASSUME VoipInit PROVE VoipInv
  OBVIOUS
<1>1. VoipTypes
  <2>1. /\ client \in [Client -> {"new", "active", "stopped"}]
        /\ timeouts \in [Client -> [Client -> Expired..Unknown]]
    BY DEF VoipInit, Expired, Unknown, NoExpiry
  <2>2. /\ calling \in [Client -> [Client -> SUBSET (0..MaxDelay)]]
        /\ sending \in [Client -> BOOLEAN]
    BY DEF VoipInit
  <2>3. /\ chain \in [Client -> [Client -> Queue(CallRefresh)]]
        /\ stream \in [Client -> Queue(DataPeriod)]
    BY DEF VoipInit, Queue, NoEvent
  <2> QED BY <2>1, <2>2, <2>3 DEF VoipTypes, VoipTypeOK
<1> QED BY <1>1 DEF VoipInit, VoipInv, Chained, NoEvent

(* SendInterest and its Interests only add to what is under way.            *)
LEMMA SentType ==
  ASSUME VoipTypes, NEW a \in Client, NEW to \in SUBSET Client, Sent(a, to)
  PROVE  calling' \in [Client -> [Client -> SUBSET (0..MaxDelay)]]
<1>1. PICK arrive \in SUBSET to : \E delay \in [arrive -> 0..MaxDelay] :
        calling' = [calling EXCEPT ![a] =
          [b \in Client |-> IF b \in arrive THEN @[b] \cup {delay[b]} ELSE @[b]]]
  BY DEF Sent
<1>2. PICK delay \in [arrive -> 0..MaxDelay] :
        calling' = [calling EXCEPT ![a] =
          [b \in Client |-> IF b \in arrive THEN @[b] \cup {delay[b]} ELSE @[b]]]
  BY <1>1
<1> DEFINE row == [b \in Client |-> IF b \in arrive THEN calling[a][b] \cup {delay[b]} ELSE calling[a][b]]
<1>3. calling \in [Client -> [Client -> SUBSET (0..MaxDelay)]]
  BY DEF VoipTypes, VoipTypeOK
<1>4. row \in [Client -> SUBSET (0..MaxDelay)]
  BY <1>3
<1>5. calling' = [calling EXCEPT ![a] = row]
  BY <1>2
<1> HIDE DEF row
<1> QED BY <1>3, <1>4, <1>5

LEMMA StartClientInv ==
  ASSUME VoipInv, NEW a \in Client, StartClient(a)
  PROVE  VoipInv'
<1> DEFINE row == [b \in Client |-> IF b \in Partners(a) THEN <<CallRefresh>> ELSE << >>]
<1>1. ASSUME NEW b \in Client
      PROVE  /\ chain[a][b] = << >>
             /\ Schedule(chain[a][b], CallRefresh) = <<CallRefresh>>
             /\ <<CallRefresh>> \in Queue(CallRefresh) /\ << >> \in Queue(CallRefresh)
  <2>1. chain[a][b] = << >> /\ chain[a][b] \in Queue(CallRefresh)
    BY DEF VoipInv, VoipTypes, Chained, StartClient
  <2>2. CallRefresh \in Nat /\ CallRefresh \in 0..CallRefresh
    OBVIOUS
  <2> QED BY <2>1, <2>2, QueueOps
<1>2. [b \in Client |-> IF b \in Partners(a) THEN Schedule(chain[a][b], CallRefresh) ELSE chain[a][b]]
        = row
  BY <1>1
<1>3. chain' = [chain EXCEPT ![a] = row]
  BY <1>2 DEF StartClient
<1>4. row \in [Client -> Queue(CallRefresh)]
  BY <1>1
<1>5. VoipTypes'
  <2>1. client' \in [Client -> {"new", "active", "stopped"}]
    BY DEF VoipInv, VoipTypes, VoipTypeOK, StartClient
  <2>2. chain' \in [Client -> [Client -> Queue(CallRefresh)]]
    BY <1>3, <1>4 DEF VoipInv, VoipTypes
  <2>3. calling' \in [Client -> [Client -> SUBSET (0..MaxDelay)]]
    BY SentType DEF VoipInv, StartClient, Partners
  <2> QED BY <2>1, <2>2, <2>3 DEF VoipInv, VoipTypes, VoipTypeOK, StartClient
<1>6. ASSUME NEW c \in Client, NEW b \in Client PROVE Chained(c, b)'
  <2>1. CASE c = a
    <3>1. chain'[a][b] = row[b] /\ client'[a] = "active"
      BY <1>3, <1>4 DEF VoipInv, VoipTypes, VoipTypeOK, StartClient
    <3>2. row[b] # << >> <=> timeouts[a][b] # Unknown
      BY DEF Partners
    <3> QED BY <2>1, <3>1, <3>2 DEF Chained, StartClient, Unknown
  <2>2. CASE c # a
    <3>1. chain'[c] = chain[c] /\ client'[c] = client[c]
      BY <1>3, <2>2 DEF VoipInv, VoipTypes, VoipTypeOK, StartClient
    <3> QED BY <3>1 DEF Chained, StartClient, VoipInv, Unknown
  <2> QED BY <2>1, <2>2
<1> QED BY <1>5, <1>6 DEF VoipInv, StartClient

LEMMA StopClientInv ==
  ASSUME VoipInv, NEW a \in Client, StopClient(a)
  PROVE  VoipInv'
<1>1. client' \in [Client -> {"new", "active", "stopped"}]
  BY DEF VoipInv, VoipTypes, VoipTypeOK, StopClient
<1>2. VoipTypes'
  BY <1>1 DEF VoipInv, VoipTypes, VoipTypeOK, StopClient
<1>3. ASSUME NEW c \in Client, NEW b \in Client PROVE Chained(c, b)'
  BY DEF VoipInv, VoipTypes, VoipTypeOK, Chained, StopClient, Unknown
<1> QED BY <1>2, <1>3 DEF VoipInv, StopClient

(* A chain's event is run: it ends, or it goes on with one more.            *)
LEMMA SendInterestInv ==
  ASSUME VoipInv, NEW a \in Client, NEW b \in Client, SendInterest(a, b)
  PROVE  VoipInv'
<1>1. /\ chain[a][b] # << >> /\ Run(chain[a][b]) = << >>
      /\ Schedule(Run(chain[a][b]), CallRefresh) = <<CallRefresh>>
      /\ <<CallRefresh>> \in Queue(CallRefresh) /\ << >> \in Queue(CallRefresh)
  <2>1. Due(chain[a][b]) /\ chain[a][b] \in Queue(CallRefresh)
    BY DEF VoipInv, VoipTypes, SendInterest
  <2>2. CallRefresh \in Nat /\ CallRefresh \in 0..CallRefresh
    OBVIOUS
  <2> QED BY <2>1, <2>2, QueueOps
<1>2. UNCHANGED <<client, sending, stream>>
  BY DEF SendInterest
<1>3. ASSUME NEW q \in Queue(CallRefresh), chain' = [chain EXCEPT ![a][b] = q],
             timeouts' \in [Client -> [Client -> Expired..Unknown]],
             calling' \in [Client -> [Client -> SUBSET (0..MaxDelay)]],
             \A c, d \in Client : c # a \/ d # b => timeouts'[c][d] = timeouts[c][d],
             client[a] = "active" => (q # << >> <=> timeouts'[a][b] # Unknown)
      PROVE  VoipInv'
  <2>1. chain' \in [Client -> [Client -> Queue(CallRefresh)]]
    BY <1>3 DEF VoipInv, VoipTypes
  <2>2. VoipTypes'
    BY <1>2, <1>3, <2>1 DEF VoipInv, VoipTypes, VoipTypeOK
  <2>3. ASSUME NEW c \in Client, NEW d \in Client PROVE Chained(c, d)'
    <3>1. CASE c = a /\ d = b
      <4>1. chain'[a][b] = q /\ client[a] # "new"
        BY <1>1, <1>3 DEF VoipInv, VoipTypes, Chained
      <4> QED BY <1>2, <1>3, <3>1, <4>1 DEF Chained, Unknown
    <3>2. CASE c # a \/ d # b
      <4>1. chain'[c][d] = chain[c][d] /\ timeouts'[c][d] = timeouts[c][d]
        BY <1>3, <3>2 DEF VoipInv, VoipTypes
      <4> QED BY <1>2, <4>1 DEF VoipInv, Chained, Unknown
    <3> QED BY <3>1, <3>2
  <2> QED BY <1>2, <2>2, <2>3 DEF VoipInv
<1>4. /\ timeouts \in [Client -> [Client -> Expired..Unknown]]
      /\ calling \in [Client -> [Client -> SUBSET (0..MaxDelay)]]
      /\ Unknown \in Expired..Unknown
  BY DEF VoipInv, VoipTypes, VoipTypeOK, Expired, Unknown
<1>5. client[a] = "active" => timeouts[a][b] # Unknown
  BY <1>1 DEF VoipInv, Chained
<1>6. CASE /\ client[a] # "active" \/ b \notin Partners(a)
           /\ chain' = [chain EXCEPT ![a][b] = Run(@)]
           /\ UNCHANGED <<timeouts, calling>>
  <2>1. client[a] # "active"
    BY <1>5, <1>6 DEF Partners
  <2>2. chain' = [chain EXCEPT ![a][b] = << >>]
    BY <1>1, <1>6
  <2> QED BY <1>1, <1>3, <1>4, <1>6, <2>1, <2>2
<1>7. CASE /\ timeouts' = [timeouts EXCEPT ![a][b] = Unknown]
           /\ chain' = [chain EXCEPT ![a][b] = Run(@)]
           /\ UNCHANGED calling
  <2>1. chain' = [chain EXCEPT ![a][b] = << >>]
    BY <1>1, <1>7
  <2>2. /\ timeouts' \in [Client -> [Client -> Expired..Unknown]]
        /\ timeouts'[a][b] = Unknown
        /\ \A c, d \in Client : c # a \/ d # b => timeouts'[c][d] = timeouts[c][d]
    <3> HIDE DEF Unknown, Expired
    <3> QED BY <1>4, <1>7
  <2> QED BY <1>1, <1>3, <1>4, <1>7, <2>1, <2>2
<1>8. CASE /\ Sent(a, {b})
           /\ chain' = [chain EXCEPT ![a][b] = Schedule(Run(@), CallRefresh)]
           /\ UNCHANGED timeouts
  <2>1. chain' = [chain EXCEPT ![a][b] = <<CallRefresh>>]
    BY <1>1, <1>8
  <2>2. calling' \in [Client -> [Client -> SUBSET (0..MaxDelay)]]
    BY <1>8, SentType DEF VoipInv
  <2>3. <<CallRefresh>> # << >>
    OBVIOUS
  <2> QED BY <1>1, <1>3, <1>4, <1>5, <1>8, <2>1, <2>2, <2>3
<1> QED BY <1>6, <1>7, <1>8 DEF SendInterest

(* An Interest of a at b: b's chain to a begins when a becomes a partner.   *)
LEMMA ClientOnInterestInv ==
  ASSUME VoipInv, NEW a \in Client, NEW b \in Client, ClientOnInterest(a, b)
  PROVE  VoipInv'
<1> DEFINE t == IF timeouts[b][a] = NoExpiry THEN timeouts[b][a] ELSE CallLifetime
           q == IF IsNew(b, a) THEN <<CallRefresh>> ELSE chain[b][a]
           s == IF sending[b] THEN stream[b] ELSE <<DataPeriod>>
<1>1. /\ timeouts \in [Client -> [Client -> Expired..Unknown]]
      /\ calling \in [Client -> [Client -> SUBSET (0..MaxDelay)]]
      /\ chain \in [Client -> [Client -> Queue(CallRefresh)]]
      /\ stream \in [Client -> Queue(DataPeriod)]
      /\ client[b] = "active" /\ client' = client
  BY DEF VoipInv, VoipTypes, VoipTypeOK, ClientOnInterest
<1>2. t \in Expired..Unknown /\ t # Unknown
  BY <1>1 DEF Expired, Unknown, NoExpiry
<1>3. timeouts' = [timeouts EXCEPT ![b][a] = t]
  BY DEF ClientOnInterest
<1>4. /\ s \in Queue(DataPeriod)
      /\ (IF sending[b] THEN stream[b] ELSE Schedule(stream[b], DataPeriod)) = s
  <2>1. ~sending[b] => stream[b] = << >>
    BY DEF VoipInv
  <2>2. DataPeriod \in Nat /\ stream[b] \in Queue(DataPeriod)
    BY <1>1
  <2>3. /\ stream[b] = << >> => Schedule(stream[b], DataPeriod) = <<DataPeriod>>
        /\ <<DataPeriod>> \in Queue(DataPeriod)
    BY <2>2, QueueScheduled
  <2> QED BY <2>1, <2>2, <2>3
<1>5. stream' = [stream EXCEPT ![b] = s]
  BY <1>4 DEF ClientOnInterest
<1>6. /\ q \in Queue(CallRefresh) /\ q # << >>
      /\ IsNew(b, a) => Schedule(chain[b][a], CallRefresh) = <<CallRefresh>>
  <2>1. IsNew(b, a) => chain[b][a] = << >>
    BY <1>1 DEF VoipInv, Chained, IsNew, Partners
  <2>2. ~IsNew(b, a) => chain[b][a] # << >>
    BY <1>1 DEF VoipInv, Chained, IsNew, Partners
  <2>3. CallRefresh \in Nat /\ chain[b][a] \in Queue(CallRefresh)
    BY <1>1
  <2>4. /\ chain[b][a] = << >> => Schedule(chain[b][a], CallRefresh) = <<CallRefresh>>
        /\ <<CallRefresh>> \in Queue(CallRefresh)
    BY <2>3, QueueScheduled
  <2> QED BY <2>1, <2>2, <2>3, <2>4
<1>7. chain' = [chain EXCEPT ![b][a] = q]
  <2>1. CASE IsNew(b, a)
    BY <1>6, <2>1 DEF ClientOnInterest
  <2>2. CASE ~IsNew(b, a)
    BY <1>1, <2>2 DEF ClientOnInterest
  <2> QED BY <2>1, <2>2
<1>8. calling' \in [Client -> [Client -> SUBSET (0..MaxDelay)]]
  <2> DEFINE rest == [calling EXCEPT ![a][b] = @ \ {0}]
  <2>1. rest \in [Client -> [Client -> SUBSET (0..MaxDelay)]]
    BY <1>1
  <2>2. calling' = rest \/ \E d \in 0..MaxDelay : calling' = [rest EXCEPT ![b][a] = @ \cup {d}]
    BY DEF ClientOnInterest
  <2> HIDE DEF rest
  <2>3. ASSUME NEW d \in 0..MaxDelay, calling' = [rest EXCEPT ![b][a] = @ \cup {d}]
        PROVE  calling' \in [Client -> [Client -> SUBSET (0..MaxDelay)]]
    BY <2>1, <2>3
  <2> QED BY <2>1, <2>2, <2>3
<1>9. sending' = [sending EXCEPT ![b] = TRUE]
  BY DEF ClientOnInterest
<1> HIDE DEF t, q, s
<1>10. VoipTypes'
  <2>1. timeouts' \in [Client -> [Client -> Expired..Unknown]]
    <3> HIDE DEF Expired, Unknown
    <3> QED BY <1>1, <1>2, <1>3
  <2>2. /\ chain' \in [Client -> [Client -> Queue(CallRefresh)]]
        /\ stream' \in [Client -> Queue(DataPeriod)]
    BY <1>1, <1>4, <1>5, <1>6, <1>7
  <2>3. sending' \in [Client -> BOOLEAN]
    BY <1>9, Zenon DEF VoipInv, VoipTypes, VoipTypeOK
  <2> QED BY <1>1, <1>8, <2>1, <2>2, <2>3 DEF VoipInv, VoipTypes, VoipTypeOK
<1>11. ASSUME NEW c \in Client, NEW d \in Client PROVE Chained(c, d)'
  <2>1. CASE c = b /\ d = a
    <3>1. chain'[b][a] = q /\ timeouts'[b][a] = t
      BY <1>1, <1>3, <1>7
    <3> QED BY <1>1, <1>2, <1>6, <2>1, <3>1 DEF Chained, Unknown
  <2>2. CASE c # b \/ d # a
    <3>1. chain'[c][d] = chain[c][d] /\ timeouts'[c][d] = timeouts[c][d]
      BY <1>1, <1>3, <1>7, <2>2
    <3>2. Chained(c, d) /\ client'[c] = client[c]
      BY <1>1 DEF VoipInv
    <3> QED BY <3>1, <3>2 DEF Chained, Unknown
  <2> QED BY <2>1, <2>2
<1>12. ASSUME NEW c \in Client, stream'[c] # << >> PROVE sending'[c]
  <2>1. sending'[b]
    BY <1>9 DEF VoipInv, VoipTypes, VoipTypeOK
  <2>2. c # b => stream'[c] = stream[c] /\ sending'[c] = sending[c]
    BY <1>1, <1>5, <1>9 DEF VoipInv, VoipTypes, VoipTypeOK
  <2> QED BY <1>12, <2>1, <2>2 DEF VoipInv
<1> QED BY <1>10, <1>11, <1>12 DEF VoipInv

LEMMA InterestUnheardInv ==
  ASSUME VoipInv, NEW a \in Client, NEW b \in Client, InterestUnheard(a, b)
  PROVE  VoipInv'
<1>1. calling' \in [Client -> [Client -> SUBSET (0..MaxDelay)]]
  BY DEF VoipInv, VoipTypes, VoipTypeOK, InterestUnheard
<1> QED BY <1>1 DEF VoipInv, VoipTypes, VoipTypeOK, Chained, InterestUnheard, Unknown

LEMMA SendDataInv ==
  ASSUME VoipInv, NEW a \in Client, SendData(a)
  PROVE  VoipInv'
<1>1. /\ Due(stream[a]) /\ stream[a] \in Queue(DataPeriod)
      /\ DataPeriod \in Nat /\ DataPeriod \in 0..DataPeriod
  BY DEF VoipInv, VoipTypes, SendData
<1>2. /\ stream[a] # << >> /\ Schedule(Run(stream[a]), DataPeriod) = <<DataPeriod>>
      /\ <<DataPeriod>> \in Queue(DataPeriod)
  BY <1>1, QueueOps
<1>3. stream' = [stream EXCEPT ![a] = <<DataPeriod>>]
  BY <1>2 DEF SendData
<1>4. VoipTypes'
  BY <1>2, <1>3 DEF VoipInv, VoipTypes, VoipTypeOK, SendData
<1>5. \A c \in Client : stream'[c] # << >> => sending'[c]
  BY <1>2, <1>3 DEF VoipInv, VoipTypes, SendData
<1> QED BY <1>4, <1>5 DEF VoipInv, Chained, SendData, Unknown

LEMMA VoipTickInv ==
  ASSUME VoipInv, VoipTick
  PROVE  VoipInv'
<1>1. ASSUME NEW a \in Client, NEW b \in Client
      PROVE  /\ chain'[a][b] \in Queue(CallRefresh)
             /\ chain'[a][b] = << >> <=> chain[a][b] = << >>
  <2>1. /\ chain[a][b] \in Queue(CallRefresh) /\ CallRefresh \in Nat /\ Waiting(chain[a][b])
        /\ chain'[a][b] = Passed(chain[a][b])
    BY DEF VoipInv, VoipTypes, VoipTick
  <2> QED BY <2>1, QueuePassed
<1>2. ASSUME NEW a \in Client
      PROVE  /\ stream'[a] \in Queue(DataPeriod)
             /\ stream'[a] = << >> <=> stream[a] = << >>
  <2>1. /\ stream[a] \in Queue(DataPeriod) /\ DataPeriod \in Nat /\ Waiting(stream[a])
        /\ stream'[a] = Passed(stream[a])
    BY DEF VoipInv, VoipTypes, VoipTick
  <2> QED BY <2>1, QueuePassed
<1>3. ASSUME NEW a \in Client, NEW b \in Client
      PROVE  /\ timeouts'[a][b] \in Expired..Unknown
             /\ timeouts'[a][b] = Unknown <=> timeouts[a][b] = Unknown
  <2>1. /\ timeouts[a][b] \in Expired..Unknown
        /\ timeouts'[a][b] = IF timeouts[a][b] \in 0..CallLifetime THEN timeouts[a][b] - 1
                                                                  ELSE timeouts[a][b]
    BY DEF VoipInv, VoipTypes, VoipTypeOK, VoipTick
  <2> QED BY <2>1 DEF Expired, Unknown
<1>4. ASSUME NEW a \in Client, NEW b \in Client
      PROVE  {d - 1 : d \in calling[a][b]} \in SUBSET (0..MaxDelay)
  <2>1. calling[a][b] \in SUBSET (0..MaxDelay) /\ 0 \notin calling[a][b]
    BY DEF VoipInv, VoipTypes, VoipTypeOK, VoipTick
  <2>2. calling[a][b] \subseteq 1..MaxDelay
    BY <2>1
  <2> QED BY <2>2
<1>5. VoipTypes'
  <2>1. chain' \in [Client -> [Client -> Queue(CallRefresh)]]
    BY <1>1 DEF VoipTick
  <2>2. stream' \in [Client -> Queue(DataPeriod)]
    BY <1>2 DEF VoipTick
  <2>3. timeouts' \in [Client -> [Client -> Expired..Unknown]]
    <3> HIDE DEF Expired, Unknown
    <3> QED BY <1>3 DEF VoipTick
  <2>4. calling' \in [Client -> [Client -> SUBSET (0..MaxDelay)]]
    BY <1>4 DEF VoipTick
  <2> QED BY <2>1, <2>2, <2>3, <2>4 DEF VoipInv, VoipTypes, VoipTypeOK, VoipTick
<1>6. \A a, b \in Client : Chained(a, b)'
  BY <1>1, <1>3 DEF VoipInv, Chained, VoipTick, Unknown
<1> QED BY <1>2, <1>5, <1>6 DEF VoipInv, VoipTick

LEMMA VoipInvNext == VoipInv /\ [VoipNext]_voipVars => VoipInv'
<1> SUFFICES ASSUME VoipInv, [VoipNext]_voipVars PROVE VoipInv'
  OBVIOUS
<1>1. CASE \E a \in Client : StartClient(a) \/ StopClient(a)
  BY <1>1, StartClientInv, StopClientInv
<1>2. CASE \E a, b \in Client : SendInterest(a, b) \/ ClientOnInterest(a, b) \/ InterestUnheard(a, b)
  BY <1>2, SendInterestInv, ClientOnInterestInv, InterestUnheardInv
<1>3. CASE \E a \in Client : SendData(a)
  BY <1>3, SendDataInv
<1>4. CASE VoipTick
  BY <1>4, VoipTickInv
<1>5. CASE UNCHANGED voipVars
  BY <1>5 DEF VoipInv, VoipTypes, VoipTypeOK, Chained, voipVars, Unknown
<1> QED BY <1>1, <1>2, <1>3, <1>4, <1>5 DEF VoipNext, VoipEvent

-----------------------------------------------------------------------------
(* The pull caller.  A number asked for is in one place at most, and its    *)
(* PIT entry lives longer than what it still has before it: the rest of its *)
(* way to the producer, the wait there, and the longest way back.           *)
PullTypes ==
  /\ lookahead \in Lookaheads
  /\ caller \in {"new", "active", "stopped"}
  /\ seq \in 0..MaxSeq
  /\ requests \in SUBSET [seq : Nat, time : Int, delay : Nat]
  /\ voice \in SUBSET [seq : Nat, time : Int, delay : Nat]
  /\ answers \in SUBSET [seq : Nat, time : Nat]
  /\ pending \in [Number -> 0..PullLifetime + lookahead]
  /\ lmap \in [Number -> BOOLEAN]
  /\ networkLost \subseteq 0..seq - 1
  /\ sendTimer \in Queue(SendPeriod)
  /\ cleaning \in Queue(CleanUp) /\ cleaning # << >>

PullEvents ==
  /\ caller = "new" => seq = 0
  /\ caller = "active" /\ seq < MaxSeq => sendTimer # << >>
  /\ caller # "active" => sendTimer = << >>
  /\ \A a \in answers : a.seq \in pendingIds

(* The waits are those at the time the Interest or the Data arrives.        *)
Positive(t) == IF t > 0 THEN t ELSE 0

RequestOK(r) ==
  /\ r.seq < seq /\ r.delay <= MaxDelay /\ r.time \in -1..lookahead
  /\ pending[r.seq] > r.delay + Positive(r.time - r.delay) + MaxDelay
AnswerOK(a) == a.seq < seq /\ a.time <= lookahead /\ pending[a.seq] > a.time + MaxDelay
VoiceOK(v) ==
  v.seq < seq /\ v.delay <= MaxDelay /\ v.time \in -1..0 /\ pending[v.seq] > v.delay

OnePlace ==
  /\ \A p, q \in requests : p.seq = q.seq => p = q
  /\ \A p, q \in answers : p.seq = q.seq => p = q
  /\ \A p, q \in voice : p.seq = q.seq => p = q
  /\ \A p \in requests, q \in answers : p.seq # q.seq
  /\ \A p \in requests, q \in voice : p.seq # q.seq
  /\ \A p \in answers, q \in voice : p.seq # q.seq

UnderWay(n) ==
  \/ \E p \in requests : p.seq = n
  \/ \E p \in answers : p.seq = n
  \/ \E p \in voice : p.seq = n

Marked ==
  \A n \in Number :
    /\ lmap[n] \/ pending[n] > 0 => n < seq
    /\ caller # "stopped" /\ lmap[n] /\ n \notin networkLost => UnderWay(n)

PullInv ==
  /\ PullTypes
  /\ PullEvents
  /\ \A r \in requests : RequestOK(r)
  /\ \A a \in answers : AnswerOK(a)
  /\ \A v \in voice : VoiceOK(v)
  /\ OnePlace
  /\ Marked

LEMMA PullInvInit == PullInit => PullInv
<1> SUFFICES ASSUME PullInit PROVE PullInv
  OBVIOUS
<1>1. PullTypes
  <2>1. lookahead \in Nat /\ seq = 0 /\ MaxSeq \in Nat
    BY DEF PullInit
  <2>2. pending \in [Number -> 0..PullLifetime + lookahead] /\ lmap \in [Number -> BOOLEAN]
    BY <2>1 DEF PullInit
  <2>3. sendTimer \in Queue(SendPeriod) /\ cleaning \in Queue(CleanUp) /\ cleaning # << >>
    BY DEF PullInit, NoEvent, Queue
  <2> QED BY <2>1, <2>2, <2>3 DEF PullInit, PullTypes
<1> QED BY <1>1 DEF PullInit, PullInv, PullEvents, OnePlace, Marked, NoEvent

(* What an action that leaves the numbers and where they are keeps.         *)
LEMMA SameVoice ==
  ASSUME PullInv, UNCHANGED <<lookahead, seq, requests, answers, voice, pending, lmap, networkLost>>
  PROVE  /\ \A r \in requests' : RequestOK(r)'
         /\ \A a \in answers' : AnswerOK(a)'
         /\ \A v \in voice' : VoiceOK(v)'
         /\ OnePlace'
         /\ caller # "stopped" /\ caller' # "stopped" => Marked'
         /\ caller' = "stopped" => Marked'
BY DEF PullInv, RequestOK, AnswerOK, VoiceOK, OnePlace, Marked, UnderWay

LEMMA StartCallerInv ==
  ASSUME PullInv, StartCaller
  PROVE  PullInv'
<1>1. sendTimer' = <<0>>
  BY DEF StartCaller, Schedule, PullInv, PullEvents
<1>2. sendTimer' \in Queue(SendPeriod) /\ sendTimer' # << >>
  BY <1>1 DEF Queue
<1>3. PullTypes' /\ PullEvents'
  BY <1>2 DEF PullInv, PullTypes, PullEvents, StartCaller
<1> QED BY <1>3, SameVoice DEF PullInv, StartCaller

LEMMA StopCallerInv ==
  ASSUME PullInv, StopCaller
  PROVE  PullInv'
<1>1. PullTypes' /\ PullEvents'
  BY DEF PullInv, PullTypes, PullEvents, StopCaller, NoEvent, Queue
<1> QED BY <1>1, SameVoice DEF PullInv, StopCaller

LEMMA RemoveExpiredEventsInv ==
  ASSUME PullInv, RemoveExpiredEvents
  PROVE  PullInv'
<1>1. cleaning' = <<CleanUp>> /\ <<CleanUp>> \in Queue(CleanUp)
  <2>1. CleanUp \in Nat /\ cleaning \in Queue(CleanUp) /\ Due(cleaning)
    BY DEF PullInv, PullTypes, RemoveExpiredEvents
  <2> QED BY <2>1, QueueScheduled DEF RemoveExpiredEvents
<1>2. PullTypes'
  BY <1>1 DEF PullInv, PullTypes, RemoveExpiredEvents
<1>3. PullEvents'
  BY DEF PullInv, PullEvents, RemoveExpiredEvents, KeepsRunning
<1> QED BY <1>2, <1>3, SameVoice DEF PullInv, RemoveExpiredEvents

(* A new number: nothing else has it, and its PIT entry is as long as it    *)
(* can get.                                                                 *)
LEMMA RequestVoiceInv ==
  ASSUME PullInv, RequestVoice
  PROVE  PullInv'
<1>1. /\ Run(sendTimer) = << >> /\ ScheduleNextRequest(sendTimer) = <<SendPeriod>>
      /\ <<SendPeriod>> \in Queue(SendPeriod) /\ << >> \in Queue(SendPeriod)
      /\ sendTimer # << >>
  <2>1. SendPeriod \in Nat /\ sendTimer \in Queue(SendPeriod) /\ Due(sendTimer)
    BY DEF PullInv, PullTypes, RequestVoice
  <2> QED BY <2>1, QueueScheduled DEF ScheduleNextRequest
<1>2. UNCHANGED <<lookahead, caller, answers, pendingIds, cleaning, voice>> /\ caller = "active"
  BY <1>1 DEF RequestVoice, PullInv, PullEvents
<1>3. lookahead \in Nat /\ seq \in 0..MaxSeq
  BY DEF PullInv, PullTypes
<1>4. CASE /\ TotallyDone
           /\ sendTimer' = Run(sendTimer)
           /\ UNCHANGED <<seq, requests, pending, lmap, networkLost>>
  <2>1. PullTypes' /\ PullEvents'
    BY <1>1, <1>2, <1>3, <1>4 DEF PullInv, PullTypes, PullEvents, TotallyDone
  <2> QED BY <1>2, <1>4, <2>1, SameVoice DEF PullInv
<1>5. ASSUME ~TotallyDone, seq' = seq + 1,
             lmap' = [lmap EXCEPT ![seq] = TRUE],
             pending' = [pending EXCEPT ![seq] = InterestLifetime],
             sendTimer' = ScheduleNextRequest(sendTimer),
             \/ /\ \E d \in 0..MaxDelay :
                     requests' = requests \cup {[seq |-> seq, time |-> lookahead, delay |-> d]}
                /\ UNCHANGED networkLost
             \/ /\ networkLost' = networkLost \cup {seq}
                /\ UNCHANGED requests
      PROVE  PullInv'
  <2>1. seq \in Number /\ seq' \in 0..MaxSeq
    BY <1>3, <1>5 DEF TotallyDone, Number
  <2>2. /\ pending'[seq] = PullLifetime + lookahead
        /\ \A n \in Number : n # seq => pending'[n] = pending[n]
        /\ lmap'[seq] = TRUE /\ \A n \in Number : n # seq => lmap'[n] = lmap[n]
    BY <1>5, <2>1 DEF PullInv, PullTypes, InterestLifetime
  <2>3. PullTypes'
    <3>1. pending' \in [Number -> 0..PullLifetime + lookahead]
      BY <1>3, <1>5, <2>1 DEF PullInv, PullTypes, InterestLifetime
    <3>2. lmap' \in [Number -> BOOLEAN]
      BY <1>5, Zenon DEF PullInv, PullTypes
    <3>3. requests' \in SUBSET [seq : Nat, time : Int, delay : Nat]
      BY <1>3, <1>5 DEF PullInv, PullTypes
    <3>4. networkLost' \subseteq 0..seq' - 1
      <4>1. networkLost' \subseteq networkLost \cup {seq} /\ networkLost \subseteq 0..seq - 1
        BY <1>5 DEF PullInv, PullTypes
      <4> QED BY <1>3, <1>5, <4>1
    <3> QED BY <1>1, <1>2, <1>5, <2>1, <3>1, <3>2, <3>3, <3>4 DEF PullInv, PullTypes
  <2>4. PullEvents'
    BY <1>1, <1>2, <1>5 DEF PullInv, PullEvents
  <2>5. ASSUME NEW r \in requests PROVE r.seq \in Number /\ r.seq # seq /\ RequestOK(r)'
    <3>1. r.seq \in Nat /\ r.seq < seq /\ RequestOK(r)
      BY DEF PullInv, PullTypes, RequestOK
    <3>2. r.seq \in Number /\ r.seq # seq
      BY <1>3, <3>1 DEF Number
    <3> QED BY <1>2, <1>3, <1>5, <2>2, <3>1, <3>2 DEF RequestOK
  <2>6. ASSUME NEW a \in answers PROVE a.seq # seq /\ AnswerOK(a)'
    <3>1. a.seq \in Nat /\ a.seq < seq /\ AnswerOK(a)
      BY DEF PullInv, PullTypes, AnswerOK
    <3>2. a.seq \in Number /\ a.seq # seq
      BY <1>3, <3>1 DEF Number
    <3> QED BY <1>2, <1>3, <1>5, <2>2, <3>1, <3>2 DEF AnswerOK
  <2>7. ASSUME NEW v \in voice PROVE v.seq # seq /\ VoiceOK(v)'
    <3>1. v.seq \in Nat /\ v.seq < seq /\ VoiceOK(v)
      BY DEF PullInv, PullTypes, VoiceOK
    <3>2. v.seq \in Number /\ v.seq # seq
      BY <1>3, <3>1 DEF Number
    <3> QED BY <1>2, <1>3, <1>5, <2>2, <3>1, <3>2 DEF VoiceOK
  <2>8. ASSUME NEW d \in 0..MaxDelay,
               requests' = requests \cup {[seq |-> seq, time |-> lookahead, delay |-> d]},
               UNCHANGED networkLost
        PROVE  PullInv'
    <3>1. PICK r : /\ r.seq = seq /\ r.time = lookahead /\ r.delay = d
                   /\ r = [seq |-> seq, time |-> lookahead, delay |-> d]
      OBVIOUS
    <3>3. requests' = requests \cup {r}
      BY <2>8, <3>1
    <3>2. RequestOK(r)'
      <4>1. d + Positive(lookahead - d) + MaxDelay < PullLifetime + lookahead
        BY <1>3 DEF Positive
      <4>2. pending'[r.seq] > r.delay + Positive(r.time - r.delay) + MaxDelay
        BY <2>2, <3>1, <4>1
      <4>3. r.seq < seq' /\ r.delay <= MaxDelay /\ r.time \in -1..lookahead'
        BY <1>2, <1>3, <1>5, <3>1
      <4> QED BY <4>2, <4>3 DEF RequestOK, Positive
    <3>4. OnePlace'
      BY <1>2, <2>5, <2>6, <2>7, <3>1, <3>3 DEF PullInv, OnePlace
    <3>5. Marked'
      BY <1>2, <1>3, <1>5, <2>2, <2>8, <3>1, <3>3 DEF PullInv, Marked, UnderWay, Number
    <3>6. \A q \in requests' : RequestOK(q)'
      BY <2>5, <3>2, <3>3
    <3> QED BY <1>2, <2>3, <2>4, <2>6, <2>7, <3>4, <3>5, <3>6 DEF PullInv
  <2>9. CASE networkLost' = networkLost \cup {seq} /\ UNCHANGED requests
    <3>1. Marked'
      BY <1>2, <1>3, <1>5, <2>2, <2>9 DEF PullInv, Marked, UnderWay, Number
    <3>2. OnePlace'
      BY <1>2, <2>9 DEF PullInv, OnePlace
    <3> QED BY <1>2, <2>3, <2>4, <2>5, <2>6, <2>7, <2>9, <3>1, <3>2 DEF PullInv
  <2> QED BY <1>5, <2>8, <2>9
<1> QED BY <1>4, <1>5 DEF RequestVoice

(* A number that leaves the place it has and is answered.                   *)
LEMMA AnswerInv ==
  ASSUME PullInv, NEW n \in Nat, n < seq, NEW t \in -1..0, pending[n] > MaxDelay, Answer(n, t),
         requests' = {p \in requests : p.seq # n}, answers' = {p \in answers : p.seq # n},
         \A p \in voice : p.seq # n,
         UNCHANGED <<lookahead, caller, seq, sendTimer, pendingIds, cleaning, pending, lmap>>
  PROVE  PullInv'
<1>1. /\ PullEvents'
      /\ \A r \in requests' : RequestOK(r)'
      /\ \A a \in answers' : AnswerOK(a)'
      /\ \A v \in voice : VoiceOK(v)'
  BY DEF PullInv, PullEvents, RequestOK, AnswerOK, VoiceOK
<1>2. n \in Number /\ n \in 0..seq - 1
  BY DEF PullInv, PullTypes, Number
<1>3. ASSUME NEW d \in 0..MaxDelay, UNCHANGED networkLost,
             voice' = voice \cup {[seq |-> n, time |-> t, delay |-> d]}
      PROVE  PullInv'
  <2>1. PICK v : /\ v.seq = n /\ v.time = t /\ v.delay = d
                 /\ v = [seq |-> n, time |-> t, delay |-> d]
    OBVIOUS
  <2>2. voice' = voice \cup {v} /\ v \in [seq : Nat, time : Int, delay : Nat]
    BY <1>3, <2>1
  <2>3. PullTypes'
    BY <1>3, <2>2 DEF PullInv, PullTypes
  <2>4. \A w \in voice' : VoiceOK(w)'
    <3>1. v.seq < seq' /\ v.delay <= MaxDelay /\ v.time \in -1..0
      BY <2>1
    <3>2. pending'[v.seq] > v.delay
      <4>1. pending[n] \in Int
        BY <1>2 DEF PullInv, PullTypes
      <4> QED BY <2>1, <4>1
    <3>3. VoiceOK(v)'
      BY <3>1, <3>2 DEF VoiceOK
    <3> QED BY <1>1, <2>2, <3>3
  <2>5. OnePlace'
    BY <2>1, <2>2 DEF PullInv, OnePlace
  <2>6. Marked'
    BY <1>3, <2>1, <2>2 DEF PullInv, Marked, UnderWay
  <2> QED BY <1>1, <2>3, <2>4, <2>5, <2>6 DEF PullInv
<1>4. CASE networkLost' = networkLost \cup {n} /\ UNCHANGED voice
  <2>1. PullTypes'
    BY <1>2, <1>4 DEF PullInv, PullTypes
  <2>2. OnePlace'
    BY <1>4 DEF PullInv, OnePlace
  <2>3. Marked'
    BY <1>4 DEF PullInv, Marked, UnderWay
  <2> QED BY <1>1, <1>4, <2>1, <2>2, <2>3 DEF PullInv
<1> QED BY <1>3, <1>4 DEF Answer

LEMMA RequestArrivesInv ==
  ASSUME PullInv, RequestArrives
  PROVE  PullInv'
<1>1. PICK r \in requests :
        /\ r.delay = 0
        /\ requests' = requests \ {r}
        /\ \/ /\ IsEarly(r)
              /\ answers' = answers \cup {[seq |-> r.seq, time |-> r.time]}
              /\ pendingIds' = pendingIds \cup {r.seq}
              /\ UNCHANGED <<voice, networkLost>>
           \/ /\ ~IsEarly(r)
              /\ Answer(r.seq, r.time)
              /\ UNCHANGED <<answers, pendingIds>>
        /\ UNCHANGED <<lookahead, caller, seq, sendTimer, cleaning, pending, lmap>>
  BY DEF RequestArrives
<1>2. /\ r.seq \in Nat /\ r.seq < seq /\ r.time \in -1..lookahead
      /\ pending[r.seq] > 0 + Positive(r.time) + MaxDelay
      /\ lookahead \in Nat /\ r.seq \in Number /\ pending[r.seq] \in Nat
  <2>1. RequestOK(r) /\ r.seq \in Nat /\ r.time \in Int /\ lookahead \in Nat /\ seq \in 0..MaxSeq
    BY DEF PullInv, PullTypes
  <2>2. r.seq \in Number
    BY <2>1 DEF RequestOK, Number
  <2>3. pending[r.seq] \in Nat
    BY <2>1, <2>2 DEF PullInv, PullTypes
  <2> QED BY <1>1, <2>1, <2>2, <2>3 DEF RequestOK, Positive
<1>3. requests' = {p \in requests : p.seq # r.seq}
  BY <1>1 DEF PullInv, OnePlace
<1>4. CASE ~IsEarly(r) /\ Answer(r.seq, r.time) /\ UNCHANGED <<answers, pendingIds>>
  <2>1. r.time \in -1..0 /\ pending[r.seq] > MaxDelay
    BY <1>2, <1>4 DEF IsEarly, Positive
  <2>2. answers' = {p \in answers : p.seq # r.seq} /\ \A p \in voice : p.seq # r.seq
    BY <1>4 DEF PullInv, OnePlace
  <2> QED BY <1>1, <1>2, <1>3, <1>4, <2>1, <2>2, AnswerInv
<1>5. CASE /\ IsEarly(r)
           /\ answers' = answers \cup {[seq |-> r.seq, time |-> r.time]}
           /\ pendingIds' = pendingIds \cup {r.seq}
           /\ UNCHANGED <<voice, networkLost>>
  <2>1. PICK a : a.seq = r.seq /\ a.time = r.time /\ a = [seq |-> r.seq, time |-> r.time]
    OBVIOUS
  <2>2. answers' = answers \cup {a} /\ r.time > 0 /\ a \in [seq : Nat, time : Nat]
    BY <1>2, <1>5, <2>1 DEF IsEarly
  <2>3. PullTypes'
    BY <1>1, <1>5, <2>2 DEF PullInv, PullTypes
  <2>4. PullEvents'
    BY <1>1, <1>5, <2>1, <2>2 DEF PullInv, PullEvents
  <2>5. /\ \A q \in requests' : RequestOK(q)'
        /\ \A v \in voice' : VoiceOK(v)'
    BY <1>1, <1>5 DEF PullInv, RequestOK, VoiceOK
  <2>6. \A q \in answers' : AnswerOK(q)'
    <3>1. \A q \in answers : AnswerOK(q)'
      BY <1>1 DEF PullInv, AnswerOK
    <3>2. AnswerOK(a)'
      BY <1>1, <1>2, <2>1, <2>2 DEF AnswerOK, Positive
    <3> QED BY <2>2, <3>1, <3>2
  <2>7. OnePlace'
    BY <1>3, <1>5, <2>1, <2>2 DEF PullInv, OnePlace
  <2>8. Marked'
    BY <1>1, <1>3, <1>5, <2>1, <2>2 DEF PullInv, Marked, UnderWay
  <2> QED BY <2>3, <2>4, <2>5, <2>6, <2>7, <2>8 DEF PullInv
<1> QED BY <1>1, <1>4, <1>5

LEMMA HeldAnswerInv ==
  ASSUME PullInv, HeldAnswer
  PROVE  PullInv'
<1>1. PICK a \in answers :
        /\ a.time = 0
        /\ answers' = answers \ {a}
        /\ Answer(a.seq, a.time)
        /\ UNCHANGED <<lookahead, caller, seq, sendTimer, requests, pendingIds, cleaning, pending, lmap>>
  BY DEF HeldAnswer
<1>2. /\ AnswerOK(a) /\ a.seq \in Nat /\ lookahead \in Nat /\ seq \in 0..MaxSeq
  BY DEF PullInv, PullTypes
<1>3. a.seq < seq /\ a.time \in -1..0 /\ pending[a.seq] > MaxDelay
  BY <1>1, <1>2 DEF AnswerOK
<1>4. /\ answers' = {p \in answers : p.seq # a.seq}
      /\ requests' = {p \in requests : p.seq # a.seq}
      /\ \A p \in voice : p.seq # a.seq
  BY <1>1 DEF PullInv, OnePlace
<1> QED BY <1>1, <1>2, <1>3, <1>4, AnswerInv

LEMMA VoiceArrivesInv ==
  ASSUME PullInv, VoiceArrives
  PROVE  PullInv'
<1>1. PICK v \in voice :
        /\ v.delay = 0
        /\ voice' = voice \ {v}
        /\ pending' = [pending EXCEPT ![v.seq] = 0]
        /\ lmap' = IF pending[v.seq] > 0 /\ caller = "active" THEN [lmap EXCEPT ![v.seq] = FALSE]
                   ELSE lmap
        /\ UNCHANGED <<lookahead, caller, seq, sendTimer, requests, answers, pendingIds, cleaning,
                       networkLost>>
  BY DEF VoiceArrives
<1>2. /\ v.seq \in Number /\ v.seq < seq /\ pending[v.seq] > 0 /\ lookahead \in Nat
  <2>1. VoiceOK(v) /\ v.seq \in Nat /\ seq \in 0..MaxSeq /\ lookahead \in Nat
    BY DEF PullInv, PullTypes
  <2> QED BY <1>1, <2>1 DEF VoiceOK, Number
<1>3. /\ pending' \in [Number -> 0..PullLifetime + lookahead] /\ pending'[v.seq] = 0
      /\ \A n \in Number : n # v.seq => pending'[n] = pending[n]
  BY <1>1, <1>2 DEF PullInv, PullTypes
<1>4. /\ lmap' \in [Number -> BOOLEAN]
      /\ \A n \in Number : n # v.seq => lmap'[n] = lmap[n]
      /\ caller = "active" => ~lmap'[v.seq]
      /\ caller # "active" => lmap' = lmap
  <2>1. CASE caller = "active"
    <3>1. lmap' = [lmap EXCEPT ![v.seq] = FALSE]
      BY <1>1, <1>2, <2>1
    <3>2. lmap' \in [Number -> BOOLEAN]
      BY <3>1, Zenon DEF PullInv, PullTypes
    <3> QED BY <1>2, <2>1, <3>1, <3>2 DEF PullInv, PullTypes
  <2>2. CASE caller # "active"
    BY <1>1, <2>2 DEF PullInv, PullTypes
  <2> QED BY <2>1, <2>2
<1>5. /\ \A p \in requests : p.seq # v.seq /\ p.seq \in Number
      /\ \A p \in answers : p.seq # v.seq /\ p.seq \in Number
      /\ \A p \in voice \ {v} : p.seq # v.seq /\ p.seq \in Number
  <2>1. seq \in 0..MaxSeq /\ \A n \in Nat : n < seq => n \in Number
    BY DEF PullInv, PullTypes, Number
  <2>2. /\ \A p \in requests : p.seq # v.seq /\ p.seq \in Nat /\ p.seq < seq
        /\ \A p \in answers : p.seq # v.seq /\ p.seq \in Nat /\ p.seq < seq
        /\ \A p \in voice \ {v} : p.seq # v.seq /\ p.seq \in Nat /\ p.seq < seq
    BY DEF PullInv, PullTypes, OnePlace, RequestOK, AnswerOK, VoiceOK
  <2> QED BY <2>1, <2>2
<1>6. PullTypes' /\ PullEvents'
  BY <1>1, <1>3, <1>4 DEF PullInv, PullTypes, PullEvents
<1>7. /\ \A p \in requests' : RequestOK(p)'
      /\ \A p \in answers' : AnswerOK(p)'
      /\ \A p \in voice' : VoiceOK(p)'
  BY <1>1, <1>3, <1>5 DEF PullInv, RequestOK, AnswerOK, VoiceOK
<1>8. OnePlace'
  BY <1>1 DEF PullInv, OnePlace
<1>9. Marked'
  <2> SUFFICES ASSUME NEW n \in Number
               PROVE  /\ lmap'[n] \/ pending'[n] > 0 => n < seq
                      /\ caller # "stopped" /\ lmap'[n] /\ n \notin networkLost => UnderWay(n)'
    BY <1>1 DEF Marked
  <2>1. CASE n = v.seq
    <3>1. n < seq
      BY <1>2, <2>1
    <3>2. caller # "new"
      BY <1>2 DEF PullInv, PullEvents, Number
    <3>3. caller = "active" \/ caller = "stopped"
      BY <3>2 DEF PullInv, PullTypes
    <3> QED BY <1>4, <2>1, <3>1, <3>3
  <2>2. CASE n # v.seq
    BY <1>1, <1>3, <1>4, <2>2 DEF PullInv, Marked, UnderWay
  <2> QED BY <2>1, <2>2
<1> QED BY <1>6, <1>7, <1>8, <1>9 DEF PullInv

(* The clock takes as much from what is before a number as from the life    *)
(* of its PIT entry.                                                        *)
LEMMA PullTickInv ==
  ASSUME PullInv, PullTick
  PROVE  PullInv'
<1>1. /\ lookahead \in Nat /\ seq \in 0..MaxSeq /\ \A n \in Nat : n < seq => n \in Number
      /\ UNCHANGED <<lookahead, caller, seq, pendingIds, lmap, networkLost>>
  <2>1. lookahead \in Nat /\ seq \in 0..MaxSeq /\ MaxSeq \in Nat
    BY DEF PullInv, PullTypes
  <2>2. \A n \in Nat : n < seq => n \in Number
    BY <2>1 DEF Number
  <2> QED BY <2>1, <2>2 DEF PullTick
<1>2. /\ sendTimer' \in Queue(SendPeriod) /\ (sendTimer' = << >> <=> sendTimer = << >>)
      /\ cleaning' \in Queue(CleanUp) /\ cleaning' # << >>
  <2>1. /\ SendPeriod \in Nat /\ sendTimer \in Queue(SendPeriod) /\ Waiting(sendTimer)
        /\ CleanUp \in Nat /\ cleaning \in Queue(CleanUp) /\ Waiting(cleaning) /\ cleaning # << >>
        /\ sendTimer' = Passed(sendTimer) /\ cleaning' = Passed(cleaning)
    BY DEF PullInv, PullTypes, PullTick
  <2> QED BY <2>1, QueuePassed
<1>3. ASSUME NEW n \in Number
      PROVE  /\ pending[n] \in 0..PullLifetime + lookahead
             /\ pending'[n] = IF pending[n] > 0 THEN pending[n] - 1 ELSE 0
  BY DEF PullInv, PullTypes, PullTick
<1>4. pending' \in [Number -> 0..PullLifetime + lookahead]
  <2>1. \A n \in Number : pending'[n] \in 0..PullLifetime + lookahead
    BY <1>1, <1>3
  <2> QED BY <2>1 DEF PullTick
<1>5. ASSUME NEW q \in requests'
      PROVE  \E r \in requests : /\ q = [seq |-> r.seq, time |-> Earlier(r.time), delay |-> r.delay - 1]
                                 /\ r.delay > 0 /\ r.seq \in Nat /\ r.time \in Int /\ r.delay \in Nat
  <2>1. PICK r \in requests : q = [r EXCEPT !.time = Earlier(@), !.delay = @ - 1]
    BY DEF PullTick
  <2>2. r \in [seq : Nat, time : Int, delay : Nat] /\ r.delay > 0
    BY DEF PullInv, PullTypes, PullTick
  <2> QED BY <2>1, <2>2
<1>6. ASSUME NEW q \in voice'
      PROVE  \E v \in voice : /\ q = [seq |-> v.seq, time |-> Earlier(v.time), delay |-> v.delay - 1]
                              /\ v.delay > 0 /\ v.seq \in Nat /\ v.time \in Int /\ v.delay \in Nat
  <2>1. PICK v \in voice : q = [v EXCEPT !.time = Earlier(@), !.delay = @ - 1]
    BY DEF PullTick
  <2>2. v \in [seq : Nat, time : Int, delay : Nat] /\ v.delay > 0
    BY DEF PullInv, PullTypes, PullTick
  <2> QED BY <2>1, <2>2
<1>7. ASSUME NEW q \in answers'
      PROVE  \E a \in answers : /\ q = [seq |-> a.seq, time |-> a.time - 1]
                                /\ a.time > 0 /\ a.seq \in Nat /\ a.time \in Nat
  <2>1. PICK a \in answers : q = [a EXCEPT !.time = @ - 1]
    BY DEF PullTick
  <2>2. a \in [seq : Nat, time : Nat] /\ a.time > 0
    BY DEF PullInv, PullTypes, PullTick
  <2> QED BY <2>1, <2>2
<1>8. ASSUME NEW n
      PROVE  /\ \A r \in requests : r.seq = n => \E q \in requests' : q.seq = n
             /\ \A v \in voice : v.seq = n => \E q \in voice' : q.seq = n
             /\ \A a \in answers : a.seq = n => \E q \in answers' : q.seq = n
  <2>1. ASSUME NEW r \in requests, r.seq = n PROVE \E q \in requests' : q.seq = n
    <3>1. [r EXCEPT !.time = Earlier(@), !.delay = @ - 1] \in requests'
      BY DEF PullTick
    <3>2. r \in [seq : Nat, time : Int, delay : Nat]
      BY DEF PullInv, PullTypes
    <3>3. [r EXCEPT !.time = Earlier(@), !.delay = @ - 1].seq = n
      BY <2>1, <3>2
    <3> QED BY <3>1, <3>3
  <2>2. ASSUME NEW v \in voice, v.seq = n PROVE \E q \in voice' : q.seq = n
    <3>1. [v EXCEPT !.time = Earlier(@), !.delay = @ - 1] \in voice'
      BY DEF PullTick
    <3>2. v \in [seq : Nat, time : Int, delay : Nat]
      BY DEF PullInv, PullTypes
    <3>3. [v EXCEPT !.time = Earlier(@), !.delay = @ - 1].seq = n
      BY <2>2, <3>2
    <3> QED BY <3>1, <3>3
  <2>3. ASSUME NEW a \in answers, a.seq = n PROVE \E q \in answers' : q.seq = n
    <3>1. [a EXCEPT !.time = @ - 1] \in answers'
      BY DEF PullTick
    <3>2. a \in [seq : Nat, time : Nat]
      BY DEF PullInv, PullTypes
    <3>3. [a EXCEPT !.time = @ - 1].seq = n
      BY <2>3, <3>2
    <3> QED BY <3>1, <3>3
  <2> QED BY <2>1, <2>2, <2>3
<1>9. PullTypes'
  <2>1. ASSUME NEW q \in requests' PROVE q \in [seq : Nat, time : Int, delay : Nat]
    BY <1>5 DEF Earlier
  <2>2. ASSUME NEW q \in voice' PROVE q \in [seq : Nat, time : Int, delay : Nat]
    BY <1>6 DEF Earlier
  <2>3. ASSUME NEW q \in answers' PROVE q \in [seq : Nat, time : Nat]
    BY <1>7
  <2> QED BY <1>1, <1>2, <1>4, <2>1, <2>2, <2>3 DEF PullInv, PullTypes
<1>10. PullEvents'
  <2>1. \A q \in answers' : q.seq \in pendingIds
    BY <1>7 DEF PullInv, PullEvents
  <2> QED BY <1>1, <1>2, <2>1 DEF PullInv, PullEvents
<1>11. ASSUME NEW q \in requests' PROVE RequestOK(q)'
  <2>1. PICK r \in requests : /\ q = [seq |-> r.seq, time |-> Earlier(r.time), delay |-> r.delay - 1]
                              /\ r.delay > 0 /\ r.seq \in Nat /\ r.time \in Int /\ r.delay \in Nat
    BY <1>5
  <2>2. /\ r.seq < seq /\ r.delay <= MaxDelay /\ r.time \in -1..lookahead
        /\ pending[r.seq] > r.delay + Positive(r.time - r.delay) + MaxDelay
    BY DEF PullInv, RequestOK
  <2>3. q.seq = r.seq /\ q.time = Earlier(r.time) /\ q.delay = r.delay - 1
    BY <2>1
  <2>4. /\ Positive(Earlier(r.time) - (r.delay - 1)) = Positive(r.time - r.delay)
        /\ Earlier(r.time) \in -1..lookahead
    BY <1>1, <2>1, <2>2 DEF Positive, Earlier
  <2>5. pending'[r.seq] = pending[r.seq] - 1 /\ pending[r.seq] \in Nat
    BY <1>1, <1>3, <2>1, <2>2 DEF Positive
  <2>6. Positive(r.time - r.delay) \in Nat
    BY <2>1 DEF Positive
  <2>7. pending'[q.seq] > q.delay + Positive(q.time - q.delay) + MaxDelay
    BY <2>1, <2>2, <2>3, <2>4, <2>5, <2>6
  <2>8. q.seq < seq' /\ q.delay <= MaxDelay /\ q.time \in -1..lookahead'
    BY <1>1, <2>1, <2>2, <2>3, <2>4
  <2> QED BY <2>7, <2>8 DEF RequestOK, Positive
<1>12. ASSUME NEW q \in answers' PROVE AnswerOK(q)'
  <2>1. PICK a \in answers : /\ q = [seq |-> a.seq, time |-> a.time - 1]
                             /\ a.time > 0 /\ a.seq \in Nat /\ a.time \in Nat
    BY <1>7
  <2>2. a.seq < seq /\ a.time <= lookahead /\ pending[a.seq] > a.time + MaxDelay
    BY DEF PullInv, AnswerOK
  <2>3. pending'[a.seq] = pending[a.seq] - 1 /\ pending[a.seq] \in Nat
    BY <1>1, <1>3, <2>1, <2>2
  <2>4. q.seq = a.seq /\ q.time = a.time - 1
    BY <2>1
  <2> QED BY <1>1, <2>1, <2>2, <2>3, <2>4 DEF AnswerOK
<1>13. ASSUME NEW q \in voice' PROVE VoiceOK(q)'
  <2>1. PICK v \in voice : /\ q = [seq |-> v.seq, time |-> Earlier(v.time), delay |-> v.delay - 1]
                           /\ v.delay > 0 /\ v.seq \in Nat /\ v.time \in Int /\ v.delay \in Nat
    BY <1>6
  <2>2. v.seq < seq /\ v.delay <= MaxDelay /\ v.time \in -1..0 /\ pending[v.seq] > v.delay
    BY DEF PullInv, VoiceOK
  <2>3. pending'[v.seq] = pending[v.seq] - 1 /\ pending[v.seq] \in Nat
    BY <1>1, <1>3, <2>1, <2>2
  <2>4. q.seq = v.seq /\ q.time = Earlier(v.time) /\ q.delay = v.delay - 1
    BY <2>1
  <2> QED BY <1>1, <2>1, <2>2, <2>3, <2>4 DEF VoiceOK, Earlier
<1>14. OnePlace'
  <2>1. \A p, q \in requests' : p.seq = q.seq => p = q
    BY <1>5 DEF PullInv, OnePlace
  <2>2. \A p, q \in answers' : p.seq = q.seq => p = q
    BY <1>7 DEF PullInv, OnePlace
  <2>3. \A p, q \in voice' : p.seq = q.seq => p = q
    BY <1>6 DEF PullInv, OnePlace
  <2>4. \A p \in requests', q \in answers' : p.seq # q.seq
    BY <1>5, <1>7 DEF PullInv, OnePlace
  <2>5. \A p \in requests', q \in voice' : p.seq # q.seq
    BY <1>5, <1>6 DEF PullInv, OnePlace
  <2>6. \A p \in answers', q \in voice' : p.seq # q.seq
    BY <1>6, <1>7 DEF PullInv, OnePlace
  <2> QED BY <2>1, <2>2, <2>3, <2>4, <2>5, <2>6 DEF OnePlace
<1>15. Marked'
  <2> SUFFICES ASSUME NEW n \in Number
               PROVE  /\ lmap[n] \/ pending'[n] > 0 => n < seq
                      /\ caller # "stopped" /\ lmap[n] /\ n \notin networkLost => UnderWay(n)'
    BY <1>1 DEF Marked
  <2>1. lmap[n] \/ pending'[n] > 0 => n < seq
    BY <1>3 DEF PullInv, Marked
  <2>2. UnderWay(n) => UnderWay(n)'
    BY <1>8 DEF UnderWay
  <2> QED BY <2>1, <2>2 DEF PullInv, Marked
<1> QED BY <1>9, <1>10, <1>11, <1>12, <1>13, <1>14, <1>15 DEF PullInv

LEMMA PullInvNext == PullInv /\ [PullNext]_pullVars => PullInv'
<1> SUFFICES ASSUME PullInv, [PullNext]_pullVars PROVE PullInv'
  OBVIOUS
<1>1. CASE UNCHANGED pullVars
  <2>1. PullTypes' /\ PullEvents'
    BY <1>1 DEF PullInv, PullTypes, PullEvents, pullVars
  <2> QED BY <1>1, <2>1, SameVoice DEF PullInv, pullVars
<1> QED BY <1>1, StartCallerInv, StopCallerInv, RequestVoiceInv, RequestArrivesInv, HeldAnswerInv,
           RemoveExpiredEventsInv, VoiceArrivesInv, PullTickInv DEF PullNext, PullEvent

-----------------------------------------------------------------------------
(* The applications of one approach step while the others' rest.            *)
CallInv == approach \in Approach /\ PushInv /\ VoipInv /\ PullInv

LEMMA CallInvInit == Init => CallInv
BY PushInvInit, VoipInvInit, PullInvInit DEF Init, CallInv

LEMMA CallInvNext == CallInv /\ [Next]_vars => CallInv'
<1> SUFFICES ASSUME CallInv, [Next]_vars PROVE CallInv'
  OBVIOUS
<1>1. CASE InPush(PushNext)
  <2>1. approach' = approach /\ [PushNext]_pushVars /\ [VoipNext]_voipVars /\ [PullNext]_pullVars
    BY <1>1 DEF InPush
  <2> QED BY <2>1, PushInvNext, VoipInvNext, PullInvNext DEF CallInv
<1>2. CASE InPull(PullNext)
  <2>1. approach' = approach /\ [PushNext]_pushVars /\ [VoipNext]_voipVars /\ [PullNext]_pullVars
    BY <1>2 DEF InPull
  <2> QED BY <2>1, PushInvNext, VoipInvNext, PullInvNext DEF CallInv
<1>3. CASE InClient(VoipNext)
  <2>1. approach' = approach /\ [PushNext]_pushVars /\ [VoipNext]_voipVars /\ [PullNext]_pullVars
    BY <1>3 DEF InClient
  <2> QED BY <2>1, PushInvNext, VoipInvNext, PullInvNext DEF CallInv
<1>4. CASE UNCHANGED vars
  <2>1. approach' = approach /\ [PushNext]_pushVars /\ [VoipNext]_voipVars /\ [PullNext]_pullVars
    BY <1>4 DEF vars
  <2> QED BY <2>1, PushInvNext, VoipInvNext, PullInvNext DEF CallInv
<1> QED BY <1>1, <1>2, <1>3, <1>4 DEF Next

LEMMA CallInvariant == Spec => []CallInv
BY CallInvInit, CallInvNext, PTL DEF Spec

LEMMA CallInvTypes == CallInv => TypeOK
<1> SUFFICES ASSUME CallInv PROVE TypeOK
  OBVIOUS
<1>1. approach \in Approach /\ PushTypeOK /\ VoipTypeOK
  BY PushInvProperties DEF CallInv, VoipInv, VoipTypes
<1>2. /\ lookahead \in Lookaheads /\ caller \in {"new", "active", "stopped"} /\ seq \in 0..MaxSeq
      /\ pending \in [Number -> 0..PullLifetime + lookahead] /\ lmap \in [Number -> BOOLEAN]
      /\ networkLost \subseteq 0..seq - 1
  BY DEF CallInv, PullInv, PullTypes
<1>3. \A p \in requests \cup voice : p.seq < seq /\ p.delay \in 0..MaxDelay /\ p.time <= lookahead
  BY DEF CallInv, PullInv, PullTypes, RequestOK, VoiceOK
<1>4. \A n \in Number : lmap[n] \/ pending[n] > 0 => n < seq
  BY DEF CallInv, PullInv, Marked
<1> QED BY <1>1, <1>2, <1>3, <1>4 DEF TypeOK

LEMMA CallInvEvents == CallInv => OneEventEach
<1> SUFFICES ASSUME CallInv PROVE OneEventEach
  OBVIOUS
<1>1. PushOneEventEach
  BY PushInvProperties DEF CallInv
<1>2. VoipOneEventEach
  BY DEF CallInv, VoipInv, VoipTypes, Chained, VoipOneEventEach, Partners
<1>3. /\ sendTimer \in Queue(SendPeriod) /\ cleaning \in Queue(CleanUp) /\ cleaning # << >>
      /\ caller = "active" /\ seq < MaxSeq => sendTimer # << >>
      /\ caller # "active" => sendTimer = << >>
      /\ {a.seq : a \in answers} \subseteq pendingIds
  BY DEF CallInv, PullInv, PullTypes, PullEvents
<1>4. \A a, b \in answers : a.seq = b.seq => a = b
  BY DEF CallInv, PullInv, OnePlace
<1> QED BY <1>1, <1>2, <1>3, <1>4 DEF OneEventEach

LEMMA CallInvVoice == CallInv => VoiceInTime
<1> SUFFICES ASSUME CallInv PROVE VoiceInTime
  OBVIOUS
<1>1. \A v \in voice : v.time <= 0
  BY DEF CallInv, PullInv, VoiceOK
<1>2. ASSUME caller = "active", NEW n \in Number, lmap[n], n \notin networkLost
      PROVE  /\ \E p \in requests \cup answers \cup voice : p.seq = n
             /\ pending[n] > 0
  <2>1. UnderWay(n) /\ MaxDelay \in Nat /\ lookahead \in Nat /\ pending[n] \in 0..PullLifetime + lookahead
    BY <1>2 DEF CallInv, PullInv, PullTypes, Marked
  <2>2. CASE \E p \in requests : p.seq = n
    <3>1. PICK p \in requests : p.seq = n
      BY <2>2
    <3>2. /\ RequestOK(p) /\ p.delay \in Nat /\ p.time \in Int
      BY DEF CallInv, PullInv, PullTypes
    <3> QED BY <2>1, <3>1, <3>2 DEF RequestOK, Positive
  <2>3. CASE \E p \in answers : p.seq = n
    BY <2>1, <2>3 DEF CallInv, PullInv, PullTypes, AnswerOK
  <2>4. CASE \E p \in voice : p.seq = n
    BY <2>1, <2>4 DEF CallInv, PullInv, PullTypes, VoiceOK
  <2> QED BY <2>1, <2>2, <2>3, <2>4 DEF UnderWay
<1> QED BY <1>1, <1>2 DEF VoiceInTime

(* What the scenarios install fits together, and the times they set are     *)
(* such as the applications' assumptions ask.                               *)
THEOREM ScenariosFit == Served /\ Covered
<1> DEFINE Renewed(s) == s.refresh \in {1500, 2000} /\ s.lifetime = 5000
<1>1. ASSUME NEW s, NEW apps, NEW refresh \in {1500, 2000}, NEW n,
             s = Push(apps, refresh, n), PushServed(apps, n)
      PROVE  PushServed(s.apps, s.probes) /\ Renewed(s)
  <2>1. s.apps = apps /\ s.refresh = refresh /\ s.lifetime = 5000 /\ s.probes = n
    BY <1>1 DEF Push
  <2> QED BY <1>1, <2>1
<1>2. ASSUME NEW n
      PROVE  /\ PushServed(BothWays("PushProducer", "PushConsumer"), 0)
             /\ PushServed(BothWays("PushProducer", "PushConsumer") \cup Probed({"caller", "callee"}), n)
  <2>1. PushServed(BothWays("PushProducer", "PushConsumer"), 0)
    BY DEF BothWays, App, PushServed
  <2>2. Probed({"caller", "callee"}) =
          {App("ProbeDataProducer", "caller", "caller"), App("ProbeDataProducer", "callee", "callee")}
    BY DEF Probed
  <2>3. PushServed(BothWays("PushProducer", "PushConsumer") \cup Probed({"caller", "callee"}), n)
    <3> DEFINE all == BothWays("PushProducer", "PushConsumer") \cup Probed({"caller", "callee"})
    <3>1. \A a \in all : a.app = "PushConsumer" => a.prefix \in {"caller", "callee"}
      BY <2>2 DEF BothWays, App
    <3>2. \A e \in {"caller", "callee"} :
            /\ App("PushProducer", e, e) \in all
            /\ App("ProbeDataProducer", e, e) \in all
      BY <2>2 DEF BothWays
    <3>3. \A e \in {"caller", "callee"} : \A app :
            App(app, e, e).app = app /\ App(app, e, e).prefix = e
      BY DEF App
    <3> QED BY <3>1, <3>2, <3>3 DEF PushServed
  <2> QED BY <2>1, <2>3
<1>3. PullServed(BothWays("VoIPProducer", "VoipClientPre"))
  BY DEF BothWays, App, PullServed
<1>4. ASSUME NEW s \in PushScenario PROVE PushServed(s.apps, s.probes) /\ Renewed(s)
  <2> HIDE DEF Renewed
  <2>1. CASE s \in {VoipTopo("push", t) : t \in Strategy}
    <3>1. \/ s = Push(BothWays("PushProducer", "PushConsumer") \cup Probed({"caller", "callee"}), 2000, 30)
          \/ s = Push(BothWays("PushProducer", "PushConsumer"), 2000, 0)
      <4>1. PICK t \in Strategy : s = VoipTopo("push", t)
        BY <2>1
      <4>2. CASE t = "lowest-cost"
        BY <4>1, <4>2 DEF VoipTopo
      <4>3. CASE t # "lowest-cost"
        BY <4>1, <4>3 DEF VoipTopo
      <4> QED BY <4>2, <4>3
    <3> QED BY <1>1, <1>2, <3>1
  <2>2. CASE s \in {PIPS(t) : t \in Strategy}
    <3>1. PICK n : s =
            Push(BothWays("PushProducer", "PushConsumer") \cup Probed({"caller", "callee"}), 1500, n)
      <4>1. PICK t \in Strategy : s = PIPS(t)
        BY <2>2
      <4> QED BY <4>1 DEF PIPS
    <3>2. PushServed(BothWays("PushProducer", "PushConsumer") \cup Probed({"caller", "callee"}), n)
      BY <1>2
    <3> QED BY <1>1, <3>1, <3>2
  <2>3. CASE s = BitvectorLength("push")
    BY <1>1, <1>2, <2>3 DEF BitvectorLength
  <2>4. CASE s = PushCircle
    <3>1. PushServed({App("PushConsumer", "Cons1", "Prod0"), App("PushConsumer", "Cons2", "Prod0"),
                      App("PushProducer", "Prod0", "Prod0")}, 0)
      BY DEF App, PushServed
    <3> QED BY <1>1, <2>4, <3>1 DEF PushCircle
  <2>5. CASE s = PushTwoConsumers
    <3>1. PushServed({App("PushConsumer", "0", "/voip/00/app"), App("PushConsumer", "1", "/voip/01/app"),
                      App("PushProducer", "3", "/voip/00/app"), App("PushProducer", "3", "/voip/01/app")}, 0)
      BY DEF App, PushServed
    <3> QED BY <1>1, <2>5, <3>1 DEF PushTwoConsumers
  <2>6. CASE s = LowestCost
    <3>1. PushServed({App("PushConsumer", "Cons1", "Prod1"), App("PushProducer", "Prod1", "Prod1"),
                      App("PushProducer", "Prod2", "Prod2")} \cup Probed({"Prod1", "Prod2"}), 30)
      <4>1. Probed({"Prod1", "Prod2"}) =
              {App("ProbeDataProducer", "Prod1", "Prod1"), App("ProbeDataProducer", "Prod2", "Prod2")}
        BY DEF Probed
      <4>2. App("PushProducer", "Prod1", "Prod1").app = "PushProducer"
            /\ App("PushProducer", "Prod1", "Prod1").prefix = "Prod1"
            /\ App("ProbeDataProducer", "Prod1", "Prod1").app = "ProbeDataProducer"
            /\ App("ProbeDataProducer", "Prod1", "Prod1").prefix = "Prod1"
        BY DEF App
      <4>3. ASSUME NEW a \in {App("PushConsumer", "Cons1", "Prod1"), App("PushProducer", "Prod1", "Prod1"),
                      App("PushProducer", "Prod2", "Prod2")} \cup Probed({"Prod1", "Prod2"}),
                   a.app = "PushConsumer"
            PROVE  a.prefix = "Prod1"
        BY <4>1, <4>3 DEF App
      <4> QED BY <4>1, <4>2, <4>3 DEF PushServed
    <3> QED BY <1>1, <2>6, <3>1 DEF LowestCost
  <2> QED BY <2>1, <2>2, <2>3, <2>4, <2>5, <2>6 DEF PushScenario
<1>5. ASSUME NEW s \in PullScenario PROVE PullServed(s.apps) /\ s.lifetime = 1000
  <2>1. PICK ahead : s = Pull(BothWays("VoIPProducer", "VoipClientPre"), ahead)
    BY DEF PullScenario, VoipTopo, BitvectorLength, PIPSClassical
  <2> QED BY <1>3, <2>1 DEF Pull
<1>6. Served
  BY <1>4, <1>5 DEF Served
<1>7. Covered
  BY <1>4, <1>5 DEF Covered
<1> QED BY <1>6, <1>7

(* The state of all the applications has its types.                         *)
THEOREM TypesHold == Spec => []TypeOK
BY CallInvariant, CallInvTypes, PTL

(* Each periodic duty of each application has one pending event, for any    *)
(* number of consumers and clients, whatever is lost or delayed.            *)
THEOREM EventsHold == Spec => []OneEventEach
BY CallInvariant, CallInvEvents, PTL

(* A push subscription covers the loss of Tolerated Interests in a row, for *)
(* every interval and lifetime that PushAssumption relates.                 *)
THEOREM SubscriptionsHold == Spec => []SubscriptionSurvives
<1>1. CallInv => SubscriptionSurvives
  BY PushInvProperties DEF CallInv
<1> QED BY <1>1, CallInvariant, PTL

(* No voice before its time, and no loss counted that did not happen, for   *)
(* every lookahead, lifetime and delay that PullAssumption relates.         *)
THEOREM VoiceHolds == Spec => []VoiceInTime
BY CallInvariant, CallInvVoice, PTL
===============================================================================
