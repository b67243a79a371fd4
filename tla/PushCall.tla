-------------------------------- MODULE PushCall --------------------------------
(***************************************************************************)
(* The push applications of a call: consumers that subscribe with           *)
(* Persistent Interests and renew them (extensions/apps/push-consumer.cpp), *)
(* and the producer they subscribe to (push-producer.cpp), as voip-topo,    *)
(* bitvector-length, the PIPS and the push scenarios install them.  The     *)
(* network between them carries an Interest in 0..MaxDelay or loses it, and *)
(* keeps a subscription for the Interest's lifetime from when it arrives.   *)
(***************************************************************************)
EXTENDS EventQueue

CONSTANTS
  Consumer,       \* the consumers of one producer's prefix
  Refresh,        \* PIRefreshInterval
  Lifetime,       \* LifeTime of the consumers' Interests
  ProbeInterval,  \* 1 / ProbeFrequency, 0 for a frequency of 0
  Period,         \* 1 / Frequency of the producer
  Tolerated       \* how many renewals in a row may be lost

(* 2 s or 1.5 s renewals of 5 s Interests in the scenarios: one lost        *)
(* renewal is covered.                                                      *)
ASSUME PushAssumption ==
  /\ Refresh \in Nat \ {0}
  /\ Lifetime \in Nat
  /\ ProbeInterval \in Nat
  /\ Period \in Nat \ {0}
  /\ Tolerated \in Nat
  /\ (Tolerated + 1) * Refresh + MaxDelay < Lifetime

VARIABLES
  phase,       \* consumer |-> "new", "active" (m_active) or "stopped"
  firstTime,   \* m_firstTime
  renewals,    \* the pending events of SendPacket
  probes,      \* the pending events of SendProbe
  sendEvent,   \* which of the two m_sendEvent refers to
  flight,      \* the times left to the Interests under way
  missed,      \* Interests lost since one last arrived; too many before the first
  subscribed,  \* the time left to the subscription in the network
  producing,   \* m_producing
  production   \* the pending events of the producer's SendPacket

consumerVars == <<phase, firstTime, renewals, probes, sendEvent, flight, missed, subscribed>>
producerVars == <<producing, production>>
pushVars == <<consumerVars, producerVars>>

PushInit ==
  /\ phase = [c \in Consumer |-> "new"]
  /\ firstTime = [c \in Consumer |-> TRUE]
  /\ renewals = [c \in Consumer |-> NoEvent]
  /\ probes = [c \in Consumer |-> NoEvent]
  /\ sendEvent = [c \in Consumer |-> "none"]
  /\ flight = [c \in Consumer |-> {}]
  /\ missed = [c \in Consumer |-> Tolerated + 1]
  /\ subscribed = [c \in Consumer |-> 0]
  /\ producing = FALSE
  /\ production = NoEvent

-----------------------------------------------------------------------------
(* ScheduleNextPacket and ScheduleNextProbe overwrite the same m_sendEvent. *)
\* Mutant: as in the base class, nothing is scheduled while m_sendEvent runs.
UnlessRunning(c, q) ==
  IF sendEvent[c] = "probe" /\ probes[c] # << >> THEN q ELSE Schedule(q, Refresh)
ScheduleNextPacket(c, q) == Schedule(q, Refresh)
ScheduleNextProbe(q) == IF ProbeInterval = 0 THEN q ELSE Schedule(q, ProbeInterval)

(* Consumer::StartApplication of ndnSIM: the first Interest goes out a      *)
(* refresh interval later.                                                  *)
StartConsumer(c) ==
  /\ phase[c] = "new"
  /\ phase' = [phase EXCEPT ![c] = "active"]
  /\ renewals' = [renewals EXCEPT ![c] = ScheduleNextPacket(c, @)]
  /\ sendEvent' = [sendEvent EXCEPT ![c] = "renewal"]
  /\ UNCHANGED <<firstTime, probes, flight, missed, subscribed, producerVars>>

(* SendPacket: the first Interest brings the first probe with it.           *)
SendPacket(c) ==
  /\ Due(renewals[c])
  /\ phase[c] = "active"
  /\ probes' = [probes EXCEPT ![c] = IF firstTime[c] THEN ScheduleNextProbe(@) ELSE @]
  /\ firstTime' = [firstTime EXCEPT ![c] = FALSE]
  /\ \/ /\ \E d \in 0..MaxDelay : flight' = [flight EXCEPT ![c] = @ \cup {d}]
        /\ UNCHANGED missed
     \/ /\ missed' = [missed EXCEPT ![c] = IF @ > Tolerated THEN @ ELSE @ + 1]
        /\ UNCHANGED flight
  /\ renewals' = [renewals EXCEPT ![c] = ScheduleNextPacket(c, Run(@))]
  /\ sendEvent' = [sendEvent EXCEPT ![c] = "renewal"]
  /\ UNCHANGED <<phase, subscribed, producerVars>>

(* SendProbe: the probe itself and its Data change nothing here.            *)
SendProbe(c) ==
  /\ Due(probes[c])
  /\ phase[c] = "active"
  /\ probes' = [probes EXCEPT ![c] = ScheduleNextProbe(Run(@))]
  /\ sendEvent' = [sendEvent EXCEPT ![c] = "probe"]
  /\ UNCHANGED <<phase, firstTime, renewals, flight, missed, subscribed, producerVars>>

(* Consumer::StopApplication of ndnSIM cancels m_sendEvent; the other event *)
(* still runs, and finds m_active unset.                                    *)
StopConsumer(c) ==
  /\ phase[c] = "active"
  /\ phase' = [phase EXCEPT ![c] = "stopped"]
  /\ renewals' = [renewals EXCEPT ![c] = IF sendEvent[c] = "renewal" THEN CancelLast(@) ELSE @]
  /\ probes' = [probes EXCEPT ![c] = IF sendEvent[c] = "probe" THEN CancelLast(@) ELSE @]
  /\ UNCHANGED <<firstTime, sendEvent, flight, missed, subscribed, producerVars>>

LateEvent(c) ==
  /\ phase[c] = "stopped"
  /\ \/ Due(renewals[c]) /\ renewals' = [renewals EXCEPT ![c] = Run(@)] /\ UNCHANGED probes
     \/ Due(probes[c]) /\ probes' = [probes EXCEPT ![c] = Run(@)] /\ UNCHANGED renewals
  /\ UNCHANGED <<phase, firstTime, sendEvent, flight, missed, subscribed, producerVars>>

-----------------------------------------------------------------------------
(* PushProducer::OnInterest: the first Interest of any consumer starts the  *)
(* stream.                                                                  *)
\* Mutant: every Interest starts a stream of its own.
StartAlways == Schedule(production, Period)
OnInterest == IF producing THEN production ELSE Schedule(production, Period)

InterestArrives(c) ==
  /\ 0 \in flight[c]
  /\ flight' = [flight EXCEPT ![c] = @ \ {0}]
  /\ missed' = [missed EXCEPT ![c] = 0]
  /\ subscribed' = [subscribed EXCEPT ![c] = Lifetime]
  /\ production' = OnInterest
  /\ producing' = TRUE
  /\ UNCHANGED <<phase, firstTime, renewals, probes, sendEvent>>

(* PushProducer::SendPacket: the event is kept nowhere and m_active is not  *)
(* asked, so nothing ever ends the stream.                                  *)
ProducerSendPacket ==
  /\ Due(production)
  /\ production' = Schedule(Run(production), Period)
  /\ UNCHANGED <<consumerVars, producing>>

(* The clock passes when nothing is due.                                    *)
PushTick ==
  /\ \A c \in Consumer : Waiting(renewals[c]) /\ Waiting(probes[c]) /\ 0 \notin flight[c]
  /\ Waiting(production)
  /\ renewals' = [c \in Consumer |-> Passed(renewals[c])]
  /\ probes' = [c \in Consumer |-> Passed(probes[c])]
  /\ flight' = [c \in Consumer |-> {d - 1 : d \in flight[c]}]
  /\ subscribed' = [c \in Consumer |-> IF subscribed[c] > 0 THEN subscribed[c] - 1 ELSE 0]
  /\ production' = Passed(production)
  /\ UNCHANGED <<phase, firstTime, sendEvent, missed, producing>>

PushEvent ==
  \/ \E c \in Consumer : SendPacket(c) \/ SendProbe(c) \/ LateEvent(c) \/ InterestArrives(c)
  \/ ProducerSendPacket

PushNext ==
  \/ \E c \in Consumer : StartConsumer(c) \/ StopConsumer(c)
  \/ PushEvent
  \/ PushTick

-----------------------------------------------------------------------------
PushTypeOK ==
  /\ phase \in [Consumer -> {"new", "active", "stopped"}]
  /\ firstTime \in [Consumer -> BOOLEAN]
  /\ sendEvent \in [Consumer -> {"none", "renewal", "probe"}]
  /\ flight \in [Consumer -> SUBSET (0..MaxDelay)]
  /\ missed \in [Consumer -> 0..Tolerated + 1]
  /\ subscribed \in [Consumer -> 0..Lifetime]
  /\ producing \in BOOLEAN

(* Of each consumer one renewal is pending from start to stop, and one      *)
(* probe from the first Interest on if it probes; after the stop none is    *)
(* scheduled.  The producer has one packet pending from the first Interest  *)
(* on, however many consumers ask and however often.                        *)
PushOneEventEach ==
  /\ \A c \in Consumer :
       /\ renewals[c] \in Queue(Refresh)
       /\ probes[c] \in Queue(ProbeInterval)
       /\ phase[c] = "new" => renewals[c] = << >> /\ probes[c] = << >>
       /\ phase[c] = "active" =>
            /\ renewals[c] # << >>
            /\ probes[c] # << >> <=> ~firstTime[c] /\ ProbeInterval > 0
  /\ production \in Queue(Period)
  /\ production # << >> <=> producing

(* A subscription does not lapse while its consumer is active and no more   *)
(* than Tolerated of its Interests in a row are lost.                       *)
SubscriptionSurvives ==
  \A c \in Consumer : phase[c] = "active" /\ missed[c] <= Tolerated => subscribed[c] > 0
===============================================================================
