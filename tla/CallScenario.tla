------------------------------ MODULE CallScenario ------------------------------
(***************************************************************************)
(* A call of the scenarios: the approach of the command line decides which  *)
(* applications are installed on the two ends.  "client" is the VoipClient, *)
(* which is on both ends at once and which no scenario installs at this     *)
(* commit.                                                                  *)
(***************************************************************************)
EXTENDS Scenarios, PushCall, VoipCall, PrerequestCall

VARIABLE approach

vars == <<approach, pushVars, voipVars, pullVars>>

Approach == ApproachOption \cup {"client"}

(* LookaheadLiftime is set by the approach; an application that is not      *)
(* installed has no memory to leave uninitialised.                          *)
Init ==
  /\ approach \in Approach
  /\ PushInit /\ VoipInit /\ PullInit
  /\ approach = "prerequest" <=> lookahead > 0
  /\ approach # "client" => sending = [x \in Client |-> FALSE]

InPush(A) == approach = "push" /\ A /\ UNCHANGED <<approach, voipVars, pullVars>>
InPull(A) ==
  approach \in {"prerequest", "standard"} /\ A /\ UNCHANGED <<approach, pushVars, voipVars>>
InClient(A) == approach = "client" /\ A /\ UNCHANGED <<approach, pushVars, pullVars>>

Next == InPush(PushNext) \/ InPull(PullNext) \/ InClient(VoipNext)

Event == InPush(PushEvent) \/ InPull(PullEvent) \/ InClient(VoipEvent)
Tick == InPush(PushTick) \/ InPull(PullTick) \/ InClient(VoipTick)

(* Simulator::Run runs what is due and then moves the clock; no application *)
(* is bound to start or to stop.                                            *)
Fairness == WF_vars(Event) /\ WF_vars(Tick)

Spec == Init /\ [][Next]_vars /\ Fairness

-----------------------------------------------------------------------------
(* Type invariant of the applications' state; the numbers asked for are the *)
(* ones counted, and only those have a mark in the burst log.               *)
TypeOK ==
  /\ approach \in Approach
  /\ PushTypeOK /\ VoipTypeOK
  /\ lookahead \in Lookaheads
  /\ caller \in {"new", "active", "stopped"}
  /\ seq \in 0..MaxSeq
  /\ \A p \in requests \cup voice : p.seq < seq /\ p.delay \in 0..MaxDelay /\ p.time <= lookahead
  /\ pending \in [Number -> 0..PullLifetime + lookahead]
  /\ lmap \in [Number -> BOOLEAN]
  /\ networkLost \subseteq 0..seq - 1
  /\ \A n \in Number : lmap[n] \/ pending[n] > 0 => n < seq

(* Every periodic duty of an application has one event pending while it     *)
(* lasts, however its Interests, probes, partners and stops interleave:     *)
(* none is scheduled twice and none is lost.  What VoIPProducer's           *)
(* destructor would cancel is every answer it still holds.                  *)
OneEventEach ==
  /\ PushOneEventEach
  /\ VoipOneEventEach
  /\ sendTimer \in Queue(SendPeriod)
  /\ caller = "active" /\ seq < MaxSeq => sendTimer # << >>
  /\ caller # "active" => sendTimer = << >>
  /\ cleaning # << >> /\ cleaning \in Queue(CleanUp)
  /\ {a.seq : a \in answers} \subseteq pendingIds
  /\ \A a, b \in answers : a.seq = b.seq => a = b

(* The producer sends no packet of voice before it exists, and a number     *)
(* that the burst log counts as lost while the call lasts was lost in the   *)
(* network or is still under way or held, within the life of its PIT entry. *)
VoiceInTime ==
  /\ \A v \in voice : v.time <= 0
  /\ caller = "active" =>
       \A n \in Number : lmap[n] /\ n \notin networkLost =>
         /\ \E p \in requests \cup answers \cup voice : p.seq = n
         /\ pending[n] > 0

(* Whoever hangs up is forgotten for good: the subscription of a push       *)
(* consumer that stopped lapses, and a VoipClient drops a partner that      *)
(* stopped, unless it was given that partner before the start.              *)
HungUpIsForgotten ==
  /\ \A c \in Consumer : phase[c] = "stopped" ~> [](subscribed[c] = 0)
  /\ \A x, y \in Client :
       client[y] = "stopped" ~>
         [](client[x] # "active" \/ timeouts[x][y] \in {Unknown, NoExpiry})
===============================================================================
