----------------------------- MODULE PrerequestCall -----------------------------
(***************************************************************************)
(* The pull applications of a call: VoipClientPre, a ConsumerCbrNoRtx that  *)
(* asks for each packet of voice with the time from which it exists in the  *)
(* name, and VoIPProducer, which holds an early Interest until that time.   *)
(* The "prerequest" approach of the scenarios asks a lookahead ahead, the   *)
(* "standard" one asks for what exists already (lookahead 0).               *)
(***************************************************************************)
EXTENDS EventQueue

CONSTANTS
  Lookaheads,   \* the values of LookaheadLiftime
  SendPeriod,   \* 1 / Frequency
  PullLifetime, \* LifeTime, without the lookahead
  MaxSeq,       \* m_seqMax: where the consumer is totally done
  CleanUp       \* the second of removeExpiredEvents

(* A second of LifeTime is longer than the way to the producer and back.    *)
ASSUME PullAssumption ==
  /\ Lookaheads \subseteq Nat
  /\ SendPeriod \in Nat \ {0}
  /\ MaxSeq \in Nat \ {0}
  /\ CleanUp \in Nat \ {0}
  /\ PullLifetime \in Nat
  /\ 2 * MaxDelay < PullLifetime

VARIABLES
  lookahead,   \* lookahead_lifetime
  caller,      \* "new", "active" (m_active) or "stopped"
  seq,         \* m_seq
  sendTimer,   \* the pending events of the consumer's SendPacket
  requests,    \* Interests under way: [seq, time until it exists, delay]
  answers,     \* pending events of Producer::OnInterest: [seq, time]
  pendingIds,  \* pending_events, by the number the event answers
  cleaning,    \* removePendingEvent
  voice,       \* Data under way: [seq, time until it exists, delay]
  pending,     \* seq |-> time left to the PIT entry at the consumer's node
  lmap,        \* seq |-> marked lost in the burst log
  networkLost  \* the numbers whose Interest or Data the network lost

pullVars == <<lookahead, caller, seq, sendTimer, requests, answers, pendingIds, cleaning,
              voice, pending, lmap, networkLost>>

Number == 0..MaxSeq - 1

PullInit ==
  /\ lookahead \in Lookaheads
  /\ caller = "new"
  /\ seq = 0
  /\ sendTimer = NoEvent
  /\ requests = {} /\ answers = {} /\ voice = {}
  /\ pendingIds = {}
  /\ cleaning = <<CleanUp>>
  /\ pending = [n \in Number |-> 0]
  /\ lmap = [n \in Number |-> FALSE]
  /\ networkLost = {}

-----------------------------------------------------------------------------
(* ConsumerCbrNoRtx::StartApplication: m_firstTime sends at once.           *)
StartCaller ==
  /\ caller = "new"
  /\ caller' = "active"
  /\ sendTimer' = Schedule(sendTimer, 0)
  /\ UNCHANGED <<lookahead, seq, requests, answers, pendingIds, cleaning, voice, pending, lmap,
                 networkLost>>

(* ScheduleNextPacket later on: m_sendEvent is the event that runs now, so  *)
(* it is not running any more.                                              *)
ScheduleNextRequest(q) == IF Run(q) = << >> THEN Schedule(Run(q), SendPeriod) ELSE Run(q)

\* Mutant: the PIT entry lives as long as a usual Interest's.
WithoutLookahead == PullLifetime
InterestLifetime == PullLifetime + lookahead

(* VoipClientPre::SendPacket: lost until its Data comes.                    *)
\* Mutant: one number more.
DoneOneLater == seq > MaxSeq
TotallyDone == seq >= MaxSeq

RequestVoice ==
  /\ Due(sendTimer)
  /\ UNCHANGED <<lookahead, caller, answers, pendingIds, cleaning, voice>>
  /\ \/ /\ TotallyDone
        /\ sendTimer' = Run(sendTimer)
        /\ UNCHANGED <<seq, requests, pending, lmap, networkLost>>
     \/ /\ ~TotallyDone
        /\ seq' = seq + 1
        /\ lmap' = [lmap EXCEPT ![seq] = TRUE]
        /\ pending' = [pending EXCEPT ![seq] = InterestLifetime]
        /\ \/ /\ \E d \in 0..MaxDelay :
                   requests' = requests \cup {[seq |-> seq, time |-> lookahead, delay |-> d]}
              /\ UNCHANGED networkLost
           \/ /\ networkLost' = networkLost \cup {seq}
              /\ UNCHANGED requests
        /\ sendTimer' = ScheduleNextRequest(sendTimer)

(* StopApplication: the log is written, m_sendEvent cancelled and the face  *)
(* closed.                                                                  *)
StopCaller ==
  /\ caller = "active"
  /\ caller' = "stopped"
  /\ sendTimer' = NoEvent
  /\ UNCHANGED <<lookahead, seq, requests, answers, pendingIds, cleaning, voice, pending, lmap,
                 networkLost>>

-----------------------------------------------------------------------------
(* The Data of a number, sent while it is time away, or lost.               *)
Answer(n, time) ==
  \/ /\ \E d \in 0..MaxDelay : voice' = voice \cup {[seq |-> n, time |-> time, delay |-> d]}
     /\ UNCHANGED networkLost
  \/ /\ networkLost' = networkLost \cup {n}
     /\ UNCHANGED voice

\* Mutant: every Interest is answered when it comes, as by Producer.
NeverEarly(r) == FALSE
IsEarly(r) == r.time > 0

(* VoIPProducer::OnInterest.                                                *)
RequestArrives ==
  \E r \in requests :
    /\ r.delay = 0
    /\ requests' = requests \ {r}
    /\ \/ /\ IsEarly(r)
          /\ answers' = answers \cup {[seq |-> r.seq, time |-> r.time]}
          /\ pendingIds' = pendingIds \cup {r.seq}
          /\ UNCHANGED <<voice, networkLost>>
       \/ /\ ~IsEarly(r)
          /\ Answer(r.seq, r.time)
          /\ UNCHANGED <<answers, pendingIds>>
    /\ UNCHANGED <<lookahead, caller, seq, sendTimer, cleaning, pending, lmap>>

(* VoIPProducer::OnInterest again, for an Interest held: the event names the *)
(* base class's method, which is virtual.                                   *)
HeldAnswer ==
  \E a \in answers :
    /\ a.time = 0
    /\ answers' = answers \ {a}
    /\ Answer(a.seq, a.time)
    /\ UNCHANGED <<lookahead, caller, seq, sendTimer, requests, pendingIds, cleaning, pending, lmap>>

(* removeExpiredEvents: the identifiers of events that ran go.              *)
\* Mutant: it clears all of pending_events.
KeepsNone == {}
KeepsRunning == {n \in pendingIds : \E a \in answers : a.seq = n}

RemoveExpiredEvents ==
  /\ Due(cleaning)
  /\ pendingIds' = KeepsRunning
  /\ cleaning' = Schedule(Run(cleaning), CleanUp)
  /\ UNCHANGED <<lookahead, caller, seq, sendTimer, requests, answers, voice, pending, lmap,
                 networkLost>>

(* The node satisfies the PIT entry; VoipClientPre::OnData runs if the      *)
(* application still has its face.                                          *)
VoiceArrives ==
  \E v \in voice :
    /\ v.delay = 0
    /\ voice' = voice \ {v}
    /\ pending' = [pending EXCEPT ![v.seq] = 0]
    /\ lmap' = IF pending[v.seq] > 0 /\ caller = "active" THEN [lmap EXCEPT ![v.seq] = FALSE]
               ELSE lmap
    /\ UNCHANGED <<lookahead, caller, seq, sendTimer, requests, answers, pendingIds, cleaning,
                   networkLost>>

(* A time that lies further back than a delay is not told apart.            *)
Earlier(t) == IF t > -1 THEN t - 1 ELSE t

PullTick ==
  /\ Waiting(sendTimer) /\ Waiting(cleaning)
  /\ \A p \in requests \cup voice : p.delay > 0
  /\ \A a \in answers : a.time > 0
  /\ sendTimer' = Passed(sendTimer)
  /\ cleaning' = Passed(cleaning)
  /\ requests' = {[r EXCEPT !.time = Earlier(@), !.delay = @ - 1] : r \in requests}
  /\ voice' = {[v EXCEPT !.time = Earlier(@), !.delay = @ - 1] : v \in voice}
  /\ answers' = {[a EXCEPT !.time = @ - 1] : a \in answers}
  /\ pending' = [n \in Number |-> IF pending[n] > 0 THEN pending[n] - 1 ELSE 0]
  /\ UNCHANGED <<lookahead, caller, seq, pendingIds, lmap, networkLost>>

PullEvent ==
  RequestVoice \/ RequestArrives \/ HeldAnswer \/ RemoveExpiredEvents \/ VoiceArrives

PullNext == StartCaller \/ StopCaller \/ PullEvent \/ PullTick
===============================================================================
