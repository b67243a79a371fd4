-------------------------------- MODULE VoipCall --------------------------------
(***************************************************************************)
(* Calls between VoipClients (extensions/apps/voip-client.cpp), each of     *)
(* which is consumer and producer at once: it sends Persistent Interests to *)
(* its communication partners, registers whoever asks it as a partner for   *)
(* the lifetime of the Interest, and produces one stream once it was asked. *)
(***************************************************************************)
EXTENDS EventQueue

CONSTANTS
  Client,        \* the clients, each with a name (SetName)
  Callee,        \* Callee[x]: the partners x is given before it starts
  CallRefresh,   \* PIRefreshInterval
  CallLifetime,  \* LifeTime of the Interests
  DataPeriod     \* 1 / DataFrequency

ASSUME CallAssumption ==
  /\ Callee \in [Client -> SUBSET Client]
  /\ \A x \in Client : x \notin Callee[x]
  /\ CallRefresh \in Nat \ {0}
  /\ CallLifetime \in Nat \ {0}
  /\ DataPeriod \in Nat \ {0}

VARIABLES
  client,    \* client |-> "new", "active" (m_active) or "stopped"
  timeouts,  \* m_lifeTimes of x for y: the time left, NoExpiry or Unknown
  chain,     \* the pending events of x's SendInterest(y)
  calling,   \* the times left to x's Interests under way to y
  sending,   \* m_producing
  stream     \* the pending events of SendData

voipVars == <<client, timeouts, chain, calling, sending, stream>>

Expired == -1                    \* however long ago
NoExpiry == CallLifetime + 1     \* milliseconds(0) of AddCommunicationPartner
Unknown == CallLifetime + 2

(* m_communicationPartner may hold a name several times, but holds it       *)
(* exactly when m_lifeTimes does.                                           *)
Partners(x) == {y \in Client : timeouts[x][y] # Unknown}

(* No constructor sets m_producing: it is what the memory held.             *)
VoipInit ==
  /\ client = [x \in Client |-> "new"]
  /\ timeouts = [x \in Client |-> [y \in Client |-> IF y \in Callee[x] THEN NoExpiry ELSE Unknown]]
  /\ chain = [x \in Client |-> [y \in Client |-> NoEvent]]
  /\ calling = [x \in Client |-> [y \in Client |-> {}]]
  /\ sending \in [Client -> BOOLEAN]
  /\ stream = [x \in Client |-> NoEvent]

-----------------------------------------------------------------------------
(* What becomes of the Interests of x that SendInterest puts on the wire.   *)
Sent(x, to) ==
  \E arrive \in SUBSET to : \E delay \in [arrive -> 0..MaxDelay] :
    calling' = [calling EXCEPT ![x] =
                  [y \in Client |-> IF y \in arrive THEN @[y] \cup {delay[y]} ELSE @[y]]]

(* StartApplication and SendPacket: an Interest to every partner.           *)
StartClient(x) ==
  /\ client[x] = "new"
  /\ client' = [client EXCEPT ![x] = "active"]
  /\ Sent(x, Partners(x))
  /\ chain' = [chain EXCEPT ![x] =
                 [y \in Client |-> IF y \in Partners(x) THEN Schedule(@[y], CallRefresh) ELSE @[y]]]
  /\ UNCHANGED <<timeouts, sending, stream>>

(* StopApplication cancels no event.                                        *)
StopClient(x) ==
  /\ client[x] = "active"
  /\ client' = [client EXCEPT ![x] = "stopped"]
  /\ UNCHANGED <<timeouts, chain, calling, sending, stream>>

(* SendInterest run by the simulator: a client that stopped or does not     *)
(* know the partner any more lets the chain end, as one whose partner's     *)
(* time is over does after it has forgotten the partner.                    *)
\* Mutant: the time is never looked at.
NeverOver(t) == FALSE
IsOver(t) == t = Expired

SendInterest(x, y) ==
  /\ Due(chain[x][y])
  /\ UNCHANGED <<client, sending, stream>>
  /\ \/ /\ client[x] # "active" \/ y \notin Partners(x)
        /\ chain' = [chain EXCEPT ![x][y] = Run(@)]
        /\ UNCHANGED <<timeouts, calling>>
     \/ /\ client[x] = "active" /\ y \in Partners(x) /\ IsOver(timeouts[x][y])
        /\ timeouts' = [timeouts EXCEPT ![x][y] = Unknown]
        /\ chain' = [chain EXCEPT ![x][y] = Run(@)]
        /\ UNCHANGED calling
     \/ /\ client[x] = "active" /\ y \in Partners(x) /\ ~IsOver(timeouts[x][y])
        /\ Sent(x, {y})
        /\ chain' = [chain EXCEPT ![x][y] = Schedule(Run(@), CallRefresh)]
        /\ UNCHANGED timeouts

-----------------------------------------------------------------------------
(* OnInterest of y for an Interest of x: a partner with a time gets a new   *)
(* one, a stranger is registered and asked back, and the first Interest of  *)
(* anyone starts the stream (SendData and ScheduleNextData).                *)
\* Mutant: whoever asks is asked back, registered or not.
AlwaysNew(y, x) == TRUE
IsNew(y, x) == x \notin Partners(y)

ClientOnInterest(x, y) ==
  /\ 0 \in calling[x][y]
  /\ client[y] = "active"
  /\ timeouts' = [timeouts EXCEPT ![y][x] = IF @ = NoExpiry THEN @ ELSE CallLifetime]
  /\ sending' = [sending EXCEPT ![y] = TRUE]
  /\ stream' = [stream EXCEPT ![y] = IF sending[y] THEN @ ELSE Schedule(@, DataPeriod)]
  /\ LET rest == [calling EXCEPT ![x][y] = @ \ {0}] IN
       \/ /\ ~IsNew(y, x)
          /\ calling' = rest
          /\ UNCHANGED chain
       \/ /\ IsNew(y, x)
          /\ chain' = [chain EXCEPT ![y][x] = Schedule(@, CallRefresh)]
          /\ \/ calling' = rest
             \/ \E d \in 0..MaxDelay : calling' = [rest EXCEPT ![y][x] = @ \cup {d}]
  /\ UNCHANGED client

(* The application face exists from start to stop only.                     *)
InterestUnheard(x, y) ==
  /\ 0 \in calling[x][y]
  /\ client[y] # "active"
  /\ calling' = [calling EXCEPT ![x][y] = @ \ {0}]
  /\ UNCHANGED <<client, timeouts, chain, sending, stream>>

(* SendData does not ask m_active: the stream outlives the call.            *)
SendData(x) ==
  /\ Due(stream[x])
  /\ stream' = [stream EXCEPT ![x] = Schedule(Run(@), DataPeriod)]
  /\ UNCHANGED <<client, timeouts, chain, calling, sending>>

VoipTick ==
  /\ \A x, y \in Client : Waiting(chain[x][y]) /\ 0 \notin calling[x][y]
  /\ \A x \in Client : Waiting(stream[x])
  /\ timeouts' = [x \in Client |-> [y \in Client |->
       LET t == timeouts[x][y] IN IF t \in 0..CallLifetime THEN t - 1 ELSE t]]
  /\ chain' = [x \in Client |-> [y \in Client |-> Passed(chain[x][y])]]
  /\ calling' = [x \in Client |-> [y \in Client |-> {d - 1 : d \in calling[x][y]}]]
  /\ stream' = [x \in Client |-> Passed(stream[x])]
  /\ UNCHANGED <<client, sending>>

VoipEvent ==
  \/ \E x, y \in Client : SendInterest(x, y) \/ ClientOnInterest(x, y) \/ InterestUnheard(x, y)
  \/ \E x \in Client : SendData(x)

VoipNext ==
  \/ \E x \in Client : StartClient(x) \/ StopClient(x)
  \/ VoipEvent
  \/ VoipTick

-----------------------------------------------------------------------------
VoipTypeOK ==
  /\ client \in [Client -> {"new", "active", "stopped"}]
  /\ timeouts \in [Client -> [Client -> Expired..Unknown]]
  /\ calling \in [Client -> [Client -> SUBSET (0..MaxDelay)]]
  /\ sending \in [Client -> BOOLEAN]

(* A client that is active sends each of its partners one chain of          *)
(* Interests, and nobody else; after its stop what was pending runs out.    *)
(* However many clients ask it, it produces one stream of Data.             *)
VoipOneEventEach ==
  /\ \A x, y \in Client :
       /\ chain[x][y] \in Queue(CallRefresh)
       /\ client[x] = "new" => chain[x][y] = << >>
       /\ client[x] = "active" => (chain[x][y] # << >> <=> y \in Partners(x))
  /\ \A x \in Client : stream[x] \in Queue(DataPeriod) /\ (stream[x] # << >> => sending[x])
===============================================================================
