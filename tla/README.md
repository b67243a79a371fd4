# BitvectorEvaluation: a verification project

The repository patches ndnSIM's NDN forwarder (NFD) with *Persistent
Interests* (PI): an Interest of type push stays in the Pending Interest Table
(PIT) for its lifetime and lets a stream of numbered Data through.  Because
Data no longer consumes the Interest, copies of it can circle; every PIT entry
of a PI therefore keeps a *bitvector* of the last numbers it let through.  This
directory models the system in TLA+, checks the models with TLC and proves the
main results with TLAPS.  Paths below are relative to `src/`.

## 1. Inventory

| component | state | operations | interacts with |
|---|---|---|---|
| Bitvector (`extern/NFD/table/bld.hpp`) | bits, length, highest number | `Add`, `Contains` | owned by a PIT entry |
| PIT entry (`extern/NFD/table/pit-entry.*`) | representative Interest, in- and out-records, two timers, bitvector | insert/update/delete records | pipelines, strategies, scheduler |
| Pipelines (`extern/NFD/fw/forwarder.cpp`, `algorithm.cpp`) | PIT, Content Store, dead nonce list | incoming and outgoing Interest, Data, Nack; reject, unsatisfied, finalize | faces, scheduler callbacks, strategy callbacks |
| LowestCostStrategy (`extensions/strategies/`) | per prefix: working path, tainted probes, paths to tear down, estimators of each face | `afterReceiveInterest`, `beforeSatisfyInterest`, `afterReceiveNack` | pipelines (`sendNack`, `sendInterest`), estimators |
| Estimators (`extern/NFD/fw/*estimat*`) | sent, satisfied and lost Interests in a window; byte counts; RTT | add/remove, periodic update | strategy, scheduler |
| Requirements, parameters (`strategy-requirements.cpp`, `parameterconfiguration.*`) | maps of limits and parameters | parse, set, get | strategy, PIT entry (bitvector length) |
| Packets (`extern/ndn-cxx/`) | message type, QCI, nonce, cached wire | setters, encode, decode | everything that sends |
| Push consumer, push producer (`extensions/apps/`) | `m_sendEvent`, `m_firstTime`, sequence number, `m_producing` | start, ask and renew, probe, stop; produce | application faces, simulator events |
| `VoipClient` (`voip-client.cpp`) | partners and their lifetimes, a chain of events each, `m_producing` | start, ask, register who asks, produce, stop | application faces, simulator events |
| `VoipClientPre`, `VoIPProducer` (`voip_client_pre.cc`, `voip_producer.cc`) | sequence number, burst log; pending events | ask ahead, hold, answer, purge, stop | application faces, simulator events |
| Links (`ndn-link-control-helper.cpp`, `networkgenerator.cc`) | error models, scheduled failures | fail, restore, introduce errors | network devices, simulator events |
| Network generation (`ndnbritehelper.cc`, `networkgenerator.cc`) | nodes by AS, leaf nodes, links, placed nodes | build, add connections, place nodes, export | set-up; its links are what fails |
| Scenarios (`scenarios/`) | -- | choose approach and times, install applications, call the generator, run | everything above |
| Tracers | counters | log | -- |

NFD runs in one thread on the simulator's scheduler, so a pipeline is one
atomic step; concurrency comes from packets under way, from timers and from
several nodes.  The hard behaviours: Data copies arriving by several paths and
out of order; renewals racing timers; a pipeline that returns in the middle of
its loop; entries re-created with an empty bitvector; a strategy that changes
paths while Data flows; Nacks that meet an entry that has changed since;
applications that keep several events in one variable and are stopped, asked
and left in any order; failures of one link that overlap.

Correctness, by component: the bitvector drops copies and only copies; a PIT
entry is deleted once, after everything in it is served or has expired, and is
deleted at all; a subscription lasts its lifetime; Data reaches every
subscriber, once; loops of Data and of Interests end; a strategy's measurements
count each probe once and its tear-down leaves one path; an application does
each thing once per period while it lasts, keeps what it subscribed to and
forgets who hung up; a generated link can be named by its nodes, and is down
and up as its failures say.  `PROJECT.json` lists the hazards behind these with
their lines.

## 2. Modules

| module | models | state |
|---|---|---|
| `BitmaskLoopDetection` | `bld.hpp`: `Add`, `Contains` as operators on a vector | -- |
| `DuplicateFilter` | one entry's use of its vector: Data in any order, re-creation | vector, history |
| `SequenceWindow` | abstract: marks on a window of sequence numbers | highest, marks |
| `Forwarder` | one node: all Interest, Data, Nack and timer pipelines over its PIT entries, multicast strategy | PIT, dead nonces, cache |
| `PushNetwork` | consumers, producer, nodes and links with one PI | records, vectors, wires |
| `LossEstimator` | one face's loss estimator: undecided probes, samples, refresh timer | `unknownMap`, `lossMap`, timer |
| `LowestCostStrategy` | one router's strategy for one prefix, with the Nack pipelines | working face, pending teardowns, own tainted probes, measured probes, records |
| `EventQueue` | the simulator's pending events of one method | -- |
| `PushCall` | push consumers with renewals and probes, and their producer | events, Interests under way, subscriptions |
| `VoipCall` | `VoipClient`s that are consumer and producer at once | partners' lifetimes, chains of Interests, streams |
| `PrerequestCall` | the pull caller and the VoIP producer that holds early requests | requests, held answers, voice, burst log |
| `Scenarios` | what each scenario installs, where, with which times | -- (constants) |
| `CallScenario` | a call: the approach chooses among the three | approach and the above |
| `BriteTopology` | from BRITE's graph to nodes, ASes and links | nodes, leaf nodes, links |
| `LinkControl` | failing links: scheduled events and error models | events, failures, error models |
| `NetworkGenerator` | the generator's calls in any order, exports, then the run | placed nodes, the call under way, the above |
| `MC*` | the instances TLC checks | -- |
| `*Proofs` | theorems | -- |

**Bitvector.**  A vector is the set of positions whose bit is 1 and the highest
number: `>>=` translates the set.  `Unsigned` keeps the 64-bit wrap of
`highest - size + 1` (bld.hpp:48); `Seqno` is the range of the 32-bit number
the forwarder reads (forwarder.cpp:369).  `Word` and `SeqMod` are constants, so
that TLC uses small ones and the proofs any.

**Forwarder.**  A PIT entry is a record; `Gone` is a name without one.  Each
pipeline is one action: `InterestLoop`, `InterestHit`, `InterestMiss` are the
three ends of `onIncomingInterest` and include the strategy's next hops, the
out-records and the rejection; `DataUnsolicited` and `DataMatched` the two of
`onIncomingData`; `ReceiveNack`, `InterestUnsatisfied`, `StragglerExpires` the
others.  Time is counted in ticks: records and timers hold the ticks left, and
`Tick` waits until every timer that is due has run, as the simulator does.  An
Interest's type is a member of `Kind`: `push`, `rpi` (a refresh, for which
`isPush()` is false) and `normal`.  All names of `Entry` are prefixes of one
Data stream, so `DataMatched` visits every entry present; a looping one ends
the loop wherever it comes in the name tree's order.

**PushNetwork.**  The records hold nonces only: the stretch of time modelled is
shorter than a lifetime (2 s renewals of 5 s Interests in the scenarios).
`IncomingInterest` and `IncomingData` are the pipelines of `Forwarder` on the
node's only entry; a link is a FIFO queue.  Nacks answer duplicate nonces and
the multicast strategy ignores them, so they are left out.  Every node has a
next hop it may use for every Interest it accepts, so none is rejected.  Nonces
are unique in the model; push-consumer.cpp:209 draws the time in milliseconds
plus a number below 1000, so that two consumers may draw the same one and one's
Interest be dropped for a copy of the other's until its next renewal.

**LossEstimator.**  The maps are functions; a time is written as its age, which
stops at `Window` because the code treats all ages beyond it alike.  The two
loops of `updateMeasurements` erase the element their iterator stands on, which
is undefined (loss-estimator-time-window.cpp:150-167); where the build survives
it, the iteration goes on somewhere or ends, so `Visited` lets one update handle
any non-empty part of what is due.  `insert` leaves a taken key alone: two
probes sent in one instant share a sample.  `unanswered` is a history variable
for the properties: what was sent when and not taken back within the lifetime.

**LowestCostStrategy.**  One action per kind of packet: a Persistent Interest,
an untainted probe (which may change the working face and be redirected), a
tainted one, push Data, probe Data, the two Nacks, and the expiry of a PIT
entry.  Each holds the pipeline and the strategy's callback, with the records
in the code's order, newest first.  Loss estimates are any of `Levels` whenever
they are read; round-trip times, bandwidth and entropy only weigh the draws and
are left out.  `asked` and `detoured` are history variables: the faces to which
this router has sent a Persistent Interest and no teardown since.  `asked` has
those that were the working face then; `detoured` the others, to which an
Interest goes that came from the working face itself
(lowest-cost-strategy.cpp:152-157).  It is the router's view: a teardown on its
way counts as done.  No Persistent Interest is answered from the Content Store,
which would leave an entry without out-records: push Data is not inserted
(forwarder.cpp:351), and probes are not named below the Persistent Interest
(push-consumer.cpp:252-260).  Names of probes are new, as consumers draw them.  A PI_TEARDOWN comes from a downstream, on which there
is normally no out-record, and `onIncomingNack` then writes through `end()`
(forwarder.cpp:516); the model follows the build in which that goes unnoticed.

**CallScenario.**  The approach on the command line decides which applications
are installed, so the three applications are modules with variables of their
own and `CallScenario` is their disjunction; `VoipClient`, which no scenario
installs at this commit, is the fourth choice, "client".  An application's
pending events are queues of remaining times, one queue per method, and what
`m_sendEvent` refers to is kept apart from them: `PushConsumer` stores the
events of renewals and probes in the same variable (push-consumer.cpp:136, 147),
so that a stop cancels one of them and the other still runs.  The network
between the ends brings a packet within `MaxDelay` ticks or loses it, and keeps
a subscription for the Interest's lifetime; what happens inside it is
`PushNetwork` and `Forwarder`.  In `VoipCall` any client may ask any it knows;
`m_producing` is what the memory held, since no constructor sets it
(voip-client.hpp:109).  In `PrerequestCall` a request names the time from which
its voice exists; the producer holds an early one until then
(voip_producer.cc:105-109) and purges the identifiers of events that ran every
`CleanUp` ticks.

**Scenarios.**  Constant-level: for each scenario the applications, their
nodes and prefixes, and the refresh interval, lifetime, probe frequency and
lookahead they get.  `Served` and `Covered` are facts about these values, proved
and not run: they connect what the scenarios configure to the assumptions
`PushAssumption` and `PullAssumption`.

**BriteTopology, LinkControl, NetworkGenerator.**  BRITE is external: a graph is
any member of `Graph` that meets `GraphAssumption`.  Random draws are
existentials over what they may return.  A call that adds links is one step
for the call and one per iteration of its loops; draws without replacement
(networkgenerator.cc:395-425) return any unconnected pair and none only when
there is none.  Links are installed in order, since the code finds a link by
looking for the first device that leads to the other node.  Of a link's
parameters the bandwidth is kept, which the exports and the choice of pairs
show; queue types and sizes decide nothing here.  `introduceError` draws a rate
for each device of each link.  A number of an AS above the count gives an empty
container (networkgenerator.cc:205-206, 232-233), one equal to it is read out of
bounds: `Container` has the first, and the guard of `randomlyPlaceNodes` leaves
out the second, which no scenario asks for.  A failure puts two
events into the simulator's queue, ordered by time and then by the order they
were scheduled in; `RunEvent` takes the earliest.  `Rate` is the error rate of a
device, in percent; 100 stands for a link that is down.

Operators introduced as `Mutant` change a definition as a slip of the code
would; nothing uses them.  With one in place of the definition, TLC finds the
property it is paired with in `PROJECT.json` violated.

## 3. Runs

| run | instance | question |
|---|---|---|
| `duplicate_filter` | 3 bits, 7 numbers | what do the bits of an entry mean, whatever arrives? |
| `forwarder` | 2 faces, 1 name, 2 nonces, lifetimes 1..2 | do timers and records keep every subscription and nothing else? |
| `forwarder_shared` | 2 faces, 2 names, 1 nonce, lifetime 1 | does Data that several entries match serve them all? |
| `forwarder_timers` (violated) | 2 faces, 1 name | has every entry a timer? |
| `network` | ring of 3 routers and a root, 2 consumers, 3 numbers, 2 bits | is each number delivered, once, and do its copies end? |
| `network_late` (violated) | the same | do copies of every number end? |
| `network_interests` | the ring, 1 consumer asking twice, lossy links | do copies of every Interest end? |
| `loss_estimator` | 2 probes, lifetime 2, window 5, refresh every tick | does the estimator count each probe's fate, once? |
| `strategy` | 3 next hops, 1 PI, 1 probe, each from below and from a next hop, losses 0, 10, 100 | are old working faces torn down and redirected probes accounted for? |
| `strategy_names` (violated) | the same, 2 PIs, one of them also from a next hop | is at least one PI of the prefix torn down wherever it was left? |
| `topology` | 2 ASes of 2 nodes or 1 of 3, at most 3 calls, run of 2 ticks | can links be added, named, exported and failed as asked? |
| `applications` | 2 push consumers, 2 `VoipClient`s of which one knows the other, a pull caller with 3 numbers; delay up to 1 | does each application do each thing once, in time, and stop? |

What they show:

- `duplicate_filter`: `BitsMatchHistory` relates every bit to the arrivals,
  `InOrderCopyIsDropped` and `FreshDropNeedsLatePredecessor` say what the entry
  promises for Data in order, `ImplementsWindow` that the vector refines
  `SequenceWindow`.  Seven numbers with three bits make a number fall in the
  window, at its edge, just out of it and far out of it.
- `forwarder`: two faces are enough for a pending face, an arrival face and a
  next hop to differ or coincide, two lifetimes for a renewal to shorten or
  lengthen, two nonces for a duplicate and a fresh one.  `forwarder_shared`
  gives up lifetimes and nonces for a second name.
- `PendingInterestNotLost` and `RecordedDataIsSent` hold *except* when another
  matching entry takes the Data for a loop (`CutShort`): forwarder.cpp:373
  returns from the pipeline, and the faces of entries visited before get
  nothing.  The exemption is that flaw, so these two properties are about
  everything else a pipeline over several entries may do wrong.
- `PersistentInterestPersists` speaks of entries that a push Interest made.  An
  entry made by a refresh (`isPush()` is false, forwarder.cpp:394) or by a plain
  Interest treats Persistent Interests that join it as one-shot, and one that
  is answered from the cache (255) leaves no in-record: the model does as the
  code does, no doc promises more, and the property is silent about both.
- `forwarder_timers`: a PI has no timer after its first Data
  (forwarder.cpp:380, 407-410) against pit-entry.hpp:237.
- `network`: the smallest graph on which Data can circle with a root and two
  consumers on the cycle; `SettledDataLoopsEnd` and `NoDuplicateDelivered` leave
  out the numbers before the window has filled, which the detection does not
  cover.  `Overlap = FALSE` keeps Interests of one origin under way at a time
  and new Data apart from them; `Stop` and `MaxAsks` bound the traffic.
- `network_late`: with subscriptions that change while Data is under way the
  detection does not stop every loop: a late number marks its successor's bit
  (bld.hpp:30 against 56-57), at every router of the ring.
- `network_interests`: `Overlap = TRUE` and lossy links, two Interests of one
  consumer.

- `loss_estimator`: two probes can share an instant, be sent elsewhere, answered
  late or twice, or withdrawn; a window longer than two lifetimes shows samples
  settled, standing and leaving.
- `strategy`: three next hops let the working face change twice before Data
  comes, and one of them asks for the Interest and for the probe itself, as a
  downstream neighbour that `CalculateAllPossibleRoutes` made a next hop does;
  the losses are equal, below or not below 90 % of each other.  `OldFaceTornDown`
  is about the faces that were the working one and needs pending faces of
  several changes; `TaintedProbeCounts` and `RedirectedProbeReturns` relate the
  strategy's sets to entries that expire, are answered or nacked in between.
- `MeasuredWhereSent` allows what the code does when a probe's selected face is
  the one it came from: it is counted there and sent elsewhere
  (lowest-cost-strategy.cpp:147, 153).  It says that no third face is blamed,
  and would not catch that flaw.
- `strategy_names`: two flaws meet in one trace.  `pendingTeardowns` is kept for
  the prefix and cleared after the teardown of one name
  (lowest-cost-strategy.cpp:386-400), so that the old working face of the other
  name is forgotten.  And an Interest that comes from the working face is sent to
  the next hop after it (152-157), which enters neither `currentWorkingFaceId` nor
  `pendingTeardowns`: no later change of the working face tears it down.
  `SomeInterestTornDown` claims of only one Interest of the prefix that no face
  it runs on is forgotten; one name would fail by the first flaw or the second
  alone, and two need both.
- `topology`: two ASes with two nodes each are the smallest on which all three
  calls add links, run out of room and refuse; the single AS is the graph BRITE
  numbers -1.  `NoParallelLinks` is what every lookup of a link by its nodes
  relies on, `CallDelivers` that a search without replacement gives up only when
  there is no pair left.  `ExportIsTopology` compares the files with the links;
  of the face ids it claims only that two lines of a first node give different
  ones: the second node's is its position on the channel
  (networkgenerator.cc:536), not the `n2_faceId` the header line (521) promises.
  Three calls let two failures come on one link, equal, nested, touching,
  overlapping or apart; `LoneFailureLasts` is confined to failures that meet no
  other, because of two that overlap the first `UpLink` restores the link.
  After a failure the link is without any error, and not back at the rate
  `introduceError` gave it: `UpLink` sets the rate to 0
  (ndn-link-control-helper.cpp:113-116).  The random failures of
  a PIPS scenario come two at a time.  `CHECK_DEADLOCK FALSE`: a
  simulation ends.
- `applications`: `OneEventEach` says that events neither double nor get lost,
  however starts, stops, first Interests, re-registrations and purges
  interleave; an identifier that `VoIPProducer` purged while its event was
  pending would run on a destroyed object.  `SubscriptionSurvives` adds up
  refresh interval, delay and lost Interests against the lifetime: with
  `Tolerated` = 1 the interval is a third of the lifetime, near the 1.5 s
  or 2 s renewals of 5 s Interests in the scenarios.  `VoiceInTime` is about the request that runs
  a lookahead ahead of the voice: the PIT entry must wait for it
  (voip_client_pre.cc:115).  One client knows the other and not conversely, so
  that one partner has no expiry and the other is registered by asking.

`WindowClear` in `PushNetwork` states what a bitvector's length is chosen for:
when a number is sent, no copy of a number it pushes out of the window is
still under way.  Without it old copies pass unrecorded by design
(bld.hpp:27-29).  It is a guard on sending, so `SettledDataLoopsEnd` is silent on
a bitvector too short for its network.

**Fairness.**  `Forwarder`: weak fairness of the clock and of each timer that is
due; the simulator runs every scheduled event.  `TimedEntryReclaimed` assumes
only that neighbours fall silent.  `PushNetwork`: each link delivers what it
holds; consumers and producer need do nothing.  `LossEstimator`: weak fairness
of the clock and of the refresh timer; a non-empty pass of each loop is all
`EveryProbeDecided` needs of the broken iteration.  `CallScenario`: weak fairness
of what is due and of the clock, since `Simulator::Run` runs what is due and
then moves the clock; no application is bound to start, to stop, or to have its
packets arrive.  `HungUpIsForgotten` needs no more.

## 4. Proofs

`DuplicateFilterProofs` (for every length and number range): the inductive
invariant `IInv` adds to the types `BitsMatchHistory` and `HighestIsReceived`.
The bits alone do not determine what passed, and the history alone not where
the shifts have put the bits: the invariant needs both and that nothing
recorded lies above the highest number, so that a shift by the distance of two
numbers loses only numbers that leave the window.  From it follow the three
invariants of the run, and `ImplementsWindow` step by step: `AcceptData` ahead
of the stream is `LetAhead`, a late one `LetLate`, re-creation `StartOver`.

`ForwarderProofs` (for every set of faces, names, nonces, lifetimes and every
bitvector length): each pipeline is a function of the entries it visits, and
`Sound` is a predicate on one entry that each maps to itself.  It says, beside
the types, that a running unsatisfy timer covers every in-record
(`UnsatCovers`), that an entry waiting to be deleted as satisfied has no
in-record (`StragglerServed`), that at most one timer is set, and that an entry
without one is persistent and has seen Data.  `UnsatCovers` and
`StragglerServed` are what the invariants leave implicit and the action
properties need.  `StepOnEntry` classifies what any step does to an entry that
is there (kept, renewed, given Data, aged, erased); the four action properties
of the runs follow from it.

`LossEstimatorProofs` (for every set of probes, lifetime, window and refresh
period): `IInv` adds to the types and `NoProbeForgotten` that an undecided probe
is unanswered (`PendingUnanswered`), so that what expires is a loss, and that a
loss is of a decided probe and older than the lifetime (`LossSettled`), so that
no late answer or Nack can take away the probe it stands for.

`LowestCostStrategyProofs`: `OldFaceTornDown` for every list of next hops and
whoever asks, under one hypothesis of the theorem, `OneName`: there is one
Persistent Interest under the prefix.  With two, and for the faces in
`detoured`, the run `strategy_names` shows what is forgotten.  The invariant adds that the working face and the pending ones are next hops, so
that a teardown goes to the face it is meant for and not, by `getFaceViaId`, to
the first.  `TeardownHasUpstream` needs no hypothesis: only push Data and the
entry's expiry meet a Persistent Interest's out-records, and the first leaves
them.  `MeasuredWhereSent` is proved step by step from the facts that the working
face is a next hop and that a probe's entry is new: a redirected probe is never
redirected to its own face, so that only an unredirected one can be counted on
the face it came from.  `TypeCorrect`, `TaintedProbeCounts` and
`RedirectedProbeReturns` follow from `StrategyInv`: the records of an entry are
sound and there is one for each face, so that deleting the first that matches
deletes all; a probe has at most one out-record; and while a probe is among the
router's own tainted ones, that out-record is tainted and an in-record stands
beside it.  The last part is the one that the Nack which redirects a probe could
break: it deletes the in-record the probe came by, and the invariant says that
there is another to return by.

`PushNetworkProofs` (for any graph, FIB, set of consumers and length of the
bitvector): the inductive invariant has four parts.  The types (`NetTypes`) hold
in lossy networks too.  `SubscriptionInv` says what records and nonces there
are: they only come, and lead on to a node with records or to an application.
`HeardInv` says where the Interests of each consumer have been; renewals
overwrite nonces, so that the records of a state do not tell, and the invariant
is that there *is* a set of nodes for each consumer, closed under what the
records and links show.  `DataInv` follows the numbers sent since the
subscriptions settled: who sends one has seen it (`Ahead`), whom it was sent to
has it or has it coming (`Spread`), on a wire they stand in order (`InOrder`), a
bitvector still recalls those it has not shifted out (`Recalling`), and each
consumer was handed what its node has seen, once (`Handed`).
`NoDuplicateDelivered` needs links that lose nothing, a bitvector longer than one
bit and no consumer at the producer's node, `SubscribersServed` also that the FIB leads from each consumer
to the producer; `ServableNetwork` evaluates these hypotheses for the instance
the runs check.  The lemmas on `Add` and `Contains` (`AddTyped`,
`ContainsWindow`, `AddRecalls`, `ContainsRecent`) are in
`BitmaskLoopDetectionProofs`: a number that was added and is less than a window
behind the newest is recalled, however many came late between.

`NetworkGeneratorProofs` (for every BRITE graph, set of calls and times):
`NetInv` has the types, that the ASes and the placed nodes are all the nodes
there are (`Containers`), that links join two nodes and no two links the same
(`LinksOK`), and that events and error models belong to links (`EventsOK`,
`ErrorsOK`); from it `TopologyTypes` and `NoPairTwice`, for which the choice of
an unconnected pair and the freshness of a placed node are what counts.
`FailInv` adds what the two theorems on failures need: an event of each
failure is pending exactly until it has run, in order (`Pending`, `InOrder`),
and a link is untouched or as the last event of its failures left it
(`Status`).  `LoneFailures` and `LinksFollow` hold for any number of failures at
any times.
`CallInv` is for `CallDelivers`: of each pair of ASes a call is about, the first
iterations are done and as many links were added, or as many as there was room
for (`PairServed`).  That a search which finds no pair has filled the room
(`RoomLeft`) is a matter of counting: the links between two ASes map injectively
to the pairs of their nodes, onto them when none is unconnected, and those are
the product of the ASes' sizes or half the square of one (`HalfTheSquare`).
`PlacedApart` is for `ExportIsTopology`: no node is in two containers, so that
the list an export walks has each node once (`Enumerates`), and its lines are in
bijection with the links (`LinesAreLinks`); a device's index among those of its
node grows with the link (`IndexGrows`), so that two lines of a first node give
different faces (`FacesDiffer`).

`CallScenarioProofs` (for every set of consumers and clients, all intervals and
delays): `CallInv` is the conjunction of `PushInv`,
`VoipInv` and `PullInv`.  `PushInv` bounds the subscription by the next renewal
and by the Interests that were lost or are under way: without the time to the
next renewal a subscription that lasts cannot be told from one about to lapse.
`VoipInv` relates chains to partners.  `PullInv` bounds the life left to a PIT
entry below by the time the voice needs on each leg of its way, request, wait
and return.  From it follow `TypesHold`, `EventsHold`, `SubscriptionsHold` and
`VoiceHolds`.  `ScenariosFit` states `Served` and `Covered` of `Scenarios`.

Assumptions: `SizesAssumption` (the bitvector has a positive length and the
64-bit word is wider than the numbers and the length) and
`ForwarderAssumption` (finitely many faces, positive nonces and lifetimes), `LossAssumption` (the
window is longer than the lifetime, as the constructor demands) and
`StrategyAssumption` (next hops are faces, at least one; probes are no
Persistent Interests), `NetworkAssumption` (links go both ways), `GraphAssumption` (BRITE numbers its nodes AS by AS and
draws no edge twice), `TimeAssumption` and `CallsAssumption` (ranges of the
parameters),
`DelayAssumption`, `CallAssumption` (no client knows itself before the start),
`PushAssumption` (the renewals tolerated to be lost and the delay fit into the
lifetime) and `PullAssumption` (the way to the producer and back is shorter than
the lifetime).

Only model-checked: the liveness properties `TimedEntryReclaimed`,
`SettledDataLoopsEnd`, `InterestLoopsEnd`, `EveryProbeDecided` and
`HungUpIsForgotten`, which need fairness and `ENABLED` and are out of the
prover's reach.  Every invariant and every action property of the runs that must
pass is stated by a theorem, `OldFaceTornDown`, `NoDuplicateDelivered` and
`SubscribersServed` under the hypotheses named above.

## 5. Not modelled

- Scope control (`/localhost`, `/localhop`), multi-access faces, the
  NextHopFaceId tag, selectors, malformed packets: the scenarios produce none.
- `ReceiveNack` of `Forwarder` has no `PI_TEARDOWN`: only LowestCostStrategy
  causes it.
- The strategy's round-trip times, bandwidth, entropy and per-prefix
  parameters; the growth of `myTaintedProbes` when Data is lost.
- A network of routers with the strategy: whether a teardown is ever sent when
  the old path stays ahead of the new one.
- Applications: the intervals `SetRandomize` draws (no scenario asks for them),
  sizes and contents of packets, `ProbeDataProducer`, which answers each
  Interest and keeps no state, `fixedjitterbuffer`, which no scenario uses.
  `voip-client.cpp:193` appends a partner to a vector at each of its Interests
  and never looks for it there: the model keeps the set.
- Network generation: `calculateConnectivity`, a statistic;
  `getNumberOfNodesInAS`, whose guard is inverted (networkgenerator.cc:183) and
  which no one calls; the overload that spreads nodes over MPI systems; seeds
  and files.  With no link errors at all a PIPS scenario divides by zero
  (PIPS-scenario.cpp:258): `Outages` excludes it.
- Packets: the TLV encoding of message type and QCI.  What a packet is on the
  wire decides nothing the models tell apart; the QCI is read by queues outside
  this repository only.  Setters of a Data's message type may leave an encoded
  wire in place (data.cpp:312).
- Strategy requirements and parameters: a text parser and a map of defaults,
  read once at start-up.  Its flag for a known key is not reset after an unknown
  one (strategy-requirements.cpp:85).
- Retransmission suppression: unchanged NFD code that no strategy here calls.
- Bandwidth and RTT estimators: sums and a smoothed average that no decision
  depends on; `rttTimeMap` is purged after a second while Data may come for two
  (lowest-cost-strategy.cpp:438).
- Tracers: counters written to log files.  Of the scenarios the command line,
  the traffic classes and `nack-test`.

## 6. Plan

1. `BitmaskLoopDetection`, `DuplicateFilter`, `SequenceWindow`, proofs -- done.
2. `Forwarder`, proofs -- done.
3. `PushNetwork`, proofs -- done.
4. `LossEstimator`, proofs -- done.
5. `LowestCostStrategy`, proofs -- done.
6. Applications and scenarios: `PushCall`, `VoipCall`, `PrerequestCall`,
   `CallScenario`, proofs -- done.
7. Topologies and link failures: `BriteTopology`, `LinkControl`,
   `NetworkGenerator`, proofs -- done.
8. Left: a network of routers with the strategy, and whether a teardown is
   ever sent on it.
