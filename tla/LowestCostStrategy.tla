---------------------------- MODULE LowestCostStrategy ----------------------------
(***************************************************************************)
(* The LowestCostStrategy of one router for one prefix                      *)
(* (extensions/strategies/lowest-cost-strategy.cpp), with the parts of the *)
(* forwarder's Nack and Interest pipelines it drives.  Probes measure the   *)
(* next hops; some are redirected ("tainted") to measure another one than   *)
(* the working face; when the working face changes, the Persistent          *)
(* Interests are torn down on the old one.                                  *)
(*                                                                         *)
(* A loss estimate is any of Levels whenever it is read: LossEstimator says *)
(* what it is.  Round-trip times, bandwidth and entropy decide nothing but  *)
(* which draw is more likely, and are left out.                             *)
(***************************************************************************)
EXTENDS Integers, Sequences, FiniteSets, SequencesExt

CONSTANTS
  Face,            \* the faces of the router
  NextHops,        \* the FIB entry's next hops, a sequence of faces
  NoFace,          \* the working face before the first Interest, face -1
  PI,              \* names of Persistent Interests under the prefix
  Probe,           \* names of probes under it
  Asks,            \* pairs <<name, face>>: which neighbour asks for what
  Levels,          \* loss estimates in percent
  TaintingEnabled  \* TAINTING_ENABLED

Name == PI \cup Probe
Hops == ToSet(NextHops)

ASSUME StrategyAssumption ==
  /\ NextHops \in Seq(Face)
  /\ NextHops # << >>
  /\ NoFace \notin Face
  /\ PI \cap Probe = {}
  /\ Asks \subseteq Name \X Face
  /\ Levels \subseteq 0..100
  /\ Levels # {}
  /\ TaintingEnabled \in BOOLEAN

VARIABLES
  working,   \* currentWorkingFaceId
  pending,   \* pendingTeardowns
  mine,      \* myTaintedProbes
  measured,  \* face |-> the probes its estimator has undecided (addSentInterest)
  entry,     \* name |-> the PIT entry's in-records and out-records, newest first
  asked,     \* PI |-> for checking, the working faces it was sent on and not torn down on since
  detoured   \* PI |-> for checking, the other faces: it came from the working face itself

vars == <<working, pending, mine, measured, entry, asked, detoured>>

NoEntry == [in |-> << >>, out |-> << >>]
OutRecord == [face : Face, tainted : BOOLEAN]

Init ==
  /\ working = NoFace
  /\ pending = {}
  /\ mine = {}
  /\ measured = [g \in Face |-> {}]
  /\ entry = [n \in Name |-> NoEntry]
  /\ asked = [p \in PI |-> {}]
  /\ detoured = [p \in PI |-> {}]

-----------------------------------------------------------------------------
(***************************************************************************)
(* In-records and out-records.                                             *)
(***************************************************************************)
OutFaces(e) == {e.out[i].face : i \in DOMAIN e.out}

\* Mutant: a record is inserted without looking for the face's.
insertInRecord(e, f) == [e EXCEPT !.in = <<f>> \o @]

insertOrUpdateInRecord(e, f) ==
  IF f \in ToSet(e.in) THEN e ELSE [e EXCEPT !.in = <<f>> \o @]

insertOrUpdateOutRecord(e, g, tainted) ==
  [e EXCEPT !.out = IF g \in OutFaces(e)
                    THEN [i \in DOMAIN @ |-> IF @[i].face = g THEN [face |-> g, tainted |-> tainted]
                                                              ELSE @[i]]
                    ELSE <<[face |-> g, tainted |-> tainted]>> \o @]

deleteInRecord(e, f)  == [e EXCEPT !.in = RemoveFirst(@, f)]
clearInRecords(e)     == [e EXCEPT !.in = << >>]
deleteOutRecord(e, g) == [e EXCEPT !.out = RemoveFirstMatch(@, LAMBDA r : r.face = g)]

\* Records outlive their expiry only as long as their entry, so that every one counts.
canForwardToLegacy(e, g, push) ==
  /\ g \in OutFaces(e) => push
  /\ \E h \in ToSet(e.in) : h # g

-----------------------------------------------------------------------------
(***************************************************************************)
(* The choice of the face.                                                 *)
(***************************************************************************)
getFaceIdViaBestRoute(e, push) ==
  LET fit == {i \in DOMAIN NextHops : canForwardToLegacy(e, NextHops[i], push)}
  IN  IF fit = {} THEN NextHops[1] ELSE NextHops[CHOOSE i \in fit : \A j \in fit : i <= j]

\* The next hop after g, cyclically.
getAlternativeOutFaceId(g) ==
  IF Len(NextHops) > 1 /\ g \in Hops
  THEN NextHops[((CHOOSE i \in DOMAIN NextHops : NextHops[i] = g) % Len(NextHops)) + 1]
  ELSE g

getFaceViaId(g) == IF g \in Hops THEN g ELSE NextHops[1]

\* The face a new prefix starts with, or the one it works with.
started(e, push) == IF working = NoFace THEN getFaceIdViaBestRoute(e, push) ELSE working

\* The first next hop of the lowest loss, by its place in the list.
lowestLoss(I, loss) ==
  CHOOSE i \in I : \A j \in I : \/ loss[NextHops[i]] < loss[NextHops[j]]
                                \/ loss[NextHops[i]] = loss[NextHops[j]] /\ i <= j

\* Another face is taken for the working one, now, when its loss is the lowest and
\* below 90% of now's. (Before the first measurement the loss of now is 0 and it stays.)
lookForBetterOutFaceId(e, f, now, loss) ==
  LET others == {i \in DOMAIN NextHops : NextHops[i] \notin {f, now}}
      best   == NextHops[lowestLoss(others, loss)]
  IN  IF others = {} THEN getFaceIdViaBestRoute(e, FALSE)
      ELSE IF 10 * loss[best] < 9 * loss[now] /\ canForwardToLegacy(e, best, FALSE) THEN best
      ELSE now

\* Redirection draws one random number per face, in turn: any face may come out.
getProbingOutFaceId(f, selected) ==
  IF TaintingEnabled THEN {selected} \cup (Hops \ {f, selected}) ELSE {selected}

\* Mutant: always the next hop after the selected one.
notSelected(f, selected) == getAlternativeOutFaceId(selected)

\* Never back where it came from, if there is another next hop.
notBack(f, selected) == IF selected = f THEN getAlternativeOutFaceId(selected) ELSE selected

-----------------------------------------------------------------------------
(***************************************************************************)
(* Interests: onContentStoreMiss, afterReceiveInterest, onOutgoingInterest. *)
(***************************************************************************)
\* A Persistent Interest, the first or a renewal, goes to the working face; from that
\* face, to the next hop after it. The Content Store never has an answer: push Data is
\* not inserted (forwarder.cpp:351), and probes are not named below the Interest.
ReceivePersistent(p, f) ==
  /\ <<p, f>> \in Asks
  /\ LET e   == insertOrUpdateInRecord(entry[p], f)
         now == started(e, TRUE)
         out == getFaceViaId(notBack(f, now))
     IN  /\ working' = now
         /\ entry' = [entry EXCEPT ![p] = insertOrUpdateOutRecord(e, out, FALSE)]
         /\ asked' = [asked EXCEPT ![p] = @ \cup ({out} \cap {now})]
         /\ detoured' = [detoured EXCEPT ![p] = @ \cup ({out} \ {now})]
  /\ UNCHANGED <<pending, mine, measured>>

\* Consumers draw a name for each probe: it has no entry and no measurement yet.
Fresh(n) == entry[n] = NoEntry /\ n \notin mine /\ \A g \in Face : n \notin measured[g]

\* A probe another router has tainted is neither redirected nor measured.
ReceiveTaintedProbe(n, f) ==
  /\ <<n, f>> \in Asks
  /\ Fresh(n)
  /\ LET e   == insertOrUpdateInRecord(entry[n], f)
         now == started(e, FALSE)
     IN  /\ working' = now
         /\ entry' = [entry EXCEPT ![n] =
              insertOrUpdateOutRecord(e, getFaceViaId(notBack(f, now)), TRUE)]
  /\ UNCHANGED <<pending, mine, measured, asked, detoured>>

\* Mutants: only the face given up last is pending; an untainted probe is remembered;
\* the in-record stays deleted.
AbandonLast(old, new) == IF new # old THEN {old} ELSE pending
RememberUntainted(n, tainted) == IF tainted THEN mine ELSE mine \cup {n}
NackTaintedOnly(e, f) == deleteInRecord(e, f)

Abandon(old, new) == IF new # old THEN pending \cup {old} ELSE pending
Remember(n, tainted) == IF tainted THEN mine \cup {n} ELSE mine

\* The TAINTED Nack to f deletes the in-record, which is put back by hand so that the
\* Data still finds its way.
NackTainted(e, f) == insertOrUpdateInRecord(deleteInRecord(e, f), f)

\* A probe may change the working face; redirected, it goes out tainted on another.
ReceiveProbe(n, f) ==
  /\ <<n, f>> \in Asks
  /\ Fresh(n)
  /\ LET e   == insertOrUpdateInRecord(entry[n], f)
         old == started(e, FALSE)
     IN \E loss \in [Hops -> Levels] :
          LET new == lookForBetterOutFaceId(e, f, old, loss)
          IN \E selected \in getProbingOutFaceId(f, new) :
               LET tainted == selected # new
                   back    == IF tainted THEN NackTainted(e, f) ELSE e
               IN  /\ working' = new
                   /\ pending' = Abandon(old, new)
                   /\ mine' = Remember(n, tainted)
                   /\ measured' = [measured EXCEPT ![selected] = @ \cup {n}]
                   /\ entry' = [entry EXCEPT ![n] =
                        insertOrUpdateOutRecord(back, getFaceViaId(notBack(f, selected)), tainted)]
  /\ UNCHANGED <<asked, detoured>>

-----------------------------------------------------------------------------
(***************************************************************************)
(* Data: onIncomingData, beforeSatisfyInterest.                            *)
(***************************************************************************)
\* Mutant: the out-record goes, as for plain Data.
ReceivePushDataOnce(p, f) ==
  /\ f \in OutFaces(entry[p])
  /\ entry' = [entry EXCEPT ![p] = deleteOutRecord(@, f)]
  /\ UNCHANGED <<working, pending, mine, measured, asked, detoured>>

\* Push Data the bitvector lets through, from any upstream the Interest went to. The
\* first from the working face tears the Interest it answers down on the abandoned ones.
ReceivePushData(p, f) ==
  /\ f \in OutFaces(entry[p])
  /\ IF f = working
     THEN LET left == {getFaceViaId(g) : g \in pending \ {working}}
          IN  /\ asked' = [asked EXCEPT ![p] = @ \ left]
              /\ detoured' = [detoured EXCEPT ![p] = @ \ left]
              /\ pending' = {}
     ELSE UNCHANGED <<asked, detoured, pending>>
  /\ UNCHANGED <<working, mine, measured, entry>>

\* afterReceiveProbeData; then the entry is satisfied and waits for its straggler timer.
ReceiveProbeData(n, f, tainted) ==
  /\ f \in OutFaces(entry[n])
  /\ mine' = mine \ {n}
  /\ measured' = IF n \in mine \/ ~ tainted THEN [measured EXCEPT ![f] = @ \ {n}] ELSE measured
  /\ entry' = [entry EXCEPT ![n] = deleteOutRecord(clearInRecords(@), f)]
  /\ UNCHANGED <<working, pending, asked, detoured>>

-----------------------------------------------------------------------------
(***************************************************************************)
(* Nacks: onIncomingNack, afterReceiveNack, onOutgoingNack.                *)
(***************************************************************************)
\* From upstream, for a probe that went out untainted and was redirected there. It is
\* passed on to the newest in-record, which that deletes.
ReceiveTaintedNack(n, f) ==
  /\ [face |-> f, tainted |-> FALSE] \in ToSet(entry[n].out)
  /\ measured' = [measured EXCEPT ![f] = @ \ {n}]
  /\ entry' = [entry EXCEPT ![n].in = IF @ = << >> THEN @ ELSE Tail(@)]
  /\ UNCHANGED <<working, pending, mine, asked, detoured>>

\* From a downstream that has left. Without out-record for f, the pipeline writes through
\* an end() iterator first; the model follows the build in which that goes unnoticed.
\* The last downstream gone, the newest out-record's face is told.
ReceiveTeardown(p, f) ==
  /\ <<p, f>> \in Asks
  /\ entry[p] # NoEntry
  /\ LET e    == deleteInRecord(entry[p], f)
         told == IF e.in = << >> THEN {Head(e.out).face} ELSE {}
     IN  /\ entry' = [entry EXCEPT ![p] = e]
         /\ asked' = [asked EXCEPT ![p] = @ \ told]
         /\ detoured' = [detoured EXCEPT ![p] = @ \ told]
  /\ UNCHANGED <<working, pending, mine, measured>>

-----------------------------------------------------------------------------
\* The estimator's updateMeasurements: the probe counts as lost.
ProbeLost(n, f) ==
  /\ n \in measured[f]
  /\ measured' = [measured EXCEPT ![f] = @ \ {n}]
  /\ UNCHANGED <<working, pending, mine, entry, asked, detoured>>

\* The PIT entry's timer deletes it, and what it asked for ends upstream as well.
EntryExpires(n) ==
  /\ entry[n] # NoEntry
  /\ entry' = [entry EXCEPT ![n] = NoEntry]
  /\ asked' = [p \in PI |-> IF p = n THEN {} ELSE asked[p]]
  /\ detoured' = [p \in PI |-> IF p = n THEN {} ELSE detoured[p]]
  /\ UNCHANGED <<working, pending, mine, measured>>

Next ==
  \/ \E p \in PI, f \in Face :
       ReceivePersistent(p, f) \/ ReceivePushData(p, f) \/ ReceiveTeardown(p, f)
  \/ \E n \in Probe, f \in Face :
       \/ ReceiveProbe(n, f)
       \/ ReceiveTaintedProbe(n, f)
       \/ \E tainted \in BOOLEAN : ReceiveProbeData(n, f, tainted)
       \/ ReceiveTaintedNack(n, f)
       \/ ProbeLost(n, f)
  \/ \E n \in Name : EntryExpires(n)

Spec == Init /\ [][Next]_vars

-----------------------------------------------------------------------------
TypeOK ==
  /\ working \in Hops \cup {NoFace}
  /\ pending \subseteq Hops
  /\ mine \subseteq Probe
  /\ measured \in [Face -> SUBSET Probe]
  /\ DOMAIN entry = Name
  /\ \A n \in Name : /\ entry[n].in \in Seq(Face) /\ IsInjective(entry[n].in)
                     /\ entry[n].out \in Seq(OutRecord)
                     /\ IsInjective([i \in DOMAIN entry[n].out |-> entry[n].out[i].face])
  /\ asked \in [PI -> SUBSET Face]
  /\ detoured \in [PI -> SUBSET Face]

\* "When the current working face is changed, the old face needs to be torn down"
\* (lowest-cost-strategy.cpp:89): a working face a Persistent Interest was sent on, and
\* still runs on, works or is pending a teardown, however often the face changes,
\* whatever Data comes first and whoever asks.
OldFaceTornDown == \A p \in PI : asked[p] \subseteq pending \cup {working}

\* The same for every face an Interest runs on, and claimed of one Interest of the prefix
\* only. The strategy keeps neither which Interests a face is left with (400) nor where
\* it sends those that come from the working face (152-157).
SomeInterestTornDown ==
  \E p \in PI : asked[p] \cup detoured[p] \subseteq pending \cup {working}

\* The teardown of the last downstream has an upstream to go to: begin() of the
\* out-records in afterReceiveNack is no end().
TeardownHasUpstream == \A p \in PI : entry[p] # NoEntry => entry[p].out # << >>

\* A router that measures a probe it has tainted can still tell the tainted Data for its
\* own; forgotten, the answered probe would count as lost.
TaintedProbeCounts ==
  \A n \in Probe, g \in Face :
    n \in measured[g] /\ [face |-> g, tainted |-> TRUE] \in ToSet(entry[n].out) => n \in mine

\* A redirected probe's Data finds the way back, although its own Nack deleted the
\* in-record it came by.
RedirectedProbeReturns ==
  \A n \in mine : entry[n].out # << >> => entry[n].in # << >>

\* A probe is measured on the face it is sent on (or, a flaw the code has, on the face
\* it came from): no other face is blamed for its loss.
MeasuredWhereSent ==
  [][\A n \in Probe, g \in Face :
       n \in measured'[g] \ measured[g] => g \in OutFaces(entry'[n]) \cup ToSet(entry'[n].in)]_vars
=============================================================================
