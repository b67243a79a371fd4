----------------------------- MODULE Forwarder ------------------------------
(***************************************************************************)
(* One node's forwarding pipelines (extern/NFD/fw/forwarder.cpp) over its  *)
(* PIT entries (extern/NFD/table/pit-entry.cpp), with the multicast       *)
(* strategy the ring and bitvector scenarios install.  All names of Entry  *)
(* are prefixes of one Data stream: Data matches every entry present.      *)
(*                                                                         *)
(* Time is counted in ticks: a record or a timer holds the ticks left, and *)
(* the scheduler runs a timer at its tick, before the clock moves on.      *)
(***************************************************************************)
EXTENDS BitmaskLoopDetection, FiniteSets, FiniteSetsExt

CONSTANTS
  Face,         \* the node's faces
  Fib,          \* the next hops of every name
  Entry,        \* Interest names
  Nonce,        \* nonces, positive numbers
  MaxLife,      \* the longest Interest lifetime, in ticks: bounds the model
  Straggler,    \* the 100ms of setStragglerTimer, in ticks
  DnlOnSatisfy  \* MustBeFresh Interests and Data of a short freshness period

ASSUME ForwarderAssumption ==
  /\ Fib \subseteq Face
  /\ IsFiniteSet(Face)
  /\ Nonce \subseteq Nat \ {0}
  /\ MaxLife \in Nat \ {0}
  /\ Straggler \in Nat \ {0}
  /\ DnlOnSatisfy \in BOOLEAN

VARIABLES
  pit,     \* the PIT: an entry per name, Gone where there is none
  dnl,     \* the dead nonce list
  cached,  \* does the Content Store hold Data of the stream?
  quiet,   \* have the neighbours fallen silent for good?
  io       \* what the last step received and sent

vars == <<pit, dnl, cached, quiet, io>>

-----------------------------------------------------------------------------
(***************************************************************************)
(* PIT entries.                                                            *)
(***************************************************************************)
Kind == {"push", "rpi", "normal"}

Off    == -1  \* a timer that is not set
Past   == -1  \* a record's expiry lies before now (0: it is now)
Absent == -2  \* there is no record for the face

NoRecord  == [nonce |-> 0, left |-> Absent, nacked |-> FALSE]
NoRecords == [g \in Face |-> NoRecord]

\* Entry::Entry: only a Persistent Interest gets a bitvector (BitsOf is its
\* length); every other kind has one bit, that is no detection.
NewEntry(kind) ==
  [on |-> TRUE, rep |-> kind, ins |-> NoRecords, outs |-> NoRecords,
   bld |-> EmptyVector, unsat |-> Off, strag |-> Off, satisfied |-> FALSE]

Gone == [NewEntry("normal") EXCEPT !.on = FALSE]

EntryFor(e, kind) == IF pit[e].on THEN pit[e] ELSE NewEntry(kind)

Present(records) == {g \in Face : records[g].left # Absent}

\* Entry::insertOrUpdateInRecord and insertOrUpdateOutRecord
UpdateIn(p, f, n, life) ==
  [p EXCEPT !.ins[f] = [nonce |-> n, left |-> life, nacked |-> FALSE]]
UpdateOut(p, faces, n, life) ==
  [p EXCEPT !.outs = [g \in Face |->
     IF g \in faces THEN [nonce |-> n, left |-> life, nacked |-> FALSE] ELSE @[g]]]

\* Entry::clearInRecords and deleteOutRecord
ClearIn(p)      == [p EXCEPT !.ins = NoRecords]
DeleteOut(p, f) == [p EXCEPT !.outs[f] = NoRecord]

cancelTimers(p) == [p EXCEPT !.unsat = Off, !.strag = Off]

\* Mutant: the timer follows the first in-record to expire.
setUnsatisfyTimerFirst(p) ==
  [p EXCEPT !.unsat = Min({p.ins[g].left : g \in Present(p.ins)})]

\* Set to the latest expiry of the in-records.
setUnsatisfyTimer(p) == [p EXCEPT !.unsat = Max({p.ins[g].left : g \in Face})]

setStragglerTimer(p, isSatisfied) ==
  [p EXCEPT !.strag = Straggler, !.satisfied = isSatisfied]

findDuplicateNonce(p, n) ==
  \/ \E g \in Present(p.ins)  : p.ins[g].nonce = n
  \/ \E g \in Present(p.outs) : p.outs[g].nonce = n

hasPendingOutRecords(p) ==
  \E g \in Face : p.outs[g].left >= 0 /\ ~ p.outs[g].nacked

canForwardToLegacy(p, g) ==
  /\ p.outs[g].left >= 0 => p.rep = "push"
  /\ \E h \in Face \ {g} : p.ins[h].left >= 0

\* Entry::isLooping and addSequenceNumber: a no-op without a bitvector.
isLooping(p, s) == p.rep = "push" /\ Contains(p.bld, s)
addSequenceNumber(p, s) ==
  IF p.rep = "push" THEN [p EXCEPT !.bld = Add(@, s)] ELSE p

-----------------------------------------------------------------------------
Packet(type, f) == [type |-> type, face |-> f]

Silent       == [in |-> Packet("none", CHOOSE f \in Face : TRUE), seq |-> 0, sent |-> {}]
Got(p, sent) == [in |-> p, seq |-> 0, sent |-> sent]

Init ==
  /\ pit = [e \in Entry |-> Gone]
  /\ dnl = {}
  /\ cached = FALSE
  /\ quiet = FALSE
  /\ io = Silent

-----------------------------------------------------------------------------
(***************************************************************************)
(* Interests: onIncomingInterest and the pipelines it ends in.             *)
(***************************************************************************)

\* onInterestLoop: the nonce is dead or still in a record of the entry.
InterestLoop(f, e, n) ==
  /\ ~ quiet
  /\ <<e, n>> \in dnl \/ (pit[e].on /\ findDuplicateNonce(pit[e], n))
  /\ io' = Got(Packet("interest", f), {Packet("nack", f)})
  /\ UNCHANGED <<pit, dnl, cached, quiet>>

\* An Interest that continues after the two nonce checks.
IsNew(e, kind, n) ==
  /\ ~ quiet
  /\ <<e, n>> \notin dnl
  /\ ~ findDuplicateNonce(EntryFor(e, kind), n)

IsPending(p) == Present(p.ins) # {}

\* onContentStoreHit
InterestHit(f, e, kind, n) ==
  LET p == EntryFor(e, kind) IN
  /\ IsNew(e, kind, n)
  /\ ~ IsPending(p) /\ cached
  /\ pit' = [pit EXCEPT ![e] = setStragglerTimer(cancelTimers(p), TRUE)]
  /\ io' = Got(Packet("interest", f), {Packet("data", f)})
  /\ UNCHANGED <<dnl, cached, quiet>>

\* onContentStoreMiss up to the strategy: the in-record and its timer.
Admitted(f, e, kind, n, life) ==
  setUnsatisfyTimer(UpdateIn(cancelTimers(EntryFor(e, kind)), f, n, life))

\* MulticastStrategy::afterReceiveInterest sends to every next hop it may,
\* through onOutgoingInterest ...
Nexthops(p) == {g \in Fib : canForwardToLegacy(p, g)}

\* Mutant: a rejected Interest keeps its unsatisfy timer.
RejectKeepingTimer(p) ==
  IF hasPendingOutRecords(p) THEN p ELSE setStragglerTimer(p, FALSE)

\* ... and rejects the Interest when nothing is pending (onInterestReject).
RejectUnlessPending(p) ==
  IF hasPendingOutRecords(p) THEN p ELSE setStragglerTimer(cancelTimers(p), FALSE)

InterestMiss(f, e, kind, n, life) ==
  LET p == Admitted(f, e, kind, n, life)
      q == UpdateOut(p, Nexthops(p), n, life)
  IN
  /\ IsNew(e, kind, n)
  /\ IsPending(EntryFor(e, kind)) \/ ~ cached
  /\ pit' = [pit EXCEPT ![e] = RejectUnlessPending(q)]
  /\ io' = Got(Packet("interest", f), {Packet("interest", g) : g \in Nexthops(p)})
  /\ UNCHANGED <<dnl, cached, quiet>>

-----------------------------------------------------------------------------
(***************************************************************************)
(* Data: onIncomingData.                                                   *)
(***************************************************************************)
Matches == {e \in Entry : pit[e].on}

\* onDataUnsolicited drops (ndnSIM's default policy).
DataUnsolicited(f, s) ==
  /\ ~ quiet
  /\ Matches = {}
  /\ io' = [Got(Packet("data", f), {}) EXCEPT !.seq = s]
  /\ UNCHANGED <<pit, dnl, cached, quiet>>

\* Mutants of Satisfy: no straggler for any entry; Data ends a persistent
\* entry's subscriptions as it does a normal one's.
SatisfyWithoutStraggler(p, f, s) ==
  LET q == cancelTimers(addSequenceNumber(p, s)) IN
  IF p.rep = "push" THEN q ELSE DeleteOut(ClearIn(q), f)
SatisfyOnce(p, f, s) ==
  setStragglerTimer(
    DeleteOut(ClearIn(cancelTimers(addSequenceNumber(p, s))), f), TRUE)

\* The loop body for one entry.  A persistent entry keeps its records and
\* is left without a timer.
Satisfy(p, f, s) ==
  LET q == cancelTimers(addSequenceNumber(p, s)) IN
  IF p.rep = "push" THEN q
  ELSE setStragglerTimer(DeleteOut(ClearIn(q), f), TRUE)

\* Mutants: the faces pending in every entry; those the last entry visited
\* has, the set being emptied for each.
pendingInAll(entries) ==
  {g \in Face : \A e \in entries : pit[e].ins[g].left > 0}
pendingInNormal(entries) ==
  {g \in Face : \E e \in entries :
     pit[e].ins[g].left > 0 /\ (pit[e].rep # "push" \/ entries = {e})}

pendingDownstreams(entries) ==
  {g \in Face : \E e \in entries : pit[e].ins[g].left > 0}

\* Mutant: the out-record is taken without looking whether there is one.
DeadAfterDataUnchecked(entries, f) ==
  {<<e, pit[e].outs[f].nonce>> : e \in {d \in entries : DnlOnSatisfy}}

\* insertDeadNonceList with an upstream
DeadAfterData(entries, f) ==
  {<<e, pit[e].outs[f].nonce>> :
     e \in {d \in entries : DnlOnSatisfy /\ pit[d].outs[f].left # Absent}}

\* The entries are visited in an order the name tree fixes: a looping one
\* ends the whole pipeline, after any of the others.
DataMatched(f, isPush, s) ==
  LET looping == {e \in Matches : isLooping(pit[e], s)} IN
  /\ ~ quiet
  /\ Matches # {}
  /\ cached' = (cached \/ ~ isPush)
  /\ \E visited \in SUBSET (Matches \ looping) :
       /\ looping = {} => visited = Matches
       /\ pit' = [e \in Entry |->
                    IF e \in visited THEN Satisfy(pit[e], f, s) ELSE pit[e]]
       /\ dnl' = dnl \cup DeadAfterData(visited, f)
       /\ io' = [in |-> Packet("data", f), seq |-> s, sent |->
                   IF looping # {} THEN {}
                   ELSE {Packet("data", g) : g \in pendingDownstreams(visited) \ {f}}]
  /\ UNCHANGED quiet

-----------------------------------------------------------------------------
(***************************************************************************)
(* Nacks: onIncomingNack records the Nack; the multicast strategy ignores  *)
(* it; any other Nack is dropped.  PI_TEARDOWN is only sent by             *)
(* LowestCostStrategy.                                                     *)
(***************************************************************************)
ReceiveNack(f, e, n) ==
  /\ ~ quiet
  /\ pit[e].on
  /\ pit[e].outs[f].left # Absent /\ pit[e].outs[f].nonce = n
  /\ pit' = [pit EXCEPT ![e].outs[f].nacked = TRUE]
  /\ io' = Got(Packet("nack", f), {})
  /\ UNCHANGED <<dnl, cached, quiet>>

-----------------------------------------------------------------------------
(***************************************************************************)
(* Timers and time.                                                        *)
(***************************************************************************)
DeadOnFinalize(e, isSatisfied) ==
  IF isSatisfied /\ ~ DnlOnSatisfy THEN {}
  ELSE {<<e, pit[e].outs[g].nonce>> : g \in Present(pit[e].outs)}

onInterestFinalize(e, isSatisfied) ==
  /\ dnl' = dnl \cup DeadOnFinalize(e, isSatisfied)
  /\ pit' = [pit EXCEPT ![e] = Gone]
  /\ io' = Silent
  /\ UNCHANGED <<cached, quiet>>

InterestUnsatisfied(e) == pit[e].unsat = 0 /\ onInterestFinalize(e, FALSE)

\* Mutant: only the straggler of a satisfied entry deletes it.
StragglerExpiresSatisfied(e) ==
  pit[e].strag = 0 /\ pit[e].satisfied /\ onInterestFinalize(e, TRUE)

StragglerExpires(e) == pit[e].strag = 0 /\ onInterestFinalize(e, pit[e].satisfied)

Aged(r)   == IF r.left > Past THEN [r EXCEPT !.left = @ - 1] ELSE r
Ticked(t) == IF t = Off THEN Off ELSE t - 1

\* A tick passes, once every timer that is due has run.
Tick ==
  /\ \A e \in Entry : pit[e].unsat # 0 /\ pit[e].strag # 0
  /\ pit' = [e \in Entry |->
       [pit[e] EXCEPT !.ins   = [g \in Face |-> Aged(@[g])],
                      !.outs  = [g \in Face |-> Aged(@[g])],
                      !.unsat = Ticked(@),
                      !.strag = Ticked(@)]]
  /\ io' = Silent
  /\ UNCHANGED <<dnl, cached, quiet>>

-----------------------------------------------------------------------------
(***************************************************************************)
(* The surroundings.                                                       *)
(***************************************************************************)

\* The dead nonce list ages, the Content Store replaces what it holds.
ForgetNonce == /\ \E d \in dnl : dnl' = dnl \ {d}
               /\ io' = Silent
               /\ UNCHANGED <<pit, cached, quiet>>
EvictData   == /\ cached /\ cached' = FALSE
               /\ io' = Silent
               /\ UNCHANGED <<pit, dnl, quiet>>

\* No packet arrives any more.
FallSilent  == /\ ~ quiet /\ quiet' = TRUE
               /\ io' = Silent
               /\ UNCHANGED <<pit, dnl, cached>>

Interests ==
  \E f \in Face, e \in Entry, n \in Nonce :
    \/ InterestLoop(f, e, n)
    \/ \E kind \in Kind : \/ InterestHit(f, e, kind, n)
                          \/ \E life \in 1 .. MaxLife : InterestMiss(f, e, kind, n, life)

Datas == \E f \in Face, s \in Seqno : \/ DataUnsolicited(f, s)
                                      \/ \E isPush \in BOOLEAN : DataMatched(f, isPush, s)

Nacks == \E f \in Face, e \in Entry, n \in Nonce : ReceiveNack(f, e, n)

Timers == \E e \in Entry : InterestUnsatisfied(e) \/ StragglerExpires(e)

Next == Interests \/ Datas \/ Nacks \/ Timers \/ Tick
        \/ ForgetNonce \/ EvictData \/ FallSilent

\* The simulator's clock advances and runs what is due.
Fairness == /\ WF_vars(Tick)
            /\ \A e \in Entry : WF_vars(InterestUnsatisfied(e)) /\ WF_vars(StragglerExpires(e))

Spec     == Init /\ [][Next]_vars
FairSpec == Spec /\ Fairness

-----------------------------------------------------------------------------
(***************************************************************************)
(* Properties.                                                             *)
(***************************************************************************)
Record == [nonce : Nonce, left : Past .. MaxLife, nacked : BOOLEAN] \cup {NoRecord}

PitEntry ==
  [on : {TRUE}, rep : Kind, ins : [Face -> Record], outs : [Face -> Record],
   bld : Vector, unsat : Off .. MaxLife, strag : Off .. Straggler, satisfied : BOOLEAN]

TypeOK ==
  /\ pit \in [Entry -> PitEntry \cup {Gone}]
  /\ dnl \subseteq Entry \X Nonce
  /\ cached \in BOOLEAN
  /\ quiet \in BOOLEAN

HasTimer(p) == p.unsat # Off \/ p.strag # Off

\* The half of pit-entry.hpp:237-238 the pipelines keep: the unsatisfy and the
\* straggler timer are never both set, so an entry is deleted once.
AtMostOneTimer == \A e \in Entry : pit[e].unsat = Off \/ pit[e].strag = Off

\* Only Data on a persistent entry leaves an entry without a timer
\* (forwarder.cpp:380, 407-410); every other entry will be deleted.
TimerlessOnlyAfterPushData ==
  \A e \in Entry :
    pit[e].on /\ ~ HasTimer(pit[e]) =>
      /\ pit[e].rep = "push"
      /\ Size > 1 => pit[e].bld.bits # {}

\* "Either this or the straggler timer should be set at all times"
\* (pit-entry.hpp:237).
EitherTimerSet == \A e \in Entry : pit[e].on => HasTimer(pit[e])

\* The straggler of an Interest the strategy rejected.
Rejected(p) == p.strag = 0 /\ ~ p.satisfied

\* A persistent subscription lasts its lifetime: no Data, Nack, other face's
\* Interest, cached Data or timer of its entry ends it earlier; an Interest of
\* its own face may renew it for less.
PersistentInterestPersists ==
  [][\A e \in Entry, g \in Face :
       pit[e].on /\ pit[e].rep = "push" /\ pit[e].ins[g].left > 0 =>
         \/ pit'[e].on /\ pit'[e].ins[g].left >= pit[e].ins[g].left - 1
         \/ Rejected(pit[e])
         \/ io'.in = Packet("interest", g)]_vars

\* An entry is deleted only when every subscription in it has expired, been
\* served or been rejected: the unsatisfy timer follows the last of the
\* in-records whatever the order they were renewed in (forwarder.cpp:588-604).
LiveSubscriptionNeverErased ==
  [][\A e \in Entry :
       pit[e].on /\ ~ pit'[e].on =>
         Rejected(pit[e]) \/ \A g \in Face : pit[e].ins[g].left <= 0]_vars

\* One Data, one looping entry: the pipeline returns in the middle of its
\* loop over the entries (forwarder.cpp:370-373).
CutShort == \E d \in Entry : pit[d].on /\ isLooping(pit[d], io'.seq)

\* A pending Interest is removed by Data only as the Data is sent to its
\* face, except when another matching entry takes the Data for a loop.
PendingInterestNotLost ==
  [][\A e \in Entry, g \in Face :
       io'.in.type = "data" /\ pit[e].ins[g].left > 0 /\ pit'[e].ins[g].left = Absent =>
         \/ g = io'.in.face
         \/ Packet("data", g) \in io'.sent
         \/ CutShort]_vars

\* What an entry records as seen it passes on to all its subscribers: a copy
\* will be refused, so this is their only chance; the exception is the same.
RecordedDataIsSent ==
  [][\A e \in Entry, g \in Face :
       pit[e].on /\ pit'[e].on /\ pit'[e].bld # pit[e].bld /\ pit[e].ins[g].left > 0 =>
         \/ g = io'.in.face
         \/ Packet("data", g) \in io'.sent
         \/ CutShort]_vars

\* Once the neighbours are silent an entry with a timer is deleted.
TimedEntryReclaimed ==
  \A e \in Entry : quiet /\ HasTimer(pit[e]) ~> ~ pit[e].on
=============================================================================
