-------------------------- MODULE ForwarderProofs ---------------------------
(***************************************************************************)
(* Theorems about one node's PIT entries, for every set of faces, names,   *)
(* nonces, lifetimes and every bitvector length.  The invariant is one     *)
(* predicate on an entry, Sound: each pipeline is a function of the        *)
(* entries it visits that maps a sound entry to a sound one.               *)
(***************************************************************************)
EXTENDS Forwarder, BitmaskLoopDetectionProofs, WellFoundedInduction

\* Every value an entry takes, between two pipelines or inside one.
Shape ==
  [on : BOOLEAN, rep : Kind, ins : [Face -> Record], outs : [Face -> Record],
   bld : Vector, unsat : Off .. MaxLife, strag : Off .. Straggler, satisfied : BOOLEAN]

\* An unsatisfy timer runs until the last in-record has expired; an entry
\* that waits to be deleted because it was satisfied has no in-record.
UnsatCovers(p)     == p.unsat # Off => \A g \in Face : p.ins[g].left <= p.unsat
StragglerServed(p) == p.strag # Off /\ p.satisfied => \A g \in Face : p.ins[g].left = Absent
OneTimer(p)        == p.unsat = Off \/ p.strag = Off
ShowsSeen(p)       == p.bld.bits = {} => p.bld.highest = 0
TimerOrPush(p)     == p.on /\ ~ HasTimer(p) =>
                        p.rep = "push" /\ (Size > 1 => p.bld.bits # {})

\* A sound entry, and one inside a pipeline, its timers being rearranged.
Steady(p) == p \in Shape /\ UnsatCovers(p) /\ StragglerServed(p) /\ OneTimer(p) /\ ShowsSeen(p)
Sound(p)  == Steady(p) /\ TimerOrPush(p)

IInv == TypeOK /\ \A e \in Entry : Sound(pit[e])

-----------------------------------------------------------------------------
(***************************************************************************)
(* The latest of a set of times.                                           *)
(***************************************************************************)
LEMMA MaxIsLatest ==
  ASSUME NEW S, NEW lo \in Int, NEW hi \in Int, S \subseteq lo .. hi, S # {}
  PROVE  Max(S) \in S /\ \A x \in S : x <= Max(S)
<1> DEFINE Below == {hi - x : x \in S}
<1>1. Below \subseteq Nat /\ Below # {}
  <2>1. \A x \in S : hi - x \in Nat
    OBVIOUS
  <2> QED BY <2>1
<1>2. \E x \in Below : \A y \in Below : ~ (<<y, x>> \in OpToRel(<, Nat))
  BY <1>1, NatLessThanWellFounded, WFMin
<1>3. \A x, y \in Nat : <<y, x>> \in OpToRel(<, Nat) <=> y < x
  BY DEF OpToRel
<1>4. \E m \in S : \A x \in S : m >= x
  <2>1. PICK t \in Below : \A y \in Below : ~ (y < t)
    BY <1>1, <1>2, <1>3
  <2>2. PICK m \in S : t = hi - m
    BY <2>1
  <2>3. ASSUME NEW x \in S PROVE m >= x
    <3>1. hi - x \in Below /\ hi - x \in Nat
      BY <1>1
    <3> QED BY <3>1, <2>1, <2>2, SMT
  <2> QED BY <2>3
<1> QED BY <1>4 DEF Max

-----------------------------------------------------------------------------
(***************************************************************************)
(* What the operations on an entry keep.                                   *)
(***************************************************************************)
LEMMA RecordTimes ==
  /\ \A r \in Record : r.left \in Absent .. MaxLife
  /\ NoRecord \in Record
  /\ \A n \in Nonce, life \in 1 .. MaxLife :
       [nonce |-> n, left |-> life, nacked |-> FALSE] \in Record
BY ForwarderAssumption DEF Record, NoRecord, Absent, Past

LEMMA TimesTyped ==
  /\ Off \in Off .. MaxLife /\ Off \in Off .. Straggler
  /\ Straggler \in Off .. Straggler /\ Straggler # Off
  /\ Off \in Int
BY ForwarderAssumption DEF Off

\* A new entry is steady, whatever made it.
LEMMA NewEntrySteady ==
  ASSUME NEW kind \in Kind
  PROVE  Steady(NewEntry(kind))
<1>1. NewEntry(kind) \in Shape
  BY ForwarderAssumption, RecordTimes, EmptyTyped
     DEF NewEntry, Shape, NoRecords, Off
<1> QED BY <1>1 DEF Steady, NewEntry, UnsatCovers, StragglerServed, OneTimer, ShowsSeen,
                    EmptyVector, Off

LEMMA GoneSound == Sound(Gone)
<1>1. Steady(NewEntry("normal"))
  BY NewEntrySteady DEF Kind
<1> QED BY <1>1 DEF Gone, Sound, Steady, Shape, NewEntry, TimerOrPush, UnsatCovers,
                    StragglerServed, OneTimer, ShowsSeen

LEMMA EntryForSteady ==
  ASSUME IInv, NEW e \in Entry, NEW kind \in Kind
  PROVE  Steady(EntryFor(e, kind)) /\ EntryFor(e, kind).on
BY NewEntrySteady DEF IInv, Sound, EntryFor, NewEntry

\* With both timers cancelled.
LEMMA CancelSteady ==
  ASSUME NEW p, Steady(p)
  PROVE  /\ Steady(cancelTimers(p))
         /\ cancelTimers(p).unsat = Off /\ cancelTimers(p).strag = Off
         /\ cancelTimers(p).ins = p.ins /\ cancelTimers(p).outs = p.outs
         /\ cancelTimers(p).on = p.on /\ cancelTimers(p).rep = p.rep
         /\ cancelTimers(p).bld = p.bld
<1>1. p \in Shape
  BY DEF Steady
<1>2. cancelTimers(p) \in Shape
  BY <1>1, TimesTyped DEF cancelTimers, Shape
<1>3. /\ cancelTimers(p).unsat = Off /\ cancelTimers(p).strag = Off
      /\ cancelTimers(p).ins = p.ins /\ cancelTimers(p).outs = p.outs
      /\ cancelTimers(p).on = p.on /\ cancelTimers(p).rep = p.rep
      /\ cancelTimers(p).bld = p.bld
  BY <1>1 DEF cancelTimers, Shape
<1> QED BY <1>2, <1>3 DEF Steady, UnsatCovers, StragglerServed, OneTimer, ShowsSeen

\* An Interest's in-record, and the timer that follows the latest of them.
LEMMA UpdateInTyped ==
  ASSUME NEW p \in Shape, NEW f \in Face, NEW n \in Nonce, NEW life \in 1 .. MaxLife
  PROVE  /\ UpdateIn(p, f, n, life) \in Shape
         /\ UpdateIn(p, f, n, life).ins[f].left = life
         /\ \A g \in Face \ {f} : UpdateIn(p, f, n, life).ins[g] = p.ins[g]
         /\ UpdateIn(p, f, n, life).on = p.on /\ UpdateIn(p, f, n, life).rep = p.rep
         /\ UpdateIn(p, f, n, life).bld = p.bld /\ UpdateIn(p, f, n, life).strag = p.strag
<1> DEFINE r == [nonce |-> n, left |-> life, nacked |-> FALSE]
<1>1. r \in Record /\ r.left = life
  BY RecordTimes
<1>2. UpdateIn(p, f, n, life) = [p EXCEPT !.ins = [p.ins EXCEPT ![f] = r]]
  BY SMT DEF UpdateIn, Shape
<1> HIDE DEF r
<1>3. [p.ins EXCEPT ![f] = r] \in [Face -> Record]
  BY <1>1 DEF Shape
<1> QED BY <1>1, <1>2, <1>3 DEF Shape

LEMMA UnsatisfyTimerSteady ==
  ASSUME NEW p \in Shape, p.strag = Off, ShowsSeen(p), NEW f \in Face, p.ins[f].left >= 0
  PROVE  /\ Steady(setUnsatisfyTimer(p))
         /\ setUnsatisfyTimer(p).unsat # Off
         /\ setUnsatisfyTimer(p).ins = p.ins /\ setUnsatisfyTimer(p).on = p.on
         /\ setUnsatisfyTimer(p).rep = p.rep /\ setUnsatisfyTimer(p).bld = p.bld
<1> DEFINE times == {p.ins[g].left : g \in Face}
           m     == Max(times)
<1>1. times \subseteq Absent .. MaxLife /\ times # {}
  BY RecordTimes DEF Shape
<1>2. m \in times /\ \A t \in times : t <= m
  <2>1. Absent \in Int /\ MaxLife \in Int
    BY ForwarderAssumption DEF Absent
  <2> QED BY <1>1, <2>1, MaxIsLatest
<1>3. m \in Off .. MaxLife /\ m # Off /\ \A g \in Face : p.ins[g].left <= m
  <2>1. m >= 0
    <3>1. p.ins[f].left \in times
      OBVIOUS
    <3>2. p.ins[f].left <= m /\ m \in Int /\ p.ins[f].left \in Int
      BY <3>1, <1>1, <1>2, ForwarderAssumption DEF Absent
    <3> HIDE DEF m
    <3> QED BY <3>2
  <2>2. m <= MaxLife /\ m \in Int
    BY <1>1, <1>2, ForwarderAssumption DEF Absent
  <2> QED BY <2>1, <2>2, <1>2, ForwarderAssumption DEF Off
<1>4. setUnsatisfyTimer(p) = [p EXCEPT !.unsat = m]
  BY DEF setUnsatisfyTimer
<1> HIDE DEF m
<1>5. [p EXCEPT !.unsat = m] \in Shape
  BY <1>3 DEF Shape
<1> QED BY <1>3, <1>4, <1>5 DEF Shape, Steady, UnsatCovers, StragglerServed, OneTimer, ShowsSeen

\* What onContentStoreMiss does before it calls the strategy.
LEMMA AdmittedSteady ==
  ASSUME IInv, NEW e \in Entry, NEW kind \in Kind, NEW f \in Face, NEW n \in Nonce,
         NEW life \in 1 .. MaxLife
  PROVE  /\ Steady(Admitted(f, e, kind, n, life))
         /\ Admitted(f, e, kind, n, life).unsat # Off
         /\ Admitted(f, e, kind, n, life).on
         /\ Admitted(f, e, kind, n, life).rep = EntryFor(e, kind).rep
         /\ Admitted(f, e, kind, n, life).bld = EntryFor(e, kind).bld
         /\ \A g \in Face \ {f} :
              Admitted(f, e, kind, n, life).ins[g] = EntryFor(e, kind).ins[g]
<1> DEFINE p == EntryFor(e, kind)
           q == cancelTimers(p)
           u == UpdateIn(q, f, n, life)
<1>1. Steady(p) /\ p.on
  BY EntryForSteady
<1>2. /\ Steady(q) /\ q.strag = Off /\ q.on /\ q.rep = p.rep
      /\ q.bld = p.bld /\ q.ins = p.ins
  BY <1>1, CancelSteady
<1>3. q \in Shape /\ ShowsSeen(q)
  BY <1>2 DEF Steady
<1> HIDE DEF q, p
<1>4. /\ u \in Shape /\ u.ins[f].left = life /\ u.on /\ u.rep = p.rep
      /\ u.bld = p.bld /\ u.strag = Off
      /\ \A g \in Face \ {f} : u.ins[g] = p.ins[g]
  BY <1>2, <1>3, UpdateInTyped
<1>5. ShowsSeen(u) /\ u.ins[f].left >= 0
  BY <1>2, <1>3, <1>4 DEF ShowsSeen
<1>6. Admitted(f, e, kind, n, life) = setUnsatisfyTimer(u)
  BY DEF Admitted, u, q, p
<1> HIDE DEF u
<1> QED BY <1>4, <1>5, <1>6, UnsatisfyTimerSteady DEF p

\* Out-records matter to none of the parts of soundness.
LEMMA UpdateOutSteady ==
  ASSUME NEW p, Steady(p), NEW faces, NEW n \in Nonce, NEW life \in 1 .. MaxLife
  PROVE  /\ Steady(UpdateOut(p, faces, n, life))
         /\ UpdateOut(p, faces, n, life).unsat = p.unsat
         /\ UpdateOut(p, faces, n, life).ins = p.ins
         /\ UpdateOut(p, faces, n, life).on = p.on
         /\ UpdateOut(p, faces, n, life).rep = p.rep
         /\ UpdateOut(p, faces, n, life).bld = p.bld
<1> DEFINE r    == [nonce |-> n, left |-> life, nacked |-> FALSE]
           outs == [g \in Face |-> IF g \in faces THEN r ELSE p.outs[g]]
<1>1. p \in Shape
  BY DEF Steady
<1>2. r \in Record
  BY RecordTimes
<1>3. UpdateOut(p, faces, n, life) = [p EXCEPT !.outs = outs]
  BY <1>1, SMT DEF UpdateOut, Shape
<1> HIDE DEF r
<1>4. outs \in [Face -> Record]
  BY <1>1, <1>2 DEF Shape
<1> HIDE DEF outs
<1>5. [p EXCEPT !.outs = outs] \in Shape
  BY <1>1, <1>4 DEF Shape
<1> QED BY <1>1, <1>3, <1>5
           DEF Shape, Steady, UnsatCovers, StragglerServed, OneTimer, ShowsSeen

LEMMA StragglerSteady ==
  ASSUME NEW p, Steady(p), p.unsat = Off, NEW b \in BOOLEAN,
         b => \A g \in Face : p.ins[g].left = Absent
  PROVE  /\ Steady(setStragglerTimer(p, b))
         /\ setStragglerTimer(p, b).strag # Off
         /\ setStragglerTimer(p, b).ins = p.ins /\ setStragglerTimer(p, b).on = p.on
         /\ setStragglerTimer(p, b).rep = p.rep /\ setStragglerTimer(p, b).bld = p.bld
<1>1. p \in Shape
  BY DEF Steady
<1>2. setStragglerTimer(p, b) \in Shape
  BY <1>1, TimesTyped, Zenon DEF Shape, setStragglerTimer
<1>3. /\ setStragglerTimer(p, b).strag = Straggler
      /\ setStragglerTimer(p, b).satisfied = b
      /\ setStragglerTimer(p, b).unsat = p.unsat
      /\ setStragglerTimer(p, b).ins = p.ins /\ setStragglerTimer(p, b).on = p.on
      /\ setStragglerTimer(p, b).rep = p.rep /\ setStragglerTimer(p, b).bld = p.bld
  BY <1>1 DEF Shape, setStragglerTimer
<1> QED BY <1>2, <1>3, TimesTyped
           DEF Steady, UnsatCovers, StragglerServed, OneTimer, ShowsSeen

-----------------------------------------------------------------------------
(***************************************************************************)
(* What each pipeline makes of an entry.                                   *)
(***************************************************************************)

\* A cache hit on an entry that was not pending, whose straggler is set.
LEMMA HitSound ==
  ASSUME IInv, NEW e \in Entry, NEW kind \in Kind, ~ IsPending(EntryFor(e, kind))
  PROVE  LET h == setStragglerTimer(cancelTimers(EntryFor(e, kind)), TRUE) IN
         Sound(h) /\ h.on /\ h.ins = EntryFor(e, kind).ins
         /\ h.rep = EntryFor(e, kind).rep /\ h.bld = EntryFor(e, kind).bld
<1> DEFINE p == EntryFor(e, kind)
           q == cancelTimers(p)
           h == setStragglerTimer(q, TRUE)
<1>1. /\ Steady(q) /\ q.unsat = Off /\ q.on /\ q.rep = p.rep /\ q.bld = p.bld
      /\ q.ins = p.ins
  BY EntryForSteady, CancelSteady
<1>2. \A g \in Face : p.ins[g].left = Absent
  BY DEF IsPending, Present
<1> HIDE DEF q
<1>3. /\ Steady(h) /\ h.strag # Off /\ h.ins = q.ins /\ h.on = q.on
      /\ h.rep = q.rep /\ h.bld = q.bld
  BY <1>1, <1>2, StragglerSteady
<1> HIDE DEF h, p
<1>4. Sound(h)
  BY <1>3 DEF Sound, TimerOrPush, HasTimer
<1> QED BY <1>1, <1>3, <1>4 DEF h, q, p

\* A rejected Interest's straggler replaces its unsatisfy timer.
LEMMA RejectSound ==
  ASSUME NEW p, Steady(p), p.unsat # Off
  PROVE  /\ Sound(RejectUnlessPending(p))
         /\ RejectUnlessPending(p).ins = p.ins /\ RejectUnlessPending(p).on = p.on
         /\ RejectUnlessPending(p).rep = p.rep /\ RejectUnlessPending(p).bld = p.bld
<1> DEFINE q == cancelTimers(p)
           r == setStragglerTimer(q, FALSE)
<1>1. CASE hasPendingOutRecords(p)
  BY <1>1 DEF RejectUnlessPending, Sound, TimerOrPush, HasTimer
<1>2. CASE ~ hasPendingOutRecords(p)
  <2>1. /\ Steady(q) /\ q.unsat = Off /\ q.ins = p.ins /\ q.on = p.on
        /\ q.rep = p.rep /\ q.bld = p.bld
    BY CancelSteady
  <2> HIDE DEF q
  <2>2. /\ Steady(r) /\ r.strag # Off /\ r.ins = q.ins /\ r.on = q.on
        /\ r.rep = q.rep /\ r.bld = q.bld
    BY <2>1, StragglerSteady
  <2>3. RejectUnlessPending(p) = r
    BY <1>2 DEF RejectUnlessPending, r, q
  <2> HIDE DEF r
  <2> QED BY <2>1, <2>2, <2>3 DEF Sound, TimerOrPush, HasTimer
<1> QED BY <1>1, <1>2

\* A missed Interest: its entry is there with a timer, and the in-records of
\* the other faces are as they were.
LEMMA MissSound ==
  ASSUME IInv, NEW e \in Entry, NEW kind \in Kind, NEW f \in Face, NEW n \in Nonce,
         NEW life \in 1 .. MaxLife, NEW faces
  PROVE  LET m == RejectUnlessPending(
                    UpdateOut(Admitted(f, e, kind, n, life), faces, n, life)) IN
         /\ Sound(m) /\ m.on /\ m.rep = EntryFor(e, kind).rep
         /\ m.bld = EntryFor(e, kind).bld
         /\ \A g \in Face \ {f} : m.ins[g] = EntryFor(e, kind).ins[g]
<1> DEFINE p == EntryFor(e, kind)
           a == Admitted(f, e, kind, n, life)
           u == UpdateOut(a, faces, n, life)
           m == RejectUnlessPending(u)
<1>1. /\ Steady(a) /\ a.unsat # Off /\ a.on /\ a.rep = p.rep /\ a.bld = p.bld
      /\ \A g \in Face \ {f} : a.ins[g] = p.ins[g]
  BY AdmittedSteady
<1> HIDE DEF a, p
<1>2. /\ Steady(u) /\ u.unsat = a.unsat /\ u.ins = a.ins /\ u.on = a.on
      /\ u.rep = a.rep /\ u.bld = a.bld
  BY <1>1, UpdateOutSteady
<1> HIDE DEF u
<1>3. /\ Sound(m) /\ m.ins = u.ins /\ m.on = u.on /\ m.rep = u.rep /\ m.bld = u.bld
  BY <1>1, <1>2, RejectSound
<1> HIDE DEF m
<1>4. /\ Sound(m) /\ m.on /\ m.rep = p.rep /\ m.bld = p.bld
      /\ \A g \in Face \ {f} : m.ins[g] = p.ins[g]
  BY <1>1, <1>2, <1>3
<1> QED BY <1>4 DEF m, u, a, p

\* Data on a persistent entry leaves its in-records and no timer, on any other
\* entry no in-record and a straggler.
LEMMA SatisfySound ==
  ASSUME NEW p, Sound(p), p.on, NEW f \in Face, NEW s \in Seqno
  PROVE  /\ Sound(Satisfy(p, f, s)) /\ Satisfy(p, f, s).on
         /\ p.rep = "push" => Satisfy(p, f, s).ins = p.ins
         /\ p.rep # "push" => Satisfy(p, f, s).bld = p.bld
<1> DEFINE a == addSequenceNumber(p, s)
           q == cancelTimers(a)
<1>1. p \in Shape /\ ShowsSeen(p)
  BY DEF Sound, Steady
<1>2. CASE p.rep = "push"
  <2>1. /\ Add(p.bld, s) \in Vector
        /\ Size > 1 => Add(p.bld, s).bits # {}
        /\ Add(p.bld, s).bits = {} => Add(p.bld, s).highest = 0
    BY <1>1, AddTyped, AddShows DEF Shape, ShowsSeen
  <2> DEFINE v == Add(p.bld, s)
  <2>2. a = [p EXCEPT !.bld = v]
    BY <1>2 DEF addSequenceNumber
  <2> HIDE DEF v
  <2>3. a \in Shape
    BY <1>1, <2>1, <2>2 DEF Shape, v
  <2>4. /\ a.bld = v /\ a.ins = p.ins /\ a.on = p.on /\ a.rep = p.rep
        /\ a.unsat = p.unsat /\ a.strag = p.strag /\ a.satisfied = p.satisfied
    BY <1>1, <2>2 DEF Shape
  <2>5. Steady(a)
    BY <2>1, <2>3, <2>4
       DEF v, Sound, Steady, UnsatCovers, StragglerServed, OneTimer, ShowsSeen
  <2> HIDE DEF a
  <2>6. /\ Steady(q) /\ q.on = a.on /\ q.rep = a.rep /\ q.bld = a.bld /\ q.ins = a.ins
    BY <2>5, CancelSteady
  <2>7. Satisfy(p, f, s) = q
    BY <1>2 DEF Satisfy, q, a
  <2> HIDE DEF q
  <2> QED BY <1>2, <2>1, <2>4, <2>6, <2>7 DEF v, Sound, TimerOrPush
<1>3. CASE p.rep # "push"
  <2> DEFINE c == DeleteOut(ClearIn(q), f)
             r == setStragglerTimer(c, TRUE)
  <2>1. a = p
    BY <1>3 DEF addSequenceNumber
  <2>2. Steady(q) /\ q.unsat = Off /\ q.strag = Off /\ q.on /\ q.bld = p.bld
    BY <2>1, CancelSteady DEF Sound
  <2> HIDE DEF q, a
  <2>3. q \in Shape
    BY <2>2 DEF Steady
  <2>4. ClearIn(q) \in Shape
    BY <2>3, RecordTimes DEF ClearIn, Shape, NoRecords
  <2>5. c \in Shape
    BY <2>4, RecordTimes DEF DeleteOut, Shape
  <2>6. /\ c.ins = NoRecords /\ c.on = q.on /\ c.bld = q.bld /\ c.unsat = q.unsat
        /\ c.strag = q.strag
    BY <2>3 DEF ClearIn, DeleteOut, Shape
  <2> HIDE DEF c
  <2>7. \A g \in Face : c.ins[g].left = Absent
    BY <2>6 DEF NoRecords, NoRecord
  <2>8. Steady(c)
    BY <2>2, <2>5, <2>6, <2>7
       DEF Steady, UnsatCovers, StragglerServed, OneTimer, ShowsSeen
  <2>9. Steady(r) /\ r.strag # Off /\ r.on /\ r.bld = p.bld
    BY <2>2, <2>6, <2>7, <2>8, StragglerSteady
  <2>10. Satisfy(p, f, s) = r
    BY <1>3 DEF Satisfy, r, c, q, a
  <2> HIDE DEF r
  <2> QED BY <1>3, <2>9, <2>10 DEF Sound, TimerOrPush, HasTimer
<1> QED BY <1>2, <1>3

LEMMA NackSound ==
  ASSUME NEW p, Sound(p), NEW f \in Face, p.outs[f].left # Absent
  PROVE  LET q == [p EXCEPT !.outs[f].nacked = TRUE] IN
         Sound(q) /\ q.on = p.on /\ q.ins = p.ins /\ q.bld = p.bld
<1> DEFINE r == [p.outs[f] EXCEPT !.nacked = TRUE]
           o == [p.outs EXCEPT ![f] = r]
           q == [p EXCEPT !.outs = o]
<1>1. p \in Shape
  BY DEF Sound, Steady
<1>2. r \in Record
  <2>1. p.outs[f] \in Record /\ p.outs[f] # NoRecord
    BY <1>1 DEF Shape, NoRecord
  <2> QED BY <2>1 DEF Record
<1>3. [p EXCEPT !.outs[f].nacked = TRUE] = q
  BY <1>1 DEF Shape
<1> HIDE DEF r
<1>4. o \in [Face -> Record]
  BY <1>1, <1>2 DEF Shape
<1> HIDE DEF o
<1>5. q \in Shape
  BY <1>1, <1>4 DEF Shape
<1>6. /\ q.on = p.on /\ q.rep = p.rep /\ q.ins = p.ins /\ q.bld = p.bld
      /\ q.unsat = p.unsat /\ q.strag = p.strag /\ q.satisfied = p.satisfied
  BY <1>1 DEF Shape
<1> HIDE DEF q
<1>7. Sound(q)
  BY <1>5, <1>6 DEF Sound, Steady, UnsatCovers, StragglerServed, OneTimer, ShowsSeen,
                    TimerOrPush, HasTimer
<1> QED BY <1>3, <1>6, <1>7

\* A tick, no timer being due.
Older(p) == [p EXCEPT !.ins   = [g \in Face |-> Aged(@[g])],
                      !.outs  = [g \in Face |-> Aged(@[g])],
                      !.unsat = Ticked(@),
                      !.strag = Ticked(@)]

LEMMA AgedTyped ==
  ASSUME NEW r \in Record
  PROVE  /\ Aged(r) \in Record
         /\ Aged(r).left = IF r.left > Past THEN r.left - 1 ELSE r.left
<1>1. CASE r = NoRecord
  BY <1>1 DEF Aged, NoRecord, Past, Absent, Record
<1>2. CASE r # NoRecord
  BY <1>2, ForwarderAssumption DEF Aged, Past, Record
<1> QED BY <1>1, <1>2

LEMMA OlderSound ==
  ASSUME NEW p, Sound(p), p.unsat # 0, p.strag # 0
  PROVE  /\ Sound(Older(p)) /\ Older(p).on = p.on /\ Older(p).bld = p.bld
         /\ \A g \in Face : Older(p).ins[g] = Aged(p.ins[g])
<1> DEFINE i == [g \in Face |-> Aged(p.ins[g])]
           o == [g \in Face |-> Aged(p.outs[g])]
<1>1. p \in Shape
  BY DEF Sound, Steady
<1>2. i \in [Face -> Record] /\ o \in [Face -> Record]
  BY <1>1, AgedTyped DEF Shape
<1>3. /\ Ticked(p.unsat) \in Off .. MaxLife
      /\ Ticked(p.strag) \in Off .. Straggler
      /\ Ticked(p.unsat) = Off <=> p.unsat = Off
      /\ Ticked(p.strag) = Off <=> p.strag = Off
  <2>1. p.unsat \in Off .. MaxLife /\ p.strag \in Off .. Straggler
    BY <1>1 DEF Shape
  <2> QED BY <2>1, ForwarderAssumption DEF Ticked, Off, Sound
<1>4. Older(p) = [p EXCEPT !.ins = i, !.outs = o, !.unsat = Ticked(p.unsat),
                           !.strag = Ticked(p.strag)]
  BY <1>1, SMT DEF Older, Shape
<1>5. \A g \in Face : i[g] = Aged(p.ins[g])
  OBVIOUS
<1>6. UnsatCovers(p) => (Ticked(p.unsat) # Off =>
                           \A g \in Face : i[g].left <= Ticked(p.unsat))
  <2> SUFFICES ASSUME UnsatCovers(p), Ticked(p.unsat) # Off, NEW g \in Face
               PROVE  i[g].left <= Ticked(p.unsat)
    OBVIOUS
  <2>1. p.unsat # Off /\ p.ins[g].left <= p.unsat
    BY <1>3 DEF UnsatCovers
  <2>2. p.ins[g] \in Record /\ p.unsat \in Off .. MaxLife
    BY <1>1 DEF Shape
  <2>3. p.ins[g].left \in Absent .. MaxLife
    BY <2>2, RecordTimes
  <2>4. Aged(p.ins[g]).left = IF p.ins[g].left > Past THEN p.ins[g].left - 1
                                                      ELSE p.ins[g].left
    BY <2>2, AgedTyped
  <2>5. Ticked(p.unsat) = p.unsat - 1 /\ p.unsat > 0
    BY <2>1, <2>2, ForwarderAssumption DEF Ticked, Off
  <2> QED BY <1>5, <2>1, <2>2, <2>3, <2>4, <2>5, ForwarderAssumption DEF Past, Absent, Off
<1>7. (\A g \in Face : p.ins[g].left = Absent) => \A g \in Face : i[g].left = Absent
  BY <1>1, AgedTyped DEF Absent, Past, Shape
<1> HIDE DEF i, o
<1>8. Older(p) \in Shape
  BY <1>1, <1>2, <1>3, <1>4 DEF Shape
<1>9. /\ Older(p).on = p.on /\ Older(p).rep = p.rep /\ Older(p).bld = p.bld
      /\ Older(p).satisfied = p.satisfied /\ Older(p).ins = i
      /\ Older(p).unsat = Ticked(p.unsat) /\ Older(p).strag = Ticked(p.strag)
  BY <1>1, <1>4 DEF Shape
<1>10. Sound(Older(p))
  BY <1>3, <1>6, <1>7, <1>8, <1>9
     DEF Sound, Steady, UnsatCovers, StragglerServed, OneTimer, ShowsSeen, TimerOrPush,
         HasTimer
<1> QED BY <1>5, <1>9, <1>10

-----------------------------------------------------------------------------
(***************************************************************************)
(* The inductive invariant.                                                *)
(***************************************************************************)
Live(p) == Sound(p) /\ (p.on \/ p = Gone)

LEMMA LiveTyped ==
  ASSUME NEW p, Live(p)
  PROVE  p \in PitEntry \cup {Gone}
<1>1. CASE p = Gone
  BY <1>1
<1>2. CASE p.on /\ p # Gone
  <2>1. p \in Shape /\ p.on = TRUE
    BY <1>2 DEF Live, Sound, Steady, Shape
  <2> QED BY <2>1 DEF Shape, PitEntry
<1> QED BY <1>1, <1>2 DEF Live

LEMMA EntryLive ==
  ASSUME IInv, NEW e \in Entry
  PROVE  Live(pit[e])
<1>1. pit[e] \in PitEntry \cup {Gone}
  BY DEF IInv, TypeOK
<1>2. pit[e] \in PitEntry => pit[e].on
  BY DEF PitEntry
<1> QED BY <1>1, <1>2 DEF Live, IInv

\* The invariant of a PIT whose every entry is live.
LEMMA AllLive ==
  ASSUME NEW q, q = [e \in Entry |-> q[e]], \A e \in Entry : Live(q[e])
  PROVE  q \in [Entry -> PitEntry \cup {Gone}] /\ \A e \in Entry : Sound(q[e])
BY LiveTyped DEF Live

LEMMA DeadNonces ==
  ASSUME IInv
  PROVE  /\ \A entries \in SUBSET Entry, f \in Face :
              DeadAfterData(entries, f) \subseteq Entry \X Nonce
         /\ \A e \in Entry, b \in BOOLEAN : DeadOnFinalize(e, b) \subseteq Entry \X Nonce
<1>1. ASSUME NEW e \in Entry, NEW f \in Face, pit[e].outs[f].left # Absent
      PROVE  pit[e].outs[f].nonce \in Nonce
  <2>1. pit[e].outs[f] \in Record
    BY DEF IInv, Sound, Steady, Shape
  <2> QED BY <1>1, <2>1 DEF Record, NoRecord
<1> QED BY <1>1 DEF DeadAfterData, DeadOnFinalize, Present

\* One entry of the PIT becomes another live one.
LEMMA OneChanges ==
  ASSUME IInv, NEW e \in Entry, NEW p, Live(p), pit' = [pit EXCEPT ![e] = p],
         dnl' \subseteq Entry \X Nonce, cached' \in BOOLEAN, quiet' \in BOOLEAN
  PROVE  IInv'
<1>1. \A d \in Entry : Live(pit'[d])
  BY EntryLive DEF IInv, TypeOK
<1>2. pit' = [d \in Entry |-> pit'[d]]
  BY DEF IInv, TypeOK
<1> QED BY <1>1, <1>2, AllLive DEF IInv, TypeOK

LEMMA NoneChanges ==
  ASSUME IInv, UNCHANGED pit,
         dnl' \subseteq Entry \X Nonce, cached' \in BOOLEAN, quiet' \in BOOLEAN
  PROVE  IInv'
BY DEF IInv, TypeOK

LEMMA FinalizeKeepsIInv ==
  ASSUME IInv, NEW e \in Entry, NEW b \in BOOLEAN, onInterestFinalize(e, b)
  PROVE  IInv'
<1>1. dnl' \subseteq Entry \X Nonce
  BY DeadNonces DEF onInterestFinalize, IInv, TypeOK
<1> QED BY <1>1, GoneSound, OneChanges DEF onInterestFinalize, Live, IInv, TypeOK

LEMMA DataKeepsIInv ==
  ASSUME IInv, NEW f \in Face, NEW isPush \in BOOLEAN, NEW s \in Seqno,
         DataMatched(f, isPush, s)
  PROVE  IInv'
<1>1. PICK visited \in SUBSET Matches :
        /\ pit' = [e \in Entry |->
                     IF e \in visited THEN Satisfy(pit[e], f, s) ELSE pit[e]]
        /\ dnl' = dnl \cup DeadAfterData(visited, f)
  BY DEF DataMatched
<1>2. ASSUME NEW e \in Entry PROVE Live(pit'[e])
  <2>1. e \in visited => pit[e].on
    BY DEF Matches
  <2>2. e \in visited => Live(Satisfy(pit[e], f, s))
    BY <2>1, EntryLive, SatisfySound DEF Live
  <2> QED BY <1>1, <2>2, EntryLive
<1>3. dnl' \subseteq Entry \X Nonce
  BY <1>1, DeadNonces DEF IInv, TypeOK, Matches
<1>4. pit' = [e \in Entry |-> pit'[e]]
  BY <1>1
<1>5. cached' \in BOOLEAN /\ quiet' \in BOOLEAN
  BY DEF DataMatched, IInv, TypeOK
<1> QED BY <1>2, <1>3, <1>4, <1>5, AllLive DEF IInv, TypeOK

LEMMA OlderGone == Older(Gone) = Gone
<1>1. Aged(NoRecord) = NoRecord /\ Ticked(Off) = Off
  BY DEF Aged, NoRecord, Past, Absent, Ticked
<1>2. [g \in Face |-> Aged(NoRecords[g])] = NoRecords
  BY <1>1 DEF NoRecords
<1>3. /\ Gone \in Shape /\ Gone.ins = NoRecords /\ Gone.outs = NoRecords
      /\ Gone.unsat = Off /\ Gone.strag = Off
  BY GoneSound DEF Gone, NewEntry, Sound, Steady
<1>4. Older(Gone) = [Gone EXCEPT !.ins   = [g \in Face |-> Aged(Gone.ins[g])],
                                 !.outs  = [g \in Face |-> Aged(Gone.outs[g])],
                                 !.unsat = Ticked(Gone.unsat),
                                 !.strag = Ticked(Gone.strag)]
  BY <1>3, SMT DEF Older, Shape
<1>5. Older(Gone) = [Gone EXCEPT !.ins = Gone.ins, !.outs = Gone.outs,
                                 !.unsat = Gone.unsat, !.strag = Gone.strag]
  BY <1>1, <1>2, <1>3, <1>4
<1> QED BY <1>5, Zenon DEF Gone, NewEntry

LEMMA TickKeepsIInv ==
  ASSUME IInv, Tick
  PROVE  IInv'
<1>1. pit' = [e \in Entry |-> Older(pit[e])]
  BY DEF Tick, Older
<1>2. ASSUME NEW e \in Entry PROVE Live(pit'[e])
  <2>1. pit[e].unsat # 0 /\ pit[e].strag # 0 /\ Sound(pit[e])
    BY EntryLive DEF Tick, Live
  <2>2. Sound(Older(pit[e])) /\ Older(pit[e]).on = pit[e].on
    BY <2>1, OlderSound
  <2>3. pit[e] = Gone => Older(pit[e]) = Gone
    BY OlderGone
  <2> QED BY <1>1, <2>2, <2>3, EntryLive DEF Live
<1> QED BY <1>1, <1>2, AllLive DEF IInv, TypeOK, Tick

LEMMA InterestKeepsIInv ==
  ASSUME IInv, NEW f \in Face, NEW e \in Entry, NEW kind \in Kind, NEW n \in Nonce
  PROVE  /\ InterestHit(f, e, kind, n) => IInv'
         /\ \A life \in 1 .. MaxLife : InterestMiss(f, e, kind, n, life) => IInv'
<1>1. ASSUME InterestHit(f, e, kind, n) PROVE IInv'
  <2> DEFINE h == setStragglerTimer(cancelTimers(EntryFor(e, kind)), TRUE)
  <2>1. pit' = [pit EXCEPT ![e] = h] /\ UNCHANGED <<dnl, cached, quiet>>
    BY <1>1 DEF InterestHit
  <2>2. ~ IsPending(EntryFor(e, kind))
    BY <1>1 DEF InterestHit
  <2>3. Live(h)
    BY <2>2, HitSound DEF Live
  <2> HIDE DEF h
  <2> QED BY <2>1, <2>3, OneChanges DEF IInv, TypeOK
<1>2. ASSUME NEW life \in 1 .. MaxLife, InterestMiss(f, e, kind, n, life) PROVE IInv'
  <2> DEFINE a == Admitted(f, e, kind, n, life)
             m == RejectUnlessPending(UpdateOut(a, Nexthops(a), n, life))
  <2>1. pit' = [pit EXCEPT ![e] = m] /\ UNCHANGED <<dnl, cached, quiet>>
    BY <1>2 DEF InterestMiss
  <2>2. Live(m)
    BY MissSound DEF Live
  <2> HIDE DEF m
  <2> QED BY <2>1, <2>2, OneChanges DEF IInv, TypeOK
<1> QED BY <1>1, <1>2

\* Every pipeline, timer and tick keeps every entry sound.
THEOREM IInvHolds == Spec => []IInv
<1>1. Init => IInv
  BY GoneSound, AllLive DEF Init, IInv, TypeOK, Live
<1>2. IInv /\ [Next]_vars => IInv'
  <2> SUFFICES ASSUME IInv, [Next]_vars PROVE IInv'
    OBVIOUS
  <2>1. CASE Interests
    <3>1. ASSUME NEW f \in Face, NEW e \in Entry, NEW n \in Nonce, InterestLoop(f, e, n)
          PROVE  IInv'
      BY <3>1, NoneChanges DEF InterestLoop, IInv, TypeOK
    <3> QED BY <2>1, <3>1, InterestKeepsIInv DEF Interests
  <2>2. CASE Datas
    <3>1. ASSUME NEW f \in Face, NEW s \in Seqno, DataUnsolicited(f, s) PROVE IInv'
      BY <3>1, NoneChanges DEF DataUnsolicited, IInv, TypeOK
    <3> QED BY <2>2, <3>1, DataKeepsIInv DEF Datas
  <2>3. CASE Nacks
    <3>1. ASSUME NEW f \in Face, NEW e \in Entry, NEW n \in Nonce, ReceiveNack(f, e, n)
          PROVE  IInv'
      <4> DEFINE q == [pit[e] EXCEPT !.outs[f].nacked = TRUE]
      <4>1. pit' = [pit EXCEPT ![e] = q] /\ UNCHANGED <<dnl, cached, quiet>>
        BY <3>1 DEF ReceiveNack, IInv, TypeOK
      <4>2. Live(q)
        BY <3>1, EntryLive, NackSound DEF ReceiveNack, Live
      <4> HIDE DEF q
      <4> QED BY <4>1, <4>2, OneChanges DEF IInv, TypeOK
    <3> QED BY <2>3, <3>1 DEF Nacks
  <2>4. CASE Timers
    <3>1. ASSUME NEW e \in Entry, InterestUnsatisfied(e) PROVE IInv'
      BY <3>1, FinalizeKeepsIInv DEF InterestUnsatisfied
    <3>2. ASSUME NEW e \in Entry, StragglerExpires(e) PROVE IInv'
      <4>1. pit[e].satisfied \in BOOLEAN
        BY DEF IInv, Sound, Steady, Shape
      <4> QED BY <3>2, <4>1, FinalizeKeepsIInv DEF StragglerExpires
    <3> QED BY <2>4, <3>1, <3>2 DEF Timers
  <2>5. CASE Tick
    BY <2>5, TickKeepsIInv
  <2>6. CASE ForgetNonce \/ EvictData \/ FallSilent
    BY <2>6, NoneChanges DEF ForgetNonce, EvictData, FallSilent, IInv, TypeOK
  <2>7. CASE UNCHANGED vars
    BY <2>7, NoneChanges DEF vars, IInv, TypeOK
  <2> QED BY <2>1, <2>2, <2>3, <2>4, <2>5, <2>6, <2>7 DEF Next
<1> QED BY <1>1, <1>2, PTL DEF Spec

-----------------------------------------------------------------------------
(***************************************************************************)
(* The theorems.                                                           *)
(***************************************************************************)

\* The PIT, the dead nonce list and every timer stay what they are.
THEOREM TypeCorrect == Spec => []TypeOK
<1>1. IInv => TypeOK
  BY DEF IInv
<1> QED BY <1>1, IInvHolds, PTL

\* The unsatisfy and the straggler timer of an entry are never both set.
THEOREM AtMostOneTimerHolds == Spec => []AtMostOneTimer
<1>1. IInv => AtMostOneTimer
  BY DEF IInv, Sound, Steady, OneTimer, AtMostOneTimer
<1> QED BY <1>1, IInvHolds, PTL

\* Only Data on a persistent entry leaves an entry without a timer.
THEOREM TimerlessOnlyAfterPushDataHolds == Spec => []TimerlessOnlyAfterPushData
<1>1. IInv => TimerlessOnlyAfterPushData
  BY DEF IInv, Sound, TimerOrPush, TimerlessOnlyAfterPushData
<1> QED BY <1>1, IInvHolds, PTL

-----------------------------------------------------------------------------
(***************************************************************************)
(* What a step may do to an entry that is there.                           *)
(***************************************************************************)
Kept(e)    == pit'[e].on /\ pit'[e].ins = pit[e].ins /\ pit'[e].bld = pit[e].bld
Renewed(e) == /\ pit'[e].on /\ pit'[e].bld = pit[e].bld
              /\ io'.in.type = "interest"
              /\ \E f \in Face : /\ io'.in = Packet("interest", f)
                                 /\ \A g \in Face \ {f} : pit'[e].ins[g] = pit[e].ins[g]
GetsData(e) == /\ pit'[e].on
               /\ pit[e].rep = "push" => pit'[e].ins = pit[e].ins
               /\ \A g \in Face : pit[e].ins[g].left > 0 =>
                    g = io'.in.face \/ Packet("data", g) \in io'.sent \/ CutShort
Aging(e)   == /\ pit'[e].on /\ pit'[e].bld = pit[e].bld
              /\ \A g \in Face : pit'[e].ins[g] = Aged(pit[e].ins[g])
Erased(e)  == /\ ~ pit'[e].on
              /\ io'.in.type = "none"
              /\ pit[e].unsat = 0 \/ pit[e].strag = 0

Steps(e) == Kept(e) \/ Renewed(e) \/ GetsData(e) \/ Aging(e) \/ Erased(e)

\* An entry is where its last Interest left it, or an Interest is at it now.
LEMMA InterestSteps ==
  ASSUME IInv, NEW e \in Entry, pit[e].on, Interests
  PROVE  Kept(e) \/ Renewed(e)
<1>1. ASSUME NEW f \in Face, NEW d \in Entry, NEW n \in Nonce, InterestLoop(f, d, n)
      PROVE  Kept(e)
  BY <1>1 DEF InterestLoop, Kept
<1>2. ASSUME NEW f \in Face, NEW d \in Entry, NEW n \in Nonce, NEW kind \in Kind,
             InterestHit(f, d, kind, n)
      PROVE  Kept(e)
  <2> DEFINE h == setStragglerTimer(cancelTimers(EntryFor(d, kind)), TRUE)
  <2>1. pit' = [pit EXCEPT ![d] = h] /\ ~ IsPending(EntryFor(d, kind))
    BY <1>2 DEF InterestHit
  <2>2. h.on /\ h.ins = EntryFor(d, kind).ins /\ h.bld = EntryFor(d, kind).bld
    BY <2>1, HitSound
  <2> HIDE DEF h
  <2>3. CASE d = e
    BY <2>1, <2>2, <2>3 DEF EntryFor, Kept, IInv, TypeOK
  <2>4. CASE d # e
    BY <2>1, <2>4 DEF Kept, IInv, TypeOK
  <2> QED BY <2>3, <2>4
<1>3. ASSUME NEW f \in Face, NEW d \in Entry, NEW n \in Nonce, NEW kind \in Kind,
             NEW life \in 1 .. MaxLife, InterestMiss(f, d, kind, n, life)
      PROVE  Kept(e) \/ Renewed(e)
  <2> DEFINE a == Admitted(f, d, kind, n, life)
             m == RejectUnlessPending(UpdateOut(a, Nexthops(a), n, life))
  <2>1. pit' = [pit EXCEPT ![d] = m] /\ io'.in = Packet("interest", f)
    BY <1>3 DEF InterestMiss, Got
  <2>2. /\ m.on /\ m.bld = EntryFor(d, kind).bld
        /\ \A g \in Face \ {f} : m.ins[g] = EntryFor(d, kind).ins[g]
    BY MissSound
  <2> HIDE DEF m
  <2>3. CASE d = e
    BY <2>1, <2>2, <2>3 DEF EntryFor, Renewed, Packet, IInv, TypeOK
  <2>4. CASE d # e
    BY <2>1, <2>4 DEF Kept, IInv, TypeOK
  <2> QED BY <2>3, <2>4
<1> QED BY <1>1, <1>2, <1>3 DEF Interests

\* Data that no entry takes for a loop goes to every pending face.
LEMMA DataSteps ==
  ASSUME IInv, NEW e \in Entry, pit[e].on, NEW f \in Face, NEW isPush \in BOOLEAN,
         NEW s \in Seqno, DataMatched(f, isPush, s)
  PROVE  GetsData(e)
<1> DEFINE looping == {d \in Matches : isLooping(pit[d], s)}
<1>1. PICK visited \in SUBSET (Matches \ looping) :
        /\ looping = {} => visited = Matches
        /\ pit' = [d \in Entry |->
                     IF d \in visited THEN Satisfy(pit[d], f, s) ELSE pit[d]]
        /\ io' = [in |-> Packet("data", f), seq |-> s, sent |->
                    IF looping # {} THEN {}
                    ELSE {Packet("data", g) : g \in pendingDownstreams(visited) \ {f}}]
  BY DEF DataMatched
<1>2. /\ Satisfy(pit[e], f, s).on
      /\ pit[e].rep = "push" => Satisfy(pit[e], f, s).ins = pit[e].ins
  BY SatisfySound DEF IInv
<1>3. pit'[e].on /\ (pit[e].rep = "push" => pit'[e].ins = pit[e].ins)
  BY <1>1, <1>2
<1>4. ASSUME NEW g \in Face, pit[e].ins[g].left > 0
      PROVE  g = io'.in.face \/ Packet("data", g) \in io'.sent \/ CutShort
  <2>1. CASE looping # {}
    BY <2>1, <1>1 DEF CutShort, Matches
  <2>2. CASE looping = {}
    <3>1. e \in visited
      BY <2>2, <1>1 DEF Matches
    <3>2. g \in pendingDownstreams(visited)
      BY <3>1, <1>4 DEF pendingDownstreams
    <3>3. io'.in.face = f
      BY <1>1 DEF Packet
    <3>4. io'.sent = {Packet("data", h) : h \in pendingDownstreams(visited) \ {f}}
      BY <1>1, <2>2
    <3> QED BY <3>2, <3>3, <3>4
  <2> QED BY <2>1, <2>2
<1> QED BY <1>3, <1>4 DEF GetsData

LEMMA StepOnEntry ==
  ASSUME IInv, [Next]_vars, NEW e \in Entry, pit[e].on
  PROVE  Steps(e)
<1>1. CASE Interests
  BY <1>1, InterestSteps DEF Steps
<1>2. CASE Datas
  <2>1. ASSUME NEW f \in Face, NEW s \in Seqno, DataUnsolicited(f, s) PROVE Kept(e)
    BY <2>1 DEF DataUnsolicited, Kept
  <2> QED BY <1>2, <2>1, DataSteps DEF Datas, Steps
<1>3. CASE Nacks
  <2>1. PICK f \in Face, d \in Entry, n \in Nonce : ReceiveNack(f, d, n)
    BY <1>3 DEF Nacks
  <2> DEFINE q == [pit[d] EXCEPT !.outs[f].nacked = TRUE]
  <2>2. pit' = [pit EXCEPT ![d] = q]
    BY <2>1 DEF ReceiveNack, IInv, TypeOK
  <2>3. q.on = pit[d].on /\ q.ins = pit[d].ins /\ q.bld = pit[d].bld
    BY <2>1, NackSound DEF ReceiveNack, IInv
  <2> HIDE DEF q
  <2> QED BY <2>2, <2>3 DEF Steps, Kept, IInv, TypeOK
<1>4. CASE Timers
  <2>1. PICK d \in Entry : InterestUnsatisfied(d) \/ StragglerExpires(d)
    BY <1>4 DEF Timers
  <2>2. /\ pit' = [pit EXCEPT ![d] = Gone] /\ io' = Silent
        /\ pit[d].unsat = 0 \/ pit[d].strag = 0
    BY <2>1 DEF InterestUnsatisfied, StragglerExpires, onInterestFinalize
  <2>3. ~ Gone.on /\ Silent.in.type = "none"
    BY DEF Gone, NewEntry, Silent, Packet
  <2>4. CASE d = e
    BY <2>2, <2>3, <2>4 DEF Steps, Erased, IInv, TypeOK
  <2>5. CASE d # e
    BY <2>2, <2>5 DEF Steps, Kept, IInv, TypeOK
  <2> QED BY <2>4, <2>5
<1>5. CASE Tick
  <2>1. /\ pit'[e] = Older(pit[e])
        /\ pit[e].unsat # 0 /\ pit[e].strag # 0
    BY <1>5 DEF Tick, Older
  <2> QED BY <2>1, OlderSound DEF IInv, Steps, Aging
<1>6. CASE ForgetNonce \/ EvictData \/ FallSilent \/ UNCHANGED vars
  BY <1>6 DEF ForgetNonce, EvictData, FallSilent, vars, Steps, Kept
<1> QED BY <1>1, <1>2, <1>3, <1>4, <1>5, <1>6 DEF Next

\* A deadline of an entry comes after every record it covers has expired.
LEMMA ErasedServed ==
  ASSUME IInv, NEW e \in Entry, pit[e].unsat = 0 \/ pit[e].strag = 0
  PROVE  Rejected(pit[e]) \/ \A g \in Face : pit[e].ins[g].left <= 0
<1>1. UnsatCovers(pit[e]) /\ StragglerServed(pit[e])
  BY DEF IInv, Sound, Steady
<1>2. CASE pit[e].unsat = 0
  BY <1>1, <1>2 DEF UnsatCovers, Off
<1>3. CASE pit[e].strag = 0 /\ pit[e].satisfied
  BY <1>1, <1>3 DEF StragglerServed, Off, Absent
<1>4. CASE pit[e].strag = 0 /\ ~ pit[e].satisfied
  BY <1>4 DEF Rejected
<1> QED BY <1>2, <1>3, <1>4

\* The in-records of an entry that is there hold times, and only an entry
\* that is there has any.
LEMMA PendingEntry ==
  ASSUME IInv, NEW e \in Entry, NEW g \in Face
  PROVE  /\ pit[e].ins[g] \in Record /\ pit[e].ins[g].left \in Absent .. MaxLife
         /\ pit[e].ins[g].left > 0 => pit[e].on
<1>1. pit[e].ins[g] \in Record
  BY DEF IInv, Sound, Steady, Shape
<1>2. Gone.ins[g].left = Absent
  BY DEF Gone, NewEntry, NoRecords, NoRecord
<1> QED BY <1>1, <1>2, RecordTimes, EntryLive DEF Live, Absent

\* A pending in-record one tick older is one tick shorter.
LEMMA PendingAged ==
  ASSUME IInv, NEW e \in Entry, NEW g \in Face, pit[e].ins[g].left > 0
  PROVE  /\ Aged(pit[e].ins[g]).left = pit[e].ins[g].left - 1
         /\ Aged(pit[e].ins[g]).left # Absent
BY PendingEntry, AgedTyped, ForwarderAssumption DEF Past, Absent

-----------------------------------------------------------------------------
(***************************************************************************)
(* The action properties.                                                  *)
(***************************************************************************)

\* A persistent subscription lasts its lifetime, whatever arrives.
THEOREM PersistentInterestPersistsHolds == Spec => PersistentInterestPersists
<1> DEFINE A == \A e \in Entry, g \in Face :
                  pit[e].on /\ pit[e].rep = "push" /\ pit[e].ins[g].left > 0 =>
                    \/ pit'[e].on /\ pit'[e].ins[g].left >= pit[e].ins[g].left - 1
                    \/ Rejected(pit[e])
                    \/ io'.in = Packet("interest", g)
<1>1. ASSUME IInv, [Next]_vars PROVE A
  <2> SUFFICES ASSUME NEW e \in Entry, NEW g \in Face,
                      pit[e].on, pit[e].rep = "push", pit[e].ins[g].left > 0,
                      ~ Rejected(pit[e]), io'.in # Packet("interest", g)
               PROVE  pit'[e].on /\ pit'[e].ins[g].left >= pit[e].ins[g].left - 1
    OBVIOUS
  <2>1. Steps(e)
    BY <1>1, StepOnEntry
  <2>2. pit[e].ins[g].left \in Int
    BY <1>1, PendingEntry, ForwarderAssumption DEF Absent
  <2>3. CASE Kept(e) \/ GetsData(e)
    BY <2>2, <2>3 DEF Kept, GetsData
  <2>4. CASE Renewed(e)
    BY <2>2, <2>4 DEF Renewed
  <2>5. CASE Aging(e)
    BY <1>1, <2>2, <2>5, PendingAged DEF Aging
  <2>6. CASE Erased(e)
    BY <1>1, <2>2, <2>6, ErasedServed DEF Erased
  <2> QED BY <2>1, <2>3, <2>4, <2>5, <2>6 DEF Steps
<1>2. IInv /\ [Next]_vars => [A]_vars
  BY <1>1
<1> QED BY <1>2, IInvHolds, PTL DEF Spec, PersistentInterestPersists

\* An entry is deleted only when no subscription in it is left unserved.
THEOREM LiveSubscriptionNeverErasedHolds == Spec => LiveSubscriptionNeverErased
<1> DEFINE A == \A e \in Entry :
                  pit[e].on /\ ~ pit'[e].on =>
                    Rejected(pit[e]) \/ \A g \in Face : pit[e].ins[g].left <= 0
<1>1. ASSUME IInv, [Next]_vars PROVE A
  <2> SUFFICES ASSUME NEW e \in Entry, pit[e].on, ~ pit'[e].on
               PROVE  Rejected(pit[e]) \/ \A g \in Face : pit[e].ins[g].left <= 0
    OBVIOUS
  <2>1. Erased(e)
    BY <1>1, StepOnEntry DEF Steps, Kept, Renewed, GetsData, Aging
  <2> QED BY <1>1, <2>1, ErasedServed DEF Erased
<1>2. IInv /\ [Next]_vars => [A]_vars
  BY <1>1
<1> QED BY <1>2, IInvHolds, PTL DEF Spec, LiveSubscriptionNeverErased

\* A pending Interest leaves the PIT with the Data it asked for.
THEOREM PendingInterestNotLostHolds == Spec => PendingInterestNotLost
<1> DEFINE A == \A e \in Entry, g \in Face :
                  io'.in.type = "data" /\ pit[e].ins[g].left > 0
                  /\ pit'[e].ins[g].left = Absent =>
                    \/ g = io'.in.face
                    \/ Packet("data", g) \in io'.sent
                    \/ CutShort
<1>1. ASSUME IInv, [Next]_vars PROVE A
  <2> SUFFICES ASSUME NEW e \in Entry, NEW g \in Face, io'.in.type = "data",
                      pit[e].ins[g].left > 0, pit'[e].ins[g].left = Absent
               PROVE  g = io'.in.face \/ Packet("data", g) \in io'.sent \/ CutShort
    OBVIOUS
  <2>1. Steps(e)
    BY <1>1, PendingEntry, StepOnEntry
  <2>2. ~ Kept(e)
    BY DEF Kept, Absent
  <2>3. ~ Renewed(e) /\ ~ Erased(e)
    BY DEF Renewed, Erased
  <2>4. ~ Aging(e)
    BY <1>1, PendingAged DEF Aging
  <2> QED BY <2>1, <2>2, <2>3, <2>4 DEF Steps, GetsData
<1>2. IInv /\ [Next]_vars => [A]_vars
  BY <1>1
<1> QED BY <1>2, IInvHolds, PTL DEF Spec, PendingInterestNotLost

\* A sequence number an entry marks as seen goes to all its subscribers.
THEOREM RecordedDataIsSentHolds == Spec => RecordedDataIsSent
<1> DEFINE A == \A e \in Entry, g \in Face :
                  pit[e].on /\ pit'[e].on /\ pit'[e].bld # pit[e].bld
                  /\ pit[e].ins[g].left > 0 =>
                    \/ g = io'.in.face
                    \/ Packet("data", g) \in io'.sent
                    \/ CutShort
<1>1. ASSUME IInv, [Next]_vars PROVE A
  <2> SUFFICES ASSUME NEW e \in Entry, NEW g \in Face, pit[e].on, pit'[e].on,
                      pit'[e].bld # pit[e].bld, pit[e].ins[g].left > 0
               PROVE  g = io'.in.face \/ Packet("data", g) \in io'.sent \/ CutShort
    OBVIOUS
  <2>1. GetsData(e)
    BY <1>1, StepOnEntry DEF Steps, Kept, Renewed, Aging, Erased
  <2> QED BY <2>1 DEF GetsData
<1>2. IInv /\ [Next]_vars => [A]_vars
  BY <1>1
<1> QED BY <1>2, IInvHolds, PTL DEF Spec, RecordedDataIsSent
=============================================================================
