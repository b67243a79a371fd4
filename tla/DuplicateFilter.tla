-------------------------- MODULE DuplicateFilter ---------------------------
(***************************************************************************)
(* A persistent PIT entry's use of its bitvector: the loop check of        *)
(* Forwarder::onIncomingData (forwarder.cpp:368-377) through isLooping and *)
(* addSequenceNumber, on Data arriving in any order, any number of times,  *)
(* and the deletion and re-creation of the entry, which starts an empty    *)
(* vector (pit-entry.cpp:32-46).                                           *)
(***************************************************************************)
EXTENDS BitmaskLoopDetection

VARIABLES
  bld,       \* m_bld of the entry
  \* History, for the properties only:
  forwarded, \* numbers let through, by this entry or by one before it
  advanced,  \* numbers this entry let through at or above its highest
  late       \* numbers this entry let through, and recorded, below its highest

vars == <<bld, forwarded, advanced, late>>

isLooping(s) == Contains(bld, s)

Init ==
  /\ bld = EmptyVector
  /\ forwarded = {}
  /\ advanced = {}
  /\ late = {}

\* Data s arrives and is not looping: the entry records it and passes it on.
AcceptData(s) ==
  /\ ~ isLooping(s)
  /\ bld' = Add(bld, s)
  /\ forwarded' = forwarded \cup {s}
  /\ IF bld.highest <= s
       THEN advanced' = advanced \cup {s} /\ UNCHANGED late
       ELSE /\ late' = IF LatePosition(bld, s) < 0 THEN late ELSE late \cup {s}
            /\ UNCHANGED advanced

\* Data s arrives and is looping: dropped.
DropData(s) == isLooping(s) /\ UNCHANGED vars

\* The entry's timer deletes it and the next Interest makes a new entry.
RecreateEntry ==
  /\ bld' = EmptyVector
  /\ advanced' = {}
  /\ late' = {}
  /\ UNCHANGED forwarded

Next == \/ \E s \in Seqno : AcceptData(s) \/ DropData(s)
        \/ RecreateEntry

Spec == Init /\ [][Next]_vars

-----------------------------------------------------------------------------
TypeOK ==
  /\ bld \in Vector
  /\ forwarded \subseteq Seqno
  /\ advanced \subseteq forwarded
  /\ late \subseteq forwarded

\* The number whose bit is at position p.
SeqAt(p) == bld.highest - (Size - 1 - p)

\* A number is marked by its own arrival ahead, or by its predecessor's late
\* arrival.
Marked(s) == s \in advanced \/ s - 1 \in late

\* Every bit is explained by an arrival and every arrival still in the window
\* has its bit: shifting by the distance between two numbers loses and
\* misplaces none (bld.hpp:19-40).
BitsMatchHistory ==
  Size > 1 => \A p \in Position : p \in bld.bits <=> Marked(SeqAt(p))

\* No number recorded is above the highest, and the highest was received
\* unless the entry has let nothing through.
HighestIsReceived ==
  Size > 1 =>
    /\ \A s \in advanced : s <= bld.highest
    /\ \A s \in late : s < bld.highest
    /\ bld.highest \in advanced \/ (advanced = {} /\ late = {} /\ bld.highest = 0)

\* A copy of Data that went through in order is caught as long as its number
\* is one of the last Size and the stream has reached number Size - 1: the
\* promise that ends Data loops (bld.hpp:42-64).
InOrderCopyIsDropped ==
  Size > 1 /\ Size - 1 <= bld.highest =>
    \A s \in advanced : bld.highest - Size < s => isLooping(s)

\* Data that never passed here is dropped only if the Data just before it
\* came late: without reordering no fresh packet is lost (bld.hpp:25-30).
FreshDropNeedsLatePredecessor ==
  \A s \in Seqno : isLooping(s) /\ s \notin forwarded => s - 1 \in late

\* The bitvector implements the window of sequence numbers.
WindowOf == INSTANCE SequenceWindow WITH
  highest <- bld.highest,
  marks   <- {s \in Seqno : s - bld.highest + Size - 1 \in bld.bits}
ImplementsWindow == WindowOf!Spec
=============================================================================
