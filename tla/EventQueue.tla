------------------------------- MODULE EventQueue -------------------------------
(***************************************************************************)
(* The events ns-3's simulator holds for one method of an application, as   *)
(* the times left to them.  One method is always scheduled with the same    *)
(* delay, so an event scheduled later runs later.  The network of a call    *)
(* brings a packet in 0..MaxDelay, or loses it.                             *)
(***************************************************************************)
EXTENDS Integers, Sequences

CONSTANT MaxDelay   \* of a packet in the network
ASSUME DelayAssumption == MaxDelay \in Nat

NoEvent == << >>
Due(q) == q # << >> /\ q[1] = 0
Schedule(q, delay) == Append(q, delay)
Run(q) == Tail(q)
CancelLast(q) == SubSeq(q, 1, Len(q) - 1)
Waiting(q) == \A i \in DOMAIN q : q[i] > 0
Passed(q) == [i \in DOMAIN q |-> q[i] - 1]

(* At most one event, at most max away.                                     *)
Queue(max) == {<< >>} \cup {<<t>> : t \in 0..max}
===============================================================================
