--------------------------- MODULE SequenceWindow ---------------------------
(***************************************************************************)
(* What a PIT entry's loop detection promises, in terms of sequence        *)
(* numbers and without a bitvector: it keeps the highest number let        *)
(* through and a set of marks among the Size numbers up to it; a number    *)
(* that is marked is refused once the window is full, any other is let     *)
(* through.  A number ahead of the stream marks itself; one that comes     *)
(* late marks its successor, or nothing when it is older than the window.  *)
(***************************************************************************)
EXTENDS Integers

CONSTANTS Size, SeqMod

VARIABLES highest, marks

vars == <<highest, marks>>

Seqno     == 0 .. SeqMod - 1
Window(h) == {s \in Seqno : h - Size < s /\ s <= h}

Refused(s) == /\ Size - 1 <= highest
              /\ s \in marks \cap Window(highest)

Init == highest = 0 /\ marks = {}

LetAhead(s) ==
  /\ highest <= s
  /\ ~ Refused(s)
  /\ highest' = s
  /\ marks' = (marks \cup {s}) \cap Window(s)

LetLate(s) ==
  /\ s < highest
  /\ ~ Refused(s)
  /\ marks' = marks \cup ({s + 1} \cap Window(highest))
  /\ UNCHANGED highest

\* The entry was deleted and a later Interest created a new one.
StartOver == highest' = 0 /\ marks' = {}

Next == \/ \E s \in Seqno : LetAhead(s) \/ LetLate(s)
        \/ StartOver

Spec == Init /\ [][Next]_vars
=============================================================================
