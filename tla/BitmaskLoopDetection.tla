------------------------ MODULE BitmaskLoopDetection ------------------------
(***************************************************************************)
(* The bitvector of extern/NFD/table/bld.hpp: the last Size sequence       *)
(* numbers below the highest one seen, one bit each, position Size-1 for   *)
(* the highest.  A vector is a record of the set of positions whose bit is *)
(* 1 and of m_highestSequenceNumber, so a right shift is a translation of  *)
(* the set of positions.                                                   *)
(***************************************************************************)
EXTENDS Integers

CONSTANTS
  Size,    \* m_size: the number of bits (1 switches the detection off)
  SeqMod,  \* 2^32: the forwarder reads sequence numbers into a uint32_t
  Word     \* 2^64: m_highestSequenceNumber and its arithmetic

ASSUME SizesAssumption ==
  /\ Size \in Nat \ {0}
  /\ SeqMod \in Nat \ {0}
  /\ Word \in Nat
  /\ Word >= SeqMod + Size

Position == 0 .. Size - 1
Seqno    == 0 .. SeqMod - 1

Vector == [bits : SUBSET Position, highest : Seqno]

\* A new vector: no bit set, and 0 as the highest number although it was
\* never received.
EmptyVector == [bits |-> {}, highest |-> 0]

\* A difference in unsigned long arithmetic.
Unsigned(n) == IF n < 0 THEN n + Word ELSE n

\* Where Add records a number below the highest; negative when it is too old.
LatePosition(v, s) == Size - (v.highest - s)

\* m_bits >>= n
ShiftRight(bits, n) == {p \in Position : p + n \in bits}

\* Mutants of Add: a number too old is recorded at a negative position; every
\* step forward shifts by one; the shift is taken modulo the length; a late
\* number becomes the highest.
AddUnbounded(v, s) ==
  IF Size <= 1 THEN v
  ELSE IF s < v.highest
    THEN [v EXCEPT !.bits = @ \cup {LatePosition(v, s)}]
    ELSE [bits    |-> ShiftRight(v.bits, s - v.highest) \cup {Size - 1},
          highest |-> s]
AddShiftsByOne(v, s) ==
  IF Size <= 1 THEN v
  ELSE IF s < v.highest
    THEN IF LatePosition(v, s) < 0 THEN v
         ELSE [v EXCEPT !.bits = @ \cup {LatePosition(v, s)}]
    ELSE [bits |-> ShiftRight(v.bits, 1) \cup {Size - 1}, highest |-> s]
AddShiftsModulo(v, s) ==
  IF Size <= 1 THEN v
  ELSE IF s < v.highest
    THEN IF LatePosition(v, s) < 0 THEN v
         ELSE [v EXCEPT !.bits = @ \cup {LatePosition(v, s)}]
    ELSE [bits    |-> ShiftRight(v.bits, (s - v.highest) % Size) \cup {Size - 1},
          highest |-> s]
AddAlwaysAdvances(v, s) ==
  IF Size <= 1 THEN v
  ELSE IF LatePosition(v, s) < 0 THEN v
  ELSE [bits    |-> ShiftRight(v.bits, s - v.highest) \cup {Size - 1},
        highest |-> s]

Add(v, s) ==
  IF Size <= 1 THEN v
  ELSE IF s < v.highest
    THEN IF LatePosition(v, s) < 0
           THEN v
           ELSE [v EXCEPT !.bits = @ \cup {LatePosition(v, s)}]
    ELSE [bits    |-> ShiftRight(v.bits, s - v.highest) \cup {Size - 1},
          highest |-> s]

\* Mutant of Oldest: the window is one number longer than the vector.
OldestOneMore(v) == Unsigned(v.highest - Size)

\* The lower end of the window Contains looks at, in unsigned arithmetic: it
\* wraps to a number no packet has while highest < Size - 1.
Oldest(v) == Unsigned(v.highest - Size + 1)

\* Mutants of Contains: the bit next to the number's; everything up to the
\* highest number is a duplicate.
ContainsNextBit(v, s) ==
  /\ Size > 1
  /\ Oldest(v) <= s
  /\ s <= v.highest
  /\ Size - (v.highest - s) \in v.bits
ContainsNotAhead(v, s) ==
  /\ Size > 1
  /\ s <= v.highest

Contains(v, s) ==
  /\ Size > 1
  /\ Oldest(v) <= s
  /\ s <= v.highest
  /\ (Size - (v.highest - s)) - 1 \in v.bits
=============================================================================
