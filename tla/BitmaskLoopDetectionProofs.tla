--------------------- MODULE BitmaskLoopDetectionProofs ---------------------
(***************************************************************************)
(* Facts about the operations of the bitvector, for every length.          *)
(***************************************************************************)
EXTENDS BitmaskLoopDetection, TLAPS

\* A new vector is one.
LEMMA EmptyTyped == EmptyVector \in Vector
BY SizesAssumption DEF EmptyVector, Vector, Seqno, Position

\* Add returns a vector.
LEMMA AddTyped ==
  ASSUME NEW v \in Vector, NEW s \in Seqno
  PROVE  Add(v, s) \in Vector
<1> USE SizesAssumption DEF Vector, Position, Seqno
<1>1. CASE Size <= 1
  BY <1>1 DEF Add
<1>2. CASE Size > 1 /\ s < v.highest
  <2>1. LatePosition(v, s) >= 0 => LatePosition(v, s) \in Position
    BY <1>2 DEF LatePosition
  <2>2. LatePosition(v, s) \in Int
    BY DEF LatePosition
  <2> QED BY <1>2, <2>1, <2>2 DEF Add
<1>3. CASE Size > 1 /\ ~ (s < v.highest)
  BY <1>3 DEF Add, ShiftRight
<1> QED BY <1>1, <1>2, <1>3

\* The wrap-around of the window's lower end only ever hides a window that is
\* not full yet: a vector of two or more bits reports exactly the numbers of
\* a full window whose bit is set.
LEMMA ContainsWindow ==
  ASSUME NEW v \in Vector, NEW s \in Seqno, Size > 1
  PROVE  Contains(v, s) <=> /\ Size - 1 <= v.highest
                            /\ v.highest - Size < s
                            /\ s <= v.highest
                            /\ s - v.highest + Size - 1 \in v.bits
<1> USE SizesAssumption DEF Vector, Position, Seqno
<1>1. (Size - (v.highest - s)) - 1 = s - v.highest + Size - 1
  OBVIOUS
<1>2. CASE Size - 1 <= v.highest
  <2>1. Oldest(v) = v.highest - Size + 1
    BY <1>2 DEF Oldest, Unsigned
  <2> QED BY <1>1, <1>2, <2>1 DEF Contains
<1>3. CASE ~ (Size - 1 <= v.highest)
  <2>1. Oldest(v) = v.highest - Size + 1 + Word
    BY <1>3 DEF Oldest, Unsigned
  <2>2. ~ (Oldest(v) <= s)
    BY <2>1
  <2> QED BY <1>3, <2>2 DEF Contains
<1> QED BY <1>2, <1>3

\* A vector that shows no packet has seen none, and Add leaves it showing one.
LEMMA AddShows ==
  ASSUME NEW v \in Vector, NEW s \in Seqno, v.bits = {} => v.highest = 0
  PROVE  /\ Size > 1 => Add(v, s).bits # {}
         /\ Add(v, s).bits = {} => Add(v, s).highest = 0
<1> USE SizesAssumption DEF Vector, Position, Seqno
<1>1. CASE Size <= 1
  BY <1>1 DEF Add
<1>2. CASE Size > 1 /\ s < v.highest
  BY <1>2 DEF Add
<1>3. CASE Size > 1 /\ ~ (s < v.highest)
  BY <1>3 DEF Add
<1> QED BY <1>1, <1>2, <1>3

\* The highest number recorded, -1 before the first; the numbers a full window
\* below it would cover; and those of them whose own bit is set.
NewestIn(v) == IF v.bits = {} THEN -1 ELSE v.highest
Recent(v, s) == s <= NewestIn(v) /\ NewestIn(v) < s + Size
Recalled(v, s) == s - NewestIn(v) + Size - 1 \in v.bits

\* Add moves the highest number up to the one it records and never down.
LEMMA AddNewest ==
  ASSUME NEW v \in Vector, NEW s \in Seqno, Size > 1, v.bits = {} => v.highest = 0
  PROVE  /\ NewestIn(v) \in Int
         /\ NewestIn(Add(v, s)) = IF s > NewestIn(v) THEN s ELSE NewestIn(v)
<1> USE SizesAssumption DEF Vector, Position, Seqno
<1>1. CASE s < v.highest
  BY <1>1 DEF Add, NewestIn
<1>2. CASE ~ (s < v.highest)
  BY <1>2 DEF Add, NewestIn
<1> QED BY <1>1, <1>2

\* A number whose bit is set keeps it for as long as it is in the window, and
\* the highest number's is set.
LEMMA AddRecalls ==
  ASSUME NEW v \in Vector, NEW s \in Seqno, Size > 1, v.bits = {} => v.highest = 0,
         NEW t \in Int, Recent(Add(v, s), t),
         Recent(v, t) => Recalled(v, t), t <= NewestIn(v) \/ t = s
  PROVE  Recalled(Add(v, s), t)
<1> USE SizesAssumption DEF Vector, Position, Seqno
<1> DEFINE w == Add(v, s)
<1>1. NewestIn(v) \in Int /\ NewestIn(w) = IF s > NewestIn(v) THEN s ELSE NewestIn(v)
  BY AddNewest
<1>2. CASE s > NewestIn(v)
  <2>1. w.bits = ShiftRight(v.bits, s - v.highest) \cup {Size - 1} /\ NewestIn(w) = s
    BY <1>1, <1>2 DEF Add, NewestIn
  <2>2. CASE t = s
    BY <2>1, <2>2 DEF Recalled
  <2>3. CASE t <= NewestIn(v) /\ t # s
    <3>1. Recalled(v, t) /\ v.bits # {} /\ NewestIn(v) = v.highest
      BY <1>1, <1>2, <2>1, <2>3 DEF Recent, Recalled, NewestIn
    <3>2. t - s + Size - 1 \in Position
      BY <1>2, <2>1, <2>3, <3>1 DEF Recent
    <3>3. (t - s + Size - 1) + (s - v.highest) = t - v.highest + Size - 1
      OBVIOUS
    <3> QED
      BY <2>1, <3>1, <3>2, <3>3 DEF Recalled, ShiftRight
  <2> QED
    BY <2>2, <2>3
<1>3. CASE ~ (s > NewestIn(v))
  <2>1. v.bits # {} /\ v.highest = NewestIn(v) /\ s <= v.highest
    BY <1>3 DEF NewestIn
  <2>2. v.bits \subseteq w.bits
    <3>1. CASE s < v.highest
      BY <3>1 DEF Add
    <3>2. CASE s = v.highest
      BY <3>2 DEF Add, ShiftRight
    <3> QED
      BY <2>1, <3>1, <3>2
  <2>3. Recent(v, t) /\ NewestIn(w) = NewestIn(v)
    BY <1>1, <1>3 DEF Recent
  <2> QED
    BY <2>2, <2>3 DEF Recalled
<1> QED
  BY <1>2, <1>3

\* A duplicate is a number at or below the highest; a recent one whose bit is
\* set is a duplicate once the highest fills a window.
LEMMA ContainsRecent ==
  ASSUME NEW v \in Vector, NEW s \in Seqno, Size > 1
  PROVE  /\ Contains(v, s) => s <= NewestIn(v)
         /\ Recent(v, s) /\ Recalled(v, s) /\ s >= Size - 1 => Contains(v, s)
<1> USE SizesAssumption DEF Vector, Position, Seqno
<1>1. Contains(v, s) => s <= NewestIn(v)
  BY ContainsWindow DEF NewestIn
<1>2. ASSUME Recent(v, s), Recalled(v, s), s >= Size - 1 PROVE Contains(v, s)
  <2>1. NewestIn(v) = v.highest
    BY <1>2 DEF Recalled, NewestIn
  <2> QED
    BY <1>2, <2>1, ContainsWindow DEF Recent, Recalled
<1> QED
  BY <1>1, <1>2
=============================================================================
