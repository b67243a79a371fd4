----------------------- MODULE DuplicateFilterProofs ------------------------
(***************************************************************************)
(* Theorems about the duplicate filter, for every window size and every    *)
(* range of sequence numbers.                                              *)
(***************************************************************************)
EXTENDS DuplicateFilter, BitmaskLoopDetectionProofs

-----------------------------------------------------------------------------
(***************************************************************************)
(* Type correctness.                                                       *)
(***************************************************************************)

\* The vector always is one of Size bits and a sequence number in range.
THEOREM TypeCorrect == Spec => []TypeOK
<1>1. Init => TypeOK
  BY EmptyTyped DEF Init, TypeOK
<1>2. TypeOK /\ [Next]_vars => TypeOK'
  <2> SUFFICES ASSUME TypeOK, [Next]_vars PROVE TypeOK'
    OBVIOUS
  <2>1. ASSUME NEW s \in Seqno, AcceptData(s) PROVE TypeOK'
    <3>1. bld' \in Vector
      BY <2>1, AddTyped DEF AcceptData, TypeOK
    <3> QED BY <2>1, <3>1 DEF AcceptData, TypeOK
  <2>2. ASSUME NEW s \in Seqno, DropData(s) PROVE TypeOK'
    BY <2>2 DEF DropData, TypeOK, vars
  <2>3. CASE RecreateEntry
    BY <2>3, EmptyTyped DEF RecreateEntry, TypeOK
  <2>4. CASE UNCHANGED vars
    BY <2>4 DEF TypeOK, vars
  <2> QED BY <2>1, <2>2, <2>3, <2>4 DEF Next
<1> QED BY <1>1, <1>2, PTL DEF Spec

-----------------------------------------------------------------------------
(***************************************************************************)
(* The inductive invariant: the bits match the history, and nothing        *)
(* recorded lies above the highest number, so that a shift towards lower   *)
(* positions cannot uncover a bit without a cause.                         *)
(***************************************************************************)
IInv == TypeOK /\ BitsMatchHistory /\ HighestIsReceived

\* A number at or above the highest keeps the invariant: every bit moves with
\* its number, and the new one is set.
LEMMA AdvanceKeepsIInv ==
  ASSUME IInv, Size > 1, NEW s \in Seqno, AcceptData(s), bld.highest <= s
  PROVE  (BitsMatchHistory /\ HighestIsReceived)'
<1> USE SizesAssumption DEF Seqno
<1>1. bld' = [bits    |-> ShiftRight(bld.bits, s - bld.highest) \cup {Size - 1},
              highest |-> s]
  BY DEF AcceptData, Add, IInv, TypeOK, Vector
<1>2. advanced' = advanced \cup {s} /\ late' = late
  BY DEF AcceptData
<1>3. bld.highest \in Seqno /\ bld.bits \subseteq Position
  BY DEF IInv, TypeOK, Vector
<1>4. /\ \A t \in advanced : t <= bld.highest
      /\ \A t \in late : t < bld.highest
      /\ advanced \subseteq Seqno /\ late \subseteq Seqno
  BY DEF IInv, HighestIsReceived, TypeOK
<1>5. ASSUME NEW p \in Position
      PROVE  p \in bld'.bits <=> Marked(SeqAt(p))'
  <2>1. SeqAt(p)' = s - (Size - 1 - p)
    BY <1>1 DEF SeqAt
  <2>2. CASE p = Size - 1
    <3>1. SeqAt(p)' = s
      BY <2>1, <2>2
    <3> QED BY <3>1, <2>2, <1>1, <1>2 DEF Marked
  <2>3. CASE p # Size - 1
    <3>1. SeqAt(p)' # s /\ SeqAt(p)' < s
      BY <2>1, <2>3 DEF Position
    <3>2. Marked(SeqAt(p))' <=> Marked(s - (Size - 1 - p))
      BY <3>1, <2>1, <1>2 DEF Marked
    <3>3. p \in bld'.bits <=> p + (s - bld.highest) \in bld.bits
      BY <1>1, <2>3 DEF ShiftRight
    <3>4. CASE p + (s - bld.highest) \in Position
      <4>1. SeqAt(p + (s - bld.highest)) = s - (Size - 1 - p)
        BY <1>3 DEF SeqAt, Position
      <4>2. p + (s - bld.highest) \in bld.bits <=> Marked(s - (Size - 1 - p))
        BY <3>4, <4>1 DEF IInv, BitsMatchHistory
      <4> QED BY <3>2, <3>3, <4>2
    <3>5. CASE p + (s - bld.highest) \notin Position
      <4>1. p + (s - bld.highest) > Size - 1
        BY <3>5, <1>3 DEF Position
      <4>2. s - (Size - 1 - p) > bld.highest
        BY <4>1, <1>3 DEF Position
      <4>3. ~ Marked(s - (Size - 1 - p))
        BY <4>2, <1>3, <1>4 DEF Marked, Position
      <4> QED BY <3>2, <3>3, <3>5, <4>3, <1>3
    <3> QED BY <3>4, <3>5
  <2> QED BY <2>2, <2>3
<1>6. BitsMatchHistory'
  BY <1>5 DEF BitsMatchHistory
<1>7. HighestIsReceived'
  BY <1>1, <1>2, <1>3, <1>4 DEF HighestIsReceived
<1> QED BY <1>6, <1>7

\* A number below the highest sets the bit of its successor, which is in the
\* window, or no bit.
LEMMA LateKeepsIInv ==
  ASSUME IInv, Size > 1, NEW s \in Seqno, AcceptData(s), s < bld.highest
  PROVE  (BitsMatchHistory /\ HighestIsReceived)'
<1> USE SizesAssumption DEF Seqno
<1>1. bld.highest \in Seqno /\ bld.bits \subseteq Position
  BY DEF IInv, TypeOK, Vector
<1>2. advanced' = advanced
  BY <1>1 DEF AcceptData
<1>3. CASE LatePosition(bld, s) < 0
  <2>1. bld' = bld /\ late' = late
    BY <1>1, <1>3 DEF AcceptData, Add
  <2> QED BY <2>1, <1>2
       DEF IInv, BitsMatchHistory, HighestIsReceived, SeqAt, Marked
<1>4. CASE ~ (LatePosition(bld, s) < 0)
  <2>1. bld' = [bld EXCEPT !.bits = @ \cup {LatePosition(bld, s)}]
    BY <1>1, <1>4 DEF AcceptData, Add
  <2>2. late' = late \cup {s}
    BY <1>1, <1>4 DEF AcceptData
  <2>3. bld'.highest = bld.highest /\ bld'.bits = bld.bits \cup {LatePosition(bld, s)}
    BY <2>1 DEF IInv, TypeOK, Vector
  <2>4. ASSUME NEW p \in Position
        PROVE  p \in bld'.bits <=> Marked(SeqAt(p))'
    <3>1. SeqAt(p)' = SeqAt(p) /\ SeqAt(p) \in Int
      BY <2>3, <1>1 DEF SeqAt, Position
    <3>2. p = LatePosition(bld, s) <=> SeqAt(p) - 1 = s
      BY <1>1 DEF LatePosition, SeqAt, Position
    <3>3. p \in bld.bits <=> Marked(SeqAt(p))
      BY DEF IInv, BitsMatchHistory
    <3>4. Marked(SeqAt(p))' <=> Marked(SeqAt(p)) \/ SeqAt(p) - 1 = s
      BY <3>1, <2>2, <1>2 DEF Marked
    <3> QED BY <2>3, <3>2, <3>3, <3>4
  <2>5. BitsMatchHistory'
    BY <2>4 DEF BitsMatchHistory
  <2>6. HighestIsReceived'
    BY <2>2, <2>3, <1>1, <1>2 DEF IInv, HighestIsReceived
  <2> QED BY <2>5, <2>6
<1> QED BY <1>3, <1>4

THEOREM IInvHolds == Spec => []IInv
<1>1. Init => IInv
  BY EmptyTyped, SizesAssumption
     DEF Init, IInv, TypeOK, BitsMatchHistory, HighestIsReceived, EmptyVector, Marked
<1>2. IInv /\ TypeOK' /\ [Next]_vars => IInv'
  <2> SUFFICES ASSUME IInv, TypeOK', [Next]_vars
               PROVE  (BitsMatchHistory /\ HighestIsReceived)'
    BY DEF IInv
  <2>1. ASSUME NEW s \in Seqno, AcceptData(s)
        PROVE  (BitsMatchHistory /\ HighestIsReceived)'
    <3>1. CASE ~ (Size > 1)
      BY <3>1 DEF BitsMatchHistory, HighestIsReceived
    <3>2. bld.highest \in Seqno
      BY DEF IInv, TypeOK, Vector
    <3> QED BY <2>1, <3>1, <3>2, AdvanceKeepsIInv, LateKeepsIInv, SizesAssumption DEF Seqno
  <2>2. ASSUME NEW s \in Seqno, DropData(s)
        PROVE  (BitsMatchHistory /\ HighestIsReceived)'
    BY <2>2 DEF DropData, vars, IInv, BitsMatchHistory, HighestIsReceived, SeqAt, Marked
  <2>3. CASE RecreateEntry
    BY <2>3, SizesAssumption
       DEF RecreateEntry, EmptyVector, BitsMatchHistory, HighestIsReceived, Marked
  <2>4. CASE UNCHANGED vars
    BY <2>4 DEF vars, IInv, BitsMatchHistory, HighestIsReceived, SeqAt, Marked
  <2> QED BY <2>1, <2>2, <2>3, <2>4 DEF Next
<1> QED BY <1>1, <1>2, TypeCorrect, PTL DEF Spec

-----------------------------------------------------------------------------
(***************************************************************************)
(* What follows from the invariant.                                        *)
(***************************************************************************)

\* Every set bit is explained by an arrival, and none is lost in a shift.
THEOREM BitsMatchHistoryHolds == Spec => []BitsMatchHistory
<1>1. IInv => BitsMatchHistory
  BY DEF IInv
<1> QED BY <1>1, IInvHolds, PTL

\* A copy of Data that went through in order is dropped while it is in a full
\* window, whatever arrived in between.
THEOREM InOrderCopyIsDroppedHolds == Spec => []InOrderCopyIsDropped
<1>1. IInv => InOrderCopyIsDropped
  <2> SUFFICES ASSUME IInv, Size > 1, Size - 1 <= bld.highest,
                      NEW s \in advanced, bld.highest - Size < s
               PROVE  isLooping(s)
    BY DEF InOrderCopyIsDropped
  <2> USE SizesAssumption DEF Seqno
  <2>1. s \in Seqno /\ bld \in Vector /\ bld.highest \in Seqno
    BY DEF IInv, TypeOK, Vector
  <2>2. s <= bld.highest
    BY DEF IInv, HighestIsReceived
  <2> DEFINE p == s - bld.highest + Size - 1
  <2>3. p \in Position /\ SeqAt(p) = s
    BY <2>1, <2>2 DEF Position, SeqAt
  <2>4. p \in bld.bits
    BY <2>3 DEF IInv, BitsMatchHistory, Marked
  <2> QED BY <2>1, <2>2, <2>4, ContainsWindow DEF isLooping
<1> QED BY <1>1, IInvHolds, PTL

\* Fresh Data is dropped only when the Data just before it came late: a
\* stream without reordering loses nothing to the detection.
THEOREM FreshDropNeedsLatePredecessorHolds ==
  Spec => []FreshDropNeedsLatePredecessor
<1>1. IInv => FreshDropNeedsLatePredecessor
  <2> SUFFICES ASSUME IInv, NEW s \in Seqno, isLooping(s), s \notin forwarded
               PROVE  s - 1 \in late
    BY DEF FreshDropNeedsLatePredecessor
  <2> USE SizesAssumption DEF Seqno
  <2>1. bld \in Vector /\ bld.highest \in Seqno /\ Size > 1
    BY DEF IInv, TypeOK, Vector, isLooping, Contains
  <2> DEFINE p == s - bld.highest + Size - 1
  <2>2. p \in bld.bits
    BY <2>1, ContainsWindow DEF isLooping
  <2>3. p \in Position /\ SeqAt(p) = s
    BY <2>1, <2>2 DEF Vector, SeqAt
  <2> QED BY <2>1, <2>2, <2>3 DEF IInv, TypeOK, BitsMatchHistory, Marked
<1> QED BY <1>1, IInvHolds, PTL

-----------------------------------------------------------------------------
(***************************************************************************)
(* The bitvector implements the window of sequence numbers.                *)
(***************************************************************************)

\* What the refinement mapping gives for the abstract marks.
Marks(v) == {s \in Seqno : s - v.highest + Size - 1 \in v.bits}

\* The abstract window refuses a number exactly when the vector contains it.
LEMMA RefusedIsLooping ==
  ASSUME TypeOK, Size > 1, NEW s \in Seqno
  PROVE  WindowOf!Refused(s) <=> isLooping(s)
<1> USE SizesAssumption DEF Seqno
<1>1. bld \in Vector /\ bld.highest \in Seqno
  BY DEF TypeOK, Vector
<1> QED BY <1>1, ContainsWindow
        DEF isLooping, WindowOf!Refused, WindowOf!Window, WindowOf!Seqno

\* Data let through at or above the highest number is the abstract LetAhead.
LEMMA AdvanceRefines ==
  ASSUME TypeOK, Size > 1, NEW s \in Seqno, AcceptData(s), bld.highest <= s
  PROVE  WindowOf!LetAhead(s)
<1> USE SizesAssumption DEF Seqno, WindowOf!Seqno
<1>1. bld.highest \in Seqno /\ bld.bits \subseteq Position
  BY DEF TypeOK, Vector
<1>2. bld' = [bits    |-> ShiftRight(bld.bits, s - bld.highest) \cup {Size - 1},
              highest |-> s]
  BY <1>1 DEF AcceptData, Add
<1>3. ASSUME NEW t \in Seqno
      PROVE  t - s + Size - 1 \in bld'.bits
               <=> /\ t - bld.highest + Size - 1 \in bld.bits \/ t = s
                   /\ s - Size < t /\ t <= s
  <2>1. t = s <=> t - s + Size - 1 = Size - 1
    OBVIOUS
  <2>2. (t - s + Size - 1) + (s - bld.highest) = t - bld.highest + Size - 1
    BY <1>1
  <2>3. t - s + Size - 1 \in Position <=> s - Size < t /\ t <= s
    BY DEF Position
  <2> QED BY <1>2, <2>1, <2>2, <2>3 DEF ShiftRight
<1>4. Marks(bld') = (Marks(bld) \cup {s}) \cap WindowOf!Window(s)
  BY <1>2, <1>3 DEF Marks, WindowOf!Window
<1>5. ~ WindowOf!Refused(s)
  BY RefusedIsLooping DEF AcceptData
<1> QED BY <1>2, <1>4, <1>5 DEF WindowOf!LetAhead, Marks

\* Data let through below it is the abstract LetLate.
LEMMA LateRefines ==
  ASSUME TypeOK, Size > 1, NEW s \in Seqno, AcceptData(s), s < bld.highest
  PROVE  WindowOf!LetLate(s)
<1> USE SizesAssumption DEF Seqno, WindowOf!Seqno
<1>1. bld.highest \in Seqno /\ bld.bits \subseteq Position /\ bld \in Vector
  BY DEF TypeOK, Vector
<1>2. ~ WindowOf!Refused(s)
  BY RefusedIsLooping DEF AcceptData
<1>3. s + 1 \in WindowOf!Window(bld.highest) <=> ~ (LatePosition(bld, s) < 0)
  BY <1>1 DEF WindowOf!Window, LatePosition
<1>4. bld'.highest = bld.highest
      /\ Marks(bld') = Marks(bld) \cup ({s + 1} \cap WindowOf!Window(bld.highest))
  <2>1. CASE LatePosition(bld, s) < 0
    BY <1>1, <1>3, <2>1 DEF AcceptData, Add
  <2>2. CASE ~ (LatePosition(bld, s) < 0)
    <3>1. bld' = [bld EXCEPT !.bits = @ \cup {LatePosition(bld, s)}]
      BY <1>1, <2>2 DEF AcceptData, Add
    <3>2. bld'.highest = bld.highest /\ bld'.bits = bld.bits \cup {LatePosition(bld, s)}
      BY <3>1, <1>1 DEF Vector
    <3>3. ASSUME NEW t \in Seqno
          PROVE  t - bld.highest + Size - 1 = LatePosition(bld, s) <=> t = s + 1
      BY <1>1 DEF LatePosition
    <3>4. s + 1 \in Seqno
      BY <1>1
    <3>5. Marks(bld') = Marks(bld) \cup {s + 1}
      BY <3>2, <3>3, <3>4 DEF Marks
    <3> QED BY <3>2, <3>5, <1>3, <2>2
  <2> QED BY <2>1, <2>2
<1> QED BY <1>2, <1>4 DEF WindowOf!LetLate, Marks

\* Every behaviour of the filter is one of the window: each step is a step of
\* the window or leaves it alone.  A vector of one bit never leaves the
\* initial window.
THEOREM ImplementsWindowHolds == Spec => ImplementsWindow
<1>1. Init => WindowOf!Init
  BY DEF Init, EmptyVector, WindowOf!Init
<1>2. TypeOK /\ [Next]_vars => [WindowOf!Next]_WindowOf!vars
  <2> SUFFICES ASSUME TypeOK, [Next]_vars
               PROVE  WindowOf!Next \/ UNCHANGED WindowOf!vars
    OBVIOUS
  <2>1. ASSUME NEW s \in Seqno, AcceptData(s)
        PROVE  WindowOf!Next \/ UNCHANGED WindowOf!vars
    <3>1. CASE ~ (Size > 1)
      <4>1. bld' = bld
        BY <2>1, <3>1, SizesAssumption DEF AcceptData, Add
      <4> QED BY <4>1 DEF WindowOf!vars
    <3>2. CASE Size > 1
      <4>1. bld.highest <= s \/ s < bld.highest
        BY SizesAssumption DEF TypeOK, Vector, Seqno
      <4>2. WindowOf!LetAhead(s) \/ WindowOf!LetLate(s)
        BY <2>1, <3>2, <4>1, AdvanceRefines, LateRefines
      <4> QED BY <4>2 DEF WindowOf!Next, WindowOf!Seqno, Seqno
    <3> QED BY <3>1, <3>2
  <2>2. ASSUME NEW s \in Seqno, DropData(s)
        PROVE  UNCHANGED WindowOf!vars
    BY <2>2 DEF DropData, vars, WindowOf!vars
  <2>3. CASE RecreateEntry
    BY <2>3 DEF RecreateEntry, EmptyVector, WindowOf!Next, WindowOf!StartOver
  <2>4. CASE UNCHANGED vars
    BY <2>4 DEF vars, WindowOf!vars
  <2> QED BY <2>1, <2>2, <2>3, <2>4 DEF Next
<1> QED BY <1>1, <1>2, TypeCorrect, PTL DEF Spec, ImplementsWindow, WindowOf!Spec
=============================================================================
