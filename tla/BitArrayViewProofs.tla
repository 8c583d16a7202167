------------------------- MODULE BitArrayViewProofs -------------------------
(***************************************************************************)
(* Proofs about the &mut BitArray that TryFrom makes from a sub-slice      *)
(* (module BitArrayView), for every element width W, array length N,      *)
(* buffer length L, bit order and set of operators used.                   *)
(***************************************************************************)
EXTENDS BitArrayView, BitPtrLemmas

USE ViewWAssumption, ViewNAssumption, ViewOrderAssumption, ViewOpsAssumption

\* The conversion's result is the one InnerError::new computed for the
\* sub-slice, which no step changes.
ConvInv == conv = Convert(SlicePtr, slice.len)

IInv == TypeOK /\ ConvInv

-----------------------------------------------------------------------------
(* What a successful conversion establishes.                               *)

\* After Ok, the sub-slice has N bits, starts on an element boundary, and
\* bit k of the array is bit head + k of the parent.
LEMMA ConvertedFacts ==
    ASSUME slice.head \in Nat, ConvInv, Converted
    PROVE  /\ slice.len = N
           /\ slice.head % W = 0
           /\ ArrayAddr = slice.head \div W
           /\ \A k \in Nat : ArrPtr(k) = ParentPtr(slice.head + k)
<1>1. slice.head \in Nat
  OBVIOUS
<1>2. SlicePtr = [addr |-> slice.head \div W, head |-> slice.head % W]
  BY <1>1, FromSliceAdd DEF SlicePtr, ParentPtr
<1>3. slice.len = N /\ SlicePtr.head = 0
  BY DEF ConvInv, Converted, Convert
<1>4. slice.head % W = 0 /\ ArrayAddr = slice.head \div W
  BY <1>2, <1>3 DEF ArrayAddr
<1>5. ASSUME NEW k \in Nat PROVE ArrPtr(k) = ParentPtr(slice.head + k)
  <2>1. PtrAdd([addr |-> slice.head \div W, head |-> 0], k, W)
          = PtrAdd(FromSlice, slice.head + k, W)
    BY <1>1, <1>4, AlignedAdd
  <2>2. QED
    BY <2>1, <1>4 DEF ArrPtr, ParentPtr
<1>6. QED
  BY <1>3, <1>4, <1>5

\* Bit k of the sub-slice is bit head + k of the parent.
LEMMA SliceBit ==
    ASSUME IInv, NEW k \in Nat
    PROVE  PtrAdd(SlicePtr, k, W) = ParentPtr(slice.head + k)
<1>1. slice.head \in Nat
  BY DEF IInv, TypeOK
<1>2. QED
  BY <1>1, AddAdd DEF SlicePtr, ParentPtr

\* The elements a converted array spans lie inside the buffer.
LEMMA ArrayInBuffer ==
    ASSUME NEW h \in Nat, h % W = 0, h + N <= L
    PROVE  h \div W .. h \div W + Elts - 1 \subseteq 0 .. BufElts - 1
<1> DEFINE a == h \div W
<1>1. a \in Nat /\ h = W * a
  OBVIOUS
<1>2. (W * a + (N + W - 1)) \div W = a + (N + W - 1) \div W
  BY <1>1
<1>3. W * a + (N + W - 1) <= L + W - 1
  BY <1>1
<1>4. (W * a + (N + W - 1)) \div W <= (L + W - 1) \div W
  BY <1>1, <1>3
<1>5. QED
  BY <1>1, <1>2, <1>4 DEF Elts, BufElts, EltsOf

\* Bit j of the parent lies in an element of the buffer, at a physical
\* bit of that element.
LEMMA BitInBuffer ==
    ASSUME NEW j \in 0 .. L - 1
    PROVE  /\ ParentPtr(j).addr \in 0 .. BufElts - 1
           /\ At(Order, W, ParentPtr(j).head) \in 0 .. W - 1
<1>1. ParentPtr(j) = [addr |-> j \div W, head |-> j % W]
  BY FromSliceAdd DEF ParentPtr
<1>2. j \div W \in 0 .. BufElts - 1 /\ j % W \in 0 .. W - 1
  BY InBuffer DEF BufElts, EltsOf
<1>3. At(Order, W, j % W) \in 0 .. W - 1
  BY <1>2, AtInvolution
<1>4. QED
  BY <1>1, <1>2, <1>3

\* Writing bit j of the parent keeps the buffer well typed.
LEMMA WriteTyped ==
    ASSUME NEW m \in [0 .. BufElts - 1 -> Element], NEW j \in 0 .. L - 1,
           NEW b \in BOOLEAN
    PROVE  PtrWrite(m, ParentPtr(j), Order, W, b)
             \in [0 .. BufElts - 1 -> Element]
BY BitInBuffer DEF PtrWrite, Element

\* A successful conversion yields an array inside the buffer.
LEMMA ConvertedInBuffer ==
    ASSUME slice \in [head : 0 .. L, len : 0 .. L],
           slice.head + slice.len <= L, ConvInv, Converted
    PROVE  ArrayElts \subseteq 0 .. BufElts - 1
<1>1. slice.len = N /\ slice.head % W = 0 /\ ArrayAddr = slice.head \div W
  BY ConvertedFacts
<1>2. QED
  BY <1>1, ArrayInBuffer DEF ArrayElts

-----------------------------------------------------------------------------
(* Type correctness.                                                       *)

LEMMA IInvInit == Init => IInv
<1> SUFFICES ASSUME Init PROVE IInv
  OBVIOUS
<1>1. slice \in [head : 0 .. L, len : 0 .. L] /\ slice.head + slice.len <= L
  BY DEF Init
<1>2. ConvInv
  BY DEF Init, ConvInv
<1>3. Converted => ArrayElts \subseteq DOMAIN mem
  BY <1>1, <1>2, ConvertedInBuffer DEF Init
<1>4. conv.kind \in {"Ok", "UnequalLen", "Misaligned"}
  BY <1>2 DEF ConvInv, Convert
<1>5. QED
  BY <1>1, <1>2, <1>3, <1>4 DEF Init, IInv, TypeOK

\* The result of combining two bits is a bit.
LEMMA ApplyIsBool ==
    ASSUME NEW op \in BinOps, NEW x \in BOOLEAN, NEW y \in BOOLEAN
    PROVE  Apply(op, x, y) \in BOOLEAN
BY DEF BinOps, Apply

\* Each operator writes a well-typed buffer, leaves the sub-slice and the
\* conversion alone, and names a handle.
LEMMA MemStep ==
    ASSUME IInv, Next
    PROVE  /\ mem' \in [0 .. BufElts - 1 -> Element]
           /\ UNCHANGED <<slice, conv>>
           /\ by' \in {"none", "array", "slice", "other"}
<1> USE DEF IInv, TypeOK
<1>1. ASSUME NEW k \in 0 .. N - 1, NEW b \in BOOLEAN, arr_set(k, b)
      PROVE  mem' \in [0 .. BufElts - 1 -> Element]
  <2>1. slice.len = N /\ ArrPtr(k) = ParentPtr(slice.head + k)
    BY <1>1, ConvertedFacts DEF arr_set
  <2>2. slice.head + k \in 0 .. L - 1
    BY <2>1
  <2>3. QED
    BY <1>1, <2>1, <2>2, WriteTyped DEF arr_set
<1>2. ASSUME NEW op \in BinOps, NEW rhs \in [0 .. N - 1 -> BOOLEAN],
             arr_bitop(op, rhs)
      PROVE  mem' \in [0 .. BufElts - 1 -> Element]
  <2>1. ASSUME NEW e \in 0 .. BufElts - 1, NEW q \in 0 .. W - 1,
               LiveAt(e, q) # {}
        PROVE  Apply(op, mem[e][q], rhs[CHOOSE k \in LiveAt(e, q) : TRUE])
                 \in BOOLEAN
    <3>1. (CHOOSE k \in LiveAt(e, q) : TRUE) \in 0 .. N - 1
      BY <2>1 DEF LiveAt
    <3>2. mem[e][q] \in BOOLEAN
      BY DEF Element
    <3>3. QED
      BY <3>1, <3>2, ApplyIsBool
  <2>2. \A e \in 0 .. BufElts - 1, q \in 0 .. W - 1 : mem[e][q] \in BOOLEAN
    BY DEF Element
  <2>3. QED
    BY <1>2, <2>1, <2>2 DEF arr_bitop, Element
<1>3. ASSUME arr_not PROVE mem' \in [0 .. BufElts - 1 -> Element]
  BY <1>3 DEF arr_not, Element
<1>4. ASSUME NEW i \in 0 .. Elts - 1, NEW v \in Element, arr_store(i, v)
      PROVE  mem' \in [0 .. BufElts - 1 -> Element]
  <2>0. ArrayAddr \in Nat /\ Converted
    BY <1>4 DEF ArrayAddr, SlicePtr, ParentPtr, PtrAdd, FromSlice, arr_store
  <2>1c. Elts \in Nat /\ i \in Nat /\ i <= Elts - 1
    BY DEF Elts, EltsOf
  <2>1a. ArrayAddr + i \in ArrayElts
    BY <2>0, <2>1c DEF ArrayElts
  <2>1b. ArrayElts \subseteq DOMAIN mem
    BY <2>0 DEF IInv, TypeOK
  <2>1. ArrayAddr + i \in DOMAIN mem
    BY <2>1a, <2>1b
  <2>2. mem \in [0 .. BufElts - 1 -> Element] /\ mem' = [mem EXCEPT ![ArrayAddr + i] = v]
    BY <1>4 DEF arr_store
  <2>3. QED
    BY <2>1, <2>2, Zenon
<1>5. ASSUME NEW k \in 0 .. L - 1, NEW b \in BOOLEAN, slice_set(k, b)
      PROVE  mem' \in [0 .. BufElts - 1 -> Element]
  <2>1. PtrAdd(SlicePtr, k, W) = ParentPtr(slice.head + k)
    BY SliceBit
  <2>2. slice.head + k \in 0 .. L - 1
    BY <1>5 DEF slice_set
  <2>3. QED
    BY <1>5, <2>1, <2>2, WriteTyped DEF slice_set
<1>6. ASSUME NEW j \in 0 .. L - 1, NEW b \in BOOLEAN, other_set(j, b)
      PROVE  mem' \in [0 .. BufElts - 1 -> Element]
  BY <1>6, WriteTyped DEF other_set
<1>7. UNCHANGED <<slice, conv>> /\ by' \in {"none", "array", "slice", "other"}
  BY DEF Next, arr_set, arr_bitop, arr_not, arr_store, slice_set, other_set
<1>8. QED
  BY <1>1, <1>2, <1>3, <1>4, <1>5, <1>6, <1>7 DEF Next

LEMMA IInvStep == IInv /\ [Next]_vars => IInv'
<1> SUFFICES ASSUME IInv, [Next]_vars PROVE IInv'
  OBVIOUS
<1>1. CASE Next
  <2>1. /\ mem' \in [0 .. BufElts - 1 -> Element]
        /\ UNCHANGED <<slice, conv>>
        /\ by' \in {"none", "array", "slice", "other"}
    BY <1>1, MemStep
  <2>2. ConvInv'
    BY <2>1 DEF IInv, ConvInv, SlicePtr, ParentPtr
  <2>3. Converted' => ArrayElts' \subseteq DOMAIN mem'
    <3>1. ArrayElts' = ArrayElts
      BY <2>1 DEF ArrayElts, ArrayAddr, SlicePtr, ParentPtr
    <3>2. QED
      BY <2>1, <3>1, ConvertedInBuffer DEF IInv, TypeOK, Converted
  <2>3a. conv'.kind \in {"Ok", "UnequalLen", "Misaligned"}
    BY <2>1 DEF IInv, TypeOK
  <2>4. QED
    BY <2>1, <2>2, <2>3, <2>3a DEF IInv, TypeOK
<1>2. CASE UNCHANGED vars
  BY <1>2 DEF vars, IInv, TypeOK, ConvInv, Converted, ArrayElts, ArrayAddr,
             SlicePtr, ParentPtr
<1>3. QED
  BY <1>1, <1>2

\* Type correctness, including that the array TryFrom casts the slice's
\* element address to lies inside the buffer the slice borrowed
\* (traits.rs, try_from), for every W, N and L.
THEOREM TypeCorrect == Spec => []TypeOK
<1>1. IInv => TypeOK
  BY DEF IInv
<1>2. QED
  BY <1>1, IInvInit, IInvStep, PTL DEF Spec

\* The array is a faithful view: bit k of the &mut BitArray, addressed
\* from the slice's element address with the head dropped, is bit k of the
\* sub-slice, in every state (the head check of InnerError::new).
THEOREM ViewAgreesHolds == Spec => []ViewAgrees
<1>1. IInv => ViewAgrees
  <2> SUFFICES ASSUME IInv, Converted, NEW k \in 0 .. N - 1
               PROVE  ArrBit(k) = PtrRead(mem, PtrAdd(SlicePtr, k, W), Order, W)
    BY DEF ViewAgrees
  <2>1. slice.head \in Nat /\ ConvInv
    BY DEF IInv, TypeOK
  <2>2. ArrPtr(k) = ParentPtr(slice.head + k)
    BY <2>1, ConvertedFacts
  <2>3. PtrAdd(SlicePtr, k, W) = ParentPtr(slice.head + k)
    BY SliceBit
  <2>4. QED
    BY <2>2, <2>3 DEF ArrBit
<1>2. QED
  BY <1>1, IInvInit, IInvStep, PTL DEF Spec

-----------------------------------------------------------------------------
(* Confinement of the array's writes.                                      *)

\* Two parent bits at the same element and the same physical bit are the
\* same bit: add keeps indices apart and the order keeps heads apart.
LEMMA ParentPtrInjective ==
    ASSUME NEW x \in Nat, NEW y \in Nat,
           ParentPtr(x).addr = ParentPtr(y).addr,
           At(Order, W, ParentPtr(x).head) = At(Order, W, ParentPtr(y).head)
    PROVE  x = y
<1>1. ParentPtr(x) = [addr |-> x \div W, head |-> x % W]
      /\ ParentPtr(y) = [addr |-> y \div W, head |-> y % W]
  BY FromSliceAdd DEF ParentPtr
<1>2. x % W \in 0 .. W - 1 /\ y % W \in 0 .. W - 1
  BY DivMod
<1>3. At(Order, W, At(Order, W, x % W)) = x % W
      /\ At(Order, W, At(Order, W, y % W)) = y % W
  BY <1>2, AtInvolution
<1>4. x % W = y % W /\ x \div W = y \div W
  BY <1>1, <1>3
<1>5. PtrAdd(FromSlice, x, W) = PtrAdd(FromSlice, y, W)
  BY <1>1, <1>4 DEF ParentPtr
<1>6. QED
  BY <1>5, AddInjective

\* Writing one bit of the parent leaves every other bit of the parent as
\* it was.
LEMMA ReadOtherWrite ==
    ASSUME NEW m \in [0 .. BufElts - 1 -> Element], NEW x \in 0 .. L - 1,
           NEW y \in 0 .. L - 1, x # y, NEW b \in BOOLEAN
    PROVE  PtrRead(PtrWrite(m, ParentPtr(x), Order, W, b), ParentPtr(y), Order, W)
             = PtrRead(m, ParentPtr(y), Order, W)
<1> DEFINE ax == ParentPtr(x).addr
           qx == At(Order, W, ParentPtr(x).head)
           ay == ParentPtr(y).addr
           qy == At(Order, W, ParentPtr(y).head)
<1>1. ax \in 0 .. BufElts - 1 /\ qx \in 0 .. W - 1
      /\ ay \in 0 .. BufElts - 1 /\ qy \in 0 .. W - 1
  BY BitInBuffer
<1>2. ax # ay \/ qx # qy
  BY ParentPtrInjective
<1>3. PtrWrite(m, ParentPtr(x), Order, W, b) = [m EXCEPT ![ax][qx] = b]
  BY DEF PtrWrite
<1>4. [m EXCEPT ![ax][qx] = b][ay][qy] = m[ay][qy]
  BY <1>1, <1>2 DEF Element
<1>5. QED
  BY <1>3, <1>4 DEF PtrRead

\* No live bit of a converted array sits where a parent bit outside the
\* sub-slice is stored.
LEMMA NoLiveOutside ==
    ASSUME IInv, Converted, NEW j \in Outside
    PROVE  LiveAt(ParentPtr(j).addr, At(Order, W, ParentPtr(j).head)) = {}
<1>1. slice.head \in Nat /\ ConvInv
  BY DEF IInv, TypeOK
<1>2. slice.len = N /\ \A k \in Nat : ArrPtr(k) = ParentPtr(slice.head + k)
  BY <1>1, ConvertedFacts
<1>3. SUFFICES ASSUME NEW k \in LiveAt(ParentPtr(j).addr,
                                     At(Order, W, ParentPtr(j).head))
               PROVE  FALSE
  OBVIOUS
<1>4. k \in 0 .. N - 1
      /\ ParentPtr(slice.head + k).addr = ParentPtr(j).addr
      /\ At(Order, W, ParentPtr(slice.head + k).head)
           = At(Order, W, ParentPtr(j).head)
  BY <1>2, <1>3 DEF LiveAt
<1>5. j \in Nat /\ slice.head + k \in Nat
  BY <1>1, <1>4 DEF Outside
<1>6. slice.head + k = j
  BY <1>4, <1>5, ParentPtrInjective
<1>7. QED
  BY <1>1, <1>2, <1>4, <1>6 DEF Outside, Inside

\* Multiplying by the element width distributes over a sum.
LEMMA MulDist ==
    ASSUME NEW x \in Nat, NEW y \in Nat
    PROVE  W * (x + y) = W * x + W * y
OBVIOUS

\* Multiplying by the element width keeps strict order.
LEMMA MulMono ==
    ASSUME NEW x \in Nat, NEW y \in Nat, W * x < W * y
    PROVE  x < y
<1>1. SUFFICES ASSUME y <= x PROVE FALSE
  OBVIOUS
<1>2. W * y <= W * x
  BY <1>1
<1>3. QED
  BY <1>2

\* When W divides N, a converted array spans exactly the elements of its
\* sub-slice, so a parent bit outside the sub-slice lies in no element of
\* the array.
LEMMA OutsideElts ==
    ASSUME IInv, Converted, N % W = 0, NEW j \in Outside
    PROVE  ParentPtr(j).addr \notin ArrayElts
<1>1. slice.head \in Nat /\ ConvInv
  BY DEF IInv, TypeOK
<1>2. slice.len = N /\ slice.head % W = 0 /\ ArrayAddr = slice.head \div W
  BY <1>1, ConvertedFacts
<1>3. j \in Nat /\ (j < slice.head \/ slice.head + N <= j)
  BY <1>1, <1>2 DEF Outside, Inside
<1>4. ParentPtr(j).addr = j \div W
  BY <1>3, FromSliceAdd DEF ParentPtr
<1> DEFINE a == slice.head \div W
           c == j \div W
           m == N \div W
<1>5. slice.head = W * a /\ N = W * m /\ a \in Nat /\ m \in Nat
  <2>1. slice.head = W * a + (slice.head % W) /\ a \in Nat
    BY <1>1, DivMod
  <2>2. N = W * m + (N % W) /\ m \in Nat
    BY DivMod
  <2>3. QED
    BY <1>2, <2>1, <2>2
<1>6. j = W * c + (j % W) /\ c \in Nat /\ j % W \in 0 .. W - 1
  BY <1>3, DivMod
<1>7. Elts = m
  <2>1. (W * m + (W - 1)) \div W = m
    BY <1>5
  <2>2. QED
    BY <1>5, <2>1 DEF Elts, EltsOf
<1>8. c < a \/ a + m <= c
  <2>1. CASE j < slice.head
    <3>1. W * c < W * a
      BY <1>5, <1>6, <2>1
    <3>2. QED
      BY <1>5, <1>6, <3>1, MulMono
  <2>2. CASE slice.head + N <= j
    <3>1. W * (a + m) < W * (c + 1)
      <4>1. W * (a + m) = W * a + W * m /\ W * (c + 1) = W * c + W * 1
        BY <1>5, <1>6, MulDist
      <4>2. QED
        BY <1>5, <1>6, <2>2, <4>1
    <3>2. QED
      BY <1>5, <1>6, <3>1, MulMono
  <2>3. QED
    BY <1>3, <2>1, <2>2
<1>9. QED
  BY <1>2, <1>4, <1>7, <1>8 DEF ArrayElts

\* The case in which the array stays inside its sub-slice: the caller
\* uses neither ! nor the raw element stores, or W divides N so the
\* sub-slice ends on an element boundary.
ConfinedCase == ({"not", "store"} \cap Ops = {}) \/ N % W = 0

\* A step the array makes changes no parent bit outside the sub-slice.
LEMMA ConfinedStep ==
    ASSUME IInv, ConfinedCase, [Next]_vars, by' = "array", NEW j \in Outside
    PROVE  Bit(j)' = Bit(j)
<1>0. j \in 0 .. L - 1
  BY DEF Outside
<1> DEFINE e == ParentPtr(j).addr
           q == At(Order, W, ParentPtr(j).head)
<1>1. e \in 0 .. BufElts - 1 /\ q \in 0 .. W - 1
  BY <1>0, BitInBuffer
<1>2. mem \in [0 .. BufElts - 1 -> Element] /\ slice.head \in Nat /\ ConvInv
  BY DEF IInv, TypeOK
<1>3. Bit(j) = mem[e][q] /\ Bit(j)' = mem'[e][q]
  BY DEF Bit, PtrRead
<1>4. CASE UNCHANGED vars
  BY <1>3, <1>4 DEF vars
<1>5. ASSUME NEW k \in 0 .. N - 1, NEW b \in BOOLEAN, arr_set(k, b)
      PROVE  Bit(j)' = Bit(j)
  <2>1. Converted /\ mem' = PtrWrite(mem, ArrPtr(k), Order, W, b)
    BY <1>5 DEF arr_set
  <2>2. slice.len = N /\ ArrPtr(k) = ParentPtr(slice.head + k)
    BY <1>2, <2>1, ConvertedFacts
  <2>3. slice.head + k \in 0 .. L - 1 /\ slice.head + k # j
    BY <1>2, <2>2 DEF IInv, TypeOK, Outside, Inside
  <2>4. QED
    BY <1>0, <1>2, <2>1, <2>2, <2>3, ReadOtherWrite DEF Bit
<1>6. ASSUME NEW op \in BinOps, NEW rhs \in [0 .. N - 1 -> BOOLEAN],
             arr_bitop(op, rhs)
      PROVE  Bit(j)' = Bit(j)
  <2>1. Converted
    BY <1>6 DEF arr_bitop
  <2>2. LiveAt(e, q) = {}
    BY <2>1, NoLiveOutside
  <2>3. mem'[e][q] = mem[e][q]
    BY <1>1, <1>2, <1>6, <2>2 DEF arr_bitop
  <2>4. QED
    BY <1>3, <2>3
<1>7. ASSUME arr_not PROVE Bit(j)' = Bit(j)
  <2>1. Converted /\ "not" \in Ops
    BY <1>7 DEF arr_not
  <2>2. N % W = 0
    BY <2>1 DEF ConfinedCase
  <2>3. e \notin ArrayElts
    BY <2>1, <2>2, OutsideElts
  <2>4. mem'[e] = mem[e]
    BY <1>1, <1>2, <1>7, <2>3 DEF arr_not
  <2>5. QED
    BY <1>3, <2>4
<1>8. ASSUME NEW i \in 0 .. Elts - 1, NEW v \in Element, arr_store(i, v)
      PROVE  Bit(j)' = Bit(j)
  <2>1. Converted /\ "store" \in Ops
        /\ mem' = [mem EXCEPT ![ArrayAddr + i] = v]
    BY <1>8 DEF arr_store
  <2>2. N % W = 0
    BY <2>1 DEF ConfinedCase
  <2>3. e \notin ArrayElts
    BY <2>1, <2>2, OutsideElts
  <2>4. ArrayAddr \in Nat /\ Elts \in Nat
    BY <1>2 DEF ArrayAddr, SlicePtr, ParentPtr, PtrAdd, FromSlice, Elts, EltsOf
  <2>5. ArrayAddr + i \in ArrayElts
    BY <2>4 DEF ArrayElts
  <2>6. mem'[e] = mem[e]
    BY <1>1, <1>2, <2>1, <2>3, <2>5
  <2>7. QED
    BY <1>3, <2>6
<1>9. CASE Next
  <2>1. ~\E k \in 0 .. L - 1, b \in BOOLEAN : slice_set(k, b)
    BY DEF slice_set
  <2>2. ~\E i \in 0 .. L - 1, b \in BOOLEAN : other_set(i, b)
    BY DEF other_set
  <2>3. QED
    BY <1>5, <1>6, <1>7, <1>8, <1>9, <2>1, <2>2 DEF Next
<1>10. QED
  BY <1>4, <1>9

\* When the caller uses neither ! nor raw stores, or W divides N, no write
\* through the &mut BitArray that TryFrom<&mut BitSlice> returns
\* (traits.rs) reaches a bit of the parent slice outside the sub-slice it
\* borrowed (ArrayConfined, checked by the runs view_confined and
\* view_aligned; view_not_escapes shows it fails otherwise).
THEOREM ArrayConfinedHolds == ConfinedCase => (Spec => ArrayConfined)
<1> SUFFICES ASSUME ConfinedCase PROVE Spec => ArrayConfined
  OBVIOUS
<1>1. IInv /\ [Next]_vars
        => [by' = "array" => \A j \in Outside : Bit(j)' = Bit(j)]_vars
  BY ConfinedStep
<1>2. QED
  BY <1>1, IInvInit, IInvStep, PTL DEF Spec, ArrayConfined
=============================================================================
