------------------------- MODULE BitArrayIterProofs -------------------------
(***************************************************************************)
(* Proofs about array::IntoIter (module BitArrayIter) for every element    *)
(* width, array length, bit order and usize width.                         *)
(***************************************************************************)
EXTENDS MCBitArrayIter, BitPtrLemmas, SequenceTheorems

USE WAssumption, NAssumption, UsizeAssumption, OrderAssumption

-----------------------------------------------------------------------------
(* Lemmas on the pointer arithmetic.                                       *)

\* Bit index x of the array lies in element x \div W, which exists, at
\* head x % W.
LEMMA IndexInBuffer ==
    ASSUME NEW x \in 0 .. N - 1
    PROVE  /\ x \div W \in 0 .. Elts - 1
           /\ x % W \in 0 .. W - 1
<1>1. x % W \in 0 .. W - 1
  BY WAssumption
<1>2. x \div W \in Nat
  BY WAssumption
<1>3. x \div W < (N + W - 1) \div W
  <2>1. W * (x \div W) + (x % W) = x
    BY WAssumption
  <2>2. W * (x \div W) + W <= N + W - 1
    BY <2>1, <1>1
  <2>3. (W * (x \div W) + W) \div W = x \div W + 1
    BY <1>2, WAssumption
  <2>4. (W * (x \div W) + W) \div W <= (N + W - 1) \div W
    BY <2>2, WAssumption
  <2>5. QED
    BY <2>3, <2>4
<1>4. QED
  BY <1>1, <1>2, <1>3 DEF Elts

\* The order maps a head to a physical bit of the element.
LEMMA AtInElement ==
    ASSUME NEW h \in 0 .. W - 1
    PROVE  At(Order, W, h) \in 0 .. W - 1
BY WAssumption DEF At

\* Reading bit x < N of a well-typed buffer yields a Boolean.
LEMMA ReadIsBool ==
    ASSUME NEW d \in [0 .. Elts - 1 -> Element], NEW x \in 0 .. N - 1
    PROVE  PtrRead(d, PtrAdd(FromSlice, x, W), Order, W) \in BOOLEAN
<1>1. PtrAdd(FromSlice, x, W) = [addr |-> x \div W, head |-> x % W]
  BY DEF PtrAdd, FromSlice
<1>2. At(Order, W, x % W) \in 0 .. W - 1
  BY IndexInBuffer, AtInElement
<1>3. d[x \div W] \in [0 .. W - 1 -> BOOLEAN]
  BY IndexInBuffer DEF Element
<1>4. QED
  BY <1>1, <1>2, <1>3 DEF PtrRead

\* Writing bit x < N of a well-typed buffer keeps it well typed.
LEMMA WriteKeepsType ==
    ASSUME NEW d \in [0 .. Elts - 1 -> Element], NEW x \in 0 .. N - 1,
           NEW b \in BOOLEAN
    PROVE  PtrWrite(d, PtrAdd(FromSlice, x, W), Order, W, b)
             \in [0 .. Elts - 1 -> Element]
<1>1. PtrAdd(FromSlice, x, W) = [addr |-> x \div W, head |-> x % W]
  BY DEF PtrAdd, FromSlice
<1>2. At(Order, W, x % W) \in 0 .. W - 1
  BY IndexInBuffer, AtInElement
<1>3. QED
  BY <1>1, <1>2, IndexInBuffer DEF PtrWrite, Element

-----------------------------------------------------------------------------
(* Type correctness.                                                       *)

\* get(x) is a Boolean whenever x is below N.
LEMMA GetIsBool ==
    ASSUME TypeOK, NEW x \in 0 .. N - 1
    PROVE  get(x) \in BOOLEAN
BY ReadIsBool DEF TypeOK, get

\* A step keeps the state well typed.
LEMMA TypeStep == TypeOK /\ [Next]_vars => TypeOK'
<1> SUFFICES ASSUME TypeOK, [Next]_vars PROVE TypeOK'
  OBVIOUS
<1> USE DEF TypeOK, Option, None, Some, Calls
<1>1. CASE next
  BY <1>1, GetIsBool DEF next
<1>2. ASSUME NEW n \in 0 .. UsizeMax, nth(n) PROVE TypeOK'
  BY <1>2, GetIsBool DEF nth
<1>3. CASE next_back
  BY <1>3, GetIsBool DEF next_back
<1>4. ASSUME NEW n \in 0 .. UsizeMax, nth_back(n) PROVE TypeOK'
  BY <1>4, GetIsBool DEF nth_back
<1>5. ASSUME NEW i \in 0 .. N - 1, NEW b \in BOOLEAN, set_alive(i, b)
      PROVE TypeOK'
  <2>1. alive.start + i \in 0 .. N - 1
    BY <1>5 DEF set_alive, len
  <2>2. data' = PtrWrite(data, PtrAdd(FromSlice, alive.start + i, W),
                         Order, W, b)
    BY <1>5, AddAdd DEF set_alive
  <2>3. QED
    BY <1>5, <2>1, <2>2, WriteKeepsType DEF set_alive
<1>6. CASE UNCHANGED vars
  BY <1>6 DEF vars
<1>7. QED
  BY <1>1, <1>2, <1>3, <1>4, <1>5, <1>6 DEF Next

\* Every reachable state is well typed; in particular alive never leaves
\* 0 .. N, so the unchecked reads and writes of get, as_bitslice and
\* as_mut_bitslice stay inside the array's elements.
THEOREM TypeCorrect == Spec => []TypeOK
<1>1. Init => TypeOK
  BY NAssumption DEF Init, TypeOK, Option, None, Calls
<1>2. QED
  BY <1>1, TypeStep, PTL DEF Spec

-----------------------------------------------------------------------------
(* FusedIterator.                                                          *)

\* A call that returned None has left the range empty.
ExhaustedOnNone == last # "new" /\ ret = None => alive.start = alive.end

\* The inductive invariant behind Fused.
IInv == TypeOK /\ ExhaustedOnNone

LEMMA IInvInit == Init => IInv
BY NAssumption DEF Init, IInv, TypeOK, ExhaustedOnNone, Option,
   None, Calls

LEMMA IInvStep == IInv /\ [Next]_vars => IInv'
<1> SUFFICES ASSUME IInv, [Next]_vars PROVE IInv'
  OBVIOUS
<1>1. TypeOK'
  BY TypeStep DEF IInv
<1>2. ExhaustedOnNone'
  <2> USE DEF IInv, TypeOK, ExhaustedOnNone, None, Some
  <2>1. CASE next
    BY <2>1 DEF next
  <2>2. ASSUME NEW n \in 0 .. UsizeMax, nth(n) PROVE ExhaustedOnNone'
    BY <2>2 DEF nth
  <2>3. CASE next_back
    BY <2>3 DEF next_back
  <2>4. ASSUME NEW n \in 0 .. UsizeMax, nth_back(n) PROVE ExhaustedOnNone'
    BY <2>4 DEF nth_back
  <2>5. ASSUME NEW i \in 0 .. N - 1, NEW b \in BOOLEAN, set_alive(i, b)
        PROVE ExhaustedOnNone'
    BY <2>5 DEF set_alive, len
  <2>6. CASE UNCHANGED vars
    BY <2>6 DEF vars
  <2>7. QED
    BY <2>1, <2>2, <2>3, <2>4, <2>5, <2>6 DEF Next
<1>3. QED
  BY <1>1, <1>2 DEF IInv

\* Every step from a state where a call returned None returns None again.
LEMMA FusedStep == IInv /\ [Next]_vars => (last # "new" /\ ret = None => ret' = None)
<1> SUFFICES ASSUME IInv, [Next]_vars, last # "new", ret = None
             PROVE  ret' = None
  OBVIOUS
<1>1. alive.start = alive.end
  BY DEF IInv, ExhaustedOnNone
<1> USE <1>1 DEF IInv, TypeOK, None, Some
<1>2. CASE next
  BY <1>2 DEF next
<1>3. ASSUME NEW n \in 0 .. UsizeMax, nth(n) PROVE ret' = None
  BY <1>3 DEF nth
<1>4. CASE next_back
  BY <1>4 DEF next_back
<1>5. ASSUME NEW n \in 0 .. UsizeMax, nth_back(n) PROVE ret' = None
  BY <1>5 DEF nth_back
<1>6. ASSUME NEW i \in 0 .. N - 1, NEW b \in BOOLEAN, set_alive(i, b)
      PROVE ret' = None
  BY <1>6 DEF set_alive, len
<1>7. CASE UNCHANGED vars
  BY <1>7 DEF vars
<1>8. QED
  BY <1>2, <1>3, <1>4, <1>5, <1>6, <1>7 DEF Next

\* FusedIterator (iter.rs:247) holds for every width, length, order and
\* usize width: after a call returns None, every later call returns None.
THEOREM FusedHolds == Spec => Fused
<1>1. Spec => []IInv
  BY IInvInit, IInvStep, PTL DEF Spec
<1>2. QED
  BY <1>1, FusedStep, PTL DEF Spec, Fused

-----------------------------------------------------------------------------
(* Refinement of the iterator contract (BitIterAbstract).                  *)

\* The bits of the array between a.start and a.end, read one by one
\* through BitPtr::add from the first element: what as_bitslice shows.
View(a, d) ==
    [k \in 1 .. a.end - a.start |->
        PtrRead(d, PtrAdd(FromSlice, a.start + k - 1, W), Order, W)]

\* as_bitslice goes through add(alive.start).add(k - 1), which is
\* add(alive.start + k - 1).
LEMMA AsBitsliceView ==
    ASSUME NEW a, NEW d, a.start \in Nat
    PROVE  [k \in 1 .. a.end - a.start |->
              PtrRead(d, PtrAdd(PtrAdd(FromSlice, a.start, W), k - 1, W),
                      Order, W)]
           = View(a, d)
<1>1. ASSUME NEW k \in 1 .. a.end - a.start
      PROVE  PtrAdd(PtrAdd(FromSlice, a.start, W), k - 1, W)
               = PtrAdd(FromSlice, a.start + k - 1, W)
  <2>1. k - 1 \in Nat
    OBVIOUS
  <2>2. a.start + (k - 1) = a.start + k - 1
    OBVIOUS
  <2>3. QED
    BY <2>1, <2>2, AddAdd
<1>2. QED
  BY <1>1 DEF View

\* Writing bit x and reading bit y of the array: bit x alone changes.
LEMMA ReadAfterWrite ==
    ASSUME NEW d \in [0 .. Elts - 1 -> Element], NEW x \in 0 .. N - 1,
           NEW y \in 0 .. N - 1, NEW b \in BOOLEAN
    PROVE  PtrRead(PtrWrite(d, PtrAdd(FromSlice, x, W), Order, W, b),
                   PtrAdd(FromSlice, y, W), Order, W)
             = IF x = y THEN b ELSE PtrRead(d, PtrAdd(FromSlice, y, W), Order, W)
<1>1. PtrAdd(FromSlice, x, W) = [addr |-> x \div W, head |-> x % W]
      /\ PtrAdd(FromSlice, y, W) = [addr |-> y \div W, head |-> y % W]
  BY DEF PtrAdd, FromSlice
<1>2. /\ x \div W \in 0 .. Elts - 1 /\ x % W \in 0 .. W - 1
      /\ y \div W \in 0 .. Elts - 1 /\ y % W \in 0 .. W - 1
  BY IndexInBuffer
<1>3. /\ At(Order, W, x % W) \in 0 .. W - 1
      /\ At(Order, W, y % W) \in 0 .. W - 1
      /\ At(Order, W, At(Order, W, x % W)) = x % W
      /\ At(Order, W, At(Order, W, y % W)) = y % W
  BY <1>2, AtInvolution
<1>4. d[x \div W] \in [0 .. W - 1 -> BOOLEAN]
  BY <1>2 DEF Element
<1>5. CASE x = y
  <2>1. PtrRead(PtrWrite(d, PtrAdd(FromSlice, x, W), Order, W, b),
                PtrAdd(FromSlice, x, W), Order, W)
          = [d EXCEPT ![x \div W][At(Order, W, x % W)] = b]
              [x \div W][At(Order, W, x % W)]
    BY <1>1 DEF PtrRead, PtrWrite
  <2>2. QED
    BY <1>2, <1>3, <1>4, <1>5, <2>1
<1>6. CASE x # y
  <2>1. ~(x \div W = y \div W /\ At(Order, W, x % W) = At(Order, W, y % W))
    <3>1. x = W * (x \div W) + (x % W) /\ y = W * (y \div W) + (y % W)
      OBVIOUS
    <3>2. QED
      BY <1>3, <1>6, <3>1
  <2> DEFINE ex == x \div W
             ey == y \div W
             qx == At(Order, W, x % W)
             qy == At(Order, W, y % W)
  <2>2. PtrRead(PtrWrite(d, PtrAdd(FromSlice, x, W), Order, W, b),
                PtrAdd(FromSlice, y, W), Order, W)
          = [d EXCEPT ![ex][qx] = b][ey][qy]
    BY <1>1 DEF PtrRead, PtrWrite
  <2>3. PtrRead(d, PtrAdd(FromSlice, y, W), Order, W) = d[ey][qy]
    BY <1>1 DEF PtrRead
  <2>4. CASE ex # ey
    BY <1>2, <2>2, <2>3, <2>4, <1>6
  <2>5. CASE ex = ey
    <3>1. qx # qy
      BY <2>1, <2>5
    <3>2. [d EXCEPT ![ex][qx] = b][ey] = [d[ex] EXCEPT ![qx] = b]
      BY <1>2, <2>5
    <3>3. QED
      BY <1>3, <1>4, <1>6, <2>2, <2>3, <2>5, <3>1, <3>2
  <2>6. QED
    BY <2>4, <2>5
<1>7. QED
  BY <1>5, <1>6

\* The two readings of as_bitslice, before and after a step.
LEMMA ViewNow ==
    ASSUME TypeOK, TypeOK'
    PROVE  as_bitslice = View(alive, data) /\ as_bitslice' = View(alive', data')
<1>1. alive.start \in Nat /\ alive'.start \in Nat
  BY DEF TypeOK
<1>2. as_bitslice = View(alive, data)
  BY <1>1, AsBitsliceView DEF as_bitslice
<1>3. as_bitslice' = View(alive', data')
  BY <1>1, AsBitsliceView DEF as_bitslice
<1>4. QED
  BY <1>2, <1>3

\* The view of an empty range is the empty sequence.
LEMMA ViewEmpty ==
    ASSUME NEW a, NEW d, a.end - a.start = 0
    PROVE  View(a, d) = <<>>
BY DEF View

\* The view of a range start .. end - 1 has end - start bits.
LEMMA ViewLen ==
    ASSUME NEW a, NEW d, a.start \in Nat, a.end \in Nat, a.start <= a.end
    PROVE  /\ Len(View(a, d)) = a.end - a.start
           /\ View(a, d) = <<>> <=> a.start = a.end
<1>1. a.end - a.start \in Nat
  OBVIOUS
<1>2. QED
  BY <1>1 DEF View

\* The view of a range inside 0 .. N of a well-typed array is a sequence
\* of bits.
LEMMA ViewSeq ==
    ASSUME NEW a, NEW d \in [0 .. Elts - 1 -> Element],
           a.start \in Nat, a.end \in 0 .. N, a.start <= a.end
    PROVE  View(a, d) \in Seq(BOOLEAN)
<1>1. ASSUME NEW k \in 1 .. a.end - a.start
      PROVE  PtrRead(d, PtrAdd(FromSlice, a.start + k - 1, W), Order, W) \in BOOLEAN
  BY ReadIsBool
<1>2. View(a, d) \in [1 .. a.end - a.start -> BOOLEAN]
  BY <1>1 DEF View
<1>3. a.end - a.start \in Nat
  OBVIOUS
<1>4. QED
  BY <1>2, <1>3, SeqDef

\* SubSeq under a name of its own, so that the lemmas below are cited
\* with their conclusion as one opaque term.
Slice(s, p, q) == SubSeq(s, p, q)

\* Dropping the first n + 1 bits of the range drops them from the view.
LEMMA ViewDropFront ==
    ASSUME NEW n \in Nat, data \in [0 .. Elts - 1 -> Element],
           alive.start \in Nat, alive.end \in 0 .. N, alive.start + n < alive.end,
           alive'.start = alive.start + n + 1, alive'.end = alive.end
    PROVE  View(alive', data) = Slice(View(alive, data), n + 2, alive.end - alive.start)
<1> DEFINE V == View(alive, data)
           U == View(alive', data)
           L == alive.end - alive.start
<1>1. V \in Seq(BOOLEAN) /\ Len(V) = L
  BY ViewSeq, ViewLen
<1>2. U \in Seq(BOOLEAN) /\ Len(U) = L - n - 1
  <2>1. alive'.start \in Nat /\ alive'.end \in 0 .. N /\ alive'.start <= alive'.end
    OBVIOUS
  <2>2. alive'.end \in Nat
    BY <2>1
  <2>3. U \in Seq(BOOLEAN)
    BY <2>1, ViewSeq
  <2>4. Len(U) = alive'.end - alive'.start
    BY <2>1, <2>2, ViewLen
  <2>5. QED
    BY <2>3, <2>4
<1>3. /\ SubSeq(V, n + 2, L) \in Seq(BOOLEAN)
      /\ Len(SubSeq(V, n + 2, L)) = L - n - 1
      /\ \A i \in 1 .. L - n - 1 : SubSeq(V, n + 2, L)[i] = V[n + 1 + i]
  <2>1. \A i \in n + 2 .. L : V[i] \in BOOLEAN
    BY <1>1 DEF View
  <2>2. QED
    BY <1>1, <2>1, SubSeqProperties
<1>4. ASSUME NEW i \in 1 .. L - n - 1 PROVE U[i] = V[n + 1 + i]
  <2>1. alive'.start + i - 1 = alive.start + (n + 1 + i) - 1
    OBVIOUS
  <2>2. i \in 1 .. alive'.end - alive'.start /\ n + 1 + i \in 1 .. L
    OBVIOUS
  <2>3. U[i] = PtrRead(data, PtrAdd(FromSlice, alive'.start + i - 1, W), Order, W)
    BY <2>2 DEF View
  <2>4. V[n + 1 + i]
          = PtrRead(data, PtrAdd(FromSlice, alive.start + (n + 1 + i) - 1, W), Order, W)
    BY <2>2 DEF View
  <2>5. QED
    BY <2>1, <2>3, <2>4
<1>5. \A i \in 1 .. Len(U) : U[i] = SubSeq(V, n + 2, L)[i]
  BY <1>2, <1>3, <1>4
<1>6. U = SubSeq(V, n + 2, L)
  BY <1>2, <1>3, <1>5, SeqEqual
<1>7. QED
  BY <1>6 DEF Slice

\* Dropping the last n + 1 bits of the range drops them from the view.
LEMMA ViewDropBack ==
    ASSUME NEW n \in Nat, data \in [0 .. Elts - 1 -> Element],
           alive.start \in Nat, alive.end \in 0 .. N, alive.start + n < alive.end,
           alive'.start = alive.start, alive'.end = alive.end - n - 1
    PROVE  View(alive', data)
             = Slice(View(alive, data), 1, alive.end - alive.start - n - 1)
<1> DEFINE V == View(alive, data)
           U == View(alive', data)
           L == alive.end - alive.start
<1>1. V \in Seq(BOOLEAN) /\ Len(V) = L
  BY ViewSeq, ViewLen
<1>2. U \in Seq(BOOLEAN) /\ Len(U) = L - n - 1
  <2>1. alive'.start \in Nat /\ alive'.end \in 0 .. N /\ alive'.start <= alive'.end
    OBVIOUS
  <2>2. alive'.end \in Nat
    BY <2>1
  <2>3. U \in Seq(BOOLEAN)
    BY <2>1, ViewSeq
  <2>4. Len(U) = alive'.end - alive'.start
    BY <2>1, <2>2, ViewLen
  <2>5. QED
    BY <2>3, <2>4
<1>3. /\ SubSeq(V, 1, L - n - 1) \in Seq(BOOLEAN)
      /\ Len(SubSeq(V, 1, L - n - 1)) = L - n - 1
      /\ \A i \in 1 .. L - n - 1 : SubSeq(V, 1, L - n - 1)[i] = V[i]
  <2>1. \A i \in 1 .. L - n - 1 : V[i] \in BOOLEAN
    BY <1>1 DEF View
  <2>2. 1 \in Int /\ L - n - 1 \in Int
    OBVIOUS
  <2>3. /\ SubSeq(V, 1, L - n - 1) \in Seq(BOOLEAN)
        /\ Len(SubSeq(V, 1, L - n - 1))
             = IF 1 <= L - n - 1 THEN (L - n - 1) - 1 + 1 ELSE 0
        /\ \A i \in 1 .. (L - n - 1) - 1 + 1 :
             SubSeq(V, 1, L - n - 1)[i] = V[1 + i - 1]
    BY <2>1, <2>2, SubSeqProperties
  <2>4. /\ (IF 1 <= L - n - 1 THEN (L - n - 1) - 1 + 1 ELSE 0) = L - n - 1
        /\ (L - n - 1) - 1 + 1 = L - n - 1
        /\ \A i \in Nat : 1 + i - 1 = i
    OBVIOUS
  <2>5. QED
    BY <2>3, <2>4, SMTT(30)
<1>4. ASSUME NEW i \in 1 .. L - n - 1 PROVE U[i] = V[i]
  <2>1. i \in 1 .. alive'.end - alive'.start /\ i \in 1 .. L
    OBVIOUS
  <2>2. U[i] = PtrRead(data, PtrAdd(FromSlice, alive'.start + i - 1, W), Order, W)
    BY <2>1 DEF View
  <2>3. V[i] = PtrRead(data, PtrAdd(FromSlice, alive.start + i - 1, W), Order, W)
    BY <2>1 DEF View
  <2>4. QED
    BY <2>2, <2>3
<1>5. \A i \in 1 .. Len(U) : U[i] = SubSeq(V, 1, L - n - 1)[i]
  BY <1>2, <1>3, <1>4
<1>6. U = SubSeq(V, 1, L - n - 1)
  BY <1>2, <1>3, <1>5, SeqEqual
<1>7. QED
  BY <1>6 DEF Slice

\* Dropping the last bit of the range drops it from the view.
LEMMA ViewDropLast ==
    ASSUME data \in [0 .. Elts - 1 -> Element],
           alive.start \in Nat, alive.end \in 0 .. N, alive.start < alive.end,
           alive'.start = alive.start, alive'.end = alive.end - 1
    PROVE  View(alive', data)
             = Slice(View(alive, data), 1, alive.end - alive.start - 1)
<1>1. 0 \in Nat /\ alive.start + 0 < alive.end /\ alive'.end = alive.end - 0 - 1
  OBVIOUS
<1>2. alive.end - alive.start - 0 - 1 = alive.end - alive.start - 1
  OBVIOUS
<1>3. QED
  BY <1>1, <1>2, ViewDropBack

\* Replacing element k of a sequence, under a name of its own.
SetBit(s, k, b) == [s EXCEPT ![k] = b]

\* Writing bit alive.start + i of the buffer writes bit i + 1 of the view.
LEMMA ViewWrite ==
    ASSUME NEW i \in Nat, NEW b \in BOOLEAN, data \in [0 .. Elts - 1 -> Element],
           alive.start \in Nat, alive.end \in 0 .. N, alive.start + i < alive.end,
           data' = PtrWrite(data, PtrAdd(FromSlice, alive.start + i, W), Order, W, b)
    PROVE  View(alive, data') = SetBit(View(alive, data), i + 1, b)
<1> DEFINE V == View(alive, data)
           U == View(alive, data')
           L == alive.end - alive.start
<1>1. alive.start + i \in 0 .. N - 1 /\ alive.start <= alive.end /\ alive.end \in Nat
  OBVIOUS
<1>2. data' \in [0 .. Elts - 1 -> Element]
  BY <1>1, WriteKeepsType
<1>3. V \in Seq(BOOLEAN) /\ Len(V) = L
  BY <1>1, ViewSeq, ViewLen
<1>4. U \in Seq(BOOLEAN) /\ Len(U) = L
  BY <1>1, <1>2, ViewSeq, ViewLen
<1>5. /\ [V EXCEPT ![i + 1] = b] \in Seq(BOOLEAN)
      /\ Len([V EXCEPT ![i + 1] = b]) = L
      /\ \A j \in 1 .. L : [V EXCEPT ![i + 1] = b][j] = IF j = i + 1 THEN b ELSE V[j]
  <2>1. i + 1 \in 1 .. Len(V)
    BY <1>3
  <2>2. QED
    BY <1>3, <2>1, ExceptSeq
<1>6. ASSUME NEW j \in 1 .. L PROVE U[j] = IF j = i + 1 THEN b ELSE V[j]
  <2>0. j \in Nat /\ 1 <= j /\ j <= alive.end - alive.start
    OBVIOUS
  <2>1. alive.start + j - 1 \in 0 .. N - 1
    BY <2>0
  <2>2. U[j] = PtrRead(data', PtrAdd(FromSlice, alive.start + j - 1, W), Order, W)
    BY DEF View
  <2>3. V[j] = PtrRead(data, PtrAdd(FromSlice, alive.start + j - 1, W), Order, W)
    BY DEF View
  <2>4. PtrRead(data', PtrAdd(FromSlice, alive.start + j - 1, W), Order, W)
          = IF alive.start + i = alive.start + j - 1 THEN b
            ELSE PtrRead(data, PtrAdd(FromSlice, alive.start + j - 1, W), Order, W)
    <3>1. PtrRead(PtrWrite(data, PtrAdd(FromSlice, alive.start + i, W), Order, W, b),
                  PtrAdd(FromSlice, alive.start + j - 1, W), Order, W)
            = IF alive.start + i = alive.start + j - 1 THEN b
              ELSE PtrRead(data, PtrAdd(FromSlice, alive.start + j - 1, W), Order, W)
      BY <1>1, <2>1, ReadAfterWrite, SMTT(30)
    <3>2. QED
      BY <3>1
  <2>5. (alive.start + i = alive.start + j - 1) <=> (j = i + 1)
    OBVIOUS
  <2>6. QED
    BY <2>2, <2>3, <2>4, <2>5
<1>7. QED
  BY <1>4, <1>5, <1>6, SeqEqual DEF SetBit

\* IntoIter::new starts with the contract's initial state: the N bits of
\* the array, front first.
LEMMA RefineInit == Init => Contract!Init
<1> SUFFICES ASSUME Init PROVE Contract!Init
  OBVIOUS
<1>1. TypeOK
  BY TypeCorrect, NAssumption DEF Init, TypeOK, Option, None, Calls
<1>2. as_bitslice = View(alive, data)
  BY <1>1, AsBitsliceView DEF TypeOK, as_bitslice
<1>3. View(alive, data) \in [1 .. N -> BOOLEAN]
  <2>1. ASSUME NEW k \in 1 .. N
        PROVE  PtrRead(data, PtrAdd(FromSlice, k - 1, W), Order, W) \in BOOLEAN
    BY ReadIsBool DEF Init
  <2>2. QED
    BY <2>1 DEF Init, View
<1>4. QED
  BY <1>2, <1>3 DEF Init, Contract!Init, None, Contract!None

\* next takes the front bit.
LEMMA RefineNext ==
    ASSUME TypeOK, TypeOK', next
    PROVE  Contract!next
<1> DEFINE V == View(alive, data)
           V2 == View(alive', data')
<1>1. as_bitslice = V /\ as_bitslice' = V2
  BY ViewNow
<1>2. alive.start \in Nat /\ alive.end \in Nat /\ alive.start <= alive.end
      /\ alive.end <= N
  BY DEF TypeOK
<1>3. Len(V) = alive.end - alive.start /\ (V = <<>> <=> alive.start = alive.end)
  BY <1>2, ViewLen
<1>4. CASE alive.start < alive.end
  <2>1. alive' = [alive EXCEPT !.start = @ + 1] /\ ret' = Some(get(alive.start))
        /\ data' = data /\ last' = "next"
    BY <1>2, <1>4 DEF next
  <2>2. Head(V) = get(alive.start)
    BY <1>2, <1>4 DEF View, get
  <2>3. V2 = Tail(V)
    <3>1. alive'.start = alive.start + 1 /\ alive'.end = alive.end
      BY <2>1, <1>2 DEF TypeOK
    <3>0. V \in Seq(BOOLEAN) /\ V2 \in Seq(BOOLEAN)
      BY <1>2, <3>1, ViewSeq DEF TypeOK
    <3>2. /\ Tail(V) \in Seq(BOOLEAN)
          /\ Len(Tail(V)) = Len(V) - 1
          /\ \A i \in 1 .. Len(Tail(V)) : Tail(V)[i] = V[i + 1]
      <4>1. V # <<>>
        <5>1. alive.start # alive.end
          BY <1>2, <1>4
        <5>2. QED
          BY <1>3, <5>1, Zenon
      <4>2. QED
        BY <3>0, <4>1, HeadTailProperties
    <3>3. ASSUME NEW i \in 1 .. alive.end - alive.start - 1
          PROVE  V2[i] = V[i + 1]
      <4>1. alive'.start + i - 1 = alive.start + (i + 1) - 1
        BY <1>2, <3>1
      <4>2. QED
        BY <1>2, <2>1, <3>1, <4>1 DEF View
    <3>4. Len(V2) = alive.end - alive.start - 1
      <4>1. alive'.start \in Nat /\ alive'.end \in Nat /\ alive'.start <= alive'.end
        BY <1>2, <1>4, <3>1
      <4>2. Len(V2) = alive'.end - alive'.start
        BY <4>1, ViewLen
      <4>3. QED
        BY <4>2, <3>1, <1>2
    <3>5. QED
      BY <1>3, <3>0, <3>2, <3>3, <3>4, SeqEqual
  <2>4. V # <<>>
    <3>1. alive.start # alive.end
      BY <1>2, <1>4
    <3>2. QED
      BY <1>3, <3>1, Zenon
  <2>5. /\ as_bitslice # <<>>
        /\ ret' = Some(Head(as_bitslice))
        /\ as_bitslice' = Tail(as_bitslice)
    BY <1>1, <2>1, <2>2, <2>3, <2>4
  <2>6. QED
    BY <2>1, <2>5 DEF Contract!next, Some, Contract!Some
<1>5. CASE ~(alive.start < alive.end)
  <2>1. UNCHANGED <<alive, data>> /\ ret' = None /\ last' = "next"
    BY <1>5 DEF next
  <2>2. QED
    BY <1>1, <1>2, <1>3, <1>5, <2>1 DEF Contract!next, None, Contract!None
<1>6. QED
  BY <1>4, <1>5

\* nth(n) takes the (n+1)-th bit and drops those before it, or exhausts
\* the iterator when there are not n + 1 bits left.
LEMMA RefineNth ==
    ASSUME TypeOK, TypeOK', NEW n \in 0 .. UsizeMax, nth(n)
    PROVE  Contract!nth(n)
<1> DEFINE V == View(alive, data)
           V2 == View(alive', data')
<1>1. as_bitslice = V /\ as_bitslice' = V2
  BY ViewNow
<1>2. alive.start \in Nat /\ alive.end \in 0 .. N /\ alive.start <= alive.end
      /\ data \in [0 .. Elts - 1 -> Element]
      /\ alive \in [start : 0 .. N, end : 0 .. N]
  BY DEF TypeOK
<1>3. Len(V) = alive.end - alive.start
  BY <1>2, ViewLen
<1>4. CASE n < Len(V)
  <2>1. alive.start + n <= UsizeMax /\ alive.start + n < alive.end
    BY <1>2, <1>3, <1>4, NAssumption
  <2>2. /\ alive' = [alive EXCEPT !.start = alive.start + n + 1]
        /\ ret' = Some(get(alive.start + n))
        /\ data' = data /\ last' = "nth"
    BY <2>1 DEF nth
  <2>3. V[n + 1] = get(alive.start + n)
    BY <1>2, <1>3, <1>4 DEF View, get
  <2>4. V2 = SubSeq(V, n + 2, Len(V))
    <3>1. alive'.start = alive.start + n + 1 /\ alive'.end = alive.end
      BY <1>2, <2>2
    <3>2. View(alive', data) = Slice(V, n + 2, alive.end - alive.start)
      BY <1>2, <2>1, <3>1, ViewDropFront
    <3>3. QED
      BY <1>3, <2>2, <3>2 DEF Slice
  <2>5. QED
    BY <1>1, <1>4, <2>2, <2>3, <2>4 DEF Contract!nth, Some, Contract!Some
<1>5. CASE ~(n < Len(V))
  <2>1. ~(alive.start + n <= UsizeMax /\ alive.start + n < alive.end)
    BY <1>2, <1>3, <1>5
  <2>2. /\ alive' = [alive EXCEPT !.start = alive.end]
        /\ ret' = None /\ data' = data /\ last' = "nth"
    BY <2>1 DEF nth
  <2>3. V2 = <<>>
    <3>1. alive'.end - alive'.start = 0
      BY <1>2, <2>2
    <3>2. QED
      BY <3>1, ViewEmpty
  <2>4. QED
    BY <1>1, <1>5, <2>2, <2>3 DEF Contract!nth, None, Contract!None
<1>6. QED
  BY <1>4, <1>5

\* next_back takes the back bit.
LEMMA RefineNextBack ==
    ASSUME TypeOK, TypeOK', next_back
    PROVE  Contract!next_back
<1> DEFINE V == View(alive, data)
           V2 == View(alive', data')
<1>1. as_bitslice = V /\ as_bitslice' = V2
  BY ViewNow
<1>2. alive.start \in Nat /\ alive.end \in 0 .. N /\ alive.start <= alive.end
      /\ data \in [0 .. Elts - 1 -> Element]
      /\ alive \in [start : 0 .. N, end : 0 .. N]
  BY DEF TypeOK
<1>3. Len(V) = alive.end - alive.start /\ (V = <<>> <=> alive.start = alive.end)
  BY <1>2, ViewLen
<1>4. CASE alive.start < alive.end
  <2>1. /\ alive' = [alive EXCEPT !.end = @ - 1]
        /\ ret' = Some(get(alive.end - 1))
        /\ data' = data /\ last' = "next_back"
    BY <1>2, <1>4 DEF next_back
  <2>2. V[Len(V)] = get(alive.end - 1)
    BY <1>2, <1>3, <1>4 DEF View, get
  <2>3. V2 = SubSeq(V, 1, Len(V) - 1)
    <3>1. alive'.start = alive.start /\ alive'.end = alive.end - 1
      BY <1>2, <2>1
    <3>2. View(alive', data) = Slice(V, 1, alive.end - alive.start - 1)
      BY <1>2, <1>4, <3>1, ViewDropLast
    <3>3. QED
      BY <1>3, <2>1, <3>2 DEF Slice
  <2>4. V # <<>>
    <3>1. alive.start # alive.end
      BY <1>2, <1>4
    <3>2. QED
      BY <1>3, <3>1, Zenon
  <2>5. QED
    BY <1>1, <2>1, <2>2, <2>3, <2>4 DEF Contract!next_back, Some, Contract!Some
<1>5. CASE ~(alive.start < alive.end)
  <2>1. UNCHANGED <<alive, data>> /\ ret' = None /\ last' = "next_back"
    BY <1>5 DEF next_back
  <2>2. V = <<>>
    <3>1. alive.start = alive.end
      BY <1>2, <1>5
    <3>2. QED
      BY <1>3, <3>1, Zenon
  <2>3. QED
    BY <1>1, <2>1, <2>2 DEF Contract!next_back, None, Contract!None
<1>6. QED
  BY <1>4, <1>5

\* Writing bit i of as_mut_bitslice edits the (i+1)-th remaining bit.
LEMMA RefineWrite ==
    ASSUME TypeOK, TypeOK', NEW i \in 0 .. N - 1, NEW b \in BOOLEAN,
           set_alive(i, b)
    PROVE  Contract!write(i, b)
<1> DEFINE V == View(alive, data)
           V2 == View(alive', data')
<1>1. as_bitslice = V /\ as_bitslice' = V2
  BY ViewNow
<1>2. alive.start \in Nat /\ alive.end \in 0 .. N /\ alive.start <= alive.end
      /\ data \in [0 .. Elts - 1 -> Element]
  BY DEF TypeOK
<1>3. Len(V) = alive.end - alive.start
  BY <1>2, ViewLen
<1>4. /\ i < alive.end - alive.start
      /\ data' = PtrWrite(data, PtrAdd(PtrAdd(FromSlice, alive.start, W), i, W),
                          Order, W, b)
      /\ UNCHANGED <<alive, ret, last>>
  BY DEF set_alive, len
<1>5. data' = PtrWrite(data, PtrAdd(FromSlice, alive.start + i, W), Order, W, b)
  <2>1. PtrAdd(PtrAdd(FromSlice, alive.start, W), i, W)
          = PtrAdd(FromSlice, alive.start + i, W)
    <3>1. alive.start \in Nat /\ i \in Nat /\ W \in Nat \ {0}
      BY <1>2, WAssumption
    <3>2. QED
      BY <3>1, AddAdd, Zenon
  <2>2. QED
    BY <1>4, <2>1
<1>6. View(alive, data') = SetBit(V, i + 1, b)
  BY <1>2, <1>4, <1>5, ViewWrite
<1>7. V2 = [V EXCEPT ![i + 1] = b]
  BY <1>4, <1>6 DEF SetBit
<1>8. QED
  BY <1>1, <1>3, <1>4, <1>7 DEF Contract!write

\* nth_back(n) takes the (n+1)-th bit from the back and drops those after
\* it, or exhausts the iterator when there are not n + 1 bits left.
LEMMA RefineNthBack ==
    ASSUME TypeOK, TypeOK', NEW n \in 0 .. UsizeMax, nth_back(n)
    PROVE  Contract!nth_back(n)
<1> DEFINE V == View(alive, data)
           V2 == View(alive', data')
<1>1. as_bitslice = V /\ as_bitslice' = V2
  BY ViewNow
<1>2. alive.start \in Nat /\ alive.end \in 0 .. N /\ alive.start <= alive.end
      /\ data \in [0 .. Elts - 1 -> Element]
      /\ alive \in [start : 0 .. N, end : 0 .. N]
  BY DEF TypeOK
<1>3. Len(V) = alive.end - alive.start
  BY <1>2, ViewLen
<1>4. CASE n < Len(V)
  <2>1. n <= alive.end /\ alive.end - n > alive.start /\ alive.start + n < alive.end
    BY <1>2, <1>3, <1>4
  <2>2. /\ alive' = [alive EXCEPT !.end = alive.end - n - 1]
        /\ ret' = Some(get(alive.end - n - 1))
        /\ data' = data /\ last' = "nth_back"
    BY <2>1 DEF nth_back
  <2>3. V[Len(V) - n] = get(alive.end - n - 1)
    BY <1>2, <1>3, <1>4 DEF View, get
  <2>4. V2 = SubSeq(V, 1, Len(V) - n - 1)
    <3>1. alive'.start = alive.start /\ alive'.end = alive.end - n - 1
      BY <1>2, <2>2
    <3>2. View(alive', data) = Slice(V, 1, alive.end - alive.start - n - 1)
      BY <1>2, <2>1, <3>1, ViewDropBack
    <3>3. QED
      BY <1>3, <2>2, <3>2 DEF Slice
  <2>5. QED
    BY <1>1, <1>4, <2>2, <2>3, <2>4 DEF Contract!nth_back, Some, Contract!Some
<1>5. CASE ~(n < Len(V))
  <2>1. ~(n <= alive.end /\ alive.end - n > alive.start)
    BY <1>2, <1>3, <1>5
  <2>2. /\ alive' = [alive EXCEPT !.end = alive.start]
        /\ ret' = None /\ data' = data /\ last' = "nth_back"
    BY <2>1 DEF nth_back
  <2>3. V2 = <<>>
    <3>1. alive'.end - alive'.start = 0
      BY <1>2, <2>2
    <3>2. QED
      BY <3>1, ViewEmpty
  <2>4. QED
    BY <1>1, <1>5, <2>2, <2>3 DEF Contract!nth_back, None, Contract!None
<1>6. QED
  BY <1>4, <1>5

\* Every step of IntoIter is a step of the contract or leaves as_bitslice,
\* ret and last unchanged.
LEMMA RefineStep ==
    ASSUME TypeOK, TypeOK', [Next]_vars
    PROVE  [Contract!Next]_Contract!vars
<1>1. CASE next
  <2>1. Contract!next
    BY <1>1, RefineNext, Zenon
  <2>2. QED
    BY <2>1 DEF Contract!Next
<1>2. CASE \E n \in 0 .. UsizeMax : nth(n)
  <2>1. PICK n \in 0 .. UsizeMax : nth(n)
    BY <1>2
  <2>2. Contract!nth(n)
    BY <2>1, RefineNth, Zenon
  <2>3. QED
    BY <2>2 DEF Contract!Next
<1>3. CASE next_back
  <2>1. Contract!next_back
    BY <1>3, RefineNextBack, Zenon
  <2>2. QED
    BY <2>1 DEF Contract!Next
<1>4. CASE \E n \in 0 .. UsizeMax : nth_back(n)
  <2>1. PICK n \in 0 .. UsizeMax : nth_back(n)
    BY <1>4
  <2>2. Contract!nth_back(n)
    BY <2>1, RefineNthBack, Zenon
  <2>3. QED
    BY <2>2 DEF Contract!Next
<1>5. CASE \E i \in 0 .. N - 1, b \in BOOLEAN : set_alive(i, b)
  <2>1. PICK i \in 0 .. N - 1, b \in BOOLEAN : set_alive(i, b)
    BY <1>5
  <2>2. Contract!write(i, b)
    BY <2>1, RefineWrite, Zenon
  <2>3. QED
    BY <2>2 DEF Contract!Next
<1>6. CASE UNCHANGED vars
  BY <1>6 DEF vars, Contract!vars, as_bitslice
<1>7. QED
  BY <1>1, <1>2, <1>3, <1>4, <1>5, <1>6 DEF Next

\* array::IntoIter implements the iterator contract (ImplementsContract,
\* which the run iter_contract checks for small N): every call returns
\* the bit the contract names and leaves the same remaining bits, for
\* every element width, array length, bit order and usize width.
THEOREM IterRefinement == Spec => ImplementsContract
<1>1. Init => Contract!Init
  BY RefineInit
<1>2. TypeOK /\ TypeOK' /\ [Next]_vars => [Contract!Next]_Contract!vars
  BY RefineStep
<1>3. Spec => []TypeOK
  BY TypeCorrect
<1>4. QED
  BY <1>1, <1>2, <1>3, PTL DEF Spec, ImplementsContract, Contract!Spec
=============================================================================
