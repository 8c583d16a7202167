------------------------- MODULE BitArrayValueProofs -------------------------
(***************************************************************************)
(* Proofs about owned BitArray values (module BitArrayValue) for every     *)
(* element width W, array length N, bit order and set of handles: the     *)
(* arrays stay well formed, and every operator, seen through as_bitslice, *)
(* is the bit-wise operation of BitArrayAbstract.                          *)
(***************************************************************************)
EXTENDS MCBitArrayValue, BitPtrLemmas

USE ValueWAssumption, ValueNAssumption, ValueOrderAssumption

\* The live bits of every array, the abstract specification's val.
AbsVal == [x \in Handles |-> as_bitslice(arr[x])]

-----------------------------------------------------------------------------
(* Where bit k of an array is stored.                                      *)

LEMMA EltsNat == Elts \in Nat
BY DEF Elts

\* Live bit k is in element k \div W, at the physical bit O selects for
\* its head k % W, and Index maps that position back to k.
LEMMA Pos ==
    ASSUME NEW k \in 0 .. N - 1
    PROVE  /\ k \div W \in 0 .. Elts - 1
           /\ k % W \in 0 .. W - 1
           /\ At(Order, W, k % W) \in 0 .. W - 1
           /\ Index(k \div W, At(Order, W, k % W)) = k
<1>1. k \div W \in 0 .. Elts - 1 /\ k % W \in 0 .. W - 1
  BY InBuffer DEF Elts
<1>2. At(Order, W, k % W) \in 0 .. W - 1
      /\ At(Order, W, At(Order, W, k % W)) = k % W
  BY <1>1, AtInvolution
<1>3. (k \div W) * W + (k % W) = k
  BY <1>1
<1>4. QED
  BY <1>1, <1>2, <1>3 DEF Index

\* as_bitslice reads live bit k at that position.
LEMMA ReadBit ==
    ASSUME NEW d, NEW k \in 0 .. N - 1
    PROVE  as_bitslice(d)[k] = d[k \div W][At(Order, W, k % W)]
BY DEF as_bitslice, PtrRead, PtrAdd, FromSlice

\* Distinct live bits are stored at distinct positions.
LEMMA Unique ==
    ASSUME NEW j \in 0 .. N - 1, NEW k \in 0 .. N - 1,
           j \div W = k \div W, At(Order, W, j % W) = At(Order, W, k % W)
    PROVE  j = k
<1>1. j % W \in 0 .. W - 1 /\ k % W \in 0 .. W - 1
  BY Pos
<1>2. j % W = k % W
  BY <1>1, AtInvolution
<1>3. j = W * (j \div W) + (j % W) /\ k = W * (k \div W) + (k % W)
  OBVIOUS
<1>4. QED
  BY <1>2, <1>3

\* The live bits of a well-formed array are bits.
LEMMA ReadTyped ==
    ASSUME NEW d \in Data
    PROVE  as_bitslice(d) \in [0 .. N - 1 -> BOOLEAN]
<1>1. ASSUME NEW k \in 0 .. N - 1 PROVE as_bitslice(d)[k] \in BOOLEAN
  <2>1. k \div W \in 0 .. Elts - 1 /\ At(Order, W, k % W) \in 0 .. W - 1
    BY Pos
  <2>2. d[k \div W][At(Order, W, k % W)] \in BOOLEAN
    BY <2>1 DEF Data, Element
  <2>3. QED
    BY <2>2, ReadBit
<1>2. QED
  BY <1>1 DEF as_bitslice

-----------------------------------------------------------------------------
(* Type correctness.                                                       *)

\* Setting one live bit keeps an array well formed.
LEMMA WriteTyped ==
    ASSUME NEW d \in Data, NEW k \in 0 .. N - 1, NEW b \in BOOLEAN
    PROVE  PtrWrite(d, PtrAdd(FromSlice, k, W), Order, W, b) \in Data
<1>1. PtrAdd(FromSlice, k, W) = [addr |-> k \div W, head |-> k % W]
  BY DEF PtrAdd, FromSlice
<1>2. k \div W \in 0 .. Elts - 1 /\ At(Order, W, k % W) \in 0 .. W - 1
  BY Pos
<1>3. QED
  BY <1>1, <1>2 DEF PtrWrite, Data, Element

\* The result of combining two bits is a bit.
LEMMA ApplyIsBool ==
    ASSUME NEW op \in {"and", "or", "xor"}, NEW a \in BOOLEAN, NEW b \in BOOLEAN
    PROVE  Apply(op, a, b) \in BOOLEAN
BY DEF Apply

LEMMA TypeInit == Init => TypeOK
BY DEF Init, TypeOK, Ops

\* Every operator leaves every array well formed.
LEMMA TypeStep == TypeOK /\ [Next]_vars => TypeOK'
<1> SUFFICES ASSUME TypeOK, [Next]_vars PROVE TypeOK'
  OBVIOUS
<1> USE DEF TypeOK, Ops
<1>1. ASSUME NEW x \in Handles, default(x) PROVE TypeOK'
  BY <1>1 DEF default, ZERO, Data, Element
<1>2. ASSUME NEW x \in Handles, NEW d \in Data, new(x, d) PROVE TypeOK'
  BY <1>2 DEF new
<1>3. ASSUME NEW x \in Handles, NEW y \in Handles, clone(x, y) PROVE TypeOK'
  BY <1>3 DEF clone
<1>4. ASSUME NEW x \in Handles, NEW v \in BOOLEAN, bitarr_rep(x, v)
      PROVE TypeOK'
  BY <1>4 DEF bitarr_rep, RepData, Data, Element
<1>5. ASSUME NEW x \in Handles, NEW bits \in [0 .. N - 1 -> BOOLEAN],
             bitarr_seq(x, bits)
      PROVE TypeOK'
  BY <1>5 DEF bitarr_seq, SeqData, Data, Element
<1>6. ASSUME NEW x \in Handles, NEW k \in 0 .. N - 1, NEW b \in BOOLEAN,
             set(x, k, b)
      PROVE TypeOK'
  <2>1. PtrWrite(arr[x], PtrAdd(FromSlice, k, W), Order, W, b) \in Data
    BY WriteTyped
  <2>2. QED
    BY <1>6, <2>1 DEF set
<1>7. ASSUME NEW x \in Handles, not(x) PROVE TypeOK'
  BY <1>7 DEF not, Data, Element
<1>8. ASSUME NEW x \in Handles, NEW y \in Handles,
             NEW op \in {"and", "or", "xor"}, bitop(x, op, y)
      PROVE TypeOK'
  <2> DEFINE rhs == as_bitslice(arr[y])
             res == [e \in 0 .. Elts - 1 |-> [q \in 0 .. W - 1 |->
                      IF Index(e, q) < N THEN Apply(op, arr[x][e][q], rhs[Index(e, q)])
                      ELSE arr[x][e][q]]]
  <2>1. rhs \in [0 .. N - 1 -> BOOLEAN]
    BY ReadTyped
  <2>2. ASSUME NEW e \in 0 .. Elts - 1, NEW q \in 0 .. W - 1
        PROVE  res[e][q] \in BOOLEAN
    <3>0. arr[x] \in Data
      OBVIOUS
    <3>1. arr[x][e][q] \in BOOLEAN
      BY <3>0 DEF Data, Element
    <3>2. CASE Index(e, q) < N
      <4>1. Index(e, q) \in 0 .. N - 1
        BY <3>2, EltsNat, AtInvolution DEF Index
      <4>2. QED
        BY <3>1, <3>2, <4>1, <2>1, ApplyIsBool
    <3>3. CASE ~(Index(e, q) < N)
      BY <3>1, <3>3
    <3>4. QED
      BY <3>2, <3>3
  <2>3. res \in Data
    BY <2>2 DEF Data, Element
  <2>4. QED
    BY <1>8, <2>3 DEF bitop
<1>9. ASSUME NEW x \in Handles, NEW i \in 0 .. Elts - 1, NEW v \in Element,
             store(x, i, v)
      PROVE TypeOK'
  BY <1>9 DEF store, Data
<1>10. CASE UNCHANGED vars
  BY <1>10 DEF vars
<1>11. QED
  BY <1>1, <1>2, <1>3, <1>4, <1>5, <1>6, <1>7, <1>8, <1>9, <1>10 DEF Next

\* Type correctness: whichever constructor or operator wrote an array
\* last, it holds exactly Elts(N) elements of W bits, for every W and N.
THEOREM TypeCorrect == Spec => []TypeOK
BY TypeInit, TypeStep, PTL DEF Spec

-----------------------------------------------------------------------------
(* What each operator does to the live bits.                               *)

\* BitArray::ZERO has every live bit clear.
LEMMA ZeroBits == as_bitslice(ZERO) = [k \in 0 .. N - 1 |-> FALSE]
<1>1. ASSUME NEW k \in 0 .. N - 1 PROVE as_bitslice(ZERO)[k] = FALSE
  <2>1. k \div W \in 0 .. Elts - 1 /\ At(Order, W, k % W) \in 0 .. W - 1
    BY Pos
  <2>2. QED
    BY <2>1, ReadBit DEF ZERO
<1>2. QED
  BY <1>1 DEF as_bitslice

\* bitarr![v; N] has every live bit equal to v.
LEMMA RepBits ==
    ASSUME NEW v \in BOOLEAN
    PROVE  as_bitslice(RepData(v)) = [k \in 0 .. N - 1 |-> v]
<1>1. ASSUME NEW k \in 0 .. N - 1 PROVE as_bitslice(RepData(v))[k] = v
  <2>1. k \div W \in 0 .. Elts - 1 /\ At(Order, W, k % W) \in 0 .. W - 1
    BY Pos
  <2>2. QED
    BY <2>1, ReadBit DEF RepData
<1>2. QED
  BY <1>1 DEF as_bitslice

\* bitarr![b0, b1, ...] has live bit k equal to bk, under either order:
\* __encode_bits! places each bit where as_bitslice reads it.
LEMMA SeqBits ==
    ASSUME NEW bits \in [0 .. N - 1 -> BOOLEAN]
    PROVE  as_bitslice(SeqData(bits)) = bits
<1>1. ASSUME NEW k \in 0 .. N - 1 PROVE as_bitslice(SeqData(bits))[k] = bits[k]
  <2>1. /\ k \div W \in 0 .. Elts - 1
        /\ At(Order, W, k % W) \in 0 .. W - 1
        /\ Index(k \div W, At(Order, W, k % W)) = k
    BY Pos
  <2>2. SeqData(bits)[k \div W][At(Order, W, k % W)] = (k < N /\ bits[k])
    <3>1. SeqData(bits)[k \div W][At(Order, W, k % W)]
            = (/\ Index(k \div W, At(Order, W, k % W)) < N
               /\ bits[Index(k \div W, At(Order, W, k % W))])
      BY <2>1 DEF SeqData
    <3>2. QED
      BY <2>1, <3>1
  <2>3. as_bitslice(SeqData(bits))[k] = SeqData(bits)[k \div W][At(Order, W, k % W)]
    BY ReadBit
  <2>4. (k < N /\ bits[k]) = bits[k]
    <3>1. bits[k] \in BOOLEAN /\ k < N
      OBVIOUS
    <3>2. QED
      BY <3>1, Zenon
  <2>5. QED
    BY <2>2, <2>3, <2>4
<1>2. QED
  BY <1>1 DEF as_bitslice

\* Writing live bit k through the bit-pointer changes live bit k alone.
LEMMA SetBits ==
    ASSUME NEW d \in Data, NEW k \in 0 .. N - 1, NEW b \in BOOLEAN
    PROVE  as_bitslice(PtrWrite(d, PtrAdd(FromSlice, k, W), Order, W, b))
             = [as_bitslice(d) EXCEPT ![k] = b]
<1> DEFINE d2 == PtrWrite(d, PtrAdd(FromSlice, k, W), Order, W, b)
<1>0. PtrAdd(FromSlice, k, W) = [addr |-> k \div W, head |-> k % W]
  BY DEF PtrAdd, FromSlice
<1>1. d2 = [d EXCEPT ![k \div W][At(Order, W, k % W)] = b]
  BY <1>0 DEF PtrWrite, d2
<1>2. ASSUME NEW j \in 0 .. N - 1
      PROVE  as_bitslice(d2)[j] = IF j = k THEN b ELSE as_bitslice(d)[j]
  <2>1. /\ j \div W \in 0 .. Elts - 1 /\ At(Order, W, j % W) \in 0 .. W - 1
        /\ k \div W \in 0 .. Elts - 1 /\ At(Order, W, k % W) \in 0 .. W - 1
    BY Pos
  <2>2. as_bitslice(d2)[j] = d2[j \div W][At(Order, W, j % W)]
    BY ReadBit
  <2>3. CASE j = k
    <3>1. d[k \div W] \in [0 .. W - 1 -> BOOLEAN]
      BY <2>1 DEF Data, Element
    <3>2. d2[k \div W][At(Order, W, k % W)] = b
      BY <1>1, <2>1, <3>1 DEF Data
    <3>3. QED
      BY <2>2, <2>3, <3>2
  <2>4. CASE j # k
    <3>1. ~(j \div W = k \div W /\ At(Order, W, j % W) = At(Order, W, k % W))
      BY <2>4, Unique
    <3>2. d2[j \div W][At(Order, W, j % W)] = d[j \div W][At(Order, W, j % W)]
      BY <1>1, <2>1, <3>1 DEF Data, Element
    <3>3. QED
      BY <2>2, <2>4, <3>2, ReadBit
  <2>5. QED
    BY <2>3, <2>4
<1>3. QED
  BY <1>2 DEF as_bitslice

\* Not inverts every element, so every live bit.
LEMMA NotBits ==
    ASSUME NEW d \in Data
    PROVE  as_bitslice([e \in 0 .. Elts - 1 |-> [q \in 0 .. W - 1 |-> ~d[e][q]]])
             = [k \in 0 .. N - 1 |-> ~as_bitslice(d)[k]]
<1> DEFINE d2 == [e \in 0 .. Elts - 1 |-> [q \in 0 .. W - 1 |-> ~d[e][q]]]
<1>1. ASSUME NEW k \in 0 .. N - 1 PROVE as_bitslice(d2)[k] = ~as_bitslice(d)[k]
  <2>1. k \div W \in 0 .. Elts - 1 /\ At(Order, W, k % W) \in 0 .. W - 1
    BY Pos
  <2>2. as_bitslice(d2)[k] = ~d[k \div W][At(Order, W, k % W)]
    BY <2>1, ReadBit
  <2>3. QED
    BY <2>2, ReadBit
<1>2. QED
  BY <1>1 DEF as_bitslice

\* The bit-slice operators combine live bit k of x with live bit k of y.
LEMMA BitopBits ==
    ASSUME NEW d \in Data, NEW r \in [0 .. N - 1 -> BOOLEAN], NEW op
    PROVE  as_bitslice([e \in 0 .. Elts - 1 |-> [q \in 0 .. W - 1 |->
             IF Index(e, q) < N THEN Apply(op, d[e][q], r[Index(e, q)])
             ELSE d[e][q]]])
             = [k \in 0 .. N - 1 |-> Apply(op, as_bitslice(d)[k], r[k])]
<1> DEFINE d2 == [e \in 0 .. Elts - 1 |-> [q \in 0 .. W - 1 |->
                    IF Index(e, q) < N THEN Apply(op, d[e][q], r[Index(e, q)])
                    ELSE d[e][q]]]
<1>1. ASSUME NEW k \in 0 .. N - 1
      PROVE  as_bitslice(d2)[k] = Apply(op, as_bitslice(d)[k], r[k])
  <2>1. /\ k \div W \in 0 .. Elts - 1
        /\ At(Order, W, k % W) \in 0 .. W - 1
        /\ Index(k \div W, At(Order, W, k % W)) = k
    BY Pos
  <2>2a. as_bitslice(d2)[k] = d2[k \div W][At(Order, W, k % W)]
    BY ReadBit
  <2>2b. d2[k \div W][At(Order, W, k % W)]
           = Apply(op, d[k \div W][At(Order, W, k % W)], r[k])
    BY <2>1
  <2>2. as_bitslice(d2)[k]
          = Apply(op, d[k \div W][At(Order, W, k % W)], r[k])
    BY <2>2a, <2>2b
  <2>3. QED
    BY <2>2, ReadBit
<1>2. QED
  BY <1>1 DEF as_bitslice

\* A raw store into element i leaves every live bit outside it alone, and
\* the array well formed.
LEMMA StoreBits ==
    ASSUME NEW d \in Data, NEW i \in 0 .. Elts - 1, NEW v \in Element
    PROVE  /\ as_bitslice([d EXCEPT ![i] = v]) \in [0 .. N - 1 -> BOOLEAN]
           /\ \A k \in 0 .. N - 1 : k \div W # i =>
                 as_bitslice([d EXCEPT ![i] = v])[k] = as_bitslice(d)[k]
<1>1. [d EXCEPT ![i] = v] \in Data
  BY DEF Data
<1>2. ASSUME NEW k \in 0 .. N - 1, k \div W # i
      PROVE  as_bitslice([d EXCEPT ![i] = v])[k] = as_bitslice(d)[k]
  <2>1. k \div W \in 0 .. Elts - 1
    BY Pos
  <2>2. [d EXCEPT ![i] = v][k \div W] = d[k \div W]
    BY <1>2, <2>1 DEF Data
  <2>3. QED
    BY <2>2, ReadBit
<1>3. QED
  BY <1>1, <1>2, ReadTyped

\* An operator that rewrites array x alone changes the live bits of x alone.
LEMMA Frame ==
    ASSUME arr \in [Handles -> Data], NEW x \in Handles, NEW d,
           arr' = [arr EXCEPT ![x] = d]
    PROVE  AbsVal' = [AbsVal EXCEPT ![x] = as_bitslice(d)]
BY DEF AbsVal

-----------------------------------------------------------------------------
(* Refinement of BitArrayAbstract under val <- AbsVal.                      *)

LEMMA RefineInit == Init => Abstract!Init
<1> SUFFICES ASSUME Init PROVE Abstract!Init
  OBVIOUS
<1>1. AbsVal \in [Handles -> [0 .. N - 1 -> BOOLEAN]]
  BY ReadTyped DEF Init, AbsVal
<1>2. QED
  BY <1>1 DEF Init, Abstract!Init, Abstract!Bits, AbsVal

\* Each concrete step is the abstract step of the same name, or a stutter.
LEMMA RefineStep == TypeOK /\ [Next]_vars => [Abstract!Next]_Abstract!vars
<1> SUFFICES ASSUME TypeOK, [Next]_vars PROVE [Abstract!Next]_Abstract!vars
  OBVIOUS
<1>0. arr \in [Handles -> Data]
  BY DEF TypeOK
<1>1. ASSUME NEW x \in Handles, default(x) PROVE Abstract!zero(x)
  <2>1. AbsVal' = [AbsVal EXCEPT ![x] = [k \in 0 .. N - 1 |-> FALSE]]
    BY <1>0, <1>1, Frame, ZeroBits DEF default
  <2>2. QED
    BY <1>1, <2>1 DEF default, Abstract!zero, AbsVal
<1>2. ASSUME NEW x \in Handles, NEW d \in Data, new(x, d) PROVE Abstract!from_raw(x)
  <2>1. AbsVal' = [AbsVal EXCEPT ![x] = as_bitslice(d)]
    BY <1>0, <1>2, Frame DEF new
  <2>2. as_bitslice(d) \in Abstract!Bits
    BY ReadTyped DEF Abstract!Bits
  <2>3. QED
    BY <1>2, <2>1, <2>2 DEF new, Abstract!from_raw, AbsVal
<1>3. ASSUME NEW x \in Handles, NEW y \in Handles, clone(x, y)
      PROVE Abstract!copy(x, y)
  <2>1. AbsVal' = [AbsVal EXCEPT ![x] = AbsVal[y]]
    BY <1>0, <1>3, Frame DEF clone, AbsVal
  <2>2. QED
    BY <1>3, <2>1 DEF clone, Abstract!copy, AbsVal
<1>4. ASSUME NEW x \in Handles, NEW v \in BOOLEAN, bitarr_rep(x, v)
      PROVE Abstract!repeat(x, v)
  <2>1. AbsVal' = [AbsVal EXCEPT ![x] = [k \in 0 .. N - 1 |-> v]]
    BY <1>0, <1>4, Frame, RepBits DEF bitarr_rep
  <2>2. QED
    BY <1>4, <2>1 DEF bitarr_rep, Abstract!repeat, AbsVal
<1>5. ASSUME NEW x \in Handles, NEW bits \in [0 .. N - 1 -> BOOLEAN],
             bitarr_seq(x, bits)
      PROVE Abstract!from_bits(x, bits)
  <2>1. AbsVal' = [AbsVal EXCEPT ![x] = bits]
    BY <1>0, <1>5, Frame, SeqBits DEF bitarr_seq
  <2>2. QED
    BY <1>5, <2>1 DEF bitarr_seq, Abstract!from_bits, AbsVal
<1>6. ASSUME NEW x \in Handles, NEW k \in 0 .. N - 1, NEW b \in BOOLEAN,
             set(x, k, b)
      PROVE Abstract!set(x, k, b)
  <2>1. arr' = [arr EXCEPT ![x] =
                  PtrWrite(arr[x], PtrAdd(FromSlice, k, W), Order, W, b)]
    BY <1>6 DEF set
  <2>2. AbsVal' = [AbsVal EXCEPT ![x] = [AbsVal[x] EXCEPT ![k] = b]]
    BY <1>0, <2>1, Frame, SetBits DEF AbsVal
  <2>3. QED
    BY <1>6, <2>2 DEF set, Abstract!set, AbsVal
<1>7. ASSUME NEW x \in Handles, not(x) PROVE Abstract!invert(x)
  <2> DEFINE D == [e \in 0 .. Elts - 1 |-> [q \in 0 .. W - 1 |-> ~arr[x][e][q]]]
  <2>a. arr' = [arr EXCEPT ![x] = D]
    BY <1>7 DEF not
  <2>b. AbsVal' = [AbsVal EXCEPT ![x] = as_bitslice(D)]
    BY <1>0, <2>a, Frame
  <2>c. as_bitslice(D) = [k \in 0 .. N - 1 |-> ~as_bitslice(arr[x])[k]]
    BY <1>0, NotBits
  <2>1. AbsVal' = [AbsVal EXCEPT ![x] = [k \in 0 .. N - 1 |-> ~AbsVal[x][k]]]
    BY <2>b, <2>c DEF AbsVal
  <2>2. QED
    BY <1>7, <2>1 DEF not, Abstract!invert, AbsVal
<1>8. ASSUME NEW x \in Handles, NEW y \in Handles,
             NEW op \in {"and", "or", "xor"}, bitop(x, op, y)
      PROVE Abstract!combine(x, op, y)
  <2>1. as_bitslice(arr[y]) \in [0 .. N - 1 -> BOOLEAN]
    BY <1>0, ReadTyped
  <2> DEFINE r == as_bitslice(arr[y])
             D == [e \in 0 .. Elts - 1 |-> [q \in 0 .. W - 1 |->
                    IF Index(e, q) < N THEN Apply(op, arr[x][e][q], r[Index(e, q)])
                    ELSE arr[x][e][q]]]
  <2>a. arr' = [arr EXCEPT ![x] = D]
    BY <1>8 DEF bitop
  <2>b. AbsVal' = [AbsVal EXCEPT ![x] = as_bitslice(D)]
    BY <1>0, <2>a, Frame
  <2>0. arr[x] \in Data
    BY <1>0
  <2>c. as_bitslice(D) = [k \in 0 .. N - 1 |-> Apply(op, as_bitslice(arr[x])[k], r[k])]
    BY <2>0, <2>1, BitopBits, Zenon
  <2>2. AbsVal' = [AbsVal EXCEPT ![x] = [k \in 0 .. N - 1 |->
                     Apply(op, AbsVal[x][k], AbsVal[y][k])]]
    BY <2>b, <2>c DEF AbsVal
  <2>3. \A k \in 0 .. N - 1 :
          Apply(op, AbsVal[x][k], AbsVal[y][k])
            = Abstract!Combine(op, AbsVal[x][k], AbsVal[y][k])
    BY DEF Apply, Abstract!Combine
  <2>4. QED
    BY <1>8, <2>2, <2>3 DEF bitop, Abstract!combine, AbsVal
<1>9. ASSUME NEW x \in Handles, NEW i \in 0 .. Elts - 1, NEW v \in Element,
             store(x, i, v)
      PROVE Abstract!store(x, i)
  <2> DEFINE bits == as_bitslice([arr[x] EXCEPT ![i] = v])
  <2>1. arr' = [arr EXCEPT ![x] = [arr[x] EXCEPT ![i] = v]]
    BY <1>9 DEF store
  <2>2. AbsVal' = [AbsVal EXCEPT ![x] = bits]
    BY <1>0, <2>1, Frame
  <2>3. bits \in Abstract!Bits
    BY <1>0, StoreBits DEF Abstract!Bits
  <2>4. \A k \in (0 .. N - 1) \ Abstract!ElementBits(i) : bits[k] = AbsVal[x][k]
    BY <1>0, StoreBits DEF Abstract!ElementBits, AbsVal
  <2>5. QED
    BY <1>9, <2>2, <2>3, <2>4 DEF store, Abstract!store, AbsVal
<1>10. CASE UNCHANGED vars
  BY <1>10 DEF vars, Abstract!vars
<1>11. CASE Next
  <2> PICK x \in Handles, y \in Handles :
             \/ default(x)
             \/ \E d \in Data : new(x, d)
             \/ clone(x, y)
             \/ \E v \in BOOLEAN : bitarr_rep(x, v)
             \/ \E bits \in [0 .. N - 1 -> BOOLEAN] : bitarr_seq(x, bits)
             \/ \E k \in 0 .. N - 1, b \in BOOLEAN : set(x, k, b)
             \/ not(x)
             \/ \E op \in {"and", "or", "xor"} : bitop(x, op, y)
             \/ \E i \in 0 .. Elts - 1, v \in Element : store(x, i, v)
    BY <1>11 DEF Next
  <2>1. CASE default(x)
    BY <1>1, <2>1 DEF Abstract!Next
  <2>2. CASE \E d \in Data : new(x, d)
    BY <1>2, <2>2 DEF Abstract!Next
  <2>3. CASE clone(x, y)
    BY <1>3, <2>3 DEF Abstract!Next
  <2>4. CASE \E v \in BOOLEAN : bitarr_rep(x, v)
    BY <1>4, <2>4 DEF Abstract!Next
  <2>5. CASE \E bits \in [0 .. N - 1 -> BOOLEAN] : bitarr_seq(x, bits)
    BY <1>5, <2>5 DEF Abstract!Next, Abstract!Bits
  <2>6. CASE \E k \in 0 .. N - 1, b \in BOOLEAN : set(x, k, b)
    BY <1>6, <2>6 DEF Abstract!Next
  <2>7. CASE not(x)
    BY <1>7, <2>7 DEF Abstract!Next
  <2>8. CASE \E op \in {"and", "or", "xor"} : bitop(x, op, y)
    BY <1>8, <2>8 DEF Abstract!Next
  <2>9. CASE \E i \in 0 .. Elts - 1, v \in Element : store(x, i, v)
    BY <1>9, <2>9 DEF Abstract!Next, Elts
  <2>10. QED
    BY <2>1, <2>2, <2>3, <2>4, <2>5, <2>6, <2>7, <2>8, <2>9
<1>12. QED
  BY <1>10, <1>11

\* BitArray<S, O, N> implements a sequence of N bits, for every element
\* width, length, bit order and number of arrays: the constructors build
\* the bits they name, the element-level Not and raw stores and the
\* bit-level set and &=/|=/^= act on exactly the bits they should, whatever
\* the dead bits hold (the dead bits Not inverts and the repetition form of
\* bitarr! fills never reach as_bitslice).
THEOREM Refinement == Spec => ImplementsAbstract
<1>1. []TypeOK /\ [][Next]_vars => [][Abstract!Next]_Abstract!vars
  BY RefineStep, PTL
<1>2. QED
  BY TypeCorrect, RefineInit, <1>1, PTL DEF Spec, ImplementsAbstract, Abstract!Spec
=============================================================================
