---------------------------- MODULE BitArrayValue ----------------------------
(***************************************************************************)
(* Owned BitArray<S, O, N> values (array.rs, array/traits.rs,              *)
(* array/ops.rs) and the bitarr! constructor macro (macros.rs).  A program *)
(* holds a few arrays, the Handles; each is its Elts(N) storage elements,  *)
(* the bits past N in the last element included (the dead bits).  Every   *)
(* constructor and every operator that changes an array is one action on  *)
(* the elements, written the way its code writes them: the bit-slice     *)
(* operators bit by bit through as_mut_bitslice, Not and the raw stores   *)
(* element by element.                                                     *)
(***************************************************************************)
EXTENDS Naturals, BitPtr

CONSTANTS W,        \* bits per storage element (S::Mem::BITS)
          N,        \* bits per array (the typenum N)
          Order,    \* O: Lsb0 or Msb0
          Handles   \* the arrays the program holds

ASSUME ValueWAssumption == W \in Nat \ {0}
ASSUME ValueNAssumption == N \in Nat \ {0}
ASSUME ValueOrderAssumption == Order \in Orders

\* mem::Elts: N::Output, the elements of the GenericArray.
Elts == (N + W - 1) \div W
Element == [0 .. W - 1 -> BOOLEAN]
Data == [0 .. Elts - 1 -> Element]

VARIABLES arr,      \* arr[x]: the data field of array x
          last      \* the operation made last ("none" before any)

vars == <<arr, last>>

Ops == {"none", "default", "new", "clone", "bitarr_rep", "bitarr_seq", "set",
        "not", "bitop", "store"}

\* The semantic index of physical bit q of element e (At is an involution).
Index(e, q) == e * W + At(Order, W, q)

\* BitArray::as_bitslice: &self.data.view_bits::<O>()[.. N].
as_bitslice(d) ==
    [k \in 0 .. N - 1 |-> PtrRead(d, PtrAdd(FromSlice, k, W), Order, W)]

\* BitArray::ZERO: ConstDefault::DEFAULT, every element zero.
ZERO == [e \in 0 .. Elts - 1 |-> [q \in 0 .. W - 1 |-> FALSE]]

\* Mutant of RepData: one element too few.
RepData_short(v) == [e \in 0 .. Elts - 2 |-> [q \in 0 .. W - 1 |-> v]]

\* bitarr!(const S, O; v; N): ELEM = __extend_bool!(v) sets every bit of
\* the element to v, dead bits included; arr![Mem; ELEM; Elts] repeats it.
RepData(v) == [e \in 0 .. Elts - 1 |-> [q \in 0 .. W - 1 |-> v]]

\* bitarr!(const S, O; b0, b1, ...): __encode_bits! places bit k at the
\* physical position O selects and leaves the dead bits zero (the encoder
\* is not in src/; this is the encoding its tests in macros/tests.rs fix).
SeqData(bits) ==
    [e \in 0 .. Elts - 1 |-> [q \in 0 .. W - 1 |->
        Index(e, q) < N /\ bits[Index(e, q)]]]

Apply(op, x, y) ==
    CASE op = "and" -> x /\ y
      [] op = "or"  -> x \/ y
      [] op = "xor" -> x # y

\* Default::default / BitArray::ZERO.
default(x) ==
    /\ arr' = [arr EXCEPT ![x] = ZERO]
    /\ last' = "default"

\* BitArray::new(data) and From<GenericArray>: any element values.
new(x, d) ==
    /\ arr' = [arr EXCEPT ![x] = d]
    /\ last' = "new"

\* Clone (and Copy): the elements are copied whole.
clone(x, y) ==
    /\ arr' = [arr EXCEPT ![x] = arr[y]]
    /\ last' = "clone"

\* x = bitarr![S, O; v; N].
bitarr_rep(x, v) ==
    /\ arr' = [arr EXCEPT ![x] = RepData(v)]
    /\ last' = "bitarr_rep"

\* x = bitarr![S, O; b0, b1, ...].
bitarr_seq(x, bits) ==
    /\ arr' = [arr EXCEPT ![x] = SeqData(bits)]
    /\ last' = "bitarr_seq"

\* x.set(k, b) / x[k] = b through DerefMut: one bit of as_mut_bitslice.
set(x, k, b) ==
    /\ arr' = [arr EXCEPT ![x] = 
                 PtrWrite(@, PtrAdd(FromSlice, k, W), Order, W, b)]
    /\ last' = "set"

\* Mutant of not: the loop stops before the last element.
not_skip_tail(x) ==
    /\ arr' = [arr EXCEPT ![x] = [e \in 0 .. Elts - 1 |->
                 IF e < Elts - 1 THEN [q \in 0 .. W - 1 |-> ~arr[x][e][q]]
                 ELSE arr[x][e]]]
    /\ last' = "not"

\* x = !x: store_value(!load_value()) into every element.
not(x) ==
    /\ arr' = [arr EXCEPT ![x] = [e \in 0 .. Elts - 1 |->
                 [q \in 0 .. W - 1 |-> ~arr[x][e][q]]]]
    /\ last' = "not"

\* x &= y, x |= y, x ^= y (and x = x & y ...): *self.as_mut_bitslice()
\* op= rhs.as_bitslice(): the N live bits of x with the live bits of y.
bitop(x, op, y) ==
    /\ LET rhs == as_bitslice(arr[y]) IN
       arr' = [arr EXCEPT ![x] = [e \in 0 .. Elts - 1 |-> [q \in 0 .. W - 1 |->
                 IF Index(e, q) < N THEN Apply(op, arr[x][e][q], rhs[Index(e, q)])
                 ELSE arr[x][e][q]]]]
    /\ last' = "bitop"

\* x.as_raw_mut_slice()[i].store_value(v): one whole element.
store(x, i, v) ==
    /\ arr' = [arr EXCEPT ![x][i] = v]
    /\ last' = "store"

Init ==
    /\ arr \in [Handles -> Data]
    /\ last = "none"

Next ==
    \E x, y \in Handles :
        \/ default(x)
        \/ \E d \in Data : new(x, d)
        \/ clone(x, y)
        \/ \E v \in BOOLEAN : bitarr_rep(x, v)
        \/ \E bits \in [0 .. N - 1 -> BOOLEAN] : bitarr_seq(x, bits)
        \/ \E k \in 0 .. N - 1, b \in BOOLEAN : set(x, k, b)
        \/ not(x)
        \/ \E op \in {"and", "or", "xor"} : bitop(x, op, y)
        \/ \E i \in 0 .. Elts - 1, v \in Element : store(x, i, v)

Spec == Init /\ [][Next]_vars

-----------------------------------------------------------------------------
(* Properties.                                                             *)

\* Type invariant: every array keeps exactly Elts(N) well-formed elements,
\* whichever constructor or operator wrote it last.
TypeOK == arr \in [Handles -> Data] /\ last \in Ops
=============================================================================
