---------------------------- MODULE BitArrayView ----------------------------
(***************************************************************************)
(* A BitArray seen through a mutable bit-slice (src/array/traits.rs,       *)
(* src/array/ops.rs, src/array.rs).  A caller holds a bit-slice of L bits  *)
(* over a buffer of elements, takes the sub-slice of len bits at offset s, *)
(* and converts it with TryFrom<&mut BitSlice> for &mut BitArray<S, O, N>. *)
(* On success the caller works through the BitArray operators; the rest   *)
(* of the buffer's bits stay with the other handles of the parent slice.  *)
(***************************************************************************)
EXTENDS Naturals, BitPtr

CONSTANTS W,        \* bits per storage element
          N,        \* the BitArray's length in bits
          L,        \* the parent bit-slice's length in bits
          Order,    \* the BitOrder type parameter O
          Ops       \* the BitArray operations the caller uses

ASSUME ViewWAssumption == W \in Nat \ {0}
ASSUME ViewNAssumption == N \in Nat \ {0} /\ L \in Nat /\ N <= L
ASSUME ViewOrderAssumption == Order \in Orders
ASSUME ViewOpsAssumption ==
    Ops \subseteq {"set", "and", "or", "xor", "not", "store"}

\* Mutant of EltsOf: n \div W + 1, one element too many when W divides n.
EltsOf_plus_one(n) == n \div W + 1

\* mem::Elts: elements holding n bits.
EltsOf(n) == (n + W - 1) \div W
Elts == EltsOf(N)
BufElts == EltsOf(L)

Element == [0 .. W - 1 -> BOOLEAN]

BinOps == {"and", "or", "xor"} \cap Ops
Apply(op, x, y) ==
    CASE op = "and" -> x /\ y
      [] op = "or"  -> x \/ y
      [] op = "xor" -> x # y

VARIABLES mem,      \* the buffer's elements, physical bits
          slice,    \* the sub-slice converted: [head |-> s, len |-> len]
          conv,     \* the result of the conversion
          by        \* the handle that made the last step

vars == <<mem, slice, conv, by>>

\* Bit j of the parent slice, which starts at the first bit of element 0.
ParentPtr(j) == PtrAdd(FromSlice, j, W)
Bit(j) == PtrRead(mem, ParentPtr(j), Order, W)

\* The converted sub-slice's pointer: the parent's pointer advanced by s.
SlicePtr == ParentPtr(slice.head)

\* The bits of the parent that the sub-slice covers, and the others.
Inside == slice.head .. slice.head + slice.len - 1
Outside == (0 .. L - 1) \ Inside

\* Mutant of Convert: the head is not checked.
Convert_no_head(sp, len) ==
    IF len # N THEN [kind |-> "UnequalLen", actual |-> len, expected |-> N]
    ELSE [kind |-> "Ok"]

\* Mutant of Convert: the length is not checked.
Convert_no_len(sp, len) ==
    IF sp.head # 0 THEN [kind |-> "Misaligned"] ELSE [kind |-> "Ok"]

\* InnerError::new: the length is checked first, then the head.
Convert(sp, len) ==
    IF len # N THEN [kind |-> "UnequalLen", actual |-> len, expected |-> N]
    ELSE IF sp.head # 0 THEN [kind |-> "Misaligned"]
    ELSE [kind |-> "Ok"]

\* The &mut BitArray: as_bitspan().address().cast(): the element address of
\* the slice, head dropped.
ArrayAddr == SlicePtr.addr
ArrPtr(k) == PtrAdd([addr |-> ArrayAddr, head |-> 0], k, W)
ArrBit(k) == PtrRead(mem, ArrPtr(k), Order, W)

Init ==
    /\ mem \in [0 .. BufElts - 1 -> Element]
    /\ slice \in {[head |-> s, len |-> n] : s \in 0 .. L, n \in 0 .. L}
    /\ slice.head + slice.len <= L
    /\ conv = Convert(SlicePtr, slice.len)
    /\ by = "none"

Converted == conv.kind = "Ok"

\* arr.set(k, b) / arr[k] = b through DerefMut: one bit of as_mut_bitslice.
arr_set(k, b) ==
    /\ Converted /\ "set" \in Ops
    /\ mem' = PtrWrite(mem, ArrPtr(k), Order, W, b)
    /\ by' = "array"
    /\ UNCHANGED <<slice, conv>>

\* The physical bits of element e that are live bits of the array, each
\* with its index k: ArrPtr(k) selects element e and physical bit At(head).
LiveAt(e, q) ==
    {k \in 0 .. N - 1 : /\ ArrPtr(k).addr = e
                        /\ At(Order, W, ArrPtr(k).head) = q}

\* Mutant of arr_bitop: the array's elements are combined whole, the bits
\* past the N live ones with FALSE (an unmasked tail element).
arr_bitop_unmasked(op, rhs) ==
    /\ Converted /\ op \in BinOps
    /\ mem' = [e \in DOMAIN mem |-> [q \in 0 .. W - 1 |->
                 IF e \notin ArrayAddr .. ArrayAddr + Elts - 1 THEN mem[e][q]
                 ELSE IF LiveAt(e, q) = {} THEN Apply(op, mem[e][q], FALSE)
                 ELSE Apply(op, mem[e][q], rhs[CHOOSE k \in LiveAt(e, q) : TRUE])]]
    /\ by' = "array"
    /\ UNCHANGED <<slice, conv>>

\* arr &= rhs, |= rhs, ^= rhs: *self.as_mut_bitslice() op= rhs.as_bitslice()
\* combines each of the N live bits with the same bit of another BitArray.
arr_bitop(op, rhs) ==
    /\ Converted /\ op \in BinOps
    /\ mem' = [e \in DOMAIN mem |-> [q \in 0 .. W - 1 |->
                 IF LiveAt(e, q) = {} THEN mem[e][q]
                 ELSE Apply(op, mem[e][q], rhs[CHOOSE k \in LiveAt(e, q) : TRUE])]]
    /\ by' = "array"
    /\ UNCHANGED <<slice, conv>>

\* The elements the &mut BitArray spans.
ArrayElts == ArrayAddr .. ArrayAddr + Elts - 1

\* *arr = !*arr: Not for BitArray stores !load_value() into every element of
\* the array, and the assignment writes all of them back.
arr_not ==
    /\ Converted /\ "not" \in Ops
    /\ mem' = [e \in DOMAIN mem |->
                 IF e \in ArrayElts THEN [q \in 0 .. W - 1 |-> ~mem[e][q]]
                 ELSE mem[e]]
    /\ by' = "array"
    /\ UNCHANGED <<slice, conv>>

\* arr.as_raw_mut_slice()[i].store_value(v): one whole element.
arr_store(i, v) ==
    /\ Converted /\ "store" \in Ops
    /\ mem' = [mem EXCEPT ![ArrayAddr + i] = v]
    /\ by' = "array"
    /\ UNCHANGED <<slice, conv>>

\* After Err the caller still holds its sub-slice and writes one of its bits.
slice_set(k, b) ==
    /\ ~Converted
    /\ k < slice.len
    /\ mem' = PtrWrite(mem, PtrAdd(SlicePtr, k, W), Order, W, b)
    /\ by' = "slice"
    /\ UNCHANGED <<slice, conv>>

\* The other handles of the parent slice write one of their bits.
other_set(j, b) ==
    /\ j \in Outside
    /\ mem' = PtrWrite(mem, ParentPtr(j), Order, W, b)
    /\ by' = "other"
    /\ UNCHANGED <<slice, conv>>

Next ==
    \/ \E k \in 0 .. N - 1, b \in BOOLEAN : arr_set(k, b)
    \/ \E op \in BinOps, rhs \in [0 .. N - 1 -> BOOLEAN] : arr_bitop(op, rhs)
    \/ arr_not
    \/ \E i \in 0 .. Elts - 1, v \in Element : arr_store(i, v)
    \/ \E k \in 0 .. L - 1, b \in BOOLEAN : slice_set(k, b)
    \/ \E j \in 0 .. L - 1, b \in BOOLEAN : other_set(j, b)

Spec == Init /\ [][Next]_vars

-----------------------------------------------------------------------------
(* Properties.                                                             *)

\* Type invariant; it includes that the &mut BitArray the conversion
\* creates lies inside the buffer, which the unsafe cast relies on.
TypeOK ==
    /\ mem \in [0 .. BufElts - 1 -> Element]
    /\ slice \in [head : 0 .. L, len : 0 .. L]
    /\ slice.head + slice.len <= L
    /\ conv.kind \in {"Ok", "UnequalLen", "Misaligned"}
    /\ by \in {"none", "array", "slice", "other"}
    /\ Converted => ArrayElts \subseteq DOMAIN mem

\* A successful conversion is a faithful view: bit k of the &mut BitArray,
\* addressed from the slice's element address alone, is bit k of the
\* slice it came from, in every state the buffer reaches.
ViewAgrees ==
    Converted =>
        \A k \in 0 .. N - 1 :
            ArrBit(k) = PtrRead(mem, PtrAdd(SlicePtr, k, W), Order, W)

\* A write through the &mut BitArray changes no bit of the parent slice
\* outside the sub-slice it was converted from.
ArrayConfined ==
    [][by' = "array" => \A j \in Outside : Bit(j)' = Bit(j)]_vars

\* The specification (section 8): a span that does not start at the first
\* bit of an element is refused with Misaligned, even when its length is
\* also wrong (a 10-bit span at index 3 viewed as an 8-bit array).
MisalignedAsSpecified ==
    SlicePtr.head # 0 => conv.kind = "Misaligned"
=============================================================================
