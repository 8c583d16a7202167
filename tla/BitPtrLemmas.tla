---------------------------- MODULE BitPtrLemmas ----------------------------
(***************************************************************************)
(* Facts about the bit orders and the bit-pointer arithmetic (modules      *)
(* BitOrder and BitPtr) for every element width w, shared by the proofs    *)
(* of the array models.                                                    *)
(***************************************************************************)
EXTENDS BitPtr, TLAPS

\* A bit index is its element times w plus its head (Euclidean division).
LEMMA DivMod ==
    ASSUME NEW w \in Nat \ {0}, NEW x \in Nat
    PROVE  /\ x = w * (x \div w) + (x % w)
           /\ x \div w \in Nat
           /\ x % w \in 0 .. w - 1
BY SMT

\* BitPtr::from_slice advanced by x.
LEMMA FromSliceAdd ==
    ASSUME NEW w \in Nat \ {0}, NEW x \in Nat
    PROVE  PtrAdd(FromSlice, x, w) = [addr |-> x \div w, head |-> x % w]
BY DEF PtrAdd, FromSlice

\* Advancing by a and then by b is advancing by a + b.
LEMMA AddAdd ==
    ASSUME NEW w \in Nat \ {0}, NEW a \in Nat, NEW b \in Nat
    PROVE  PtrAdd(PtrAdd(FromSlice, a, w), b, w) = PtrAdd(FromSlice, a + b, w)
<1> DEFINE q == a \div w
           c == (a % w) + b
<1>1. q \in Nat /\ c \in Nat /\ a + b = w * q + c
  BY DivMod
<1>2. q + c \div w = (a + b) \div w
  BY <1>1
<1>3. c % w = (a + b) % w
  <2>1. (a + b) % w = (a + b) - w * ((a + b) \div w)
    BY <1>1
  <2>2. c % w = c - w * (c \div w)
    BY <1>1
  <2>3. QED
    BY <1>1, <1>2, <2>1, <2>2
<1>4. PtrAdd(PtrAdd(FromSlice, a, w), b, w) = [addr |-> q + c \div w,
                                              head |-> c % w]
  BY DEF PtrAdd, FromSlice
<1>5. PtrAdd(FromSlice, a + b, w) = [addr |-> (a + b) \div w,
                                     head |-> (a + b) % w]
  BY DEF PtrAdd, FromSlice
<1>6. QED
  BY <1>2, <1>3, <1>4, <1>5

\* A pointer at the first bit of element a \div w, for a on an element
\* boundary, advanced by k is the pointer to bit a + k.
LEMMA AlignedAdd ==
    ASSUME NEW w \in Nat \ {0}, NEW a \in Nat, NEW k \in Nat, a % w = 0
    PROVE  PtrAdd([addr |-> a \div w, head |-> 0], k, w)
             = PtrAdd(FromSlice, a + k, w)
<1>1. [addr |-> a \div w, head |-> 0] = PtrAdd(FromSlice, a, w)
  BY DEF PtrAdd, FromSlice
<1>2. PtrAdd(PtrAdd(FromSlice, a, w), k, w) = PtrAdd(FromSlice, a + k, w)
  BY AddAdd
<1>3. QED
  BY <1>1, <1>2

\* Distinct bit indices have distinct pointers.
LEMMA AddInjective ==
    ASSUME NEW w \in Nat \ {0}, NEW x \in Nat, NEW y \in Nat,
           PtrAdd(FromSlice, x, w) = PtrAdd(FromSlice, y, w)
    PROVE  x = y
<1>1. x \div w = y \div w /\ x % w = y % w
  BY DEF PtrAdd, FromSlice
<1>2. QED
  BY <1>1

\* Bit x < n lies in one of the Elts(n) elements, at a head inside it.
LEMMA InBuffer ==
    ASSUME NEW w \in Nat \ {0}, NEW n \in Nat, NEW x \in 0 .. n - 1
    PROVE  /\ x \div w \in 0 .. (n + w - 1) \div w - 1
           /\ x % w \in 0 .. w - 1
<1>0. x \in Nat
  OBVIOUS
<1>1. x \div w \in Nat /\ x % w \in 0 .. w - 1 /\ x = w * (x \div w) + (x % w)
  BY <1>0
<1>2. (w * (x \div w) + w) \div w = x \div w + 1
  BY <1>1
<1>3. (w * (x \div w) + w) \div w <= (n + w - 1) \div w
  BY <1>1
<1>4. QED
  BY <1>1, <1>2, <1>3

\* BitOrder::at maps an element's semantic indices into its physical
\* indices and is its own inverse, for both canonical orders.
LEMMA AtInvolution ==
    ASSUME NEW w \in Nat \ {0}, NEW order \in Orders, NEW i \in 0 .. w - 1
    PROVE  /\ At(order, w, i) \in 0 .. w - 1
           /\ At(order, w, At(order, w, i)) = i
BY DEF At, Orders
=============================================================================
