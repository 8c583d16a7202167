# TLA+ models of bitvec's fixed-size bit-arrays

This directory holds the verification project for the `bitvec` sources under
`src/`. Those sources are the `BitArray` type (`src/src/array.rs`), its
operators (`array/ops.rs`), its conversions and error type
(`array/traits.rs`), its by-value iterator (`array/iter.rs`) and the
constructor macros (`macros.rs`). The lower layers they are built on are
described in `spec.md`, not in `src/`: bit orderings, storage elements, bit
pointers and spans, and the domain decomposition. They are modelled from that
description, and the map in `PROJECT.json` marks those definitions
`spec_modelled`.

## 1. The system and its parts

* **BitOrder** (`Lsb0`, `Msb0`): maps a semantic index `i` in an element of
  `W` bits to a physical bit, either `i` or `W-1-i`.
* **BitStore elements**: a `W`-bit memory word. They are loaded and stored
  whole (`load_value`/`store_value`).
* **BitPtr**: an (element address, head) pair. `add(n)` moves the head and
  carries into the address every `W` bits. `read`/`write` touch the physical
  bit that `BitOrder::at(head)` names.
* **BitSlice**: `len` bits from a BitPtr. `bits[i]` is the bit at
  `ptr.add(i)`.
* **BitArray<S, O, N>**: `Elts(N) = ceil(N/W)` whole elements. Only the first
  `N` bits are live (`as_bitslice` is `[..N]`). The bits past `N` in the last
  element are *dead*.
* **TryFrom<&BitSlice>/&mut BitSlice for &BitArray/&mut BitArray**:
  `InnerError::new` checks the length and then the head. On success the
  slice's element address is cast to a reference to an array.
* **IntoIter**: a `BitArray` plus a `Range<usize>` called `alive`. `next`,
  `nth`, `next_back` and `nth_back` are `Range`'s, followed by `get(idx)`,
  which reads through `BitPtr::add(idx)`. `as_mut_bitslice` lets the holder
  rewrite the bits not yet yielded.

How they interact:
1. A `&mut BitArray` made from a sub-slice aliases the parent buffer.
2. Every operator of the array then works on that buffer: some through the
   live bit-slice (`DerefMut`, `&=`, `|=`, `^=`) and some on whole elements
   (`!`, `as_raw_mut_slice`, whole-value assignment).
3. The iterator reads its array only through `BitPtr` arithmetic.

## 2. Modules

| module | models | state | actions |
|---|---|---|---|
| `BitOrder` | `Lsb0`/`Msb0` `at` (spec) | – | – |
| `BitPtr` | `BitPtr::from_slice`, `add`, `read`, `write` (spec) | – | – |
| `BitIterAbstract` | what a double-ended, fused iterator over bits promises | `rest` (the bits still to come), `ret`, `last` | next, nth, next_back, nth_back, write |
| `BitArrayIter` | `IntoIter` (iter.rs) | `data` (the elements), `alive` (`start`, `end`), `ret` (the last return value, as an `Option`), `last` (the last call) | `next`, `nth(n)`, `next_back`, `nth_back(n)`, `set_alive(i, b)` (a write through `as_mut_bitslice`) |
| `MCBitArrayIter` | `BitArrayIter` refines `BitIterAbstract` under `rest <- as_bitslice` | | |
| `BitArrayIterProofs` | TLAPS proofs about `BitArrayIter` | | |
| `BitPtrLemmas` | TLAPS facts about `at` and `add` for every width, and the theorem that `at` is a bijection | | |
| `BitArrayAbstract` | what an owned `BitArray` promises: `N` bits, every operation bit-wise | `val` (each handle's bits), `last` | zero, repeat, from_bits, from_raw, copy, set, invert, combine, store(i) |
| `BitArrayValue` | owned arrays (array.rs, ops.rs, traits.rs) and the `bitarr!` forms (macros.rs) | `arr` (each handle's `Elts(N)` elements, dead bits included), `last` | `default`, `new`, `clone`, `bitarr_rep(v)`, `bitarr_seq(bits)`, `set`, `not`, `bitop(op)`, `store(i, v)` |
| `MCBitArrayValue` | `BitArrayValue` refines `BitArrayAbstract` under `val <- as_bitslice` | | |
| `BitArrayValueProofs` | TLAPS proofs about `BitArrayValue` | | |
| `BitArrayViewProofs` | TLAPS proofs about `BitArrayView` | | |
| `BitArrayView` | a `&mut BitArray` made by `TryFrom` from a sub-slice of a larger buffer, together with the other handles on that buffer | `mem` (the buffer), `slice` (the sub-slice's head and length), `conv` (the conversion's result), `by` (which handle wrote last) | `arr_set`, `arr_bitop(op, rhs)`, `arr_not`, `arr_store(i, v)`, `slice_set`, `other_set` |

How the state and actions correspond to the code:
* `nth(n)` has two disjuncts, as `Range::nth` does:
  * `start + n` is computed with `checked_add` against `usize::MAX` (the
    constant `UsizeMax`).
  * If the sum does not overflow and is `< end`, the call yields
    `get(start+n)` and moves `start` past it.
  * Otherwise it sets `start := end` and returns `None`.
* `nth_back` is the mirror image: `checked_sub`, then `> start`.
* `get` is `BitPtr::add` applied to the element-aligned pointer, then `read`.
* The abstract `rest` is `as_bitslice`, that is the live bits read through
  `add(start).add(k)`.
* In `BitArrayView`, `Init` picks any sub-slice of an `L`-bit buffer and runs
  `Convert` (`InnerError::new`).
* `ArrayAddr` is the cast element address, with the head dropped.
* Each operator is one action that writes `mem` the way its code does:
  * `&=` and its siblings write the live bits of the slice.
  * `!` writes every element of the array.
  * `as_raw_mut_slice()[i].store_value(v)` writes element `i`.
* In `BitArrayValue`, the two forms of `bitarr!` are modelled by the
  elements they build:
  * `RepData(v)`: `__extend_bool!` sets every bit of each element to `v`,
    dead bits included.
  * `SeqData(bits)`: `__encode_bits!` puts bit `k` at the physical position
    `O` selects in element `k / W`, and leaves the dead bits zero. The
    encoder itself is not in `src/`: `SeqData` follows the encoding its
    tests fix (`macros/tests.rs`), and the map marks it `spec_modelled`.
* `set` writes one bit through `as_mut_bitslice`. `bitop` combines the live
  bits with `rhs.as_bitslice()`. `not` inverts whole elements. `store`
  replaces one element.
* `last` is a history variable that names the operation just made. With it,
  each concrete step must match the abstract action of the same name.
  Without it, a concrete `not` that skipped an element would still match the
  abstract `store`, which may change any bits of one element.
* `slice_set` and `other_set` are the writes the other handles on the buffer
  may make. The first is the sub-slice, before a successful conversion or
  after a failed one. The second is the parent or a `split_at_mut` sibling,
  on bits outside the sub-slice.

## 3. Runs and what they show

| run | cfg | checks | result |
|---|---|---|---|
| `iter_safety` | `MCBitArrayIter.cfg` (W=3, N=5, usize::MAX=7, Msb0) | `TypeOK`, `Fused` | pass |
| `iter_contract` | `MCBitArrayIterContract.cfg` | `ImplementsContract`: `IntoIter` implements `BitIterAbstract` | pass |
| `iter_drain` | `MCBitArrayIterDrain.cfg` (Lsb0, WF on `next`) | `Drains`: a loop of `next` exhausts the iterator | pass |
| `view_confined` | `MCBitArrayView.cfg` (W=2, N=3, L=7, Msb0, ops set/and/or/xor) | `TypeOK`, `ViewAgrees`, `ArrayConfined` | pass |
| `view_aligned` | `MCBitArrayViewAligned.cfg` (W=2, N=4, L=7, Lsb0, ops set/not/store) | `ArrayConfined` | pass |
| `value_refines` | `MCBitArrayValue.cfg` (W=2, N=3, Msb0, two handles) | `TypeOK`, `ImplementsAbstract` | pass |
| `view_not_escapes` | `MCBitArrayViewNot.cfg` (ops set/not) | `ArrayConfined` | violation |
| `view_store_escapes` | `MCBitArrayViewStore.cfg` (W=2, N=3, Lsb0, ops store) | `ArrayConfined` | violation |
| `view_error_order` | `MCBitArrayViewErr.cfg` | `MisalignedAsSpecified` | violation |

**Bounds.**
* W=3 with N=5 makes the live bits end inside the second element. The
  iterator's pointer arithmetic then crosses an element boundary and ends on
  a partial element.
* `UsizeMax = 7` is above N, so `nth(n)` meets all three outcomes: a hit,
  a miss within the range, and an arithmetic overflow.
* In the view, W=2, N=3 and L=7 allow four element heads. Every sub-slice is
  converted, so both errors and the success case all occur. The array's last
  element is half dead, and bits lie on both sides of the sub-slice.
* In `value_refines`, W=2 and N=3 leave one dead bit. Msb0 is the order
  under which the sequence form's encoding differs from the identity. Two
  handles let `clone` and `x op= y` read another array, and `x op= x` read
  the array itself. The same facts are proved for every W, N and order.

**Findings.**
* `view_not_escapes` and `view_store_escapes` are one code bug, seen through
  two operations. When N is not a multiple of the element width, `!` and a
  `store_value` through `as_raw_mut_slice` on a `&mut BitArray` converted
  from a sub-slice write bits of the buffer that the sub-slice does not own.
  In both traces N=3 bits of 2-bit elements are converted, and bit 3 of the
  parent slice changes. The `&=`, `|=` and `^=` operators are confined
  (`view_confined`). With no dead bits, `!` and raw stores are confined as
  well (`view_aligned`).
* `view_error_order`: the code checks the length before the head. In the
  trace a 0-bit span at head 1 gets `UnequalLen{0, 3}`. Spec section 8 says
  a span that does not start an element gets `Misaligned` (its example is a
  10-bit span at index 3).

**Fairness.** Only `DrainSpec` has any fairness: `WF_vars(next)`. It stands
for a `for` loop or `collect`, which keeps calling `next`. Nothing in the
code forces any other call to happen.

## 4. What is proved (TLAPS)

Every theorem below holds for all values of the constants, under the
assumptions each module names: `W > 0`, `N > 0` (and `N <= L` for the view,
`N <= usize::MAX` for the iterator), and an order in `{Lsb0, Msb0}`.

`BitPtrLemmas` holds the shared arithmetic:
* `add(a).add(b) = add(a+b)`.
* `add` is injective.
* Every bit below `n` lies in one of the `Elts(n)` elements.
* `at` is an involution.

`BitArrayIterProofs`:
* `TypeCorrect: Spec => []TypeOK`. The alive range stays inside `0..N`, so
  every unchecked access stays inside the array.
* `FusedHolds: Spec => Fused`. The invariant is strengthened with
  `ExhaustedOnNone`: once any call has returned `None`, `start = end`. This
  is what a failed `Range::nth`/`nth_back` establishes.
  `TypeOK /\ ExhaustedOnNone` is inductive.
* `IterRefinement: Spec => ImplementsContract`. `IntoIter` implements the
  contract `BitIterAbstract` under `rest <- as_bitslice` (the module extends
  `MCBitArrayIter`, where the instance is declared). The argument:
  * `View(alive, data)` is the bit sequence of the range, read through
    `add(start + k - 1)`. `AsBitsliceView` uses `AddAdd` to show that it is
    `as_bitslice`.
  * `ViewSeq` and `ViewLen` show the view is a `Seq(BOOLEAN)` of length
    `end - start`, empty exactly when the range is.
  * `ViewDropFront`, `ViewDropBack` and `ViewDropLast` show that moving
    `start` forward or `end` back takes a `SubSeq` of the view.
  * `ViewWrite` uses `ReadAfterWrite` to show that writing bit `start + i`
    replaces element `i + 1` of the view. `ReadAfterWrite` says a write
    changes only the bit it addresses: distinct indices land in distinct
    elements, or at distinct heads, which `at` keeps apart.
  * `RefineInit`, plus one lemma per action (`RefineNext`, `RefineNth`,
    `RefineNextBack`, `RefineNthBack`, `RefineWrite`), combined in
    `RefineStep`.
  * `nth`'s guard `start + n <= usize::MAX /\ start + n < end` and
    `nth_back`'s guard `n <= end /\ end - n > start` are each shown to be
    `n < Len(rest)`, using `N <= usize::MAX`.
  * The step needs `TypeOK` in both states, so the theorem rests on
    `TypeCorrect`.

`BitArrayViewProofs`:
* `TypeCorrect`: after a successful conversion, the array's `Elts(N)`
  elements lie inside the buffer.
* `ViewAgreesHolds`: bit `k` of the array is bit `k` of the sub-slice.
* The inductive invariant adds `ConvInv` to `TypeOK`: the recorded result
  is the one `InnerError::new` computes for the sub-slice, and no step
  changes the sub-slice. From `Ok`, `ConvertedFacts` derives:
  * the length is `N`;
  * the head is a multiple of `W`;
  * the array's pointer `add(k)` equals the parent's `add(head+k)`.
* `ArrayConfinedHolds: ConfinedCase => (Spec => ArrayConfined)`. Here
  `ConfinedCase` means the caller uses neither `!` nor raw stores, or `W`
  divides `N`. This is exactly the case the violation `view_not_escapes`
  leaves open. The proof uses the same invariant `IInv`, and one case per
  operator that sets `by' = "array"`:
  * `arr_set` writes parent bit `head + k`, which lies inside the sub-slice.
    `ReadOtherWrite` says that writing one parent bit leaves every other
    bit alone. `ParentPtrInjective` keeps distinct bits apart: `add` keeps
    their indices apart, and `at`, an involution, keeps their heads apart.
  * `arr_bitop` changes only physical bits where `LiveAt` is non-empty.
    `NoLiveOutside` shows that no live bit sits where an outside bit does.
  * `arr_not` and `arr_store` replace whole elements of `ArrayElts`.
    `OutsideElts` shows that when `W | N` (`head = W*a`, `N = W*m`,
    `Elts = m`), an outside bit's element is not one of them.

`BitArrayValueProofs`:
* `TypeCorrect`: every array keeps `Elts(N)` well-formed elements.
* `Refinement: Spec => ImplementsAbstract`. The owned array implements the
  abstract sequence of bits. The argument is `RefineInit` plus `RefineStep`,
  one case per action. Each case rests on a lemma that says what the action
  does to `as_bitslice`:
  * `ZeroBits`, `RepBits` and `SeqBits` for the constructors. `SeqBits` uses
    `Index(k / W, at(k % W)) = k`.
  * `SetBits`: `Unique` shows that distinct live bits sit at distinct
    positions.
  * `NotBits`, `BitopBits` and `StoreBits` for the operators.

Only model-checked:
* `Drains`, because liveness under fairness (and `ENABLED`) is out of
  TLAPS's reach.
* Every other property of a passing run is also a theorem.
* The three violations are TLC counterexamples: `MisalignedAsSpecified`,
  and `ArrayConfined` outside `ConfinedCase` (once through `!`, once
  through a raw store).

## 5. Not modelled

* The macros' syntax dispatch, `BitArr!` (a type), and `bits!`, including
  `bits!(static mut ...)`, whose re-evaluation is listed as a hazard without
  a property.
* `bitvec!`/`bitbox!`, which need the heap-backed types that are not in
  `src/`.
* Formatting, `Hash`, comparison and the other read-only traits. They all
  go through `as_bitslice`, which the refinement covers.
* Tests and benchmarks.
* Custom bit orders.
* The races inside a single read-modify-write of an element. Every step is
  atomic.

## 6. Plan for later sittings

1. A `BitDomain` module: the head/body/tail decomposition of a span,
   checked against a reference definition.
