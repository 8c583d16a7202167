---------------------------- MODULE BitArrayIter ----------------------------
(***************************************************************************)
(* array::IntoIter (src/array/iter.rs): the by-value iterator of a         *)
(* BitArray.  It owns the array's storage elements and keeps the range     *)
(* alive of bit indices not yet yielded; every call moves one end of the   *)
(* range (core::ops::Range semantics, usize arithmetic checked) and reads  *)
(* the yielded bit through a BitPtr from the first element.                *)
(***************************************************************************)
EXTENDS Naturals, BitPtr

CONSTANTS W,        \* bits per storage element (mem::bits_of::<S>())
          N,        \* the array's length in bits (the type parameter N)
          Order,    \* the BitOrder type parameter O
          UsizeMax  \* the largest usize, 2^usize_bits - 1

ASSUME WAssumption == W \in Nat \ {0}
ASSUME NAssumption == N \in Nat /\ N <= UsizeMax
ASSUME UsizeAssumption == UsizeMax \in Nat
ASSUME OrderAssumption == Order \in Orders

\* mem::Elts<S>::Output: the number of elements holding N bits.
Elts == (N + W - 1) \div W

Element == [0 .. W - 1 -> BOOLEAN]

VARIABLES data,     \* the owned array's storage elements, physical bits
          alive,    \* the Range<usize> of indices not yet yielded
          ret,      \* the Option<bool> the last call returned
          last      \* which call was made last ("new" before any)

vars == <<data, alive, ret, last>>

None == <<>>
Some(b) == <<b>>
Option == {None} \cup {Some(b) : b \in BOOLEAN}
Calls == {"new", "next", "nth", "next_back", "nth_back"}

\* IntoIter::get: BitPtr::from_slice(raw).add(index).read().
get(index) == PtrRead(data, PtrAdd(FromSlice, index, W), Order, W)

\* IntoIter::as_bitslice: the array's view get_unchecked(alive), i.e. bit k
\* is read through FromSlice.add(alive.start).add(k).
as_bitslice ==
    [k \in 1 .. alive.end - alive.start |->
        PtrRead(data, PtrAdd(PtrAdd(FromSlice, alive.start, W), k - 1, W),
                Order, W)]

\* ExactSizeIterator::len.
len == alive.end - alive.start

\* BitArray::into_iter / IntoIter::new: any array, alive = 0 .. N.
Init ==
    /\ data \in [0 .. Elts - 1 -> Element]
    /\ alive = [start |-> 0, end |-> N]
    /\ ret = None
    /\ last = "new"

\* Mutant of next: the Some branch forgets to advance alive.start.
next_no_advance ==
    /\ \/ /\ alive.start < alive.end
          /\ UNCHANGED alive
          /\ ret' = Some(get(alive.start))
       \/ /\ alive.start >= alive.end
          /\ UNCHANGED alive
          /\ ret' = None
    /\ last' = "next"
    /\ UNCHANGED data

\* Iterator::next: alive.next().map(|idx| self.get(idx)).
next ==
    /\ \/ /\ alive.start < alive.end
          /\ alive' = [alive EXCEPT !.start = @ + 1]
          /\ ret' = Some(get(alive.start))
       \/ /\ alive.start >= alive.end
          /\ UNCHANGED alive
          /\ ret' = None
    /\ last' = "next"
    /\ UNCHANGED data

\* Mutant of nth: start + n wraps instead of being checked for overflow.
nth_wrapping(n) ==
    LET plus_n == (alive.start + n) % (UsizeMax + 1) IN
    /\ \/ /\ plus_n < alive.end
          /\ alive' = [alive EXCEPT !.start = plus_n + 1]
          /\ ret' = Some(get(plus_n))
       \/ /\ ~(plus_n < alive.end)
          /\ alive' = [alive EXCEPT !.start = alive.end]
          /\ ret' = None
    /\ last' = "nth"
    /\ UNCHANGED data

\* Mutant of nth: a failed nth returns None but leaves the range as it was.
nth_no_exhaust(n) ==
    /\ \/ /\ alive.start + n <= UsizeMax
          /\ alive.start + n < alive.end
          /\ alive' = [alive EXCEPT !.start = alive.start + n + 1]
          /\ ret' = Some(get(alive.start + n))
       \/ /\ ~(alive.start + n <= UsizeMax /\ alive.start + n < alive.end)
          /\ UNCHANGED alive
          /\ ret' = None
    /\ last' = "nth"
    /\ UNCHANGED data

\* Iterator::nth: Range::nth(n) checks start + n for overflow and range,
\* and exhausts the range when either check fails.
nth(n) ==
    /\ \/ /\ alive.start + n <= UsizeMax
          /\ alive.start + n < alive.end
          /\ alive' = [alive EXCEPT !.start = alive.start + n + 1]
          /\ ret' = Some(get(alive.start + n))
       \/ /\ ~(alive.start + n <= UsizeMax /\ alive.start + n < alive.end)
          /\ alive' = [alive EXCEPT !.start = alive.end]
          /\ ret' = None
    /\ last' = "nth"
    /\ UNCHANGED data

\* Mutant of next_back: tests end > 0 instead of start < end.
next_back_unguarded ==
    /\ \/ /\ alive.end > 0
          /\ alive' = [alive EXCEPT !.end = @ - 1]
          /\ ret' = Some(get(alive.end - 1))
       \/ /\ alive.end = 0
          /\ UNCHANGED alive
          /\ ret' = None
    /\ last' = "next_back"
    /\ UNCHANGED data

\* DoubleEndedIterator::next_back: alive.next_back().map(get).
next_back ==
    /\ \/ /\ alive.start < alive.end
          /\ alive' = [alive EXCEPT !.end = @ - 1]
          /\ ret' = Some(get(alive.end - 1))
       \/ /\ alive.start >= alive.end
          /\ UNCHANGED alive
          /\ ret' = None
    /\ last' = "next_back"
    /\ UNCHANGED data

\* DoubleEndedIterator::nth_back: Range::nth_back(n) checks end - n for
\* underflow and range, and exhausts the range when either check fails.
nth_back(n) ==
    /\ \/ /\ n <= alive.end
          /\ alive.end - n > alive.start
          /\ alive' = [alive EXCEPT !.end = alive.end - n - 1]
          /\ ret' = Some(get(alive.end - n - 1))
       \/ /\ ~(n <= alive.end /\ alive.end - n > alive.start)
          /\ alive' = [alive EXCEPT !.end = alive.start]
          /\ ret' = None
    /\ last' = "nth_back"
    /\ UNCHANGED data

\* as_mut_bitslice().set(i, b): the sub-slice alive of the array's view
\* starts at FromSlice.add(alive.start); set asserts i < len and writes
\* through that pointer advanced by i.
set_alive(i, b) ==
    /\ i < len
    /\ data' = PtrWrite(data, PtrAdd(PtrAdd(FromSlice, alive.start, W), i, W),
                        Order, W, b)
    /\ UNCHANGED <<alive, ret, last>>

Next ==
    \/ next
    \/ \E n \in 0 .. UsizeMax : nth(n)
    \/ next_back
    \/ \E n \in 0 .. UsizeMax : nth_back(n)
    \/ \E i \in 0 .. N - 1, b \in BOOLEAN : set_alive(i, b)

Spec == Init /\ [][Next]_vars

\* A caller draining the iterator in a for loop keeps calling next.
DrainSpec == Spec /\ WF_vars(next)

-----------------------------------------------------------------------------
(* Properties.                                                             *)

\* Type invariant.  It carries alive.start <= alive.end <= N: the unsafe
\* get_unchecked in as_bitslice/as_mut_bitslice and the unchecked
\* BitPtr::add in get rely on the range never leaving 0 .. N.
TypeOK ==
    /\ data \in [0 .. Elts - 1 -> Element]
    /\ alive \in [start : 0 .. N, end : 0 .. N]
    /\ alive.start <= alive.end
    /\ ret \in Option
    /\ last \in Calls

\* FusedIterator (iter.rs:247): once a call has returned None, every later
\* call returns None as well; this needs Range::nth/nth_back to exhaust
\* the range when they fail, and as_mut_bitslice to have nothing to write.
Fused == [][last # "new" /\ ret = None => ret' = None]_vars

\* A for loop over the iterator terminates: the range becomes empty and
\* stays empty.
Drains == <>[](len = 0)
=============================================================================
