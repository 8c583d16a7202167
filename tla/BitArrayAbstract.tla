--------------------------- MODULE BitArrayAbstract ---------------------------
(***************************************************************************)
(* What an owned BitArray<S, O, N> promises its users: it is a sequence of *)
(* N bits, indexed 0 .. N-1, and every operation is a bit-wise function of *)
(* those sequences.  No elements, bit orders or dead bits appear here,     *)
(* except that a raw store into element i may change only the bits whose  *)
(* index lies in that element, i \div W = i.                               *)
(***************************************************************************)
EXTENDS Naturals

CONSTANTS W,        \* bits per storage element
          N,        \* bits per array
          Handles   \* the BitArray values a program holds

VARIABLES val,      \* val[x][k]: bit k of array x
          last      \* the operation made last ("none" before any)

vars == <<val, last>>

Bits == [0 .. N - 1 -> BOOLEAN]

Combine(op, x, y) ==
    CASE op = "and" -> x /\ y
      [] op = "or"  -> x \/ y
      [] op = "xor" -> x # y

\* The indices of the live bits stored in element i.
ElementBits(i) == {k \in 0 .. N - 1 : k \div W = i}

Init ==
    /\ val \in [Handles -> Bits]
    /\ last = "none"

zero(x) ==
    /\ last' = "default"
    /\ val' = [val EXCEPT ![x] = [k \in 0 .. N - 1 |-> FALSE]]

repeat(x, v) ==
    /\ last' = "bitarr_rep"
    /\ val' = [val EXCEPT ![x] = [k \in 0 .. N - 1 |-> v]]

from_bits(x, bits) ==
    /\ last' = "bitarr_seq"
    /\ val' = [val EXCEPT ![x] = bits]

from_raw(x) ==
    /\ last' = "new"
    /\ \E bits \in Bits : val' = [val EXCEPT ![x] = bits]

copy(x, y) ==
    /\ last' = "clone"
    /\ val' = [val EXCEPT ![x] = val[y]]

set(x, k, b) ==
    /\ last' = "set"
    /\ val' = [val EXCEPT ![x][k] = b]

invert(x) ==
    /\ last' = "not"
    /\ val' = [val EXCEPT ![x] = [k \in 0 .. N - 1 |-> ~val[x][k]]]

combine(x, op, y) ==
    /\ last' = "bitop"
    /\ val' = [val EXCEPT ![x] = [k \in 0 .. N - 1 |->
                                    Combine(op, val[x][k], val[y][k])]]

store(x, i) ==
    /\ last' = "store"
    /\ \E bits \in Bits :
           /\ \A k \in (0 .. N - 1) \ ElementBits(i) : bits[k] = val[x][k]
           /\ val' = [val EXCEPT ![x] = bits]

Next ==
    \E x, y \in Handles :
        \/ zero(x)
        \/ \E v \in BOOLEAN : repeat(x, v)
        \/ \E bits \in Bits : from_bits(x, bits)
        \/ from_raw(x)
        \/ copy(x, y)
        \/ \E k \in 0 .. N - 1, b \in BOOLEAN : set(x, k, b)
        \/ invert(x)
        \/ \E op \in {"and", "or", "xor"} : combine(x, op, y)
        \/ \E i \in 0 .. (N + W - 1) \div W - 1 : store(x, i)

Spec == Init /\ [][Next]_vars
=============================================================================
