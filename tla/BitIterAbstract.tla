--------------------------- MODULE BitIterAbstract ---------------------------
(***************************************************************************)
(* What a by-value bit iterator promises (core::array::IntoIter, which     *)
(* array::IntoIter mirrors): the bits not yet yielded form a sequence      *)
(* rest; next/nth take from its front, next_back/nth_back from its back,   *)
(* an out-of-range nth exhausts it, and as_mut_bitslice edits rest in      *)
(* place.  No addresses, bit orders or index ranges appear here.           *)
(***************************************************************************)
EXTENDS Naturals, Sequences

CONSTANTS N,        \* the number of bits the iterator starts with
          UsizeMax  \* the largest usize: the arguments nth/nth_back accept

VARIABLES rest,     \* the bits not yet yielded, front first
          ret,      \* the Option<bool> the last call returned
          last      \* which call was made last ("new" before any)

vars == <<rest, ret, last>>

None == <<>>
Some(b) == <<b>>

Init ==
    /\ rest \in [1 .. N -> BOOLEAN]
    /\ ret = None
    /\ last = "new"

next ==
    /\ ret' = IF rest = <<>> THEN None ELSE Some(Head(rest))
    /\ rest' = IF rest = <<>> THEN rest ELSE Tail(rest)
    /\ last' = "next"

nth(n) ==
    /\ ret' = IF n < Len(rest) THEN Some(rest[n + 1]) ELSE None
    /\ rest' = IF n < Len(rest) THEN SubSeq(rest, n + 2, Len(rest)) ELSE <<>>
    /\ last' = "nth"

next_back ==
    /\ ret' = IF rest = <<>> THEN None ELSE Some(rest[Len(rest)])
    /\ rest' = IF rest = <<>> THEN rest ELSE SubSeq(rest, 1, Len(rest) - 1)
    /\ last' = "next_back"

nth_back(n) ==
    /\ ret' = IF n < Len(rest) THEN Some(rest[Len(rest) - n]) ELSE None
    /\ rest' = IF n < Len(rest) THEN SubSeq(rest, 1, Len(rest) - n - 1)
                                ELSE <<>>
    /\ last' = "nth_back"

write(i, b) ==
    /\ i < Len(rest)
    /\ rest' = [rest EXCEPT ![i + 1] = b]
    /\ UNCHANGED <<ret, last>>

Next ==
    \/ next
    \/ \E n \in 0 .. UsizeMax : nth(n)
    \/ next_back
    \/ \E n \in 0 .. UsizeMax : nth_back(n)
    \/ \E i \in 0 .. N - 1, b \in BOOLEAN : write(i, b)

Spec == Init /\ [][Next]_vars
=============================================================================
