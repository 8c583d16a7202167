--------------------------- MODULE MCBitArrayValue ---------------------------
(***************************************************************************)
(* The owned BitArray model checked against BitArrayAbstract: each array  *)
(* is seen only through as_bitslice, its N live bits.                      *)
(***************************************************************************)
EXTENDS BitArrayValue

Abstract == INSTANCE BitArrayAbstract
                WITH val <- [x \in Handles |-> as_bitslice(arr[x])]

\* Every behaviour of the arrays, seen through their live bits, is one the
\* abstract sequence-of-bits specification allows: the constructors (ZERO,
\* new, clone, the repetition and sequence forms of bitarr!) build the bits
\* they name, and the element-level Not and raw stores, the bit-level set
\* and &=/|=/^= act on exactly the bits they should, whatever the dead bits
\* hold and under either bit order.
ImplementsAbstract == Abstract!Spec
=============================================================================
