--------------------------- MODULE MCBitArrayIter ---------------------------
(***************************************************************************)
(* Model-checking instance of BitArrayIter, and the refinement of the     *)
(* abstract iterator contract: the bits IntoIter::as_bitslice shows are   *)
(* the abstract sequence rest.                                             *)
(***************************************************************************)
EXTENDS BitArrayIter

Contract == INSTANCE BitIterAbstract WITH rest <- as_bitslice

\* array::IntoIter implements the iterator contract: each call returns the
\* bit the contract names (the front, the (n+1)-th, the back ...) and
\* leaves the same remaining bits, whatever the bit order, the element
\* width, the usize arithmetic of Range, and the edits made through
\* as_mut_bitslice.
ImplementsContract == Contract!Spec
=============================================================================
