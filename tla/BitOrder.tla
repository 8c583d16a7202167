------------------------------ MODULE BitOrder ------------------------------
(***************************************************************************)
(* The two canonical bit orderings (order::Lsb0 and order::Msb0): for an   *)
(* element of width w, the map from a semantic bit index 0 .. w-1 to the   *)
(* physical bit index inside the element (BitOrder::at).  The ordering     *)
(* source is not part of this repository's src/; it is modelled from the   *)
(* specification (section 4.1).                                            *)
(***************************************************************************)
EXTENDS Naturals

\* The order witnesses.  LocalBits resolves to one of them at build time.
Lsb0 == "Lsb0"
Msb0 == "Msb0"
Orders == {Lsb0, Msb0}

\* BitOrder::at: semantic index i of a w-bit element -> physical index.
At(order, w, i) == IF order = Lsb0 THEN i ELSE (w - 1) - i
=============================================================================
