------------------------------- MODULE BitPtr -------------------------------
(***************************************************************************)
(* Bit-pointers over a buffer of storage elements (ptr::BitPtr), modelled  *)
(* from the specification (section 4.3): the pointer source is not part   *)
(* of this repository's src/.  A pointer is an element address plus a     *)
(* head bit index; an element is represented by its W physical bits, so   *)
(* load_value/store_value are reads and writes of the whole function.     *)
(***************************************************************************)
EXTENDS Naturals, BitOrder

\* BitPtr::from_slice: the first bit of element 0.
FromSlice == [addr |-> 0, head |-> 0]

\* BitPtr::add(n): address and head recomputed together.
PtrAdd(ptr, n, w) ==
    [addr |-> ptr.addr + (ptr.head + n) \div w,
     head |-> (ptr.head + n) % w]

\* BitPtr::read: load the element and test the bit the order selects.
PtrRead(data, ptr, order, w) == data[ptr.addr][At(order, w, ptr.head)]

\* BitPtr::write: load the element, set or clear one bit, store it back.
PtrWrite(data, ptr, order, w, bit) ==
    [data EXCEPT ![ptr.addr][At(order, w, ptr.head)] = bit]
=============================================================================
