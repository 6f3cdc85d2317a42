------------------------------- MODULE MCHeap -------------------------------
(* Instances of Heap for TLC. *)
EXTENDS Heap

\* Slab classes of 64 and 128 bytes.
TwoClasses == <<8, 16>>
=============================================================================
