------------------------------- MODULE MCHeap -------------------------------
(***************************************************************************)
(* Small instances of Heap: pages of 8 words, descriptors of 2.            *)
(***************************************************************************)
EXTENDS Heap
=============================================================================
