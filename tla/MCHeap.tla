------------------------------- MODULE MCHeap -------------------------------
(***************************************************************************)
(* Small instances of Heap.                                                *)
(***************************************************************************)
EXTENDS Heap, TLC

MCSymmetry == Permutations(Elem)
=============================================================================
