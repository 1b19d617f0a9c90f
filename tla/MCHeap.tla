------------------------------- MODULE MCHeap -------------------------------
(***************************************************************************)
(* Small instances of Heap.                                                *)
(***************************************************************************)
EXTENDS Heap

(* A payload cell that reads as a used block; free ones are left by merges. *)
MCGarbage ==
  {[size |-> 1, free |-> FALSE, next |-> NULL, prev |-> 0]}
=============================================================================
