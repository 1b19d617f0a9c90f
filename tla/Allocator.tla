----------------------------- MODULE Allocator -----------------------------
(***************************************************************************)
(* What the kernel heap promises its callers, with no block list, header   *)
(* or search order: kmalloc hands out a region of the heap that lies       *)
(* inside the heap, is large enough for the request and overlaps no region *)
(* handed out and not yet given back; kfree takes a region back.           *)
(*                                                                         *)
(* The heap is counted in cells of ALIGNMENT bytes; a request is in bytes. *)
(***************************************************************************)
EXTENDS Integers

CONSTANTS HeapCells,  (* cells in the heap                       *)
          Requests    (* the sizes, in bytes, callers ask for     *)

VARIABLE asked        (* asked[p]: bytes the caller holding p asked for, 0 = not handed out *)

ALIGNMENT == 16

Cells == 0 .. HeapCells - 1
Ptrs  == 0 .. HeapCells

(* The cells n bytes need: n rounded up, as a number without a width. *)
CellsFor(n) == (n + ALIGNMENT - 1) \div ALIGNMENT

(* The cells the holder of p may use. *)
Region(p) == p .. p + CellsFor(asked[p]) - 1

Init == asked = [p \in Ptrs |-> 0]

Malloc(p, n) ==
  /\ asked[p] = 0
  /\ n > 0
  /\ p + CellsFor(n) <= HeapCells
  /\ \A q \in Ptrs : asked[q] > 0 =>
       \/ q + CellsFor(asked[q]) <= p
       \/ p + CellsFor(n) <= q
  /\ asked' = [asked EXCEPT ![p] = n]

Free(p) ==
  /\ asked[p] > 0
  /\ asked' = [asked EXCEPT ![p] = 0]

Next == \E p \in Ptrs : Free(p) \/ \E n \in Requests : Malloc(p, n)

Spec == Init /\ [][Next]_asked
=============================================================================
