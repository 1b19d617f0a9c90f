----------------------------- MODULE EventQueue -----------------------------
(***************************************************************************)
(* What the keyboard driver's event buffer promises the one program that   *)
(* reads it: a queue with no slots or indices.  Events come out whole, in  *)
(* the order they went in, each at most once; a clear empties it.          *)
(***************************************************************************)
EXTENDS Naturals, Sequences

CONSTANTS Capacity,  (* the most events that wait                          *)
          Events,    (* what can be queued                                 *)
          NoEvent    (* what get_event has returned before its first event *)

VARIABLES waiting,   (* the events not yet returned                        *)
          ret        (* the event get_event returned last                  *)

Init == waiting = <<>> /\ ret = NoEvent

(* From the interrupt handler. *)
Put(e) ==
  /\ Len(waiting) < Capacity
  /\ waiting' = Append(waiting, e)
  /\ UNCHANGED ret

(* A get_event that returns 1. *)
Take ==
  /\ waiting # <<>>
  /\ ret' = Head(waiting)
  /\ waiting' = Tail(waiting)

Clear == waiting' = <<>> /\ UNCHANGED ret

Next == Take \/ Clear \/ \E e \in Events : Put(e)

Spec == Init /\ [][Next]_<<waiting, ret>>
=============================================================================
