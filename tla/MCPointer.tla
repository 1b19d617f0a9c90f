----------------------------- MODULE MCPointer -----------------------------
(***************************************************************************)
(* A text screen of three by two cells and a mouse with signed two-bit     *)
(* movements, so that a packet can reach every edge and the one value      *)
(* without a negative is among them; six bytes are two packets, or one     *)
(* packet after a byte that is out of step.  Of the sizes asked for, one   *)
(* is too small, one is within the text screen, and one is larger in both  *)
(* directions: its last column does not fit the short (of three bits)      *)
(* that vga_put_char_at takes, and comes out in front of the text.         *)
(***************************************************************************)
EXTENDS Pointer

MouseBytes  == {[bit3 |-> TRUE, delta |-> -2], [bit3 |-> TRUE, delta |-> 1], [bit3 |-> FALSE, delta |-> -1]}
ScreenSizes == {<<1, 2>>, <<2, 2>>, <<5, 3>>}
=============================================================================
