----------------------------- MODULE MCKeyboard -----------------------------
(***************************************************************************)
(* Small instances of Keyboard: a ring of three slots fills up with two    *)
(* events, so that every behaviour of a few strokes wraps it.              *)
(***************************************************************************)
EXTENDS Keyboard

(* A plain key, an extended one whose second byte is another key's code,   *)
(* a modifier that is held and one that locks.                             *)
RingKeys == {"A", "UP", "LSHIFT", "CAPSLOCK"}
=============================================================================
