----------------------------- MODULE MCConsole -----------------------------
(***************************************************************************)
(* Three rows of four columns, a line of at most six characters, which     *)
(* runs over a row's end once or twice and scrolls when it begins low on   *)
(* the screen.                                                             *)
(***************************************************************************)
EXTENDS Console, TLC

Characters == Permutations(Printable)
=============================================================================
