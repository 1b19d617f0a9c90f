------------------------------- MODULE MCVfs -------------------------------
(***************************************************************************)
(* A disk with one directory in the root, a file in each, and a second     *)
(* directory whose entries after the first cannot be read.                 *)
(***************************************************************************)
EXTENDS Vfs, TLC

Entry(n, c, t) == [name |-> n, cluster |-> c, type |-> t]

MCDirectory ==
  (2 :> <<Entry("usr", 3, "dir"), Entry("f", 4, "file"), Entry("bad", 5, "dir")>>) @@
  (3 :> <<Entry("g", 6, "file")>>) @@
  (5 :> <<Entry("h", 6, "file"), Entry("i", 6, "file")>>)

MCReadable == (2 :> 3) @@ (3 :> 1) @@ (5 :> 1)
MCLength == (2 :> 1) @@ (3 :> 1) @@ (4 :> 2) @@ (5 :> 1) @@ (6 :> 1)

(* A directory, a file, one a level down, one that is not there, one in a  *)
(* file and one behind the bad sector.                                     *)
MCPaths == {<<"usr">>, <<"f">>, <<"usr", "g">>, <<"none">>, <<"f", "g">>, <<"bad", "i">>}
RootPaths == {<<>>, <<"f">>}

(* Any two blocks may change places. *)
Blocks == Permutations(Slots)
=============================================================================
