------------------------------ MODULE MCFat32 ------------------------------
(***************************************************************************)
(* Directories of up to four items in sectors of two entries, so that long *)
(* names cross sectors and clusters at every place.                        *)
(***************************************************************************)
EXTENDS Fat32

Item(s, l, d, k) == [short |-> s, long |-> l, dir |-> d, kind |-> k]

MCChecksum == [s \in {"A", "B", "C", "L"} |-> IF s = "A" THEN 10 ELSE IF s = "B" THEN 20 ELSE 30]

(* A plain name, one of two and one of three parts, the last too long. *)
Short   == Item("A", <<>>, TRUE, "whole")
Long    == Item("B", <<<<"b2", 1>>, <<"b1", 2>>>>, FALSE, "whole")
TooLong == Item("C", <<<<"c3", 1>>, <<"c2", 2>>, <<"c1", 2>>>>, FALSE, "whole")
Deleted == Item("A", <<<<"d1", 2>>>>, FALSE, "deleted")
Orphan  == Item("C", <<<<"o2", 1>>, <<"o1", 2>>>>, FALSE, "orphan")
Label   == Item("L", <<>>, FALSE, "label")

(* A label does no harm behind all files. *)
MCContents == UNION {[1 .. n -> {Short, Long, TooLong, Deleted, Orphan}] : n \in 0 .. 3} \cup {<<Short, Long, Label>>}
LabelContents == {<<Short, Label, Long>>}

MCMbrs == {<<0, 12>>, <<5, 131>>}
=============================================================================
