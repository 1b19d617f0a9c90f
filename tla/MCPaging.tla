------------------------------ MODULE MCPaging ------------------------------
(***************************************************************************)
(* A machine of 13 directory entries of 4 pages.  The modules end in the   *)
(* kernel's table, in the next, or in the table that page 0x09000000       *)
(* takes; the RAM is unknown or larger than the window.  The pool *)
(* has tables left for two directory entries, for one, or for none.        *)
(***************************************************************************)
EXTENDS Paging

MCModuleEnds == {0, 8, 12}
MCRamEnds    == {0, 40}

\* In a mirrored table, and in two directory entries that have no table at first.
MCCallVirt == {5, 9, 41}

\* A reserved page that the bitmap's test sees, and two free ones.
MCCallPhys == {2, 33}
=============================================================================
