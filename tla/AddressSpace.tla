---------------------------- MODULE AddressSpace ----------------------------
(***************************************************************************)
(* What the page tables promise the rest of the kernel once they are       *)
(* built: a function from virtual pages to entries that changes at one     *)
(* page per call.  A virtual page of the memory that is mirrored in the    *)
(* high half is the same entry as its image there, so a call changes both. *)
(***************************************************************************)
EXTENDS Naturals

CONSTANTS Page,     \* the virtual pages
          Entry,    \* what a virtual page may be translated to
          Distance  \* from a mirrored page to its image

VARIABLES space,    \* the translation, or Unbuilt before the boot code is done
          mirror    \* the low pages whose images are the same entries

Unbuilt == << >>

(* The virtual pages that are one entry with page v. *)
SameEntry(v) ==
    {v} \union {w \in mirror : v = w + Distance}
        \union {w \in Page : w = v + Distance /\ v \in mirror}

Init == /\ space = Unbuilt
        /\ mirror = {}

Build ==
    /\ space = Unbuilt
    /\ space' \in [Page -> Entry]
    /\ mirror' \in SUBSET Page

(* The entry of page v becomes another, and no other page's changes. *)
Map(v) ==
    /\ space # Unbuilt
    /\ space'[v] # space[v]
    /\ space' \in [Page -> Entry]
    /\ \A w \in Page : space'[w] = IF w \in SameEntry(v) THEN space'[v] ELSE space[w]
    /\ UNCHANGED mirror

Next == Build \/ \E v \in Page : Map(v)

Spec == Init /\ [][Next]_<<space, mirror>>
=============================================================================
