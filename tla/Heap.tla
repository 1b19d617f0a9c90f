-------------------------------- MODULE Heap --------------------------------
(***************************************************************************)
(* The kernel heap, src/kernel/utils/kmem.c: a static array tiled by       *)
(* blocks, each a header (heap_block_t) followed by its payload, linked in *)
(* address order through the headers themselves.                           *)
(*                                                                         *)
(* The array is 16-byte aligned, its size, the header's size, the minimum  *)
(* block and every payload are multiples of ALIGNMENT = 16, so memory is   *)
(* counted in cells of 16 bytes: a header is one cell and headers never    *)
(* overlap in part.  Requests stay in bytes, because align_size works on   *)
(* a 32-bit word (here: modulo WORD).                                      *)
(*                                                                         *)
(* mem holds what each cell would read as, were it taken for a header.     *)
(* A cell of a payload belongs to its owner, who may write anything there  *)
(* (Garbage), which is what a stale pointer given to kfree would read.     *)
(***************************************************************************)
EXTENDS Integers

CONSTANTS HeapCells,  (* HEAP_SIZE / ALIGNMENT                             *)
          WORD,       (* 2^32: sizes are uint32_t                          *)
          Requests,   (* the sizes, in bytes, kmalloc is called with        *)
          Garbage     (* what a payload cell may read as when taken for a header *)

ALIGNMENT == 16
HDR       == 1        \* sizeof(heap_block_t), in cells
MIN_BLOCK == 1        \* MIN_BLOCK_SIZE, in cells
NULL      == -1       \* no cell of the heap

Cells == 0 .. HeapCells - 1
Ptrs  == 0 .. HeapCells

heap_block_t == [size : 0 .. HeapCells - 1, free : BOOLEAN,
                 next : Cells \cup {NULL}, prev : Cells \cup {NULL}]

(* HEAP_SIZE is at least a header and a minimum block, and so far below    *)
(* 2^32 that no sum of a heap size, a header and a minimum block wraps.    *)
ASSUME HeapAssumption ==
  /\ HeapCells \in Nat /\ HeapCells >= HDR + MIN_BLOCK
  /\ WORD \in Nat /\ WORD % ALIGNMENT = 0
  /\ ALIGNMENT * (HeapCells + HDR + MIN_BLOCK) < WORD
  /\ Requests \subseteq 0 .. WORD - 1
  /\ Garbage \subseteq heap_block_t

VARIABLES mem,     (* the heap array                                        *)
          pc,      (* "idle": no call in progress; "scan": in kmalloc's     *)
                   (* loop; "hung": in its while(1)                          *)
          cur,     (* kmalloc's current                                     *)
          n,       (* the bytes kmalloc was asked for                       *)
          asked,   (* what the callers hold, as in Allocator                 *)
          freed,   (* pointers given back whose header cell was not handed  *)
                   (* out since                                             *)
          blocks   (* the cells that are headers of the block list          *)

vars == <<mem, pc, cur, n, asked, freed, blocks>>

(* The cells a request of b bytes truly needs. *)
CellsFor(b) == (b + ALIGNMENT - 1) \div ALIGNMENT

(* What align_size returns, in cells: its addition wraps at the word. *)
align_size(b) == ((b + ALIGNMENT - 1) % WORD) \div ALIGNMENT

Live == {p \in Ptrs : asked[p] > 0}

-----------------------------------------------------------------------------
(* init_heap: one free block spans the array.  The array is in .bss. *)
ZeroHeader == [size |-> 0, free |-> FALSE, next |-> NULL, prev |-> NULL]

init_heap ==
  /\ mem = [c \in Cells |-> IF c = 0
              THEN [ZeroHeader EXCEPT !.size = HeapCells - HDR, !.free = TRUE]
              ELSE ZeroHeader]
  /\ pc = "idle" /\ cur = NULL /\ n = 0
  /\ asked = [p \in Ptrs |-> 0]
  /\ freed = {}
  /\ blocks = {0}

-----------------------------------------------------------------------------
(* kmalloc *)

(* Mutant: the used flag is not looked at. *)
Suits_Used(c, k) == mem[c].size >= k

(* The block is large enough. *)
Suits(c, k) == mem[c].free /\ mem[c].size >= k

(* The rest of the block is worth a block of its own. *)
Splits(c, k) == mem[c].size >= k + HDR + MIN_BLOCK

(* Mutant: the block behind keeps its old prev. *)
Split_StalePrev(m, c, k) ==
  LET new == c + HDR + k
  IN [m EXCEPT
        ![new] = [size |-> m[c].size - k - HDR, free |-> TRUE,
                  next |-> m[c].next, prev |-> c],
        ![c] = [@ EXCEPT !.size = k, !.next = new, !.free = FALSE]]

(* Block c keeps k cells and is used; the rest becomes a free block. *)
Split(m, c, k) ==
  LET new    == c + HDR + k
      nxt    == m[c].next
      linked == IF nxt = NULL THEN m ELSE [m EXCEPT ![nxt].prev = new]
  IN [linked EXCEPT
        ![new] = [size |-> m[c].size - k - HDR, free |-> TRUE, next |-> nxt, prev |-> c],
        ![c] = [@ EXCEPT !.size = k, !.free = FALSE, !.next = new]]

(* The call: size 0 returns NULL at once, otherwise the search starts at   *)
(* the first header.                                                       *)
kmalloc(b) ==
  /\ pc = "idle"
  /\ IF b = 0 THEN UNCHANGED <<pc, cur, n>>
     ELSE pc' = "scan" /\ cur' = 0 /\ n' = b
  /\ UNCHANGED <<mem, asked, freed, blocks>>

(* Mutant: the loop stops at the last block. *)
InLoop_StopsEarly == pc = "scan" /\ mem[cur].next # NULL

(* The loop's test, current && heap <= current <= heap + HEAP_SIZE. *)
InLoop == pc = "scan" /\ cur # NULL /\ cur <= HeapCells

(* Mutant: the loop does not move on. *)
ScanOn_Stays ==
  /\ InLoop
  /\ ~ Suits(cur, align_size(n))
  /\ UNCHANGED vars

(* An iteration that passes over a block. *)
ScanOn ==
  /\ InLoop
  /\ ~ Suits(cur, align_size(n))
  /\ cur' = mem[cur].next
  /\ UNCHANGED <<mem, pc, n, asked, freed, blocks>>

(* The iteration that finds a block: it is split if the rest is worth a    *)
(* block, marked used and returned.                                        *)
ScanFound ==
  LET k    == align_size(n)
      ptr  == cur + HDR
      kept == IF Splits(cur, k) THEN k ELSE mem[cur].size
  IN /\ InLoop
     /\ Suits(cur, k)
     /\ IF Splits(cur, k)
        THEN mem' = Split(mem, cur, k) /\ blocks' = blocks \cup {cur + HDR + k}
        ELSE mem' = [mem EXCEPT ![cur].free = FALSE] /\ UNCHANGED blocks
     /\ asked' = [asked EXCEPT ![ptr] = n]
     /\ freed' = {p \in freed : p - HDR \notin cur .. cur + kept}
     /\ pc' = "idle" /\ cur' = NULL /\ n' = 0

(* No block is left: kmalloc prints and loops for ever; it never returns NULL. *)
OutOfMemory ==
  /\ pc = "scan" /\ ~ InLoop
  /\ pc' = "hung"
  /\ UNCHANGED <<mem, cur, n, asked, freed, blocks>>

-----------------------------------------------------------------------------
(* kfree *)

(* Mutant: the header taken in is cleared. *)
Absorb_Scrub(m, a, b) ==
  LET nxt   == m[b].next
      grown == [m EXCEPT ![a].size = @ + m[b].size + HDR, ![a].next = nxt, ![b] = ZeroHeader]
  IN IF nxt = NULL THEN grown ELSE [grown EXCEPT ![nxt].prev = a]

(* Block a takes in block b, which follows it. *)
Absorb(m, a, b) ==
  LET nxt   == m[b].next
      grown == [m EXCEPT ![a].size = @ + m[b].size + HDR, ![a].next = nxt]
  IN IF nxt = NULL THEN grown ELSE [grown EXCEPT ![nxt].prev = a]

NextIsFree(m, b) == m[b].next # NULL /\ m[m[b].next].free
PrevIsFree(m, b) == m[b].prev # NULL /\ m[m[b].prev].free

MergeNext(m, b) == IF NextIsFree(m, b) THEN Absorb(m, b, m[b].next) ELSE m
MergePrev(m, b) == IF PrevIsFree(m, b) THEN Absorb(m, m[b].prev, b) ELSE m

(* kfree ignores NULL, a pointer whose header would lie outside the array, *)
(* and a block already marked free (a double free it reports).             *)
kfree(p) ==
  LET b == p - HDR
  IN /\ pc = "idle"
     /\ p # NULL /\ b \in Cells
     /\ ~ mem[b].free
     /\ LET marked == [mem EXCEPT ![b].free = TRUE]
        IN /\ mem' = MergePrev(MergeNext(marked, b), b)
           /\ blocks' = blocks \ ((IF NextIsFree(mem, b) THEN {mem[b].next} ELSE {})
                                  \cup (IF PrevIsFree(mem, b) THEN {b} ELSE {}))
     /\ asked' = [asked EXCEPT ![p] = 0]
     /\ freed' = freed \cup {p}
     /\ UNCHANGED <<pc, cur, n>>

(* The owner of p writes into the bytes it asked for. *)
ClientWrite(p, c, g) ==
  /\ pc = "idle"
  /\ c \in Cells /\ c \in p .. p + CellsFor(asked[p]) - 1
  /\ mem' = [mem EXCEPT ![c] = g]
  /\ UNCHANGED <<pc, cur, n, asked, freed, blocks>>

-----------------------------------------------------------------------------
(* Callers give back what they hold, or, wrongly, what they gave back      *)
(* already.  Giving back a pointer whose header cell was handed out again  *)
(* in between is outside what kfree can tell and is left to Vfs.           *)
Next ==
  \/ \E b \in Requests : kmalloc(b)
  \/ ScanOn
  \/ ScanFound
  \/ OutOfMemory
  \/ \E p \in Live \cup freed : kfree(p)
  \/ \E p \in Live, c \in Cells, g \in Garbage : ClientWrite(p, c, g)

(* A call of kmalloc runs to its end; whether callers call is their choice. *)
Spec == init_heap /\ [][Next]_vars /\ WF_vars(ScanOn \/ ScanFound \/ OutOfMemory)
-----------------------------------------------------------------------------
(* Properties *)

TypeOK ==
  /\ mem \in [Cells -> heap_block_t]
  /\ pc \in {"idle", "scan", "hung"}
  /\ cur \in Cells \cup {NULL}
  /\ n \in Requests \cup {0}
  /\ asked \in [Ptrs -> Requests \cup {0}]
  /\ freed \subseteq Ptrs
  /\ blocks \subseteq Cells

(* The cell behind block b. *)
End(m, b) == b + HDR + m[b].size

(* Tiled(m, B): in memory m the headers at B tile the array. *)
Tiled(m, B) ==
  /\ 0 \in B
  /\ \A b \in B :
       /\ m[b].size > 0
       /\ m[b].next = NULL => End(m, b) = HeapCells
       /\ m[b].next # NULL =>
            m[b].next = End(m, b) /\ m[b].next \in B /\ m[m[b].next].prev = b
       /\ m[b].prev = NULL <=> b = 0
       /\ m[b].prev # NULL => m[b].prev \in B /\ m[m[b].prev].next = b
  /\ \A b, c \in B : b < c => End(m, b) <= c

(* The headers tile the array: from the header at 0, each block's next is  *)
(* the header right behind its payload, the last block ends with the       *)
(* array, next and prev agree, and no header lies inside another block.    *)
(* (The pointer surgery of the split in kmalloc and of the two merges in   *)
(* kfree.)                                                                 *)
Tiling == Tiled(mem, blocks)

(* No free block of B is followed by a free one. *)
Merged(m, B) ==
  \A b \in B : m[b].free /\ m[b].next # NULL => ~ m[m[b].next].free

(* No two neighbouring blocks are both free: the two merges of kfree and   *)
(* the split of kmalloc leave no fragment that a merge would have removed. *)
Coalesced == Merged(mem, blocks)

(* What callers hold is exactly the used blocks, each with room for the    *)
(* bytes asked for: kmalloc never hands out a used block, and kfree of one *)
(* pointer never frees another's block.                                    *)
HeldIsUsed ==
  /\ \A b \in blocks : asked[b + HDR] > 0 <=> ~ mem[b].free
  /\ \A p \in Live : p - HDR \in blocks /\ CellsFor(asked[p]) <= mem[p - HDR].size

(* kfree's test for a double free works for every pointer whose header     *)
(* cell was not handed out since, however its block was merged meanwhile:  *)
(* the header left behind in memory still says free.                       *)
DoubleFreeIsSeen ==
  \A p \in freed : /\ p - HDR \in Cells
                   /\ mem[p - HDR].free
                   /\ asked[p] = 0

(* kmalloc gives up only if no free block is large enough: the search has  *)
(* passed over every block of the list.                                    *)
OutOfMemoryIsReal ==
  pc = "hung" => \A b \in blocks : mem[b].free => mem[b].size < CellsFor(n)

(* The search so far: it stands at a header, and no block below it would   *)
(* have done.  The part of the invariant that makes OutOfMemoryIsReal and  *)
(* FirstFit inductive.                                                     *)
PassedOver ==
  /\ pc # "idle" => n > 0
  /\ pc = "scan" =>
       /\ cur # NULL => cur \in blocks
       /\ \A b \in blocks :
            (cur = NULL \/ b < cur) /\ mem[b].free => mem[b].size < CellsFor(n)

(* No pointer given back points into a block in use: what makes            *)
(* DoubleFreeIsSeen survive the writes of the blocks' owners.              *)
FreedIsUnused ==
  \A p \in freed, b \in blocks : ~ mem[b].free => p - HDR \notin b .. End(mem, b) - 1

(* The inductive invariant. *)
IInv ==
  /\ TypeOK
  /\ Tiling
  /\ Coalesced
  /\ HeldIsUsed
  /\ DoubleFreeIsSeen
  /\ FreedIsUnused
  /\ PassedOver
  /\ OutOfMemoryIsReal

(* No request is so close to the word's end that align_size wraps. *)
RequestsFitWord == \A b \in Requests : b + ALIGNMENT <= WORD

(* When callers have given everything back, the heap is one free block     *)
(* again, as init_heap left it, whatever the order of the calls was.       *)
EmptyHeapIsWhole ==
  Live = {} => blocks = {0} /\ mem[0].size = HeapCells - HDR

(* kmalloc's search is first fit: no free block below the one it returns   *)
(* would have done.                                                        *)
FirstFitStep ==
  \A p \in Ptrs : asked[p] = 0 /\ asked'[p] > 0 =>
    \A b \in blocks : b < p - HDR /\ mem[b].free => mem[b].size < CellsFor(n)
FirstFit == [][FirstFitStep]_vars

(* While a caller holds a pointer, no other call changes its block's size  *)
(* or frees it: only the links in its header may move.                     *)
HeldBlockStep ==
  \A p \in Live : asked'[p] > 0 =>
    /\ mem'[p - HDR].size = mem[p - HDR].size
    /\ mem'[p - HDR].free = mem[p - HDR].free
HeldBlockIsStable == [][HeldBlockStep]_vars

(* A call of kmalloc returns or gives up: the list it walks has no cycle. *)
KmallocEnds == pc = "scan" ~> pc # "scan"

(* The block list keeps the promises of Allocator. *)
Promise == INSTANCE Allocator
AllocatorSpec == Promise!Spec
=============================================================================
