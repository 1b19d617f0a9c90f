------------------------------- MODULE Paging -------------------------------
(***************************************************************************)
(* The page directory and page tables of arch/i386/paging.c: what boot.S   *)
(* leaves, the stages of init_paging_stage1 and init_paging_stage2, which  *)
(* rebuild the address space the processor is running in, and              *)
(* map_phys_to_virt, which anybody may call afterwards.                    *)
(*                                                                         *)
(* Memory is counted in pages.  The numbers of the code (1024 entries in a *)
(* table, the high half at entry 768, ...) are the constants, so that the  *)
(* checked instance is a small machine of the same shape.                  *)
(***************************************************************************)
EXTENDS Integers, FiniteSets

CONSTANTS
    Entries,        \* PAGE_TABLE_SIZE: entries of a page table
    Dirs,           \* PAGE_DIR_SIZE: entries of the page directory
    Tables,         \* PAGETABLES_MAXSIZE: page tables in the pool
    VBase,          \* directory entry of KERNEL_VBASE (768)
    WindowPde,      \* directory entry of 0xD0000000, the heap's window
    WindowTables,   \* tables of the window (8 for its 32 MB)
    HighPde,        \* directory entry of 0xE0000000, the devices
    LowPage,        \* the page of 0x09000000, mapped to itself
    SelfOffset,     \* page 5 of the high half, mapped to itself
    Word,           \* bits in a word of mapped_phys_page_bitmap
    KernelEnd,      \* _kernel_end_phys in pages
    ModuleEnds,     \* ends of the last multiboot module, 0 for none
    RamEnds,        \* ends of the RAM above 1 MB, 0 when no map is given
    CallVirt, CallPhys  \* the pages map_phys_to_virt is called with

Page      == 0 .. Dirs * Entries - 1
PageCount == Dirs * Entries
LowPde    == LowPage \div Entries
WindowSize == WindowTables * Entries

(* The addresses the code has in its text lie in the order it takes for    *)
(* granted, the kernel with its modules fits below the high half, the end  *)
(* of RAM is an uint32_t of bytes, and the pool has the tables the boot    *)
(* code takes without asking: 4 MB each for the kernel and its modules,    *)
(* the window and one more, the devices, and two (with the numbers of the  *)
(* code at most 256 + 9 + 128 + 2 of 1280).                                *)
ASSUME PagingAssumption ==
    /\ {Entries, Dirs, Tables, Word, KernelEnd, WindowTables} \subseteq Nat \ {0}
    /\ {VBase, WindowPde, HighPde, LowPage, SelfOffset} \subseteq Nat
    /\ LowPage % Entries = 0 /\ LowPde \in 1 .. VBase - 1
    /\ SelfOffset < Entries
    /\ VBase + LowPde =< WindowPde
    /\ WindowPde + WindowTables < HighPde /\ HighPde < Dirs
    /\ KernelEnd < LowPage
    /\ ModuleEnds \subseteq Nat /\ RamEnds \subseteq Page
    /\ \A m \in ModuleEnds : m + 1 =< VBase * Entries /\ m + 1 =< (Dirs - VBase) * Entries
    /\ \A m \in ModuleEnds \union {KernelEnd} :
          (m + Entries) \div Entries + (WindowTables + 1) + (Dirs - HighPde) + 2 =< Tables
    /\ CallVirt \subseteq Page /\ CallPhys \subseteq Page

VARIABLES
    pc,                 \* the stage the boot code has come to
    last_module, max_addr,      \* what the boot loader said
    kernel_pagedir,     \* directory entry -> table, or NoTable
    pagetables,         \* table -> entry -> what it holds
    last_pagetable_idx,
    mapped,             \* the pages set in mapped_phys_page_bitmap
    res                 \* what the last map_phys_to_virt returned

memory == <<kernel_pagedir, pagetables, last_pagetable_idx>>
told   == <<last_module, max_addr>>
vars   == <<pc, told, memory, mapped, res>>

NoTable == -1
Flag    == {"present", "write"}

(* An entry is the number (page * PAGE_SIZE) | flags: page 0 without flags *)
(* is the empty one.                                                       *)
EntryOf(page, flags) == [page |-> page, flags |-> flags]
Empty == EntryOf(0, {})
Entry == [page : Page, flags : SUBSET Flag]

TypeOK ==
    /\ pc \in {"boot", "identity", "window", "high", "low", "alias", "run"}
    /\ last_module \in ModuleEnds /\ max_addr \in RamEnds
    /\ kernel_pagedir \in [0 .. Dirs - 1 -> 0 .. Tables - 1 \union {NoTable}]
    /\ pagetables \in [0 .. Tables - 1 -> [0 .. Entries - 1 -> Entry]]
    /\ last_pagetable_idx \in 0 .. Tables
    /\ mapped \subseteq Page
    /\ res \in {"none", "ok", "mapped", "unaligned", "no_table"}

-----------------------------------------------------------------------------
(* The processor's walk: directory, table, entry. *)
Walk(v) == LET t == kernel_pagedir[v \div Entries]
           IN  IF t = NoTable THEN Empty ELSE pagetables[t][v % Entries]

Frame(v) == IF "present" \in Walk(v).flags THEN Walk(v).page ELSE -1

(* Memory up to the end of the kernel or of its last module, and a page. *)
Reserved == (IF last_module > KernelEnd THEN last_module ELSE KernelEnd) + 1

kernel_end_pde_Truncated == Reserved \div Entries
kernel_end_pde == (Reserved + Entries - 1) \div Entries

(* The loop that fills entries: page i, from first on, goes to the tables  *)
(* from number t on, and holds page to[i].                                 *)
Filled(t, first, to) ==
    LET at(u, e) == {i \in DOMAIN to : /\ u = t + (i - first) \div Entries
                                         /\ e = i % Entries}
    IN  [u \in 0 .. Tables - 1 |-> [e \in 0 .. Entries - 1 |->
           IF at(u, e) = {} THEN pagetables[u][e]
           ELSE EntryOf(to[CHOOSE i \in at(u, e) : TRUE], Flag)]]

(* The loop that gives the directory entries first..last the next tables. *)
Entered(first, last) ==
    /\ kernel_pagedir' = [d \in 0 .. Dirs - 1 |->
          IF d \in first .. last THEN last_pagetable_idx + (d - first)
                                 ELSE kernel_pagedir[d]]
    /\ last_pagetable_idx' = last_pagetable_idx + (last - first + 1)

-----------------------------------------------------------------------------
(* boot.S maps the first table's memory to itself and to the high half,    *)
(* and turns paging on; all else is zero.                                  *)
Init ==
    /\ pc = "boot"
    /\ last_module \in ModuleEnds
    /\ max_addr \in RamEnds
    /\ kernel_pagedir = [d \in 0 .. Dirs - 1 |-> IF d \in {0, VBase} THEN 0 ELSE NoTable]
    /\ pagetables = [t \in 0 .. Tables - 1 |-> [e \in 0 .. Entries - 1 |->
                        IF t = 0 THEN EntryOf(e, Flag) ELSE Empty]]
    /\ last_pagetable_idx = 0
    /\ mapped = {}
    /\ res = "none"

(* All the reserved memory, to itself and to the high half through the     *)
(* same tables.                                                            *)
Identity ==
    /\ pc = "boot" /\ pc' = "identity"
    /\ pagetables' = Filled(0, 0, [i \in 0 .. Reserved - 1 |-> i])
    /\ kernel_pagedir' = [d \in 0 .. Dirs - 1 |->
          IF d < kernel_end_pde THEN d
          ELSE IF d - VBase \in 0 .. kernel_end_pde - 1 THEN d - VBase
          ELSE kernel_pagedir[d]]
    /\ last_pagetable_idx' = kernel_end_pde
    /\ UNCHANGED <<told, mapped, res>>

(* The heap's window on the last pages of RAM.  The subtraction wraps, and *)
(* the last directory entry is one more than the window has tables.        *)
tmp_start_phys_page == (max_addr - (WindowSize + 1)) % PageCount

Window ==
    /\ pc = "identity" /\ pc' = "window"
    /\ pagetables' = Filled(last_pagetable_idx, 0,
          [i \in 0 .. WindowSize - 1 |-> (i + tmp_start_phys_page) % PageCount])
    /\ Entered(WindowPde, WindowPde + WindowTables)
    /\ UNCHANGED <<told, mapped, res>>

(* The devices' memory to itself, but for the last page of all. *)
High ==
    /\ pc = "window" /\ pc' = "high"
    /\ pagetables' = Filled(last_pagetable_idx, HighPde * Entries,
          [i \in HighPde * Entries .. PageCount - 2 |-> i])
    /\ Entered(HighPde, Dirs - 1)
    /\ mapped' = mapped \union (0 .. Reserved - 1)
    /\ UNCHANGED <<told, res>>

(* One page below the high half to itself, in a table of its own. *)
Low ==
    /\ pc = "high" /\ pc' = "low"
    /\ pagetables' = Filled(last_pagetable_idx, LowPage, [i \in {LowPage} |-> i])
    /\ Entered(LowPde, LowPde)
    /\ UNCHANGED <<told, mapped, res>>

(* The high half's first table again, to have one of its pages to itself;  *)
(* then enable_paging loads the directory anew.                            *)
Alias ==
    /\ pc = "low" /\ pc' = "alias"
    /\ pagetables' = Filled(last_pagetable_idx, VBase * Entries,
          [i \in VBase * Entries .. (VBase + 1) * Entries - 1 |->
             IF i = VBase * Entries + SelfOffset THEN i ELSE i - VBase * Entries])
    /\ Entered(VBase, VBase)
    /\ UNCHANGED <<told, mapped, res>>

init_paging_stage1 == Identity \/ Window \/ High \/ Low \/ Alias

(* mark_initial_used_physical_pages clears the bitmap and sets it again. *)
init_paging_stage2 ==
    /\ pc = "alias" /\ pc' = "run"
    /\ mapped' = 0 .. Reserved - 1
    /\ UNCHANGED <<told, memory, res>>

-----------------------------------------------------------------------------
(* The test compares the masked word with 1, so it sees the lowest page of *)
(* each word only.  No page number is out of the bitmap's range.           *)
phys_page_already_mapped(p) == p \in mapped /\ p % Word = 0

Returns(r) == /\ res' = r
              /\ UNCHANGED <<pc, told, memory, mapped>>

Unaligned == pc = "run" /\ Returns("unaligned")

AlreadyMapped(phys) ==
    /\ pc = "run"
    /\ phys_page_already_mapped(phys)
    /\ Returns("mapped")

PoolIsEmpty == last_pagetable_idx >= Tables

NoFreeTable(virt) ==
    /\ pc = "run"
    /\ kernel_pagedir[virt \div Entries] = NoTable
    /\ PoolIsEmpty
    /\ Returns("no_table")

(* get_free_pagetable(1): the next table of the pool, emptied.  It returns *)
(* the tables as they are when the directory entry is there already.       *)
get_free_pagetable_Again(d) ==
    IF kernel_pagedir[d] # NoTable
    THEN [table |-> kernel_pagedir[d], tables |-> pagetables, next |-> last_pagetable_idx]
    ELSE [table  |-> last_pagetable_idx,
          tables |-> [pagetables EXCEPT ![last_pagetable_idx] =
                         [e \in 0 .. Entries - 1 |-> Empty]],
          next   |-> last_pagetable_idx]
get_free_pagetable(d) ==
    IF kernel_pagedir[d] # NoTable
    THEN [table |-> kernel_pagedir[d], tables |-> pagetables, next |-> last_pagetable_idx]
    ELSE [table  |-> last_pagetable_idx,
          tables |-> [pagetables EXCEPT ![last_pagetable_idx] =
                         [e \in 0 .. Entries - 1 |-> Empty]],
          next   |-> last_pagetable_idx + 1]

mappage_phys_to_virt(phys, virt, flags) ==
    LET d   == virt \div Entries
        got == get_free_pagetable(d)
    IN  /\ pc = "run"
        /\ kernel_pagedir[d] # NoTable \/ ~PoolIsEmpty
        /\ kernel_pagedir' = [kernel_pagedir EXCEPT ![d] = got.table]
        /\ last_pagetable_idx' = got.next
        /\ pagetables' = [got.tables EXCEPT ![got.table][virt % Entries] =
                             EntryOf(phys, flags)]
        /\ mapped' = mapped \union {phys}
        /\ res' = "ok"
        /\ UNCHANGED <<pc, told>>

(* A call with addresses of whole pages, with and without force. *)
map_phys_to_virt(phys, virt, flags, force) ==
    \/ ~force /\ AlreadyMapped(phys)
    \/ /\ force \/ ~phys_page_already_mapped(phys)
       /\ NoFreeTable(virt) \/ mappage_phys_to_virt(phys, virt, flags)

Call == \/ Unaligned
        \/ \E phys \in CallPhys, virt \in CallVirt, flags \in {{}, Flag},
              force \in BOOLEAN : map_phys_to_virt(phys, virt, flags, force)

Next == init_paging_stage1 \/ init_paging_stage2 \/ Call

Spec == Init /\ [][Next]_vars

-----------------------------------------------------------------------------
(* The code runs in the address space it builds: at every stage the        *)
(* kernel's pages below 4 MB (those of the first table) are where they     *)
(* were, in both halves, and from the first stage on all of its memory is. *)
(* (init_paging_stage1 rewrites the directory with paging on.)             *)
KernelIsMapped ==
    pc # "run" =>
      \A p \in 0 .. (IF pc = "boot" THEN Entries ELSE KernelEnd) - 1 :
         /\ Frame(p) = p
         /\ Frame(VBase * Entries + p) =
               IF pc = "alias" /\ p = SelfOffset THEN VBase * Entries + p ELSE p

(* The address space that the boot code hands over: the reserved memory to *)
(* itself (but where the page at 0x09000000 has taken its table), the      *)
(* window on the end of RAM, the devices to themselves but for the last    *)
(* page, and in the directory entry after the window a table of no pages.  *)
LayoutIsBuilt ==
    pc = "alias" =>
      /\ \A p \in 0 .. Reserved - 1 : p \div Entries # LowPde => Frame(p) = p
      /\ Frame(LowPage) = LowPage
      /\ \A i \in 0 .. WindowSize - 1 :
            max_addr > WindowSize =>
               Frame(WindowPde * Entries + i) = max_addr - WindowSize - 1 + i
      /\ \A e \in 0 .. Entries - 1 : Frame((WindowPde + WindowTables) * Entries + e) = -1
      /\ \A p \in HighPde * Entries .. PageCount - 2 : Frame(p) = p
      /\ Frame(PageCount - 1) = -1

(* At every stage memory is where the code that runs then looks for it.    *)
MemoryIsMapped == TypeOK /\ KernelIsMapped /\ LayoutIsBuilt

(* The directory entries whose tables the high half has too. *)
Mirrored == {d \in 1 .. kernel_end_pde - 1 :
               /\ d # LowPde
               /\ VBase + d \notin (WindowPde .. WindowPde + WindowTables) \union (HighPde .. Dirs - 1)}

(* map_phys_to_virt changes the entry it is asked for and the one that is  *)
(* the same entry in the other half, and a call that fails changes none:   *)
(* the tables implement one function on pages.                             *)
Space == INSTANCE AddressSpace
    WITH Distance <- VBase * Entries,
         space    <- IF pc = "run" THEN [v \in Page |-> Walk(v)] ELSE << >>,
         mirror   <- IF pc = "run"
                     THEN {v \in Page : v \div Entries \in Mirrored}
                     ELSE {}

AddressSpaceSpec == Space!Spec
=============================================================================
