---------------------------- MODULE PagingProofs ----------------------------
(***************************************************************************)
(* Theorems about Paging.  The tables after each stage are written out as  *)
(* a function of the stage and of the place (Dir and Holds): every loop of *)
(* init_paging_stage1 is shown to turn one of these into the next, and the *)
(* last of them is read for where memory is.  From then on it is enough    *)
(* that no table is two directory entries' but for those that the high     *)
(* half shares (Unshared), which a new table of the pool keeps true.       *)
(***************************************************************************)
EXTENDS Paging, TLAPS

-----------------------------------------------------------------------------
(* Arithmetic *)

LEMMA Split ==
  ASSUME NEW n \in Nat \ {0}, NEW v \in Int
  PROVE  /\ v \div n \in Int /\ v % n \in 0 .. n - 1
         /\ v = (v \div n) * n + (v % n)
OBVIOUS

LEMMA Unique ==
  ASSUME NEW n \in Nat \ {0}, NEW q \in Int, NEW p \in Int, NEW r \in 0 .. n - 1, NEW s \in 0 .. n - 1,
         q * n + r = p * n + s
  PROVE  q = p /\ r = s
OBVIOUS

LEMMA DivMod ==
  ASSUME NEW n \in Nat \ {0}, NEW q \in Int, NEW r \in 0 .. n - 1
  PROVE  (q * n + r) \div n = q /\ (q * n + r) % n = r
OBVIOUS

LEMMA TimesLess ==
  ASSUME NEW n \in Nat \ {0}, NEW q \in Int, NEW p \in Int
  PROVE  /\ q < p <=> q * n < p * n
         /\ q =< p <=> q * n =< p * n
OBVIOUS

LEMMA Distribute ==
  ASSUME NEW n \in Int, NEW q \in Int, NEW p \in Int
  PROVE  (q + p) * n = q * n + p * n /\ (q - p) * n = q * n - p * n /\ q * n \in Int
OBVIOUS

(* The constants, with what they are written out. *)
LEMMA Shape ==
  /\ Entries \in Nat \ {0} /\ Dirs \in Nat \ {0} /\ Tables \in Nat \ {0} /\ WindowTables \in Nat \ {0}
  /\ VBase \in Nat /\ WindowPde \in Nat /\ HighPde \in Nat /\ LowPage \in Nat /\ SelfOffset \in 0 .. Entries - 1
  /\ LowPde \in 1 .. VBase - 1 /\ LowPage = LowPde * Entries
  /\ VBase + LowPde =< WindowPde /\ WindowPde + WindowTables < HighPde /\ HighPde < Dirs
  /\ KernelEnd \in Nat \ {0} /\ KernelEnd < LowPage
<1>1. /\ Entries \in Nat \ {0} /\ Dirs \in Nat \ {0} /\ Tables \in Nat \ {0} /\ WindowTables \in Nat \ {0}
      /\ KernelEnd \in Nat \ {0}
  BY PagingAssumption
<1>2. /\ VBase \in Nat /\ WindowPde \in Nat /\ HighPde \in Nat /\ LowPage \in Nat /\ SelfOffset \in Nat
      /\ SelfOffset < Entries /\ LowPage % Entries = 0
  BY PagingAssumption
<1>3. /\ LowPde \in 1 .. VBase - 1 /\ VBase + LowPde =< WindowPde /\ WindowPde + WindowTables < HighPde
      /\ HighPde < Dirs /\ KernelEnd < LowPage
  BY PagingAssumption
<1>4. LowPage = (LowPage \div Entries) * Entries + (LowPage % Entries) /\ LowPage \div Entries \in Int
  BY <1>1, <1>2, Split
<1>5. LowPage = LowPde * Entries
  BY <1>1, <1>2, <1>4 DEF LowPde
<1>6. QED
  BY <1>1, <1>2, <1>3, <1>5

LEMMA PageSplit ==
  ASSUME NEW v \in Page
  PROVE  /\ v \div Entries \in 0 .. Dirs - 1 /\ v % Entries \in 0 .. Entries - 1
         /\ v = (v \div Entries) * Entries + (v % Entries)
<1>1. v \in Int /\ 0 =< v /\ v < Dirs * Entries /\ Entries \in Nat \ {0} /\ Dirs \in Nat
  BY Shape DEF Page
<1>2. /\ v \div Entries \in Int /\ v % Entries \in 0 .. Entries - 1
      /\ v = (v \div Entries) * Entries + (v % Entries)
  BY <1>1, Split
<1>3. (v \div Entries) * Entries < Dirs * Entries /\ -1 * Entries < (v \div Entries) * Entries
  BY <1>1, <1>2
<1>4. v \div Entries < Dirs /\ -1 < v \div Entries
  BY <1>1, <1>2, <1>3, TimesLess
<1>5. QED
  BY <1>1, <1>2, <1>4

LEMMA PageAt ==
  ASSUME NEW d \in 0 .. Dirs - 1, NEW e \in 0 .. Entries - 1
  PROVE  /\ d * Entries + e \in Page
         /\ (d * Entries + e) \div Entries = d /\ (d * Entries + e) % Entries = e
<1>1. Entries \in Nat \ {0} /\ Dirs \in Nat /\ d \in Int /\ e \in Int
  BY Shape
<1>2. (d + 1) * Entries =< Dirs * Entries /\ 0 * Entries =< d * Entries
  BY <1>1, TimesLess
<1>3. (d + 1) * Entries = d * Entries + Entries /\ d * Entries \in Int /\ Dirs * Entries \in Int
  BY <1>1
<1>4. d * Entries + e \in Page
  BY <1>1, <1>2, <1>3 DEF Page
<1>5. QED
  BY <1>1, <1>4, DivMod

-----------------------------------------------------------------------------
(* The loops *)

TableType == [0 .. Tables - 1 -> [0 .. Entries - 1 -> Entry]]

(* Entry e of table u is written by the one page that belongs there.       *)
LEMMA FilledAt ==
  ASSUME NEW t \in Int, NEW f \in Int, NEW to, DOMAIN to \subseteq Int,
         NEW u \in 0 .. Tables - 1, NEW e \in 0 .. Entries - 1,
         NEW i, i = ((u - t) + f) * Entries + e
  PROVE  Filled(t, f * Entries, to)[u][e] = IF i \in DOMAIN to THEN EntryOf(to[i], Flag) ELSE pagetables[u][e]
<1> DEFINE at == {j \in DOMAIN to : u = t + ((j - f * Entries) \div Entries) /\ e = j % Entries}
<1>1. Entries \in Nat \ {0} /\ u \in Int /\ e \in Int
  BY Shape
<1>2. ASSUME NEW j \in DOMAIN to
      PROVE  j \in at <=> j = i
  <2>1. j \in Int /\ j \div Entries \in Int /\ j % Entries \in 0 .. Entries - 1
        /\ j = (j \div Entries) * Entries + (j % Entries)
    BY <1>1, <1>2, Split
  <2>2. PICK q \in Int : q = j \div Entries
    BY <2>1
  <2>3. (j - f * Entries) \div Entries = q - f
    <3>1. (q - f) * Entries = q * Entries - f * Entries /\ q * Entries \in Int /\ f * Entries \in Int
      BY <1>1, Distribute
    <3>2. PICK r \in 0 .. Entries - 1 : r = j % Entries
      BY <2>1
    <3>3. j = q * Entries + r
      BY <2>1, <2>2, <3>2
    <3>4. j - f * Entries = (q - f) * Entries + r /\ q - f \in Int
      BY <3>1, <3>3
    <3>5. QED
      BY <1>1, <3>4, DivMod
  <2>4. j \in at <=> u = t + (q - f) /\ e = j % Entries
    BY <1>2, <2>3
  <2>5. u = t + (q - f) <=> q = (u - t) + f
    BY <1>1
  <2>6. q = (u - t) + f /\ e = j % Entries => j = i
    BY <2>1, <2>2
  <2>7. ASSUME j = i PROVE q = (u - t) + f /\ e = j % Entries
    <3>1. PICK p \in Int : p = (u - t) + f
      BY <1>1
    <3>2. j = p * Entries + e
      BY <2>7, <3>1
    <3>3. j \div Entries = p /\ j % Entries = e
      BY <1>1, <3>2, DivMod
    <3>4. QED
      BY <2>2, <3>1, <3>3
  <2>8. QED
    BY <2>4, <2>5, <2>6, <2>7
<1>3. at = IF i \in DOMAIN to THEN {i} ELSE {}
  BY <1>2
<1>4. Filled(t, f * Entries, to)[u][e] =
        IF at = {} THEN pagetables[u][e] ELSE EntryOf(to[CHOOSE j \in at : TRUE], Flag)
  BY DEF Filled
<1> HIDE DEF at
<1>5. CASE i \in DOMAIN to
  <2>1. (CHOOSE j \in at : TRUE) = i /\ at # {}
    BY <1>3, <1>5
  <2>2. QED
    BY <1>4, <1>5, <2>1
<1>6. CASE i \notin DOMAIN to
  BY <1>3, <1>4, <1>6
<1>7. QED
  BY <1>5, <1>6

LEMMA FilledType ==
  ASSUME pagetables \in TableType, NEW t, NEW first, NEW D, NEW to \in [D -> Page]
  PROVE  Filled(t, first, to) \in TableType
<1>1. ASSUME NEW u \in 0 .. Tables - 1, NEW e \in 0 .. Entries - 1
      PROVE  Filled(t, first, to)[u][e] \in Entry
  <2> DEFINE at == {j \in DOMAIN to : u = t + ((j - first) \div Entries) /\ e = j % Entries}
  <2>1. Filled(t, first, to)[u][e] =
          IF at = {} THEN pagetables[u][e] ELSE EntryOf(to[CHOOSE j \in at : TRUE], Flag)
    BY DEF Filled
  <2>2. pagetables[u][e] \in Entry
    BY DEF TableType
  <2>3. at # {} => (CHOOSE j \in at : TRUE) \in D
    OBVIOUS
  <2> HIDE DEF at
  <2>4. ASSUME NEW page \in Page PROVE EntryOf(page, Flag) \in Entry
    BY DEF EntryOf, Entry, Flag
  <2>5. QED
    BY <2>1, <2>2, <2>3, <2>4
<1>2. Filled(t, first, to) = [u \in 0 .. Tables - 1 |-> [e \in 0 .. Entries - 1 |-> Filled(t, first, to)[u][e]]]
  BY DEF Filled
<1>3. QED
  BY <1>1, <1>2 DEF TableType

-----------------------------------------------------------------------------
(* The address space after each stage, written out *)

(* The first tables of the window, of the devices and of the low page, and *)
(* the one that is the high half's first in the end.                       *)
WindowTable == kernel_end_pde
HighTable   == WindowTable + WindowTables + 1
LowTable    == HighTable + (Dirs - HighPde)
AliasTable  == LowTable + 1

(* What directory entry d is after stage n, the last stage first.          *)
Dir(n, d) ==
  IF n >= 5 /\ d = VBase THEN AliasTable
  ELSE IF n >= 4 /\ d = LowPde THEN LowTable
  ELSE IF n >= 3 /\ d >= HighPde THEN HighTable + (d - HighPde)
  ELSE IF n >= 2 /\ d \in WindowPde .. WindowPde + WindowTables THEN WindowTable + (d - WindowPde)
  ELSE IF d < WindowTable THEN d
  ELSE IF d - VBase \in 0 .. WindowTable - 1 THEN d - VBase ELSE NoTable

(* What entry e of table t is; the last table of the window has none.      *)
KernelPage(t, e) == t * Entries + e
WindowPage(t, e) == ((t - WindowTable) * Entries + e + tmp_start_phys_page) % PageCount
HighPage(t, e)   == ((t - HighTable) + HighPde) * Entries + e
AliasPage(e)     == IF e = SelfOffset THEN VBase * Entries + e ELSE e

Holds(n, t, e) ==
  IF n >= 5 /\ t = AliasTable THEN EntryOf(AliasPage(e), Flag)
  ELSE IF n >= 4 /\ t = LowTable /\ e = 0 THEN EntryOf(LowPage, Flag)
  ELSE IF n >= 3 /\ t \in HighTable .. LowTable - 1 /\ HighPage(t, e) =< PageCount - 2
       THEN EntryOf(HighPage(t, e), Flag)
  ELSE IF n >= 2 /\ t \in WindowTable .. HighTable - 2 THEN EntryOf(WindowPage(t, e), Flag)
  ELSE IF t < WindowTable /\ (t = 0 \/ KernelPage(t, e) < Reserved) THEN EntryOf(KernelPage(t, e), Flag)
  ELSE Empty

Taken(n) == IF n = 1 THEN WindowTable ELSE IF n = 2 THEN HighTable
            ELSE IF n = 3 THEN LowTable ELSE IF n = 4 THEN AliasTable ELSE AliasTable + 1

Stage(n) ==
  /\ \A d \in 0 .. Dirs - 1 : kernel_pagedir[d] = Dir(n, d)
  /\ \A t \in 0 .. Tables - 1, e \in 0 .. Entries - 1 : pagetables[t][e] = Holds(n, t, e)
  /\ last_pagetable_idx = Taken(n)

Booted ==
  /\ \A d \in 0 .. Dirs - 1 : kernel_pagedir[d] = IF d \in {0, VBase} THEN 0 ELSE NoTable
  /\ \A t \in 0 .. Tables - 1, e \in 0 .. Entries - 1 :
       pagetables[t][e] = IF t = 0 THEN EntryOf(e, Flag) ELSE Empty
  /\ last_pagetable_idx = 0

Stages ==
  /\ pc = "boot" => Booted
  /\ pc = "identity" => Stage(1)
  /\ pc = "window" => Stage(2)
  /\ pc = "high" => Stage(3)
  /\ pc = "low" => Stage(4)
  /\ pc = "alias" => Stage(5)

Told == last_module \in ModuleEnds /\ max_addr \in RamEnds

LEMMA Sizes ==
  ASSUME Told
  PROVE  /\ Reserved \in Nat /\ KernelEnd < Reserved /\ Reserved =< VBase * Entries
         /\ WindowTable \in 1 .. VBase /\ WindowTable =< Dirs - VBase
         /\ (WindowTable - 1) * Entries < Reserved /\ Reserved =< WindowTable * Entries
         /\ HighTable \in Nat /\ LowTable \in Nat /\ AliasTable < Tables
         /\ WindowTable + 1 < HighTable /\ HighTable < LowTable
<1>1. /\ Entries \in Nat \ {0} /\ VBase \in Nat /\ Dirs \in Nat /\ LowPde \in 1 .. VBase - 1 /\ Tables \in Nat
      /\ KernelEnd \in Nat /\ KernelEnd < LowPde * Entries /\ VBase + LowPde < Dirs
      /\ WindowTables \in Nat \ {0} /\ HighPde \in Nat /\ HighPde < Dirs
  BY Shape
<1>2. PICK m \in ModuleEnds \union {KernelEnd} : Reserved = m + 1
  BY DEF Reserved, Told
<1>3. m \in Nat /\ KernelEnd =< m
  BY <1>1, <1>2, PagingAssumption DEF Reserved, Told
<1>4. m + 1 =< VBase * Entries /\ m + 1 =< (Dirs - VBase) * Entries
  <2>1. CASE m \in ModuleEnds
    BY <2>1, PagingAssumption
  <2>2. CASE m = KernelEnd
    <3>1. LowPde * Entries =< VBase * Entries /\ LowPde * Entries =< (Dirs - VBase) * Entries
      BY <1>1, TimesLess
    <3>2. QED
      BY <1>1, <2>2, <3>1
  <2>3. QED
    BY <1>2, <2>1, <2>2
<1>5. WindowTable = (m + Entries) \div Entries
  <2>1. (m + 1) + Entries - 1 = m + Entries
    BY <1>1, <1>3
  <2>2. QED
    BY <1>2, <2>1 DEF WindowTable, kernel_end_pde
<1>6. PICK q \in Int, r \in 0 .. Entries - 1 : WindowTable = q /\ m + Entries = q * Entries + r
  <2>1. PICK v \in Int : v = m + Entries
    BY <1>1, <1>3
  <2>2. v \div Entries \in Int /\ v % Entries \in 0 .. Entries - 1 /\ v = (v \div Entries) * Entries + (v % Entries)
    BY <1>1, Split
  <2>3. WindowTable = v \div Entries /\ m + Entries = (v \div Entries) * Entries + (v % Entries)
    BY <1>5, <2>1, <2>2
  <2>4. QED
    BY <2>2, <2>3
<1>7. (q - 1) * Entries = q * Entries - Entries /\ q * Entries \in Int
  BY <1>1
<1>8. (q - 1) * Entries =< m /\ m < q * Entries
  BY <1>1, <1>3, <1>6, <1>7
<1>9. 0 * Entries < q * Entries /\ (q - 1) * Entries < VBase * Entries
      /\ (q - 1) * Entries < (Dirs - VBase) * Entries
  BY <1>1, <1>3, <1>4, <1>8
<1>10. 0 < q /\ q - 1 < VBase /\ q - 1 < Dirs - VBase
  BY <1>1, <1>9, TimesLess
<1>11. q + (WindowTables + 1) + (Dirs - HighPde) + 2 =< Tables
  BY <1>2, <1>5, <1>6, PagingAssumption
<1>12. /\ Reserved \in Nat /\ KernelEnd < Reserved /\ Reserved =< VBase * Entries
  BY <1>1, <1>2, <1>3, <1>4
<1>13. WindowTable \in 1 .. VBase /\ WindowTable =< Dirs - VBase
  BY <1>1, <1>6, <1>10
<1>14. (WindowTable - 1) * Entries < Reserved /\ Reserved =< WindowTable * Entries
  BY <1>1, <1>2, <1>3, <1>6, <1>8
<1>15. HighTable \in Nat /\ LowTable \in Nat /\ AliasTable < Tables
       /\ WindowTable + 1 < HighTable /\ HighTable < LowTable
  BY <1>1, <1>6, <1>10, <1>11 DEF HighTable, LowTable, AliasTable
<1>16. QED
  BY <1>12, <1>13, <1>14, <1>15

-----------------------------------------------------------------------------
(* What the closed form says of the kernel's memory *)

(* A directory entry of the low memory, and of its image.                  *)
LEMMA LowDir ==
  ASSUME Told, NEW n \in 1 .. 5, NEW d \in 0 .. WindowTable - 1, d # LowPde
  PROVE  Dir(n, d) = d
BY Sizes, Shape DEF Dir

LEMMA ImageDir ==
  ASSUME Told, NEW n \in 1 .. 5, NEW d \in 0 .. WindowTable - 1, d < LowPde
  PROVE  Dir(n, VBase + d) = IF n = 5 /\ d = 0 THEN AliasTable ELSE d
BY Sizes, Shape DEF Dir

LEMMA KernelHolds ==
  ASSUME Told, NEW n \in 1 .. 5, NEW t \in 0 .. WindowTable - 1, NEW e \in 0 .. Entries - 1,
         t = 0 \/ KernelPage(t, e) < Reserved
  PROVE  Holds(n, t, e) = EntryOf(KernelPage(t, e), Flag)
BY Sizes, Shape DEF Holds, HighTable, LowTable, AliasTable

(* Every page below the end of the kernel and its modules is in one of the *)
(* tables before the window's.                                             *)
LEMMA BelowReserved ==
  ASSUME Told, NEW p \in 0 .. Reserved - 1
  PROVE  /\ p \in Page /\ p \div Entries \in 0 .. WindowTable - 1 /\ p \div Entries < VBase
         /\ KernelPage(p \div Entries, p % Entries) = p
<1>1. /\ Reserved \in Nat /\ Reserved =< VBase * Entries /\ Reserved =< WindowTable * Entries
      /\ VBase \in Nat /\ VBase < Dirs /\ Entries \in Nat \ {0} /\ WindowTable \in 1 .. VBase /\ Dirs \in Nat
  BY Sizes, Shape
<1>2. VBase * Entries < Dirs * Entries
  BY <1>1, TimesLess
<1>3. p \in Page
  BY <1>1, <1>2 DEF Page
<1>4. PICK q \in 0 .. Dirs - 1, r \in 0 .. Entries - 1 :
        q = p \div Entries /\ r = p % Entries /\ p = q * Entries + r
  BY <1>3, PageSplit
<1>5. q * Entries < WindowTable * Entries
  BY <1>1, <1>4
<1>6. q < WindowTable
  BY <1>1, <1>4, <1>5, TimesLess
<1>7. QED
  BY <1>1, <1>3, <1>4, <1>6 DEF KernelPage

LEMMA FrameOf ==
  ASSUME NEW v
  PROVE  /\ \A page : Walk(v) = EntryOf(page, Flag) => Frame(v) = page
         /\ Walk(v) = Empty => Frame(v) = -1
BY DEF Frame, EntryOf, Flag, Empty

LEMMA WalkAt ==
  ASSUME Told, NEW n \in 1 .. 5, Stage(n), NEW v \in Page,
         NEW d \in 0 .. Dirs - 1, NEW e \in 0 .. Entries - 1, d = v \div Entries, e = v % Entries,
         NEW t \in 0 .. Tables - 1, Dir(n, d) = t
  PROVE  Walk(v) = Holds(n, t, e)
<1>1. kernel_pagedir[v \div Entries] = t
  BY DEF Stage
<1>2. t # NoTable
  BY Shape DEF NoTable
<1>3. Walk(v) = pagetables[t][e]
  BY <1>1, <1>2 DEF Walk
<1>4. QED
  BY <1>3 DEF Stage

LEMMA LowFrames ==
  ASSUME Told, NEW n \in 1 .. 5, Stage(n), NEW p \in 0 .. Reserved - 1, p \div Entries # LowPde
  PROVE  Frame(p) = p
<1>1. /\ p \in Page /\ p \div Entries \in 0 .. WindowTable - 1
      /\ KernelPage(p \div Entries, p % Entries) = p
  BY BelowReserved
<1>2. p \div Entries \in 0 .. Dirs - 1 /\ p % Entries \in 0 .. Entries - 1
  BY <1>1, PageSplit
<1>3. Dir(n, p \div Entries) = p \div Entries /\ p \div Entries \in 0 .. Tables - 1
  <2>1. WindowTable =< Tables
    BY Sizes, Shape DEF HighTable, LowTable, AliasTable
  <2>2. QED
    BY <1>1, <2>1, LowDir, Sizes, Shape
<1>4. Holds(n, p \div Entries, p % Entries) = EntryOf(p, Flag)
  BY <1>1, <1>2, KernelHolds, Sizes
<1>5. Walk(p) = EntryOf(p, Flag)
  BY <1>1, <1>2, <1>3, <1>4, WalkAt
<1>6. QED
  BY <1>5, FrameOf

LEMMA KernelFrames ==
  ASSUME Told, NEW n \in 1 .. 5, Stage(n), NEW p \in 0 .. KernelEnd - 1
  PROVE  /\ Frame(p) = p
         /\ Frame(VBase * Entries + p) = IF n = 5 /\ p = SelfOffset THEN VBase * Entries + p ELSE p
<1>1. p \in 0 .. Reserved - 1
  BY Sizes, Shape
<1>2. /\ Entries \in Nat \ {0} /\ Dirs \in Nat /\ VBase \in Nat /\ LowPde \in 1 .. VBase - 1
      /\ VBase + LowPde < Dirs /\ KernelEnd < LowPde * Entries /\ SelfOffset \in 0 .. Entries - 1
      /\ KernelEnd \in Nat /\ Tables \in Nat
  BY Shape
<1>3. PICK d \in 0 .. WindowTable - 1, e \in 0 .. Entries - 1 :
        /\ p \in Page /\ d = p \div Entries /\ e = p % Entries /\ KernelPage(d, e) = p
  BY <1>1, BelowReserved, PageSplit
<1>4. p = d * Entries + e
  BY <1>3 DEF KernelPage
<1>5. d < LowPde
  <2>1. d * Entries < LowPde * Entries
    BY <1>2, <1>3, <1>4, Sizes
  <2>2. d \in Int
    BY Sizes
  <2>3. QED
    BY <1>2, <2>1, <2>2, TimesLess
<1>6. Frame(p) = p
  BY <1>1, <1>3, <1>5, LowFrames
<1>7. VBase + d \in 0 .. Dirs - 1 /\ (VBase + d) * Entries + e = VBase * Entries + p
  BY <1>2, <1>4, <1>5, Sizes, Distribute
<1>8. /\ VBase * Entries + p \in Page
      /\ (VBase * Entries + p) \div Entries = VBase + d /\ (VBase * Entries + p) % Entries = e
  BY <1>3, <1>7, PageAt
<1>9. CASE n = 5 /\ d = 0
  <2>1. Dir(n, VBase + d) = AliasTable /\ AliasTable \in 0 .. Tables - 1
    BY <1>5, <1>9, ImageDir, Sizes, Shape DEF AliasTable
  <2>2. Walk(VBase * Entries + p) = Holds(n, AliasTable, e)
    BY <1>3, <1>7, <1>8, <2>1, WalkAt
  <2>3. e = p
    BY <1>2, <1>3, <1>4, <1>9
  <2>4. Holds(n, AliasTable, e) = EntryOf(AliasPage(p), Flag)
    BY <1>9, <2>3 DEF Holds
  <2>5. Frame(VBase * Entries + p) = AliasPage(p)
    BY <2>2, <2>4, FrameOf
  <2>6. QED
    BY <1>6, <1>9, <2>5 DEF AliasPage
<1>10. CASE ~ (n = 5 /\ d = 0)
  <2>1. Dir(n, VBase + d) = d /\ d \in 0 .. Tables - 1
    BY <1>5, <1>10, ImageDir, Sizes, Shape DEF HighTable, LowTable, AliasTable
  <2>2. Walk(VBase * Entries + p) = Holds(n, d, e)
    BY <1>3, <1>7, <1>8, <2>1, WalkAt
  <2>3. Holds(n, d, e) = EntryOf(p, Flag)
    BY <1>1, <1>3, KernelHolds, Sizes
  <2>4. Frame(VBase * Entries + p) = p
    BY <2>2, <2>3, FrameOf
  <2>5. ASSUME n = 5, p = SelfOffset PROVE FALSE
    <3>1. p = 0 * Entries + p /\ p \in 0 .. Entries - 1
      BY <1>2, <2>5
    <3>2. p \div Entries = 0
      BY <1>2, <3>1, DivMod
    <3>3. QED
      BY <1>3, <1>10, <2>5, <3>2
  <2>6. QED
    BY <1>6, <2>4, <2>5
<1>11. QED
  BY <1>9, <1>10

-----------------------------------------------------------------------------
(* ... and of the layout in the end *)

LEMMA Small ==
  ASSUME NEW n \in Nat \ {0}, NEW x \in 0 .. n - 1
  PROVE  x % n = x
OBVIOUS

LEMMA FrameAt ==
  ASSUME Told, Stage(5), NEW d \in 0 .. Dirs - 1, NEW e \in 0 .. Entries - 1,
         NEW t \in 0 .. Tables - 1, Dir(5, d) = t
  PROVE  /\ \A page : Holds(5, t, e) = EntryOf(page, Flag) => Frame(d * Entries + e) = page
         /\ Holds(5, t, e) = Empty => Frame(d * Entries + e) = -1
<1>1. /\ d * Entries + e \in Page
      /\ (d * Entries + e) \div Entries = d /\ (d * Entries + e) % Entries = e
  BY PageAt
<1>2. Walk(d * Entries + e) = Holds(5, t, e)
  BY <1>1, WalkAt
<1>3. QED
  BY <1>2, FrameOf

LEMMA WindowFrames ==
  ASSUME Told, Stage(5), NEW i \in 0 .. WindowSize - 1, max_addr > WindowSize
  PROVE  Frame(WindowPde * Entries + i) = max_addr - WindowSize - 1 + i
<1>1. /\ Entries \in Nat \ {0} /\ Dirs \in Nat \ {0} /\ WindowPde \in Nat /\ WindowTables \in Nat \ {0}
      /\ VBase + LowPde =< WindowPde /\ LowPde \in 1 .. VBase - 1 /\ VBase \in Nat
      /\ WindowPde + WindowTables < HighPde /\ HighPde < Dirs /\ HighPde \in Nat /\ Tables \in Nat
  BY Shape
<1>2. i \in Int /\ 0 =< i /\ i < WindowTables * Entries
  BY <1>1 DEF WindowSize
<1>3. PICK q \in Int, r \in 0 .. Entries - 1 : i = q * Entries + r
  <2>1. i \div Entries \in Int /\ i % Entries \in 0 .. Entries - 1 /\ i = (i \div Entries) * Entries + (i % Entries)
    BY <1>1, <1>2, Split
  <2>2. QED
    BY <2>1
<1>4. q \in 0 .. WindowTables - 1
  <2>1. q * Entries < WindowTables * Entries /\ -1 * Entries < q * Entries
    BY <1>1, <1>2, <1>3
  <2>2. q < WindowTables /\ -1 < q
    BY <1>1, <2>1, TimesLess
  <2>3. QED
    BY <1>1, <2>2
<1>5. /\ WindowTable \in Nat /\ HighTable = WindowTable + WindowTables + 1 /\ HighTable < LowTable
      /\ AliasTable < Tables /\ AliasTable = LowTable + 1 /\ LowTable \in Nat
  BY Sizes DEF HighTable, AliasTable
<1>6. Dir(5, WindowPde + q) = WindowTable + q
  <2>1. PICK d \in Nat : d = WindowPde + q
    BY <1>1, <1>4
  <2>2. d # VBase /\ d # LowPde /\ ~ (d >= HighPde) /\ d \in WindowPde .. WindowPde + WindowTables /\ d - WindowPde = q
    BY <1>1, <1>4, <2>1
  <2>3. Dir(5, d) = WindowTable + (d - WindowPde)
    BY <2>2 DEF Dir
  <2>4. QED
    BY <2>1, <2>2, <2>3
<1>7. WindowTable + q \in 0 .. Tables - 1 /\ WindowPde + q \in 0 .. Dirs - 1
  BY <1>1, <1>4, <1>5
<1>8. Holds(5, WindowTable + q, r) = EntryOf(WindowPage(WindowTable + q, r), Flag)
  BY <1>1, <1>4, <1>5 DEF Holds
<1>9. WindowPage(WindowTable + q, r) = max_addr - WindowSize - 1 + i
  <2>1. PageCount \in Nat \ {0} /\ max_addr \in 0 .. PageCount - 1 /\ WindowSize \in Nat
    BY <1>1, PagingAssumption DEF Told, Page, PageCount, WindowSize
  <2>2. max_addr - (WindowSize + 1) \in 0 .. PageCount - 1
    BY <2>1
  <2>3. tmp_start_phys_page = max_addr - (WindowSize + 1)
    BY <2>1, <2>2, Small DEF tmp_start_phys_page
  <2>4. (WindowTable + q) - WindowTable = q
    BY <1>4, <1>5
  <2>5. ((WindowTable + q) - WindowTable) * Entries + r = i
    BY <1>3, <2>4
  <2>6. i < WindowSize
    BY <1>2 DEF WindowSize
  <2>7. i + (max_addr - (WindowSize + 1)) \in 0 .. PageCount - 1
    BY <1>2, <2>1, <2>2, <2>6
  <2>8. (i + (max_addr - (WindowSize + 1))) % PageCount = i + (max_addr - (WindowSize + 1))
    BY <2>1, <2>7, Small
  <2>9. QED
    BY <1>2, <2>1, <2>3, <2>5, <2>8 DEF WindowPage
<1>10. (WindowPde + q) * Entries + r = WindowPde * Entries + i
  BY <1>1, <1>3, Distribute
<1>11. Frame((WindowPde + q) * Entries + r) = WindowPage(WindowTable + q, r)
  BY <1>6, <1>7, <1>8, FrameAt
<1>12. QED
  BY <1>9, <1>10, <1>11

LEMMA EmptyFrames ==
  ASSUME Told, Stage(5), NEW e \in 0 .. Entries - 1
  PROVE  Frame((WindowPde + WindowTables) * Entries + e) = -1
<1>1. /\ Dirs \in Nat \ {0} /\ WindowPde \in Nat /\ WindowTables \in Nat \ {0}
      /\ VBase + LowPde =< WindowPde /\ LowPde \in 1 .. VBase - 1 /\ VBase \in Nat
      /\ WindowPde + WindowTables < HighPde /\ HighPde < Dirs /\ HighPde \in Nat /\ Tables \in Nat
  BY Shape
<1>2. /\ WindowTable \in Nat \ {0} /\ HighTable = WindowTable + WindowTables + 1 /\ HighTable < LowTable
      /\ AliasTable < Tables /\ AliasTable = LowTable + 1 /\ LowTable \in Nat
  BY Sizes DEF HighTable, AliasTable
<1>3. Dir(5, WindowPde + WindowTables) = WindowTable + WindowTables
  <2>1. PICK d \in Nat : d = WindowPde + WindowTables
    BY <1>1
  <2>2. /\ d # VBase /\ d # LowPde /\ ~ (d >= HighPde) /\ d \in WindowPde .. WindowPde + WindowTables
        /\ d - WindowPde = WindowTables
    BY <1>1, <2>1
  <2>3. Dir(5, d) = WindowTable + (d - WindowPde)
    BY <2>2 DEF Dir
  <2>4. QED
    BY <2>1, <2>2, <2>3
<1>4. WindowTable + WindowTables \in 0 .. Tables - 1 /\ WindowPde + WindowTables \in 0 .. Dirs - 1
  BY <1>1, <1>2
<1>5. Holds(5, WindowTable + WindowTables, e) = Empty
  BY <1>1, <1>2 DEF Holds
<1>6. QED
  BY <1>3, <1>4, <1>5, FrameAt

LEMMA HighFrames ==
  ASSUME Told, Stage(5), NEW p \in HighPde * Entries .. PageCount - 1
  PROVE  Frame(p) = IF p = PageCount - 1 THEN -1 ELSE p
<1>1. /\ Entries \in Nat \ {0} /\ Dirs \in Nat \ {0} /\ WindowPde \in Nat /\ WindowTables \in Nat \ {0}
      /\ VBase + LowPde =< WindowPde /\ LowPde \in 1 .. VBase - 1 /\ VBase \in Nat
      /\ WindowPde + WindowTables < HighPde /\ HighPde < Dirs /\ HighPde \in Nat /\ Tables \in Nat
  BY Shape
<1>2. 0 * Entries =< HighPde * Entries /\ PageCount = Dirs * Entries /\ HighPde * Entries \in Nat
  BY <1>1 DEF PageCount
<1>3. p \in Page /\ p \in Int /\ HighPde * Entries =< p /\ p =< PageCount - 1
  BY <1>1, <1>2 DEF Page
<1>4. PICK d \in 0 .. Dirs - 1, e \in 0 .. Entries - 1 : p = d * Entries + e
  BY <1>3, PageSplit
<1>5. HighPde =< d
  <2>1. HighPde * Entries < (d + 1) * Entries
    BY <1>1, <1>3, <1>4
  <2>2. HighPde < d + 1
    BY <1>1, <2>1, TimesLess
  <2>3. QED
    BY <1>1, <2>2
<1>6. /\ WindowTable \in Nat \ {0} /\ HighTable = WindowTable + WindowTables + 1 /\ HighTable < LowTable
      /\ AliasTable < Tables /\ AliasTable = LowTable + 1 /\ LowTable \in Nat
      /\ LowTable = HighTable + (Dirs - HighPde) /\ HighTable \in Nat
  BY Sizes DEF HighTable, AliasTable, LowTable
<1>7. PICK t \in HighTable .. LowTable - 1 : t = HighTable + (d - HighPde)
  BY <1>1, <1>5, <1>6
<1>8. Dir(5, d) = t /\ t \in 0 .. Tables - 1
  BY <1>1, <1>5, <1>6, <1>7 DEF Dir
<1>9. HighPage(t, e) = p
  <2>1. (t - HighTable) + HighPde = d
    BY <1>1, <1>6, <1>7
  <2>2. QED
    BY <1>4, <2>1 DEF HighPage
<1>10. CASE p = PageCount - 1
  <2>1. ~ (HighPage(t, e) =< PageCount - 2)
    BY <1>1, <1>2, <1>3, <1>9, <1>10
  <2>2. /\ t # AliasTable /\ t # LowTable /\ ~ (t < WindowTable) /\ t \notin WindowTable .. HighTable - 2
    BY <1>1, <1>6, <1>7
  <2>3. Holds(5, t, e) = Empty
    BY <2>1, <2>2 DEF Holds
  <2>4. QED
    <3>1. Holds(5, t, e) = Empty => Frame(d * Entries + e) = -1
      BY <1>8, FrameAt
    <3>2. Frame(p) = -1
      BY <1>4, <2>3, <3>1
    <3>3. QED
      BY <1>10, <3>2
<1>11. CASE p # PageCount - 1
  <2>1. HighPage(t, e) =< PageCount - 2
    BY <1>1, <1>2, <1>3, <1>9, <1>11
  <2>2. Holds(5, t, e) = EntryOf(p, Flag)
    BY <1>6, <1>7, <1>9, <2>1 DEF Holds
  <2>3. QED
    BY <1>4, <1>8, <1>11, <2>2, FrameAt
<1>12. QED
  BY <1>10, <1>11

LEMMA LowPageFrame ==
  ASSUME Told, Stage(5)
  PROVE  Frame(LowPage) = LowPage
<1>1. /\ Entries \in Nat \ {0} /\ Dirs \in Nat \ {0} /\ WindowPde \in Nat /\ WindowTables \in Nat \ {0}
      /\ VBase + LowPde =< WindowPde /\ LowPde \in 1 .. VBase - 1 /\ VBase \in Nat
      /\ WindowPde + WindowTables < HighPde /\ HighPde < Dirs /\ HighPde \in Nat /\ Tables \in Nat
      /\ LowPage = LowPde * Entries + 0 /\ 0 \in 0 .. Entries - 1
  BY Shape
<1>2. LowTable \in Nat /\ AliasTable = LowTable + 1 /\ AliasTable < Tables
  BY Sizes DEF AliasTable
<1>3. Dir(5, LowPde) = LowTable /\ LowPde \in 0 .. Dirs - 1
  BY <1>1 DEF Dir
<1>4. Holds(5, LowTable, 0) = EntryOf(LowPage, Flag) /\ LowTable \in 0 .. Tables - 1
  BY <1>1, <1>2 DEF Holds
<1>5. Frame(LowPde * Entries + 0) = LowPage
  BY <1>1, <1>3, <1>4, FrameAt
<1>6. QED
  BY <1>1, <1>5

LEMMA LayoutHolds ==
  ASSUME Told, Stage(5)
  PROVE  LayoutIsBuilt
<1>1. \A p \in 0 .. Reserved - 1 : p \div Entries # LowPde => Frame(p) = p
  <2>1. 5 \in 1 .. 5
    OBVIOUS
  <2>2. QED
    BY <2>1, LowFrames
<1>2. \A p \in HighPde * Entries .. PageCount - 1 : Frame(p) = IF p = PageCount - 1 THEN -1 ELSE p
  BY HighFrames
<1>3. /\ PageCount \in Int /\ HighPde * Entries \in Int /\ HighPde * Entries =< PageCount - 1
  <2>1. Entries \in Nat \ {0} /\ Dirs \in Nat /\ HighPde \in Nat /\ HighPde < Dirs
    BY Shape
  <2>2. HighPde * Entries < Dirs * Entries
    BY <2>1, TimesLess
  <2>3. QED
    BY <2>1, <2>2 DEF PageCount
<1>4. Frame(PageCount - 1) = -1
  BY <1>2, <1>3
<1>5. \A p \in HighPde * Entries .. PageCount - 2 : Frame(p) = p
  BY <1>2, <1>3
<1>6. Frame(LowPage) = LowPage
  BY LowPageFrame
<1>7. \A i \in 0 .. WindowSize - 1 :
        max_addr > WindowSize => Frame(WindowPde * Entries + i) = max_addr - WindowSize - 1 + i
  BY WindowFrames
<1>8. \A e \in 0 .. Entries - 1 : Frame((WindowPde + WindowTables) * Entries + e) = -1
  BY EmptyFrames
<1>9. QED
  BY <1>1, <1>4, <1>5, <1>6, <1>7, <1>8 DEF LayoutIsBuilt

-----------------------------------------------------------------------------
(* One stage from the one before *)

(* What the boot loader said stays, and so do the places computed from it. *)
LEMMA Kept ==
  ASSUME UNCHANGED told
  PROVE  /\ Told' <=> Told
         /\ Reserved' = Reserved /\ tmp_start_phys_page' = tmp_start_phys_page
         /\ kernel_end_pde' = kernel_end_pde /\ Mirrored' = Mirrored
         /\ \A n : Taken(n)' = Taken(n)
         /\ \A n, d : Dir(n, d)' = Dir(n, d)
         /\ \A n, t, e : Holds(n, t, e)' = Holds(n, t, e)
<1>1. last_module' = last_module /\ max_addr' = max_addr
  BY DEF told
<1>2. Reserved' = Reserved /\ tmp_start_phys_page' = tmp_start_phys_page /\ (Told' <=> Told)
  BY <1>1 DEF Reserved, tmp_start_phys_page, Told
<1>3. kernel_end_pde' = kernel_end_pde
  BY <1>2 DEF kernel_end_pde
<1>4. WindowTable' = WindowTable /\ HighTable' = HighTable /\ LowTable' = LowTable /\ AliasTable' = AliasTable
  BY <1>3 DEF WindowTable, HighTable, LowTable, AliasTable
<1>5. Mirrored' = Mirrored
  BY <1>3 DEF Mirrored
<1>6. \A n : Taken(n)' = Taken(n)
  BY <1>4 DEF Taken
<1>7. \A n, d : Dir(n, d)' = Dir(n, d)
  BY <1>4 DEF Dir
<1>8. \A t, e : WindowPage(t, e)' = WindowPage(t, e) /\ HighPage(t, e)' = HighPage(t, e)
  BY <1>2, <1>4 DEF WindowPage, HighPage
<1>9. \A n, t, e : Holds(n, t, e)' = Holds(n, t, e)
  BY <1>2, <1>4, <1>8 DEF Holds
<1>10. QED
  BY <1>2, <1>3, <1>5, <1>6, <1>7, <1>9

(* The tables in use are the first of the pool.                            *)
LEMMA DirType ==
  ASSUME Told, NEW n \in 1 .. 5, NEW d \in 0 .. Dirs - 1
  PROVE  /\ Taken(n) \in 1 .. Tables /\ Dir(n, d) \in 0 .. Taken(n) - 1 \union {NoTable}
<1>1. /\ VBase \in Nat /\ WindowPde \in Nat /\ HighPde \in Nat /\ WindowTables \in Nat \ {0} /\ Dirs \in Nat
      /\ HighPde < Dirs /\ Tables \in Nat
  BY Shape
<1>2. /\ WindowTable \in Nat \ {0} /\ HighTable = WindowTable + WindowTables + 1 /\ HighTable < LowTable
      /\ AliasTable < Tables /\ AliasTable = LowTable + 1 /\ LowTable \in Nat
      /\ LowTable = HighTable + (Dirs - HighPde) /\ HighTable \in Nat
  BY Sizes DEF HighTable, AliasTable, LowTable
<1>3. QED
  BY <1>1, <1>2 DEF Dir, Taken, NoTable

(* A stage is what it adds to the directory and to the tables.             *)
LEMMA Advance ==
  ASSUME Told, UNCHANGED told, NEW n \in 1 .. 5,
         \A d \in 0 .. Dirs - 1 : kernel_pagedir'[d] = Dir(n, d),
         \A t \in 0 .. Tables - 1, e \in 0 .. Entries - 1 : pagetables'[t][e] = Holds(n, t, e),
         last_pagetable_idx' = Taken(n),
         kernel_pagedir' = [d \in 0 .. Dirs - 1 |-> kernel_pagedir'[d]]
  PROVE  /\ Stage(n)'
         /\ kernel_pagedir' \in [0 .. Dirs - 1 -> 0 .. Tables - 1 \union {NoTable}]
         /\ last_pagetable_idx' \in 0 .. Tables
<1>1. Stage(n)'
  BY Kept DEF Stage
<1>2. Taken(n) \in 1 .. Tables /\ \A d \in 0 .. Dirs - 1 : Dir(n, d) \in 0 .. Taken(n) - 1 \union {NoTable}
  <2>1. 0 \in 0 .. Dirs - 1
    BY Shape
  <2>2. Taken(n) \in 1 .. Tables
    BY <2>1, DirType
  <2>3. QED
    BY <2>2, DirType
<1>3. Tables \in Nat
  BY Shape
<1>4. \A d \in 0 .. Dirs - 1 : kernel_pagedir'[d] \in 0 .. Tables - 1 \union {NoTable}
  BY <1>2, <1>3
<1>5. QED
  BY <1>1, <1>2, <1>3, <1>4

LEMMA ReservedArePages ==
  ASSUME Told
  PROVE  0 .. Reserved - 1 \subseteq Page
BY BelowReserved

LEMMA IdentityStep ==
  ASSUME Told, Booted, TypeOK, Identity
  PROVE  Stage(1)' /\ TypeOK'
<1>1. /\ VBase \in Nat /\ Dirs \in Nat /\ Entries \in Nat \ {0} /\ VBase < Dirs /\ Tables \in Nat
  BY Shape
<1>2. /\ WindowTable \in 1 .. VBase /\ kernel_end_pde = WindowTable /\ Reserved \in Nat
      /\ Reserved =< WindowTable * Entries
  BY Sizes DEF WindowTable
<1>3. UNCHANGED <<told, mapped, res>> /\ pc' = "identity" /\ UNCHANGED told
  BY DEF Identity
<1>4. ASSUME NEW d \in 0 .. Dirs - 1 PROVE kernel_pagedir'[d] = Dir(1, d)
  <2>1. kernel_pagedir'[d] = IF d < WindowTable THEN d
                             ELSE IF d - VBase \in 0 .. WindowTable - 1 THEN d - VBase
                             ELSE kernel_pagedir[d]
    BY <1>2 DEF Identity
  <2>2. kernel_pagedir[d] = IF d \in {0, VBase} THEN 0 ELSE NoTable
    BY DEF Booted
  <2>3. Dir(1, d) = IF d < WindowTable THEN d
                    ELSE IF d - VBase \in 0 .. WindowTable - 1 THEN d - VBase ELSE NoTable
    BY DEF Dir
  <2>4. ASSUME ~ (d < WindowTable), ~ (d - VBase \in 0 .. WindowTable - 1) PROVE d \notin {0, VBase}
    BY <1>1, <1>2, <2>4
  <2>5. QED
    BY <2>1, <2>2, <2>3, <2>4
<1>5. ASSUME NEW u \in 0 .. Tables - 1, NEW e \in 0 .. Entries - 1
      PROVE  pagetables'[u][e] = Holds(1, u, e)
  <2> DEFINE to == [i \in 0 .. Reserved - 1 |-> i]
  <2>1. 0 * Entries = 0 /\ DOMAIN to \subseteq Int
    BY <1>1
  <2>2. PICK i \in Int : i = ((u - 0) + 0) * Entries + e
    BY <1>1
  <2>3. Filled(0, 0 * Entries, to)[u][e] = IF i \in DOMAIN to THEN EntryOf(to[i], Flag) ELSE pagetables[u][e]
    <3> HIDE DEF to
    <3>1. QED
      BY <2>1, <2>2, FilledAt
  <2>4. pagetables' = Filled(0, 0, to)
    BY DEF Identity
  <2>5. i = KernelPage(u, e) /\ 0 =< i /\ (u = 0 => i = e)
    <3>1. (u - 0) + 0 = u /\ 0 * Entries =< u * Entries
      BY <1>1, TimesLess
    <3>2. QED
      BY <1>1, <2>1, <2>2, <3>1 DEF KernelPage
  <2>6. pagetables'[u][e] = IF i < Reserved THEN EntryOf(i, Flag) ELSE pagetables[u][e]
    BY <1>2, <2>1, <2>3, <2>4, <2>5
  <2>7. i < Reserved => u < WindowTable
    <3>1. WindowTable * Entries =< u * Entries => Reserved =< i
      BY <1>1, <1>2, <2>5 DEF KernelPage
    <3>2. QED
      BY <1>1, <1>2, <3>1, TimesLess
  <2>8. pagetables[u][e] = IF u = 0 THEN EntryOf(e, Flag) ELSE Empty
    BY DEF Booted
  <2>9. Holds(1, u, e) = IF u < WindowTable /\ (u = 0 \/ i < Reserved) THEN EntryOf(i, Flag) ELSE Empty
    BY <2>5 DEF Holds
  <2>10. 0 < WindowTable
    BY <1>2
  <2>11. QED
    BY <1>1, <1>2, <2>5, <2>6, <2>7, <2>8, <2>9, <2>10
<1>6. last_pagetable_idx' = Taken(1)
  BY <1>2 DEF Identity, Taken
<1>7. kernel_pagedir' = [d \in 0 .. Dirs - 1 |-> kernel_pagedir'[d]]
  BY DEF Identity
<1>8. /\ Stage(1)'
      /\ kernel_pagedir' \in [0 .. Dirs - 1 -> 0 .. Tables - 1 \union {NoTable}]
      /\ last_pagetable_idx' \in 0 .. Tables
  BY <1>3, <1>4, <1>5, <1>6, <1>7, Advance
<1>9. pagetables' \in TableType
  <2>1. [i \in 0 .. Reserved - 1 |-> i] \in [0 .. Reserved - 1 -> Page]
    BY ReservedArePages
  <2>2. pagetables \in TableType
    BY DEF TypeOK, TableType
  <2>3. QED
    BY <2>1, <2>2, FilledType DEF Identity
<1>10. QED
  BY <1>3, <1>8, <1>9 DEF TypeOK, TableType, told

(* The sizes that the steps below share.                                   *)
LEMMA Places ==
  ASSUME Told
  PROVE  /\ Entries \in Nat \ {0} /\ Dirs \in Nat \ {0} /\ Tables \in Nat /\ WindowTables \in Nat \ {0}
         /\ VBase \in Nat /\ WindowPde \in Nat /\ HighPde \in Nat /\ LowPde \in 1 .. VBase - 1
         /\ VBase + LowPde =< WindowPde /\ WindowPde + WindowTables < HighPde /\ HighPde < Dirs
         /\ WindowTable \in 1 .. VBase /\ HighTable = WindowTable + WindowTables + 1
         /\ LowTable = HighTable + (Dirs - HighPde) /\ AliasTable = LowTable + 1 /\ AliasTable < Tables
BY Sizes, Shape DEF HighTable, LowTable, AliasTable

LEMMA WindowStep ==
  ASSUME Told, Stage(1), TypeOK, Window
  PROVE  Stage(2)' /\ TypeOK'
<1>1. /\ Entries \in Nat \ {0} /\ Dirs \in Nat \ {0} /\ Tables \in Nat /\ WindowTables \in Nat \ {0}
      /\ VBase \in Nat /\ WindowPde \in Nat /\ HighPde \in Nat /\ LowPde \in 1 .. VBase - 1
      /\ VBase + LowPde =< WindowPde /\ WindowPde + WindowTables < HighPde /\ HighPde < Dirs
      /\ WindowTable \in 1 .. VBase /\ HighTable = WindowTable + WindowTables + 1
  BY Places
<1>2. last_pagetable_idx = WindowTable
  BY DEF Stage, Taken
<1>3. UNCHANGED <<told, mapped, res>> /\ pc' = "window" /\ UNCHANGED told
  BY DEF Window
<1>4. ASSUME NEW d \in 0 .. Dirs - 1 PROVE kernel_pagedir'[d] = Dir(2, d)
  <2>1. kernel_pagedir'[d] = IF d \in WindowPde .. WindowPde + WindowTables
                             THEN WindowTable + (d - WindowPde) ELSE kernel_pagedir[d]
    BY <1>2 DEF Window, Entered
  <2>2. kernel_pagedir[d] = Dir(1, d)
    BY DEF Stage
  <2>3. QED
    BY <2>1, <2>2 DEF Dir
<1>5. ASSUME NEW u \in 0 .. Tables - 1, NEW e \in 0 .. Entries - 1
      PROVE  pagetables'[u][e] = Holds(2, u, e)
  <2> DEFINE to == [i \in 0 .. WindowSize - 1 |-> (i + tmp_start_phys_page) % PageCount]
  <2>1. 0 * Entries = 0 /\ DOMAIN to \subseteq Int
    BY <1>1
  <2>2. PICK i \in Int : i = ((u - WindowTable) + 0) * Entries + e
    BY <1>1
  <2>3. Filled(WindowTable, 0 * Entries, to)[u][e] = IF i \in DOMAIN to THEN EntryOf(to[i], Flag) ELSE pagetables[u][e]
    <3> HIDE DEF to
    <3>1. PICK n \in Int : n = WindowTable
      BY <1>1
    <3>2. i = ((u - n) + 0) * Entries + e
      BY <2>2, <3>1
    <3>3. Filled(n, 0 * Entries, to)[u][e] = IF i \in DOMAIN to THEN EntryOf(to[i], Flag) ELSE pagetables[u][e]
      BY <2>1, <3>2, FilledAt
    <3>4. QED
      BY <3>1, <3>3
  <2>4. pagetables' = Filled(WindowTable, 0, to)
    BY <1>2 DEF Window
  <2>5. i \in DOMAIN to <=> u \in WindowTable .. HighTable - 2
    <3>1. PICK q \in Int : q = u - WindowTable
      BY <1>1
    <3>2. i = q * Entries + e
      BY <1>1, <2>2, <3>1
    <3>3. 0 =< q => 0 * Entries =< q * Entries
      BY <1>1, <3>1, TimesLess
    <3>4. ~ (0 =< q) => (q + 1) * Entries =< 0 * Entries
      BY <1>1, <3>1, TimesLess
    <3>5. q < WindowTables => (q + 1) * Entries =< WindowTables * Entries
      BY <1>1, <3>1, TimesLess
    <3>6. ~ (q < WindowTables) => WindowTables * Entries =< q * Entries
      BY <1>1, <3>1, TimesLess
    <3>7. i \in DOMAIN to <=> 0 =< i /\ i < WindowTables * Entries
      BY <1>1 DEF WindowSize
    <3>8. (q + 1) * Entries = q * Entries + Entries
      BY <1>1, <3>1
    <3>9. i \in DOMAIN to <=> 0 =< q /\ q < WindowTables
      BY <1>1, <2>1, <3>2, <3>3, <3>4, <3>5, <3>6, <3>7, <3>8
    <3>10. QED
      BY <1>1, <3>1, <3>9
  <2>6. i \in DOMAIN to => to[i] = WindowPage(u, e)
    <3>1. (u - WindowTable) + 0 = u - WindowTable
      BY <1>1
    <3>2. i = (u - WindowTable) * Entries + e
      BY <2>2, <3>1
    <3>3. QED
      BY <3>2 DEF WindowPage
  <2>7. pagetables[u][e] = Holds(1, u, e)
    BY DEF Stage
  <2>8. pagetables'[u][e] = IF u \in WindowTable .. HighTable - 2 THEN EntryOf(WindowPage(u, e), Flag) ELSE Holds(1, u, e)
    <3> HIDE DEF to
    <3>1. QED
      BY <2>1, <2>3, <2>4, <2>5, <2>6, <2>7
  <2>9. QED
    BY <2>8 DEF Holds
<1>6. last_pagetable_idx' = Taken(2)
  BY <1>1, <1>2 DEF Window, Entered, Taken
<1>7. kernel_pagedir' = [d \in 0 .. Dirs - 1 |-> kernel_pagedir'[d]]
  BY DEF Window, Entered
<1>8. /\ Stage(2)'
      /\ kernel_pagedir' \in [0 .. Dirs - 1 -> 0 .. Tables - 1 \union {NoTable}]
      /\ last_pagetable_idx' \in 0 .. Tables
  BY <1>3, <1>4, <1>5, <1>6, <1>7, Advance
<1>9. pagetables' \in TableType
  <2>1. ASSUME NEW x \in Int PROVE x % PageCount \in Page
    <3>1. PageCount \in Nat \ {0}
      BY <1>1 DEF PageCount
    <3>2. x % PageCount \in 0 .. PageCount - 1
      BY <3>1, Split
    <3>3. QED
      BY <3>2 DEF Page, PageCount
  <2>2. max_addr - (WindowSize + 1) \in Int /\ WindowSize \in Int
    BY <1>1, PagingAssumption DEF Told, Page, WindowSize
  <2>3. tmp_start_phys_page \in Int
    BY <2>1, <2>2 DEF tmp_start_phys_page, Page
  <2>4. [i \in 0 .. WindowSize - 1 |-> (i + tmp_start_phys_page) % PageCount] \in [0 .. WindowSize - 1 -> Page]
    BY <2>1, <2>2, <2>3
  <2>5. pagetables \in TableType
    BY DEF TypeOK, TableType
  <2>6. QED
    BY <2>4, <2>5, FilledType DEF Window
<1>10. QED
  BY <1>3, <1>8, <1>9 DEF TypeOK, TableType, told

LEMMA HighStep ==
  ASSUME Told, Stage(2), TypeOK, High
  PROVE  Stage(3)' /\ TypeOK'
<1>1. /\ Entries \in Nat \ {0} /\ Dirs \in Nat \ {0} /\ Tables \in Nat /\ WindowTables \in Nat \ {0}
      /\ VBase \in Nat /\ WindowPde \in Nat /\ HighPde \in Nat /\ LowPde \in 1 .. VBase - 1
      /\ VBase + LowPde =< WindowPde /\ WindowPde + WindowTables < HighPde /\ HighPde < Dirs
      /\ WindowTable \in 1 .. VBase /\ HighTable = WindowTable + WindowTables + 1
      /\ LowTable = HighTable + (Dirs - HighPde) /\ AliasTable = LowTable + 1 /\ AliasTable < Tables
  BY Places
<1>2. last_pagetable_idx = HighTable
  BY DEF Stage, Taken
<1>3. UNCHANGED <<told, res>> /\ pc' = "high" /\ mapped' \subseteq Page /\ UNCHANGED told
  BY ReservedArePages DEF High, TypeOK
<1>4. ASSUME NEW d \in 0 .. Dirs - 1 PROVE kernel_pagedir'[d] = Dir(3, d)
  <2>1. kernel_pagedir'[d] = IF d \in HighPde .. Dirs - 1
                             THEN HighTable + (d - HighPde) ELSE kernel_pagedir[d]
    BY <1>2 DEF High, Entered
  <2>2. kernel_pagedir[d] = Dir(2, d)
    BY DEF Stage
  <2>3. QED
    BY <1>1, <2>1, <2>2 DEF Dir
<1>5. ASSUME NEW u \in 0 .. Tables - 1, NEW e \in 0 .. Entries - 1
      PROVE  pagetables'[u][e] = Holds(3, u, e)
  <2> DEFINE to == [i \in HighPde * Entries .. PageCount - 2 |-> i]
  <2>1. PICK n \in Int, f \in Int : n = HighTable /\ f = HighPde /\ f * Entries = HighPde * Entries
    BY <1>1, Shape
  <2>2. PICK i \in Int : i = ((u - n) + f) * Entries + e
    BY <1>1
  <2>3. DOMAIN to \subseteq Int
    BY <1>1, Shape DEF PageCount
  <2>4. Filled(n, f * Entries, to)[u][e] = IF i \in DOMAIN to THEN EntryOf(to[i], Flag) ELSE pagetables[u][e]
    <3> HIDE DEF to
    <3>1. QED
      BY <2>2, <2>3, FilledAt
  <2>5. pagetables' = Filled(n, f * Entries, to)
    BY <1>2, <2>1 DEF High
  <2>6. i \in DOMAIN to <=> u \in HighTable .. LowTable - 1 /\ HighPage(u, e) =< PageCount - 2
    <3>1. PICK q \in Int : q = (u - n) + f
      BY <1>1
    <3>2. i = q * Entries + e /\ i = HighPage(u, e)
      BY <2>1, <2>2, <3>1 DEF HighPage
    <3>3. f =< q => f * Entries =< q * Entries
      BY <1>1, <3>1, TimesLess
    <3>4. ~ (f =< q) => (q + 1) * Entries =< f * Entries
      BY <1>1, <3>1, TimesLess
    <3>5. ~ (q < Dirs) => Dirs * Entries =< q * Entries
      BY <1>1, <3>1, TimesLess
    <3>6. (q + 1) * Entries = q * Entries + Entries /\ Dirs * Entries \in Int
      BY <1>1, <3>1
    <3>7. i \in DOMAIN to <=> f * Entries =< i /\ i =< PageCount - 2
      BY <1>1, <2>1 DEF PageCount
    <3>8. i \in DOMAIN to <=> f =< q /\ q < Dirs /\ i =< PageCount - 2
      BY <1>1, <3>2, <3>3, <3>4, <3>5, <3>6, <3>7 DEF PageCount
    <3>9. f =< q /\ q < Dirs <=> u \in HighTable .. LowTable - 1
      BY <1>1, <2>1, <3>1
    <3>10. QED
      BY <3>2, <3>8, <3>9
  <2>7. i \in DOMAIN to => to[i] = HighPage(u, e)
    <3>1. i = HighPage(u, e)
      BY <2>1, <2>2 DEF HighPage
    <3>2. QED
      BY <3>1
  <2>8. pagetables[u][e] = Holds(2, u, e)
    BY DEF Stage
  <2>9. pagetables'[u][e] = IF u \in HighTable .. LowTable - 1 /\ HighPage(u, e) =< PageCount - 2 THEN EntryOf(HighPage(u, e), Flag) ELSE Holds(2, u, e)
    <3> HIDE DEF to
    <3>1. QED
      BY <2>4, <2>5, <2>6, <2>7, <2>8
  <2>10. QED
    BY <2>9 DEF Holds
<1>6. last_pagetable_idx' = Taken(3)
  BY <1>1, <1>2 DEF High, Entered, Taken
<1>7. kernel_pagedir' = [d \in 0 .. Dirs - 1 |-> kernel_pagedir'[d]]
  BY DEF High, Entered
<1>8. /\ Stage(3)'
      /\ kernel_pagedir' \in [0 .. Dirs - 1 -> 0 .. Tables - 1 \union {NoTable}]
      /\ last_pagetable_idx' \in 0 .. Tables
  BY <1>3, <1>4, <1>5, <1>6, <1>7, Advance
<1>9. pagetables' \in TableType
  <2>1. [i \in HighPde * Entries .. PageCount - 2 |-> i] \in [HighPde * Entries .. PageCount - 2 -> Page]
    <3>1. 0 * Entries =< HighPde * Entries /\ PageCount \in Int /\ HighPde * Entries \in Int
      BY <1>1, TimesLess DEF PageCount
    <3>2. HighPde * Entries .. PageCount - 2 \subseteq Page
      BY <1>1, <3>1 DEF Page, PageCount
    <3>3. QED
      BY <3>2
  <2>2. pagetables \in TableType
    BY DEF TypeOK, TableType
  <2>3. QED
    BY <2>1, <2>2, FilledType DEF High
<1>10. QED
  BY <1>3, <1>8, <1>9 DEF TypeOK, TableType, told

LEMMA LowStep ==
  ASSUME Told, Stage(3), TypeOK, Low
  PROVE  Stage(4)' /\ TypeOK'
<1>1. /\ Entries \in Nat \ {0} /\ Dirs \in Nat \ {0} /\ Tables \in Nat /\ WindowTables \in Nat \ {0}
      /\ VBase \in Nat /\ WindowPde \in Nat /\ HighPde \in Nat /\ LowPde \in 1 .. VBase - 1
      /\ VBase + LowPde =< WindowPde /\ WindowPde + WindowTables < HighPde /\ HighPde < Dirs
      /\ WindowTable \in 1 .. VBase /\ HighTable = WindowTable + WindowTables + 1
      /\ LowTable = HighTable + (Dirs - HighPde) /\ AliasTable = LowTable + 1 /\ AliasTable < Tables
  BY Places
<1>2. last_pagetable_idx = LowTable
  BY DEF Stage, Taken
<1>3. UNCHANGED <<told, res>> /\ pc' = "low" /\ mapped' \subseteq Page /\ UNCHANGED told
  BY ReservedArePages DEF Low, TypeOK
<1>4. ASSUME NEW d \in 0 .. Dirs - 1 PROVE kernel_pagedir'[d] = Dir(4, d)
  <2>1. kernel_pagedir'[d] = IF d \in LowPde .. LowPde
                             THEN LowTable + (d - LowPde) ELSE kernel_pagedir[d]
    BY <1>2 DEF Low, Entered
  <2>2. kernel_pagedir[d] = Dir(3, d)
    BY DEF Stage
  <2>3. kernel_pagedir'[d] = IF d = LowPde THEN LowTable ELSE Dir(3, d)
    BY <1>1, <2>1, <2>2
  <2>4. QED
    BY <2>3 DEF Dir
<1>5. ASSUME NEW u \in 0 .. Tables - 1, NEW e \in 0 .. Entries - 1
      PROVE  pagetables'[u][e] = Holds(4, u, e)
  <2> DEFINE to == [i \in {LowPage} |-> i]
  <2>1. PICK n \in Int, f \in Int : n = LowTable /\ f = LowPde /\ f * Entries = LowPage
    BY <1>1, Shape
  <2>2. PICK i \in Int : i = ((u - n) + f) * Entries + e
    BY <1>1
  <2>3. DOMAIN to \subseteq Int
    BY <1>1, Shape DEF PageCount
  <2>4. Filled(n, f * Entries, to)[u][e] = IF i \in DOMAIN to THEN EntryOf(to[i], Flag) ELSE pagetables[u][e]
    <3> HIDE DEF to
    <3>1. QED
      BY <2>2, <2>3, FilledAt
  <2>5. pagetables' = Filled(n, f * Entries, to)
    BY <1>2, <2>1 DEF Low
  <2>6. i \in DOMAIN to <=> u = LowTable /\ e = 0
    <3>1. PICK q \in Int : q = (u - n) + f
      BY <1>1
    <3>2. i = q * Entries + e /\ LowPage = f * Entries + 0 /\ 0 \in 0 .. Entries - 1
      BY <1>1, <2>1, <2>2, <3>1
    <3>3. i = LowPage => q = f /\ e = 0
      BY <1>1, <3>2, Unique
    <3>4. q = f /\ e = 0 => i = LowPage
      BY <3>2
    <3>5. q = f <=> u = LowTable
      BY <1>1, <2>1, <3>1
    <3>6. QED
      BY <3>3, <3>4, <3>5
  <2>7. i \in DOMAIN to => to[i] = LowPage
    OBVIOUS
  <2>8. pagetables[u][e] = Holds(3, u, e)
    BY DEF Stage
  <2>9. pagetables'[u][e] = IF u = LowTable /\ e = 0 THEN EntryOf(LowPage, Flag) ELSE Holds(3, u, e)
    <3> HIDE DEF to
    <3>1. QED
      BY <2>4, <2>5, <2>6, <2>7, <2>8
  <2>10. QED
    BY <2>9 DEF Holds
<1>6. last_pagetable_idx' = Taken(4)
  BY <1>1, <1>2 DEF Low, Entered, Taken
<1>7. kernel_pagedir' = [d \in 0 .. Dirs - 1 |-> kernel_pagedir'[d]]
  BY DEF Low, Entered
<1>8. /\ Stage(4)'
      /\ kernel_pagedir' \in [0 .. Dirs - 1 -> 0 .. Tables - 1 \union {NoTable}]
      /\ last_pagetable_idx' \in 0 .. Tables
  BY <1>3, <1>4, <1>5, <1>6, <1>7, Advance
<1>9. pagetables' \in TableType
  <2>1. LowPage \in Page
    <3>1. LowPage = LowPde * Entries + 0 /\ LowPde \in 0 .. Dirs - 1 /\ 0 \in 0 .. Entries - 1
      BY <1>1, Shape
    <3>2. LowPde * Entries + 0 \in Page
      BY <3>1, PageAt
    <3>3. QED
      BY <3>1, <3>2
  <2>2. [i \in {LowPage} |-> i] \in [{LowPage} -> Page]
    BY <2>1
  <2>3. pagetables \in TableType
    BY DEF TypeOK, TableType
  <2>4. QED
    BY <2>2, <2>3, FilledType DEF Low
<1>10. QED
  BY <1>3, <1>8, <1>9 DEF TypeOK, TableType, told

LEMMA AliasStep ==
  ASSUME Told, Stage(4), TypeOK, Alias
  PROVE  Stage(5)' /\ TypeOK'
<1>1. /\ Entries \in Nat \ {0} /\ Dirs \in Nat \ {0} /\ Tables \in Nat /\ WindowTables \in Nat \ {0}
      /\ VBase \in Nat /\ WindowPde \in Nat /\ HighPde \in Nat /\ LowPde \in 1 .. VBase - 1
      /\ VBase + LowPde =< WindowPde /\ WindowPde + WindowTables < HighPde /\ HighPde < Dirs
      /\ WindowTable \in 1 .. VBase /\ HighTable = WindowTable + WindowTables + 1
      /\ LowTable = HighTable + (Dirs - HighPde) /\ AliasTable = LowTable + 1 /\ AliasTable < Tables
  BY Places
<1>2. last_pagetable_idx = AliasTable
  BY DEF Stage, Taken
<1>3. UNCHANGED <<told, res>> /\ pc' = "alias" /\ mapped' \subseteq Page /\ UNCHANGED told
  BY ReservedArePages DEF Alias, TypeOK
<1>4. ASSUME NEW d \in 0 .. Dirs - 1 PROVE kernel_pagedir'[d] = Dir(5, d)
  <2>1. kernel_pagedir'[d] = IF d \in VBase .. VBase
                             THEN AliasTable + (d - VBase) ELSE kernel_pagedir[d]
    BY <1>2 DEF Alias, Entered
  <2>2. kernel_pagedir[d] = Dir(4, d)
    BY DEF Stage
  <2>3. kernel_pagedir'[d] = IF d = VBase THEN AliasTable ELSE Dir(4, d)
    BY <1>1, <2>1, <2>2
  <2>4. QED
    BY <2>3 DEF Dir
<1>5. ASSUME NEW u \in 0 .. Tables - 1, NEW e \in 0 .. Entries - 1
      PROVE  pagetables'[u][e] = Holds(5, u, e)
  <2> DEFINE to == [i \in VBase * Entries .. (VBase + 1) * Entries - 1 |->
                    IF i = VBase * Entries + SelfOffset THEN i ELSE i - VBase * Entries]
  <2>1. PICK n \in Int, f \in Int : n = AliasTable /\ f = VBase /\ f * Entries = VBase * Entries
    BY <1>1, Shape
  <2>2. PICK i \in Int : i = ((u - n) + f) * Entries + e
    BY <1>1
  <2>3. DOMAIN to \subseteq Int
    BY <1>1, Shape DEF PageCount
  <2>4. Filled(n, f * Entries, to)[u][e] = IF i \in DOMAIN to THEN EntryOf(to[i], Flag) ELSE pagetables[u][e]
    <3> HIDE DEF to
    <3>1. QED
      BY <2>2, <2>3, FilledAt
  <2>5. pagetables' = Filled(n, f * Entries, to)
    BY <1>2, <2>1 DEF Alias
  <2>6. i \in DOMAIN to <=> u = AliasTable
    <3>1. PICK q \in Int : q = (u - n) + f
      BY <1>1
    <3>2. i = q * Entries + e
      BY <1>1, <2>2, <3>1
    <3>3. f =< q => f * Entries =< q * Entries
      BY <1>1, <3>1, TimesLess
    <3>4. ~ (f =< q) => (q + 1) * Entries =< f * Entries
      BY <1>1, <3>1, TimesLess
    <3>5. ~ (q < f + 1) => (f + 1) * Entries =< q * Entries
      BY <1>1, <3>1, TimesLess
    <3>6. q < f + 1 => (q + 1) * Entries =< (f + 1) * Entries
      BY <1>1, <3>1, TimesLess
    <3>7. /\ (q + 1) * Entries = q * Entries + Entries /\ (f + 1) * Entries \in Int
          /\ f * Entries \in Int /\ q * Entries \in Int
      BY <1>1, <3>1
    <3>8. i \in DOMAIN to <=> f * Entries =< i /\ i < (f + 1) * Entries
      BY <1>1, <2>1, <3>7
    <3>9. i \in DOMAIN to <=> q = f
      BY <1>1, <3>1, <3>2, <3>3, <3>4, <3>5, <3>6, <3>7, <3>8
    <3>10. q = f <=> u = AliasTable
      BY <1>1, <2>1, <3>1
    <3>11. QED
      BY <3>9, <3>10
  <2>7. i \in DOMAIN to => to[i] = AliasPage(e)
    <3>1. SUFFICES ASSUME i \in DOMAIN to PROVE to[i] = AliasPage(e)
      OBVIOUS
    <3>2. (u - n) + f = VBase
      BY <1>1, <2>1, <2>6, <3>1
    <3>3. i = VBase * Entries + e /\ VBase * Entries \in Int
      BY <1>1, <2>2, <3>2
    <3>4. to[i] = IF i = VBase * Entries + SelfOffset THEN i ELSE i - VBase * Entries
      BY <3>1
    <3>5. i = VBase * Entries + SelfOffset <=> e = SelfOffset
      BY <3>3, Shape
    <3>6. i - VBase * Entries = e
      BY <3>3
    <3>7. QED
      BY <3>3, <3>4, <3>5, <3>6 DEF AliasPage
  <2>8. pagetables[u][e] = Holds(4, u, e)
    BY DEF Stage
  <2>9. pagetables'[u][e] = IF u = AliasTable THEN EntryOf(AliasPage(e), Flag) ELSE Holds(4, u, e)
    <3> HIDE DEF to
    <3>1. QED
      BY <2>4, <2>5, <2>6, <2>7, <2>8
  <2>10. QED
    BY <2>9 DEF Holds
<1>6. last_pagetable_idx' = Taken(5)
  BY <1>1, <1>2 DEF Alias, Entered, Taken
<1>7. kernel_pagedir' = [d \in 0 .. Dirs - 1 |-> kernel_pagedir'[d]]
  BY DEF Alias, Entered
<1>8. /\ Stage(5)'
      /\ kernel_pagedir' \in [0 .. Dirs - 1 -> 0 .. Tables - 1 \union {NoTable}]
      /\ last_pagetable_idx' \in 0 .. Tables
  BY <1>3, <1>4, <1>5, <1>6, <1>7, Advance
<1>9. pagetables' \in TableType
  <2> DEFINE to == [i \in VBase * Entries .. (VBase + 1) * Entries - 1 |->
                      IF i = VBase * Entries + SelfOffset THEN i ELSE i - VBase * Entries]
  <2>1. /\ 0 * Entries =< VBase * Entries /\ (VBase + 1) * Entries = VBase * Entries + Entries
        /\ (VBase + 1) * Entries =< Dirs * Entries /\ VBase * Entries \in Int /\ Dirs * Entries \in Int
    BY <1>1, TimesLess
  <2>2. ASSUME NEW i \in VBase * Entries .. (VBase + 1) * Entries - 1
        PROVE  i \in Page /\ i - VBase * Entries \in Page
    BY <1>1, <2>1 DEF Page
  <2>3. to \in [VBase * Entries .. (VBase + 1) * Entries - 1 -> Page]
    BY <2>2
  <2>4. pagetables \in TableType
    BY DEF TypeOK, TableType
  <2>5. pagetables' = Filled(last_pagetable_idx, VBase * Entries, to)
    BY DEF Alias
  <2> HIDE DEF to
  <2>6. QED
    BY <2>3, <2>4, <2>5, FilledType
<1>10. QED
  BY <1>3, <1>8, <1>9 DEF TypeOK, TableType, told

-----------------------------------------------------------------------------
(* While the kernel runs *)

(* No table is two directory entries' but for those of the low memory and  *)
(* of its image, and the next table of the pool is nobody's.               *)
Unshared ==
  /\ \A d \in 0 .. Dirs - 1 : kernel_pagedir[d] < last_pagetable_idx
  /\ \A d, f \in 0 .. Dirs - 1 :
       d < f /\ kernel_pagedir[d] = kernel_pagedir[f] /\ kernel_pagedir[d] # NoTable =>
         d \in Mirrored /\ f = VBase + d
  /\ \A d \in Mirrored : kernel_pagedir[VBase + d] = kernel_pagedir[d] /\ kernel_pagedir[d] # NoTable

IInv == TypeOK /\ Stages /\ (pc = "run" => Unshared)

LEMMA MirroredDirs ==
  ASSUME Told, NEW d \in Mirrored
  PROVE  d \in 0 .. Dirs - 1 /\ VBase + d \in 0 .. Dirs - 1 /\ d < VBase + d /\ d \in 1 .. WindowTable - 1
<1>1. d \in 1 .. WindowTable - 1
  BY DEF Mirrored, WindowTable
<1>2. WindowTable \in 1 .. VBase /\ WindowTable =< Dirs - VBase /\ VBase \in Nat /\ Dirs \in Nat
  BY Sizes, Shape
<1>3. QED
  BY <1>1, <1>2

LEMMA Handover ==
  ASSUME Told, Stage(5)
  PROVE  Unshared
<1>1. /\ Entries \in Nat \ {0} /\ Dirs \in Nat \ {0} /\ Tables \in Nat /\ WindowTables \in Nat \ {0}
      /\ VBase \in Nat /\ WindowPde \in Nat /\ HighPde \in Nat /\ LowPde \in 1 .. VBase - 1
      /\ VBase + LowPde =< WindowPde /\ WindowPde + WindowTables < HighPde /\ HighPde < Dirs
      /\ WindowTable \in 1 .. VBase /\ HighTable = WindowTable + WindowTables + 1
      /\ LowTable = HighTable + (Dirs - HighPde) /\ AliasTable = LowTable + 1 /\ AliasTable < Tables
  BY Places
<1>2. WindowTable =< Dirs - VBase /\ kernel_end_pde = WindowTable
  BY Sizes DEF WindowTable
<1>3. \A d \in 0 .. Dirs - 1 : kernel_pagedir[d] = Dir(5, d)
  BY DEF Stage
<1>4. \A d \in 0 .. Dirs - 1 : kernel_pagedir[d] < last_pagetable_idx
  <2>1. last_pagetable_idx = Taken(5)
    BY DEF Stage
  <2>2. ASSUME NEW d \in 0 .. Dirs - 1 PROVE Taken(5) \in 1 .. Tables /\ Dir(5, d) \in 0 .. Taken(5) - 1 \union {NoTable}
    BY DirType
  <2>3. QED
    BY <1>1, <1>3, <2>1, <2>2 DEF NoTable
<1>5. ASSUME NEW d \in 0 .. Dirs - 1
      PROVE  /\ d = VBase => Dir(5, d) = AliasTable
             /\ d = LowPde => Dir(5, d) = LowTable
             /\ d >= HighPde => Dir(5, d) = HighTable + (d - HighPde)
             /\ d \in WindowPde .. WindowPde + WindowTables => Dir(5, d) = WindowTable + (d - WindowPde)
             /\ d \notin {VBase, LowPde} \union (HighPde .. Dirs - 1) \union (WindowPde .. WindowPde + WindowTables) =>
                  Dir(5, d) = IF d < WindowTable THEN d
                              ELSE IF d - VBase \in 0 .. WindowTable - 1 THEN d - VBase ELSE -1
  BY <1>1 DEF Dir, NoTable
<1>6. ASSUME NEW d \in 0 .. Dirs - 1, NEW f \in 0 .. Dirs - 1, d < f, Dir(5, d) = Dir(5, f), Dir(5, d) # -1
      PROVE  d \in Mirrored /\ f = VBase + d
  <2>1. d \notin {VBase, LowPde} \union (HighPde .. Dirs - 1) \union (WindowPde .. WindowPde + WindowTables)
    BY <1>1, <1>2, <1>5, <1>6
  <2>2. f \notin {VBase, LowPde} \union (HighPde .. Dirs - 1) \union (WindowPde .. WindowPde + WindowTables)
    BY <1>1, <1>2, <1>5, <1>6
  <2>3. d < WindowTable /\ f = VBase + d
    BY <1>1, <1>2, <1>5, <1>6, <2>1, <2>2
  <2>4. d # 0
    BY <1>1, <2>2, <2>3
  <2>5. QED
    BY <1>1, <1>2, <2>1, <2>2, <2>3, <2>4 DEF Mirrored
<1>7. ASSUME NEW d \in Mirrored
      PROVE  Dir(5, VBase + d) = Dir(5, d) /\ Dir(5, d) # -1
  <2>1. /\ d \in 1 .. WindowTable - 1 /\ d # LowPde
        /\ VBase + d \notin (WindowPde .. WindowPde + WindowTables) \union (HighPde .. Dirs - 1)
    BY <1>2 DEF Mirrored
  <2>2. d \in 0 .. Dirs - 1 /\ VBase + d \in 0 .. Dirs - 1
    BY MirroredDirs
  <2>3. d \notin {VBase, LowPde} \union (HighPde .. Dirs - 1) \union (WindowPde .. WindowPde + WindowTables)
    BY <1>1, <1>2, <2>1
  <2>4. Dir(5, d) = d
    BY <1>1, <1>5, <2>1, <2>2, <2>3
  <2>5. PICK f \in 0 .. Dirs - 1 : f = VBase + d
    BY <2>2
  <2>6. f \notin {VBase, LowPde} \union (HighPde .. Dirs - 1) \union (WindowPde .. WindowPde + WindowTables)
    BY <1>1, <2>1, <2>5
  <2>7. Dir(5, f) = d
    BY <1>1, <1>5, <2>1, <2>5, <2>6
  <2>8. QED
    BY <1>1, <2>1, <2>4, <2>5, <2>7
<1>8. QED
  <2>1. \A d \in Mirrored : d \in 0 .. Dirs - 1 /\ VBase + d \in 0 .. Dirs - 1
    BY MirroredDirs
  <2>2. QED
    BY <1>3, <1>4, <1>6, <1>7, <2>1 DEF Unshared, NoTable

LEMMA MapKeeps ==
  ASSUME TypeOK, Unshared, NEW phys \in CallPhys, NEW virt \in CallVirt, NEW flags \in {{}, Flag},
         mappage_phys_to_virt(phys, virt, flags)
  PROVE  TypeOK' /\ Unshared' /\ pc' = "run"
<1> DEFINE d0 == virt \div Entries
           e0 == virt % Entries
           got == get_free_pagetable(d0)
<1>1. virt \in Page /\ phys \in Page
  BY PagingAssumption
<1>2. d0 \in 0 .. Dirs - 1 /\ e0 \in 0 .. Entries - 1 /\ Tables \in Nat /\ Dirs \in Nat /\ Entries \in Nat
  BY <1>1, PageSplit, Shape
<1>3. /\ pc = "run" /\ pc' = pc /\ UNCHANGED told
      /\ kernel_pagedir[d0] # NoTable \/ ~ (last_pagetable_idx >= Tables)
      /\ kernel_pagedir' = [kernel_pagedir EXCEPT ![d0] = got.table]
      /\ last_pagetable_idx' = got.next
      /\ pagetables' = [got.tables EXCEPT ![got.table][e0] = EntryOf(phys, flags)]
      /\ mapped' = mapped \union {phys} /\ res' = "ok"
  BY DEF mappage_phys_to_virt, PoolIsEmpty
<1>4. /\ kernel_pagedir \in [0 .. Dirs - 1 -> 0 .. Tables - 1 \union {NoTable}]
      /\ pagetables \in [0 .. Tables - 1 -> [0 .. Entries - 1 -> Entry]]
      /\ last_pagetable_idx \in 0 .. Tables
  BY DEF TypeOK
<1>5. IF kernel_pagedir[d0] # NoTable
      THEN got.table = kernel_pagedir[d0] /\ got.tables = pagetables /\ got.next = last_pagetable_idx
      ELSE /\ got.table = last_pagetable_idx /\ got.next = last_pagetable_idx + 1
           /\ got.tables = [pagetables EXCEPT ![last_pagetable_idx] = [e \in 0 .. Entries - 1 |-> Empty]]
  BY DEF get_free_pagetable
<1> HIDE DEF d0, e0, got
<1>6. got.table \in 0 .. Tables - 1 /\ got.next \in 0 .. Tables
  BY <1>2, <1>3, <1>4, <1>5
<1>7. Empty \in Entry /\ EntryOf(phys, flags) \in Entry
  <2>1. 0 \in Page
    BY <1>1, <1>2 DEF Page
  <2>2. QED
    BY <1>1, <2>1 DEF Empty, EntryOf, Entry, Flag
<1>8. got.tables \in [0 .. Tables - 1 -> [0 .. Entries - 1 -> Entry]]
  <2>1. PICK row \in [0 .. Entries - 1 -> Entry] : row = [e \in 0 .. Entries - 1 |-> Empty]
    BY <1>7
  <2>2. got.tables = pagetables \/ got.tables = [pagetables EXCEPT ![last_pagetable_idx] = row]
    BY <1>5, <2>1
  <2>3. QED
    BY <1>4, <2>2
<1>9. TypeOK'
  <2>1. pagetables' \in [0 .. Tables - 1 -> [0 .. Entries - 1 -> Entry]]
    BY <1>2, <1>3, <1>6, <1>7, <1>8
  <2>2. kernel_pagedir' \in [0 .. Dirs - 1 -> 0 .. Tables - 1 \union {NoTable}]
    BY <1>2, <1>3, <1>4, <1>6
  <2>3. last_module' \in ModuleEnds /\ max_addr' \in RamEnds
    BY <1>3 DEF TypeOK, told
  <2>4. QED
    BY <1>1, <1>3, <1>6, <2>1, <2>2, <2>3 DEF TypeOK
<1>10. Unshared'
  <2>1. Mirrored' = Mirrored /\ Told
    BY <1>3, Kept DEF TypeOK, Told
  <2>2. \A d \in Mirrored : d \in 0 .. Dirs - 1 /\ VBase + d \in 0 .. Dirs - 1
    BY <2>1, MirroredDirs
  <2>3. CASE kernel_pagedir[d0] # NoTable
    <3>1. kernel_pagedir' = kernel_pagedir /\ last_pagetable_idx' = last_pagetable_idx
      BY <1>2, <1>3, <1>4, <1>5, <2>3
    <3>2. QED
      BY <2>1, <3>1 DEF Unshared
  <2>4. CASE kernel_pagedir[d0] = NoTable
    <3>1. \A d \in 0 .. Dirs - 1 : kernel_pagedir'[d] = IF d = d0 THEN last_pagetable_idx ELSE kernel_pagedir[d]
      BY <1>2, <1>3, <1>4, <1>5, <2>4
    <3>2. last_pagetable_idx' = last_pagetable_idx + 1
      BY <1>3, <1>5, <2>4
    <3>3. \A d \in 0 .. Dirs - 1 : kernel_pagedir[d] < last_pagetable_idx /\ kernel_pagedir[d] \in Int
      BY <1>2, <1>4 DEF Unshared, NoTable
    <3>4. \A d \in 0 .. Dirs - 1 : kernel_pagedir'[d] < last_pagetable_idx'
      BY <1>4, <3>1, <3>2, <3>3
    <3>5. ASSUME NEW d \in 0 .. Dirs - 1, NEW f \in 0 .. Dirs - 1, d < f,
                 kernel_pagedir'[d] = kernel_pagedir'[f], kernel_pagedir'[d] # NoTable
          PROVE  d \in Mirrored /\ f = VBase + d
      <4>1. d # d0 /\ f # d0
        BY <1>4, <3>1, <3>3, <3>5
      <4>2. QED
        BY <3>1, <3>5, <4>1 DEF Unshared
    <3>6. ASSUME NEW d \in Mirrored
          PROVE  kernel_pagedir'[VBase + d] = kernel_pagedir'[d] /\ kernel_pagedir'[d] # NoTable
      <4>1. d # d0 /\ VBase + d # d0
        BY <2>4 DEF Unshared
      <4>2. QED
        BY <2>2, <3>1, <4>1 DEF Unshared
    <3>7. QED
      BY <2>1, <3>4, <3>5, <3>6 DEF Unshared
  <2>5. QED
    BY <2>3, <2>4
<1>11. QED
  BY <1>3, <1>9, <1>10

LEMMA CallKeeps ==
  ASSUME TypeOK, pc = "run", Unshared, Call
  PROVE  TypeOK' /\ pc' = "run" /\ Unshared'
<1>1. ASSUME NEW r \in {"unaligned", "mapped", "no_table"}, Returns(r)
      PROVE  TypeOK' /\ pc' = "run" /\ Unshared'
  <2>1. UNCHANGED <<pc, told, memory, mapped>> /\ res' = r
    BY <1>1 DEF Returns
  <2>2. TypeOK' /\ pc' = "run"
    BY <2>1 DEF TypeOK, told, memory
  <2>3. Mirrored' = Mirrored /\ kernel_pagedir' = kernel_pagedir /\ last_pagetable_idx' = last_pagetable_idx
    BY <2>1, Kept DEF memory
  <2>4. QED
    BY <2>2, <2>3 DEF Unshared
<1>2. CASE Unaligned
  BY <1>1, <1>2 DEF Unaligned
<1>3. ASSUME NEW phys \in CallPhys, NEW virt \in CallVirt, NEW flags \in {{}, Flag}, NEW force \in BOOLEAN,
             map_phys_to_virt(phys, virt, flags, force)
      PROVE  TypeOK' /\ pc' = "run" /\ Unshared'
  <2>1. CASE AlreadyMapped(phys)
    BY <1>1, <2>1 DEF AlreadyMapped
  <2>2. CASE NoFreeTable(virt)
    BY <1>1, <2>2 DEF NoFreeTable
  <2>3. CASE mappage_phys_to_virt(phys, virt, flags)
    BY <2>3, MapKeeps
  <2>4. QED
    BY <1>3, <2>1, <2>2, <2>3 DEF map_phys_to_virt
<1>4. QED
  BY <1>2, <1>3 DEF Call

LEMMA InitKeeps ==
  ASSUME Init
  PROVE  IInv
<1>1. Entries \in Nat \ {0} /\ Dirs \in Nat \ {0} /\ Tables \in Nat \ {0}
  BY Shape
<1>2. \A e \in 0 .. Entries - 1 : EntryOf(e, Flag) \in Entry
  <2>1. 0 \in 0 .. Dirs - 1
    BY <1>1
  <2>2. ASSUME NEW e \in 0 .. Entries - 1 PROVE e \in Page
    <3>1. PICK z \in 0 .. Dirs - 1 : z = 0
      BY <2>1
    <3>2. z * Entries + e \in Page
      BY PageAt
    <3>3. QED
      BY <1>1, <3>1, <3>2
  <2>3. QED
    BY <2>2 DEF EntryOf, Entry, Flag
<1>3. Empty \in Entry
  <2>1. 0 \in 0 .. Dirs - 1 /\ 0 \in 0 .. Entries - 1
    BY <1>1
  <2>2. 0 * Entries + 0 \in Page /\ 0 * Entries + 0 = 0
    BY <1>1, <2>1, PageAt
  <2>3. QED
    BY <2>2 DEF Empty, EntryOf, Entry, Flag
<1>4. TypeOK
  <2>1. kernel_pagedir \in [0 .. Dirs - 1 -> 0 .. Tables - 1 \union {NoTable}]
    BY <1>1 DEF Init
  <2>2. pagetables \in [0 .. Tables - 1 -> [0 .. Entries - 1 -> Entry]]
    BY <1>2, <1>3 DEF Init
  <2>3. pc = "boot" /\ res = "none" /\ mapped = {} /\ last_module \in ModuleEnds /\ max_addr \in RamEnds
    BY DEF Init
  <2>4. last_pagetable_idx \in 0 .. Tables
    BY <1>1 DEF Init
  <2>5. QED
    BY <2>1, <2>2, <2>3, <2>4 DEF TypeOK
<1>5. Booted /\ pc = "boot"
  BY DEF Init, Booted
<1>6. QED
  BY <1>4, <1>5 DEF IInv, Stages

LEMMA NextKeeps ==
  ASSUME IInv, Next
  PROVE  IInv'
<1>1. TypeOK /\ Told
  BY DEF IInv, TypeOK, Told
<1>2. CASE Identity
  <2>1. Booted /\ pc' = "identity"
    BY <1>2 DEF Identity, IInv, Stages
  <2>2. QED
    BY <1>1, <1>2, <2>1, IdentityStep DEF IInv, Stages
<1>3. CASE Window
  <2>1. Stage(1) /\ pc' = "window"
    BY <1>3 DEF Window, IInv, Stages
  <2>2. QED
    BY <1>1, <1>3, <2>1, WindowStep DEF IInv, Stages
<1>4. CASE High
  <2>1. Stage(2) /\ pc' = "high"
    BY <1>4 DEF High, IInv, Stages
  <2>2. QED
    BY <1>1, <1>4, <2>1, HighStep DEF IInv, Stages
<1>5. CASE Low
  <2>1. Stage(3) /\ pc' = "low"
    BY <1>5 DEF Low, IInv, Stages
  <2>2. QED
    BY <1>1, <1>5, <2>1, LowStep DEF IInv, Stages
<1>6. CASE Alias
  <2>1. Stage(4) /\ pc' = "alias"
    BY <1>6 DEF Alias, IInv, Stages
  <2>2. QED
    BY <1>1, <1>6, <2>1, AliasStep DEF IInv, Stages
<1>7. CASE init_paging_stage2
  <2>1. Stage(5) /\ pc' = "run" /\ mapped' = 0 .. Reserved - 1 /\ UNCHANGED <<told, memory, res>>
    BY <1>7 DEF init_paging_stage2, IInv, Stages
  <2>2. Unshared
    BY <1>1, <2>1, Handover
  <2>3. Mirrored' = Mirrored
    BY <2>1, Kept
  <2>4. Unshared'
    BY <2>1, <2>2, <2>3 DEF Unshared, memory
  <2>5. TypeOK'
    BY <1>1, <2>1, ReservedArePages DEF TypeOK, memory, told
  <2>6. QED
    BY <2>1, <2>4, <2>5 DEF IInv, Stages
<1>8. CASE Call
  <2>1. pc = "run"
    BY <1>8 DEF Call, Unaligned, map_phys_to_virt, AlreadyMapped, NoFreeTable, mappage_phys_to_virt
  <2>2. TypeOK' /\ pc' = "run" /\ Unshared'
    BY <1>1, <1>8, <2>1, CallKeeps DEF IInv
  <2>3. QED
    BY <2>2 DEF IInv, Stages
<1>9. QED
  BY <1>2, <1>3, <1>4, <1>5, <1>6, <1>7, <1>8 DEF Next, init_paging_stage1

LEMMA StutterKeeps ==
  ASSUME IInv, UNCHANGED vars
  PROVE  IInv'
<1>1. UNCHANGED <<pc, told, memory, mapped, res>> /\ UNCHANGED told
  BY DEF vars
<1>2. TypeOK'
  BY <1>1 DEF IInv, TypeOK, told, memory
<1>3. \A n : Stage(n)' <=> Stage(n)
  BY <1>1, Kept DEF Stage, memory
<1>4. (Booted' <=> Booted) /\ pc' = pc
  BY <1>1 DEF Booted, memory
<1>5. Unshared' <=> Unshared
  BY <1>1, Kept DEF Unshared, memory
<1>6. QED
  BY <1>2, <1>3, <1>4, <1>5 DEF IInv, Stages

LEMMA Inductive == Spec => []IInv
<1>1. Init => IInv
  BY InitKeeps
<1>2. IInv /\ [Next]_vars => IInv'
  BY NextKeeps, StutterKeeps
<1>3. QED
  BY <1>1, <1>2, PTL DEF Spec

(* Where the kernel's own memory is at every stage.                        *)
LEMMA BootFrames ==
  ASSUME Booted, NEW p \in 0 .. Entries - 1
  PROVE  Frame(p) = p /\ Frame(VBase * Entries + p) = p
<1>1. /\ Entries \in Nat \ {0} /\ Dirs \in Nat \ {0} /\ Tables \in Nat \ {0} /\ VBase \in 0 .. Dirs - 1
  BY Shape
<1>2. ASSUME NEW d \in {0, VBase} PROVE Frame(d * Entries + p) = p
  <2>1. d \in 0 .. Dirs - 1 /\ kernel_pagedir[d] = 0
    BY <1>1 DEF Booted
  <2>2. (d * Entries + p) \div Entries = d /\ (d * Entries + p) % Entries = p
    BY <2>1, PageAt
  <2>3. pagetables[0][p] = EntryOf(p, Flag)
    BY <1>1 DEF Booted
  <2>4. Walk(d * Entries + p) = EntryOf(p, Flag)
    BY <2>1, <2>2, <2>3 DEF Walk, NoTable
  <2>5. QED
    BY <2>4, FrameOf
<1>3. 0 * Entries + p = p
  BY <1>1
<1>4. Frame(0 * Entries + p) = p
  BY <1>2
<1>5. QED
  BY <1>2, <1>3, <1>4

(* At every stage of the boot code, on every machine of this shape and for *)
(* every end of the RAM, of the kernel and of its modules, memory is where *)
(* the code that runs then looks for it, and the address space handed over *)
(* is the one the kernel counts on.                                        *)
THEOREM MemoryStaysMapped == Spec => []MemoryIsMapped
<1>1. SUFFICES ASSUME IInv PROVE MemoryIsMapped
  BY <1>1, Inductive, PTL
<1>2. TypeOK /\ Told /\ Stages
  BY <1>1 DEF IInv, TypeOK, Told
<1>3. KernelIsMapped
  <2>1. CASE pc = "boot"
    <3>1. Booted
      BY <1>2, <2>1 DEF Stages
    <3>2. QED
      BY <2>1, <3>1, BootFrames DEF KernelIsMapped
  <2>2. ASSUME NEW n \in 1 .. 5, Stage(n), pc # "boot", pc = "alias" <=> n = 5 PROVE KernelIsMapped
    <3>1. \A p \in 0 .. KernelEnd - 1 :
            Frame(p) = p /\ Frame(VBase * Entries + p) = IF n = 5 /\ p = SelfOffset THEN VBase * Entries + p ELSE p
      BY <1>2, <2>2, KernelFrames
    <3>2. QED
      BY <2>2, <3>1 DEF KernelIsMapped
  <2>3. CASE pc = "run"
    BY <2>3 DEF KernelIsMapped
  <2>4. /\ pc = "identity" => Stage(1)
        /\ pc = "window" => Stage(2)
        /\ pc = "high" => Stage(3)
        /\ pc = "low" => Stage(4)
        /\ pc = "alias" => Stage(5)
    BY <1>2 DEF Stages
  <2>5. pc \in {"boot", "identity", "window", "high", "low", "alias", "run"}
    BY <1>2 DEF TypeOK
  <2>6. 1 \in 1 .. 5 /\ 2 \in 1 .. 5 /\ 3 \in 1 .. 5 /\ 4 \in 1 .. 5 /\ 5 \in 1 .. 5
    OBVIOUS
  <2>7. CASE pc = "identity"
    BY <2>2, <2>4, <2>6, <2>7
  <2>8. CASE pc = "window"
    BY <2>2, <2>4, <2>6, <2>8
  <2>9. CASE pc = "high"
    BY <2>2, <2>4, <2>6, <2>9
  <2>10. CASE pc = "low"
    BY <2>2, <2>4, <2>6, <2>10
  <2>11. CASE pc = "alias"
    BY <2>2, <2>4, <2>6, <2>11
  <2>12. QED
    BY <2>1, <2>3, <2>5, <2>7, <2>8, <2>9, <2>10, <2>11
<1>4. LayoutIsBuilt
  <2>1. CASE pc = "alias"
    <3>1. Stage(5)
      BY <1>2, <2>1 DEF Stages
    <3>2. QED
      BY <1>2, <3>1, LayoutHolds
  <2>2. CASE pc # "alias"
    BY <2>2 DEF LayoutIsBuilt
  <2>3. QED
    BY <2>1, <2>2
<1>5. QED
  BY <1>2, <1>3, <1>4 DEF MemoryIsMapped

-----------------------------------------------------------------------------
(* The tables implement one function on pages *)

space  == IF pc = "run" THEN [v \in Page |-> Walk(v)] ELSE << >>
mirror == IF pc = "run" THEN {v \in Page : v \div Entries \in Mirrored} ELSE {}

(* Two pages that are the same entry of the same table.                    *)
OneEntry(v, w) ==
  /\ v % Entries = w % Entries
  /\ \/ v \div Entries = w \div Entries
     \/ v \div Entries \in Mirrored /\ w \div Entries = VBase + (v \div Entries)
     \/ w \div Entries \in Mirrored /\ v \div Entries = VBase + (w \div Entries)

LEMMA ImageOf ==
  ASSUME Told, NEW v \in Page, NEW w \in Page
  PROVE  /\ w = v + VBase * Entries <=>
              w % Entries = v % Entries /\ w \div Entries = VBase + (v \div Entries)
         /\ v = w <=> v % Entries = w % Entries /\ v \div Entries = w \div Entries
<1>1. Entries \in Nat \ {0} /\ VBase \in Nat /\ Dirs \in Nat
  BY Shape
<1>2. PICK d \in 0 .. Dirs - 1, e \in 0 .. Entries - 1 : d = v \div Entries /\ e = v % Entries /\ v = d * Entries + e
  BY PageSplit
<1>3. PICK f \in 0 .. Dirs - 1, g \in 0 .. Entries - 1 : f = w \div Entries /\ g = w % Entries /\ w = f * Entries + g
  BY PageSplit
<1>4. (VBase + d) * Entries = VBase * Entries + d * Entries /\ VBase * Entries \in Int /\ d * Entries \in Int
  BY <1>1, Distribute
<1>5. PICK k \in Int : k = VBase + d
  BY <1>1
<1>6. v + VBase * Entries = k * Entries + e
  <2>1. k * Entries = VBase * Entries + d * Entries
    BY <1>4, <1>5
  <2>2. QED
    BY <1>2, <1>4, <2>1
<1>7. w = v + VBase * Entries <=> g = e /\ f = k
  <2>1. f * Entries + g = k * Entries + e => f = k /\ g = e
    BY <1>1, <1>5, Unique
  <2>2. QED
    BY <1>3, <1>6, <2>1
<1>8. v = w <=> g = e /\ f = d
  BY <1>2, <1>3
<1>9. QED
  BY <1>2, <1>3, <1>5, <1>7, <1>8

LEMMA SameEntryIs ==
  ASSUME Told, pc = "run", NEW v \in Page, NEW w \in Page
  PROVE  w \in Space!SameEntry(v) <=> OneEntry(v, w)
<1>1. mirror = {u \in Page : u \div Entries \in Mirrored}
  BY DEF mirror
<1>2. Space!SameEntry(v) = {v} \union {u \in mirror : v = u + VBase * Entries}
                               \union {u \in Page : u = v + VBase * Entries /\ v \in mirror}
  BY DEF Space!SameEntry, mirror
<1>3. w \in Space!SameEntry(v) <=>
        \/ w = v
        \/ w \div Entries \in Mirrored /\ v = w + VBase * Entries
        \/ w = v + VBase * Entries /\ v \div Entries \in Mirrored
  BY <1>1, <1>2
<1>4. QED
  BY <1>3, ImageOf DEF OneEntry

(* Pages that are one entry are translated to the same.                    *)
LEMMA OneWalk ==
  ASSUME TypeOK, Unshared, NEW v \in Page, NEW w \in Page, OneEntry(v, w)
  PROVE  Walk(w) = Walk(v)
<1>1. kernel_pagedir[w \div Entries] = kernel_pagedir[v \div Entries]
  BY DEF OneEntry, Unshared
<1>2. QED
  BY <1>1 DEF Walk, OneEntry

(* A call that maps a page writes the entries that are the same as its own *)
(* and no other: a new table comes without pages.                          *)
LEMMA WalkAfter ==
  ASSUME TypeOK, Unshared, NEW phys \in CallPhys, NEW virt \in Page, NEW flags \in {{}, Flag},
         mappage_phys_to_virt(phys, virt, flags), NEW w \in Page
  PROVE  Walk(w)' = IF OneEntry(virt, w) THEN EntryOf(phys, flags) ELSE Walk(w)
<1>1. PICK d \in 0 .. Dirs - 1, e \in 0 .. Entries - 1 : d = virt \div Entries /\ e = virt % Entries
  BY PageSplit
<1>2. PICK f \in 0 .. Dirs - 1, g \in 0 .. Entries - 1 : f = w \div Entries /\ g = w % Entries
  BY PageSplit
<1> DEFINE got == get_free_pagetable(d)
<1>3. /\ kernel_pagedir[d] # NoTable \/ ~ (last_pagetable_idx >= Tables)
      /\ kernel_pagedir' = [kernel_pagedir EXCEPT ![d] = got.table]
      /\ pagetables' = [got.tables EXCEPT ![got.table][e] = EntryOf(phys, flags)]
  BY <1>1 DEF mappage_phys_to_virt, PoolIsEmpty
<1>4. /\ kernel_pagedir \in [0 .. Dirs - 1 -> 0 .. Tables - 1 \union {NoTable}]
      /\ pagetables \in [0 .. Tables - 1 -> [0 .. Entries - 1 -> Entry]]
      /\ last_pagetable_idx \in 0 .. Tables /\ Told
  BY DEF TypeOK, Told
<1>5. IF kernel_pagedir[d] # NoTable
      THEN got.table = kernel_pagedir[d] /\ got.tables = pagetables
      ELSE /\ got.table = last_pagetable_idx
           /\ got.tables = [pagetables EXCEPT ![last_pagetable_idx] = [j \in 0 .. Entries - 1 |-> Empty]]
  BY DEF get_free_pagetable
<1> HIDE DEF got
<1>6. Tables \in Nat /\ Entries \in Nat /\ Dirs \in Nat /\ NoTable = -1
  BY Shape DEF NoTable
<1>7. OneEntry(virt, w) <=>
        /\ e = g
        /\ d = f \/ (d \in Mirrored /\ f = VBase + d) \/ (f \in Mirrored /\ d = VBase + f)
  BY <1>1, <1>2 DEF OneEntry
<1>8. Walk(w) = (IF kernel_pagedir[f] = NoTable THEN Empty ELSE pagetables[kernel_pagedir[f]][g])
  BY <1>2 DEF Walk
<1>9. Walk(w)' = (IF kernel_pagedir'[f] = NoTable THEN Empty ELSE pagetables'[kernel_pagedir'[f]][g])
  BY <1>2 DEF Walk
<1>10. CASE kernel_pagedir[d] # NoTable
  <2>1. PICK n \in 0 .. Tables - 1 : n = kernel_pagedir[d]
    BY <1>4, <1>10
  <2>2. kernel_pagedir'[f] = kernel_pagedir[f]
    BY <1>3, <1>4, <1>5, <1>10
  <2>3. pagetables' = [pagetables EXCEPT ![n][e] = EntryOf(phys, flags)]
    BY <1>3, <1>5, <1>10, <2>1
  <2>4. ASSUME NEW m \in 0 .. Tables - 1
        PROVE  pagetables'[m][g] = IF m = n /\ g = e THEN EntryOf(phys, flags) ELSE pagetables[m][g]
    BY <1>4, <2>3
  <2>5. kernel_pagedir[f] = n <=>
          (d = f \/ (d \in Mirrored /\ f = VBase + d) \/ (f \in Mirrored /\ d = VBase + f))
    <3>1. d = f \/ d < f \/ f < d
      BY <1>6
    <3>2. kernel_pagedir[f] = n /\ d < f => d \in Mirrored /\ f = VBase + d
      BY <1>10, <2>1 DEF Unshared
    <3>3. kernel_pagedir[f] = n /\ f < d => f \in Mirrored /\ d = VBase + f
      BY <1>10, <2>1 DEF Unshared
    <3>4. d \in Mirrored /\ f = VBase + d => kernel_pagedir[f] = n
      BY <2>1 DEF Unshared
    <3>5. f \in Mirrored /\ d = VBase + f => kernel_pagedir[f] = n
      BY <2>1 DEF Unshared
    <3>6. QED
      BY <2>1, <3>1, <3>2, <3>3, <3>4, <3>5
  <2>6. CASE kernel_pagedir[f] = NoTable
    <3>1. kernel_pagedir[f] # n
      BY <1>6, <2>1, <2>6
    <3>2. QED
      BY <1>7, <1>8, <1>9, <2>2, <2>5, <2>6, <3>1
  <2>7. CASE kernel_pagedir[f] # NoTable
    <3>1. PICK m \in 0 .. Tables - 1 : m = kernel_pagedir[f]
      BY <1>4, <2>7
    <3>2. Walk(w)' = pagetables'[m][g] /\ Walk(w) = pagetables[m][g]
      BY <1>8, <1>9, <2>2, <2>7, <3>1
    <3>3. QED
      BY <1>7, <2>4, <2>5, <3>1, <3>2
  <2>8. QED
    BY <2>6, <2>7
<1>11. CASE kernel_pagedir[d] = NoTable
  <2>1. PICK n \in 0 .. Tables - 1 : n = last_pagetable_idx
    BY <1>3, <1>4, <1>6, <1>11
  <2>2. kernel_pagedir'[f] = IF f = d THEN n ELSE kernel_pagedir[f]
    BY <1>3, <1>4, <1>5, <1>11, <2>1
  <2>3. PICK row : row = [j \in 0 .. Entries - 1 |-> Empty]
    OBVIOUS
  <2>4. got.table = n /\ got.tables = [pagetables EXCEPT ![n] = row]
    BY <1>5, <1>11, <2>1, <2>3
  <2>5. pagetables' = [pagetables EXCEPT ![n] = [row EXCEPT ![e] = EntryOf(phys, flags)]]
    BY <1>3, <1>4, <2>4
  <2>6. pagetables'[n][g] = IF g = e THEN EntryOf(phys, flags) ELSE Empty
    BY <1>4, <2>3, <2>5
  <2>7. \A m \in 0 .. Tables - 1 : m # n => pagetables'[m][g] = pagetables[m][g]
    BY <1>4, <2>5
  <2>8. OneEntry(virt, w) <=> e = g /\ d = f
    BY <1>7, <1>11 DEF Unshared
  <2>9. CASE f = d
    <3>1. Walk(w) = Empty /\ Walk(w)' = pagetables'[n][g]
      BY <1>6, <1>8, <1>9, <1>11, <2>2, <2>9
    <3>2. QED
      BY <2>6, <2>8, <2>9, <3>1
  <2>10. CASE f # d /\ kernel_pagedir[f] = NoTable
    BY <1>8, <1>9, <2>2, <2>8, <2>10
  <2>11. CASE f # d /\ kernel_pagedir[f] # NoTable
    <3>1. PICK m \in 0 .. Tables - 1 : m = kernel_pagedir[f]
      BY <1>4, <2>11
    <3>2. m # n
      <4>1. kernel_pagedir[f] < last_pagetable_idx
        BY DEF Unshared
      <4>2. QED
        BY <2>1, <3>1, <4>1
    <3>3. Walk(w)' = pagetables'[m][g] /\ Walk(w) = pagetables[m][g]
      BY <1>8, <1>9, <2>2, <2>11, <3>1
    <3>4. QED
      BY <2>7, <2>8, <2>11, <3>2, <3>3
  <2>12. QED
    BY <2>9, <2>10, <2>11
<1>12. QED
  BY <1>10, <1>11

LEMMA WalkType ==
  ASSUME TypeOK, NEW v \in Page
  PROVE  Walk(v) \in Entry
<1>1. v \div Entries \in 0 .. Dirs - 1 /\ v % Entries \in 0 .. Entries - 1
  BY PageSplit
<1>2. Empty \in Entry
  <2>1. 0 \in Page
    BY Shape, <1>1 DEF Page
  <2>2. QED
    BY <2>1 DEF Empty, EntryOf, Entry, Flag
<1>3. QED
  BY <1>1, <1>2 DEF Walk, TypeOK

LEMMA SpaceMap ==
  ASSUME TypeOK, Unshared, NEW phys \in CallPhys, NEW virt \in CallVirt, NEW flags \in {{}, Flag},
         mappage_phys_to_virt(phys, virt, flags)
  PROVE  Space!Map(virt) \/ UNCHANGED <<space, mirror>>
<1>1. virt \in Page /\ pc = "run" /\ pc' = "run" /\ Told /\ UNCHANGED told
  BY PagingAssumption DEF mappage_phys_to_virt, TypeOK, Told
<1>2. mirror' = mirror
  BY <1>1, Kept DEF mirror
<1>3. space = [v \in Page |-> Walk(v)] /\ space' = [v \in Page |-> Walk(v)']
  BY <1>1 DEF space
<1>4. \A w \in Page : Walk(w)' = IF OneEntry(virt, w) THEN EntryOf(phys, flags) ELSE Walk(w)
  BY <1>1, WalkAfter
<1>5. OneEntry(virt, virt)
  BY DEF OneEntry
<1>6. \A w \in Page : space'[w] = IF w \in Space!SameEntry(virt) THEN space'[virt] ELSE space[w]
  <2>1. \A w \in Page : w \in Space!SameEntry(virt) <=> OneEntry(virt, w)
    BY <1>1, SameEntryIs
  <2>2. QED
    BY <1>1, <1>3, <1>4, <1>5, <2>1
<1>7. CASE space'[virt] = space[virt]
  <2>1. \A w \in Page : OneEntry(virt, w) => Walk(w) = Walk(virt)
    BY <1>1, OneWalk
  <2>2. EntryOf(phys, flags) = Walk(virt)
    BY <1>1, <1>3, <1>4, <1>5, <1>7
  <2>3. \A w \in Page : Walk(w)' = Walk(w)
    BY <1>4, <2>1, <2>2
  <2>4. QED
    BY <1>2, <1>3, <2>3
<1>8. CASE space'[virt] # space[virt]
  <2>1. \A w \in Page : Walk(w)' \in Entry
    <3>1. EntryOf(phys, flags) \in Entry
      BY PagingAssumption DEF EntryOf, Entry, Flag
    <3>2. QED
      BY <1>4, <3>1, WalkType
  <2>2. space' \in [Page -> Entry]
    BY <1>3, <2>1
  <2>3. space # << >>
    BY <1>1, <1>3
  <2>4. QED
    BY <1>2, <1>6, <1>8, <2>2, <2>3 DEF Space!Map, Space!Unbuilt, space, mirror
<1>9. QED
  BY <1>7, <1>8

LEMMA SpaceStays ==
  ASSUME pc' = pc, UNCHANGED told, UNCHANGED memory
  PROVE  UNCHANGED <<space, mirror>>
<1>1. \A v : Walk(v)' = Walk(v)
  BY DEF Walk, memory
<1>2. Mirrored' = Mirrored
  BY Kept
<1>3. QED
  BY <1>1, <1>2 DEF space, mirror

LEMMA SpaceCall ==
  ASSUME TypeOK, Unshared, pc = "run", Call
  PROVE  (\E v \in Page : Space!Map(v)) \/ UNCHANGED <<space, mirror>>
<1>1. ASSUME NEW r, Returns(r)
      PROVE  UNCHANGED <<space, mirror>>
  <2>1. pc' = pc /\ UNCHANGED told /\ UNCHANGED memory
    BY <1>1 DEF Returns
  <2>2. QED
    BY <2>1, SpaceStays
<1>2. CASE Unaligned
  BY <1>1, <1>2 DEF Unaligned
<1>3. ASSUME NEW phys \in CallPhys, NEW virt \in CallVirt, NEW flags \in {{}, Flag}, NEW force \in BOOLEAN,
             map_phys_to_virt(phys, virt, flags, force)
      PROVE  (\E v \in Page : Space!Map(v)) \/ UNCHANGED <<space, mirror>>
  <2>1. CASE AlreadyMapped(phys)
    BY <1>1, <2>1 DEF AlreadyMapped
  <2>2. CASE NoFreeTable(virt)
    BY <1>1, <2>2 DEF NoFreeTable
  <2>3. CASE mappage_phys_to_virt(phys, virt, flags)
    <3>1. virt \in Page
      BY PagingAssumption
    <3>2. Space!Map(virt) \/ UNCHANGED <<space, mirror>>
      BY <2>3, SpaceMap
    <3>3. QED
      BY <3>1, <3>2
  <2>4. QED
    BY <1>3, <2>1, <2>2, <2>3 DEF map_phys_to_virt
<1>4. QED
  BY <1>2, <1>3 DEF Call

LEMMA SpaceNext ==
  ASSUME IInv, Next
  PROVE  Space!Next \/ UNCHANGED <<space, mirror>>
<1>1. TypeOK /\ (pc = "run" => Unshared)
  BY DEF IInv
<1>2. CASE init_paging_stage1
  <2>1. pc # "run" /\ pc' # "run"
    BY <1>2 DEF init_paging_stage1, Identity, Window, High, Low, Alias
  <2>2. QED
    BY <2>1 DEF space, mirror
<1>3. CASE init_paging_stage2
  <2>1. pc = "alias" /\ pc' = "run" /\ UNCHANGED memory
    BY <1>3 DEF init_paging_stage2
  <2>2. space = << >> /\ space' = [v \in Page |-> Walk(v)]
    <3>1. \A v : Walk(v)' = Walk(v)
      BY <2>1 DEF Walk, memory
    <3>2. QED
      BY <2>1, <3>1 DEF space
  <2>3. space' \in [Page -> Entry]
    BY <1>1, <2>2, WalkType
  <2>4. mirror' \in SUBSET Page
    BY DEF mirror
  <2>5. Space!Build
    BY <2>2, <2>3, <2>4 DEF Space!Build, Space!Unbuilt, space, mirror
  <2>6. QED
    BY <2>5 DEF Space!Next
<1>4. CASE Call
  <2>1. pc = "run"
    BY <1>4 DEF Call, Unaligned, map_phys_to_virt, AlreadyMapped, NoFreeTable, mappage_phys_to_virt
  <2>2. (\E v \in Page : Space!Map(v)) \/ UNCHANGED <<space, mirror>>
    BY <1>1, <1>4, <2>1, SpaceCall
  <2>3. QED
    BY <2>2 DEF Space!Next
<1>5. QED
  BY <1>2, <1>3, <1>4 DEF Next

(* From the moment the boot code hands the tables over they are one        *)
(* function from pages to entries: a call of map_phys_to_virt changes the  *)
(* entry of the page it is called for, and of that page's image where the  *)
(* two halves share a table, and no other page's; a call that is refused   *)
(* changes none.                                                           *)
THEOREM PagingImplementsAddressSpace == Spec => AddressSpaceSpec
<1>1. Init => space = << >> /\ mirror = {}
  BY DEF Init, space, mirror
<1>2. Init => Space!Init
  BY <1>1 DEF Space!Init, Space!Unbuilt, space, mirror
<1>3. IInv /\ [Next]_vars => [Space!Next]_<<space, mirror>>
  <2>1. SUFFICES ASSUME IInv, [Next]_vars PROVE Space!Next \/ UNCHANGED <<space, mirror>>
    OBVIOUS
  <2>2. CASE Next
    BY <2>1, <2>2, SpaceNext
  <2>3. CASE UNCHANGED vars
    <3>1. pc' = pc /\ UNCHANGED told /\ UNCHANGED memory
      BY <2>3 DEF vars
    <3>2. QED
      BY <3>1, SpaceStays
  <2>4. QED
    BY <2>1, <2>2, <2>3
<1>4. QED
  BY <1>2, <1>3, Inductive, PTL DEF Spec, AddressSpaceSpec, Space!Spec, space, mirror
=============================================================================
