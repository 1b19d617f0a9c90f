----------------------------- MODULE HeapProofs -----------------------------
(***************************************************************************)
(* Proofs about Heap, for every heap size, word and set of requests that   *)
(* satisfies HeapAssumption.                                               *)
(*                                                                         *)
(* The argument: Split and Absorb, the two ways the list is cut, each keep *)
(* the array tiled (SplitKeepsTiled, AbsorbKeepsTiled); kfree is a mark    *)
(* and at most two Absorbs.  With Coalesced, HeldIsUsed and the search's   *)
(* PassedOver this makes IInv inductive.                                   *)
(***************************************************************************)
EXTENDS Heap, TLAPS

(* Memory without a bound on the sizes; Tiled supplies the bound. *)
LooseHeader == [size : Nat, free : BOOLEAN, next : Cells \cup {NULL}, prev : Cells \cup {NULL}]
LooseMem == [Cells -> LooseHeader]

LEMMA CellsAreNat == HeapCells \in Nat /\ HeapCells > 1 /\ Cells \subseteq Nat /\ NULL \notin Cells
BY HeapAssumption DEF Cells, HDR, MIN_BLOCK, NULL

(* In a tiled array every block ends inside the array. *)
LEMMA BlocksEndInside ==
  ASSUME NEW m \in LooseMem, NEW B \in SUBSET Cells, Tiled(m, B), NEW b \in B
  PROVE  /\ End(m, b) \in Nat
         /\ End(m, b) <= HeapCells
         /\ m[b].size \in 1 .. HeapCells - 1
BY HeapAssumption DEF Tiled, End, Cells, HDR, MIN_BLOCK, NULL, LooseMem, LooseHeader

(* Requests that fit the word are rounded up without wrapping. *)
LEMMA AlignIsExact ==
  ASSUME RequestsFitWord, NEW b \in Requests
  PROVE  /\ b \in Nat
         /\ align_size(b) = CellsFor(b)
         /\ CellsFor(b) \in Nat
         /\ b > 0 => CellsFor(b) > 0
<1>1. b \in Nat /\ b + 15 \in 0 .. WORD - 1 /\ WORD \in Nat
  BY HeapAssumption DEF RequestsFitWord, ALIGNMENT
<1>2. (b + 15) % WORD = b + 15
  BY <1>1
<1>3. QED
  BY <1>1, <1>2 DEF align_size, CellsFor, ALIGNMENT

(* What Split leaves at each cell. *)
LEMMA SplitCells ==
  ASSUME NEW m \in LooseMem, NEW B \in SUBSET Cells, Tiled(m, B), NEW c \in B,
         NEW k \in Nat, k > 0, m[c].size >= k + 2
  PROVE  LET s == Split(m, c, k)
             new == c + 1 + k
         IN /\ new \in Cells /\ new \notin B /\ new > c /\ new < End(m, c)
            /\ m[c].next # new /\ m[c].next # c
            /\ s[new] = [size |-> m[c].size - k - 1, free |-> TRUE,
                         next |-> m[c].next, prev |-> c]
            /\ s[c] = [size |-> k, free |-> FALSE, next |-> new, prev |-> m[c].prev]
            /\ m[c].next # NULL => s[m[c].next] = [m[m[c].next] EXCEPT !.prev = new]
            /\ \A x \in Cells \ {new, c, m[c].next} : s[x] = m[x]
            /\ s \in LooseMem
<1> DEFINE new == c + 1 + k
           s == Split(m, c, k)
<1>1. /\ End(m, c) <= HeapCells /\ c \in Cells /\ c \in Nat
      /\ m[c] \in LooseHeader /\ m[c].size \in Nat
      /\ End(m, c) = c + 1 + m[c].size
  <2>1. c \in Cells /\ c \in Nat
    BY CellsAreNat
  <2>2. m[c] \in LooseHeader /\ m[c].size \in Nat
    BY <2>1 DEF LooseMem, LooseHeader
  <2>3. End(m, c) <= HeapCells
    BY BlocksEndInside
  <2>4. QED
    BY <2>1, <2>2, <2>3 DEF End, HDR
<1>2. new \in Cells /\ new > c /\ new < End(m, c)
  BY <1>1, HeapAssumption DEF Cells
<1>3. new \notin B
  BY <1>1, <1>2 DEF Tiled
<1>4. m[c].next # new /\ m[c].next # c
  BY <1>1, <1>2 DEF Tiled, NULL
<1>5. s[new] = [size |-> m[c].size - k - 1, free |-> TRUE, next |-> m[c].next, prev |-> c]
  BY <1>1, <1>2, <1>4 DEF Split, HDR, LooseMem
<1>6. s[c] = [size |-> k, free |-> FALSE, next |-> new, prev |-> m[c].prev]
  BY <1>1, <1>2, <1>4 DEF Split, HDR, LooseMem, LooseHeader
<1>7. m[c].next # NULL => s[m[c].next] = [m[m[c].next] EXCEPT !.prev = new]
  BY <1>1, <1>4 DEF Split, HDR, LooseMem, LooseHeader, Tiled
<1>8. \A x \in Cells \ {new, c, m[c].next} : s[x] = m[x]
  BY DEF Split, HDR, LooseMem
<1>9. s \in LooseMem
  <2>1. SUFFICES ASSUME NEW x \in Cells PROVE s[x] \in LooseHeader
    BY DEF Split, LooseMem
  <2>2. CASE x = new
    BY <2>2, <1>5, <1>1, <1>2 DEF LooseHeader
  <2>3. CASE x = c
    BY <2>3, <1>6, <1>1, <1>2 DEF LooseHeader
  <2>4. CASE x = m[c].next /\ x # new /\ x # c
    <3>1. m[x] \in LooseHeader /\ x # NULL
      BY <2>1 DEF LooseMem, Cells, NULL
    <3>2. QED
      BY <2>4, <1>7, <1>2, <3>1 DEF LooseHeader
  <2>5. CASE x \notin {new, c, m[c].next}
    BY <2>5, <1>8, <2>1 DEF LooseMem
  <2>6. QED
    BY <2>2, <2>3, <2>4, <2>5
<1>10. QED
  BY <1>2, <1>3, <1>4, <1>5, <1>6, <1>7, <1>8, <1>9

(* Absorbing the block behind: what is left at each cell. *)
LEMMA AbsorbCells ==
  ASSUME NEW m \in LooseMem, NEW B \in SUBSET Cells, Tiled(m, B), NEW a \in B,
         m[a].next # NULL
  PROVE  LET b == m[a].next
             r == Absorb(m, a, b)
         IN /\ b \in B /\ a < b /\ b = End(m, a) /\ m[b].next # a /\ m[b].next # b
            /\ r \in LooseMem
            /\ r[a].size = m[a].size + m[b].size + 1 /\ r[a].next = m[b].next
            /\ m[b].next # NULL => r[m[b].next].prev = a
            /\ \A x \in Cells : r[x].free = m[x].free
            /\ \A x \in Cells \ {a} : r[x].size = m[x].size /\ r[x].next = m[x].next
            /\ \A x \in Cells \ {m[b].next} : r[x].prev = m[x].prev
<1> DEFINE b == m[a].next
           r == Absorb(m, a, b)
<1>1. /\ a \in Cells /\ a \in Nat /\ b \in B /\ b \in Cells /\ b \in Nat
      /\ b = End(m, a) /\ m[b].prev = a
  <2>1. b \in B /\ b = End(m, a) /\ m[b].prev = a
    BY DEF Tiled
  <2>2. QED
    BY <2>1, CellsAreNat
<1>2. m[a] \in LooseHeader /\ m[a].size \in Nat /\ m[b] \in LooseHeader /\ m[b].size \in Nat
  BY <1>1 DEF LooseMem, LooseHeader
<1>3. a < b
  BY <1>1, <1>2 DEF End, HDR
<1>4. m[b].next # a /\ m[b].next # b
  <2>1. m[b].next # NULL => m[b].next = End(m, b)
    BY <1>1 DEF Tiled
  <2>2. End(m, b) > b
    BY <1>1, <1>2 DEF End, HDR
  <2>3. a # NULL /\ b # NULL
    BY <1>1 DEF NULL
  <2>4. QED
    BY <2>1, <2>2, <2>3, <1>1, <1>3
<1>5. r[a] = [size |-> m[a].size + m[b].size + 1, free |-> m[a].free,
              next |-> m[b].next, prev |-> m[a].prev]
  BY <1>1, <1>2, <1>4 DEF Absorb, HDR, LooseMem, LooseHeader
<1>6. m[b].next # NULL => r[m[b].next] = [m[m[b].next] EXCEPT !.prev = a]
  BY <1>1, <1>2, <1>4 DEF Absorb, HDR, LooseMem, LooseHeader
<1>7. \A x \in Cells \ {a, m[b].next} : r[x] = m[x]
  BY DEF Absorb, LooseMem
<1>8. r \in LooseMem
  <2>1. SUFFICES ASSUME NEW x \in Cells PROVE r[x] \in LooseHeader
    BY DEF Absorb, LooseMem
  <2>2. CASE x = a
    BY <2>2, <1>5, <1>1, <1>2 DEF LooseHeader
  <2>3. CASE x = m[b].next /\ x # a
    <3>1. m[x] \in LooseHeader /\ x # NULL
      BY <2>1 DEF LooseMem, Cells, NULL
    <3>2. QED
      BY <2>3, <1>6, <1>1, <3>1 DEF LooseHeader
  <2>4. CASE x \notin {a, m[b].next}
    BY <2>4, <1>7, <2>1 DEF LooseMem
  <2>5. QED
    BY <2>2, <2>3, <2>4
<1>9. ASSUME NEW x \in Cells
      PROVE /\ r[x].free = m[x].free
            /\ x # a => r[x].size = m[x].size /\ r[x].next = m[x].next
            /\ x # m[b].next => r[x].prev = m[x].prev
  <2>1. m[x] \in LooseHeader /\ x # NULL
    BY CellsAreNat DEF LooseMem
  <2>2. CASE x = a
    BY <2>2, <1>5, <1>4
  <2>3. CASE x = m[b].next
    BY <2>1, <2>3, <1>6, <1>4 DEF LooseHeader
  <2>4. CASE x \notin {a, m[b].next}
    BY <2>4, <1>7
  <2>5. QED
    BY <2>2, <2>3, <2>4
<1>10. m[b].next # NULL => r[m[b].next].prev = a
  <2>1. m[b].next # NULL => m[m[b].next] \in LooseHeader
    BY <1>2 DEF LooseMem, LooseHeader
  <2>2. QED
    BY <2>1, <1>6 DEF LooseHeader
<1>11. QED
  BY <1>1, <1>3, <1>4, <1>5, <1>8, <1>9, <1>10

(* Splitting a block keeps the array tiled. *)
LEMMA SplitKeepsTiled ==
  ASSUME NEW m \in LooseMem, NEW B \in SUBSET Cells, Tiled(m, B), NEW c \in B,
         NEW k \in Nat, k > 0, m[c].size >= k + 2
  PROVE  Tiled(Split(m, c, k), B \cup {c + 1 + k})
<1> DEFINE new == c + 1 + k
           s == Split(m, c, k)
           C == B \cup {new}
           nxt == m[c].next
<1>1. /\ new \in Cells /\ new \notin B /\ new > c /\ new < End(m, c)
      /\ nxt # new /\ nxt # c
      /\ s[new] = [size |-> m[c].size - k - 1, free |-> TRUE, next |-> nxt, prev |-> c]
      /\ s[c] = [size |-> k, free |-> FALSE, next |-> new, prev |-> m[c].prev]
      /\ nxt # NULL => s[nxt] = [m[nxt] EXCEPT !.prev = new]
      /\ \A x \in Cells \ {new, c, nxt} : s[x] = m[x]
  BY SplitCells
<1>2. c \in Cells /\ c \in Nat /\ new \in Nat /\ m[c] \in LooseHeader /\ m[c].size \in Nat
  BY <1>1, CellsAreNat DEF LooseMem, LooseHeader
<1>3. End(s, c) = new /\ End(s, new) = End(m, c)
  BY <1>1, <1>2 DEF End, HDR
<1>4. \A x \in B \ {c} : End(s, x) = End(m, x) /\ s[x].size = m[x].size /\ s[x].next = m[x].next
  <2>1. SUFFICES ASSUME NEW x \in B \ {c}
                 PROVE s[x].size = m[x].size /\ s[x].next = m[x].next
    BY DEF End
  <2>2. m[x] \in LooseHeader /\ x # new /\ x # NULL
    BY <1>1 DEF LooseMem, Cells, NULL
  <2>3. QED
    BY <2>2, <1>1 DEF LooseHeader
<1>5. \A x \in B : x # nxt => s[x].prev = m[x].prev
  BY <1>1
<1>6. nxt # NULL => nxt \in B /\ s[nxt].prev = new /\ nxt = End(m, c)
  <2>1. nxt # NULL => nxt \in B /\ nxt = End(m, c) /\ m[nxt] \in LooseHeader
    BY DEF Tiled, LooseMem
  <2>2. QED
    BY <2>1, <1>1 DEF LooseHeader
<1>7. 0 \in C
  BY DEF Tiled
<1>8. ASSUME NEW b \in C
      PROVE /\ s[b].size > 0
            /\ s[b].next = NULL => End(s, b) = HeapCells
            /\ s[b].next # NULL =>
                 s[b].next = End(s, b) /\ s[b].next \in C /\ s[s[b].next].prev = b
            /\ s[b].prev = NULL <=> b = 0
            /\ s[b].prev # NULL => s[b].prev \in C /\ s[s[b].prev].next = b
  <2>1. CASE b = c
    <3>1. m[c].prev = NULL <=> c = 0
      BY DEF Tiled
    <3>2. m[c].prev # NULL => m[c].prev \in B /\ m[m[c].prev].next = c /\ m[c].prev # c
      BY <1>1, <1>2 DEF Tiled, End, HDR
    <3>3. s[c].next = new /\ s[c].size = k /\ s[c].prev = m[c].prev /\ new # NULL
      BY <1>1, <1>2 DEF NULL
    <3>4. s[new].prev = c
      BY <1>1
    <3>5. QED
      BY <2>1, <3>1, <3>2, <3>3, <3>4, <1>3, <1>4
  <2>2. CASE b = new
    <3>1. s[new].size > 0 /\ s[new].next = nxt /\ s[new].prev = c /\ c # NULL /\ new # 0
      BY <1>1, <1>2 DEF NULL
    <3>2. nxt = NULL => End(m, c) = HeapCells
      BY DEF Tiled
    <3>3. s[c].next = new
      BY <1>1
    <3>4. QED
      BY <2>2, <3>1, <3>2, <3>3, <1>3, <1>6
  <2>3. CASE b \in B \ {c}
    <3>1. /\ m[b].size > 0
          /\ m[b].next = NULL => End(m, b) = HeapCells
          /\ m[b].next # NULL => m[b].next = End(m, b) /\ m[b].next \in B /\ m[m[b].next].prev = b
          /\ m[b].prev = NULL <=> b = 0
          /\ m[b].prev # NULL => m[b].prev \in B /\ m[m[b].prev].next = b
      BY <2>3 DEF Tiled
    <3>2. m[b].next # NULL => m[b].next # nxt
      <4>1. nxt # NULL => m[nxt].prev = c
        BY DEF Tiled
      <4>2. QED
        BY <3>1, <4>1, <2>3
    <3>3. m[b].next # NULL => s[m[b].next].prev = b
      BY <3>1, <3>2, <1>5
    <3>4. b # nxt => m[b].prev # c
      <4>1. b # nxt /\ m[b].prev = c => m[c].next = b
        BY <3>1, <1>2 DEF NULL
      <4>2. QED
        BY <4>1
    <3>5. CASE b = nxt
      <4>1. s[b].prev = new /\ s[new].next = b /\ b # NULL
        BY <3>5, <1>1, <1>6, <2>3 DEF Cells, NULL
      <4>2. b # 0 /\ new # NULL
        BY <3>5, <1>6, <1>2, <1>1, <4>1 DEF NULL
      <4>3. QED
        BY <4>1, <4>2, <3>1, <3>3, <1>4, <2>3
    <3>6. CASE b # nxt
      BY <3>1, <3>3, <3>4, <3>6, <1>4, <1>5, <2>3
    <3>7. QED
      BY <3>5, <3>6
  <2>4. QED
    BY <2>1, <2>2, <2>3
<1>9. ASSUME NEW b \in C, NEW d \in C, b < d
      PROVE End(s, b) <= d
  <2>1. \A x, y \in B : x < y => End(m, x) <= y
    BY DEF Tiled
  <2>2. B \subseteq Nat /\ End(m, c) \in Nat
    BY <1>2 DEF Cells, End, HDR
  <2>3. CASE b \in B \ {c} /\ d \in B
    BY <2>3, <2>1, <1>4, <1>9
  <2>4. CASE b = c /\ d \in B
    BY <2>4, <2>1, <2>2, <1>3, <1>9, <1>1, <1>2
  <2>5. CASE b = new /\ d \in B
    BY <2>5, <2>1, <2>2, <1>3, <1>9, <1>1, <1>2
  <2>6. CASE d = new /\ b \in B \ {c}
    <3>1. End(m, b) \in Nat
      BY <2>6, BlocksEndInside
    <3>2. b < c
      BY <2>6, <2>1, <2>2, <1>1, <1>2, <1>9
    <3>3. QED
      BY <3>1, <3>2, <2>1, <2>2, <2>6, <1>1, <1>2, <1>4
  <2>7. CASE d = new /\ b = c
    BY <2>7, <1>3, <1>2
  <2>8. QED
    BY <2>3, <2>4, <2>5, <2>6, <2>7, <1>9, <1>2
<1>10. QED
  BY <1>7, <1>8, <1>9 DEF Tiled

(* Absorbing the block behind keeps the array tiled. *)
LEMMA AbsorbKeepsTiled ==
  ASSUME NEW m \in LooseMem, NEW B \in SUBSET Cells, Tiled(m, B), NEW a \in B,
         m[a].next # NULL
  PROVE  Tiled(Absorb(m, a, m[a].next), B \ {m[a].next})
<1> DEFINE b == m[a].next
           r == Absorb(m, a, b)
           C == B \ {b}
           nxt == m[b].next
<1>1. /\ b \in B /\ a < b /\ b = End(m, a) /\ nxt # a /\ nxt # b
      /\ r[a].size = m[a].size + m[b].size + 1 /\ r[a].next = nxt
      /\ nxt # NULL => r[nxt].prev = a
      /\ \A x \in Cells \ {a} : r[x].size = m[x].size /\ r[x].next = m[x].next
      /\ \A x \in Cells \ {nxt} : r[x].prev = m[x].prev
  BY AbsorbCells
<1>2. /\ a \in Nat /\ b \in Nat /\ a \in Cells /\ b \in Cells
      /\ m[a].size \in Nat /\ m[b].size \in Nat
  BY <1>1, CellsAreNat DEF LooseMem, LooseHeader
<1>3. End(r, a) = End(m, b) /\ r[a].size > 0 /\ r[a].next = nxt /\ r[a].prev = m[a].prev
  BY <1>1, <1>2 DEF End, HDR
<1>4. \A x \in C \ {a} : End(r, x) = End(m, x) /\ r[x].size = m[x].size /\ r[x].next = m[x].next
  BY <1>1 DEF End
<1>5. \A x \in C : x # nxt => r[x].prev = m[x].prev
  BY <1>1
<1>6. nxt # NULL => nxt \in C /\ r[nxt].prev = a /\ nxt = End(m, b) /\ m[nxt].prev = b /\ nxt # 0
  <2>1. nxt # NULL => nxt \in B /\ nxt = End(m, b) /\ m[nxt] \in LooseHeader /\ m[nxt].prev = b
    BY <1>1 DEF Tiled, LooseMem
  <2>2. End(m, b) > 0
    BY <1>2 DEF End, HDR
  <2>3. QED
    BY <2>1, <2>2, <1>1 DEF LooseHeader
<1>7. 0 \in C
  BY <1>1, <1>2 DEF Tiled
<1>8. ASSUME NEW x \in C
      PROVE /\ r[x].size > 0
            /\ r[x].next = NULL => End(r, x) = HeapCells
            /\ r[x].next # NULL =>
                 r[x].next = End(r, x) /\ r[x].next \in C /\ r[r[x].next].prev = x
            /\ r[x].prev = NULL <=> x = 0
            /\ r[x].prev # NULL => r[x].prev \in C /\ r[r[x].prev].next = x
  <2>1. /\ m[x].size > 0
        /\ m[x].next = NULL => End(m, x) = HeapCells
        /\ m[x].next # NULL => m[x].next = End(m, x) /\ m[x].next \in B /\ m[m[x].next].prev = x
        /\ m[x].prev = NULL <=> x = 0
        /\ m[x].prev # NULL => m[x].prev \in B /\ m[m[x].prev].next = x
    BY DEF Tiled
  <2>2. x # nxt => m[x].prev # b
    <3>1. b # NULL
      BY <1>2 DEF NULL
    <3>2. QED
      BY <3>1, <2>1
  <2>3. m[x].prev # NULL /\ m[x].prev # b => m[x].prev \in C
    BY <2>1
  <2>4. CASE x = a
    <3>1. nxt = NULL => End(m, b) = HeapCells
      BY <1>1 DEF Tiled
    <3>2. m[a].prev # a
      <4>1. m[a].next = b /\ b # a
        BY <1>1, <1>2
      <4>2. QED
        BY <4>1, <2>1, <2>4, <1>2 DEF NULL
    <3>3. QED
      BY <2>4, <2>1, <2>2, <2>3, <1>1, <1>3, <1>4, <1>6, <3>1, <3>2
  <2>5. CASE x # a
    <3>1. m[x].next # b
      <4>1. m[b].prev = a /\ b # NULL
        BY <1>2, CellsAreNat DEF Tiled
      <4>2. QED
        BY <4>1, <2>5, <2>1
    <3>2. m[x].next # NULL => m[x].next # nxt
      BY <1>6, <2>1, <2>5
    <3>3. m[x].next # NULL => m[x].next \in C /\ r[m[x].next].prev = x
      BY <2>1, <3>1, <3>2, <1>5
    <3>4. CASE x = nxt
      <4>1. nxt # NULL
        BY <3>4, CellsAreNat
      <4>2. r[x].prev = a /\ a \in C /\ r[a].next = x /\ a # NULL /\ x # 0
        BY <3>4, <4>1, <1>1, <1>2, <1>3, <1>6, CellsAreNat
      <4>3. End(r, x) = End(m, x) /\ r[x].size = m[x].size /\ r[x].next = m[x].next
        BY <2>5, <1>4
      <4>4. QED
        BY <4>2, <4>3, <3>3, <2>1
    <3>5. CASE x # nxt
      <4>1. r[x].prev = m[x].prev
        BY <3>5, <1>5
      <4>2. m[x].prev # a
        BY <2>1, <2>5, <1>1, <1>2, <3>5 DEF NULL
      <4>3. m[x].prev # NULL => m[x].prev \in C \ {a} /\ r[m[x].prev].next = x
        BY <2>1, <2>2, <3>5, <4>2, <1>4
      <4>4. QED
        BY <4>1, <4>3, <3>3, <2>1, <2>5, <1>4
    <3>6. QED
      BY <3>4, <3>5
  <2>6. QED
    BY <2>4, <2>5
<1>9. ASSUME NEW x \in C, NEW y \in C, x < y
      PROVE End(r, x) <= y
  <2>1. \A u, v \in B : u < v => End(m, u) <= v
    BY DEF Tiled
  <2>2. CASE x = a
    <3>1. y > b
      BY <2>1, <2>2, <1>1, <1>2, <1>9 DEF Cells
    <3>2. QED
      BY <3>1, <2>1, <2>2, <1>1, <1>3
  <2>3. CASE x # a
    BY <2>3, <2>1, <1>4, <1>9
  <2>4. QED
    BY <2>2, <2>3
<1>10. QED
  BY <1>7, <1>8, <1>9 DEF Tiled

(* The free pairs kfree may have to merge: b with the block behind it,     *)
(* and the block before b with b.                                          *)
MergedButAround(m, B, b) ==
  \A x \in B : x # b /\ m[x].next # b /\ m[x].free /\ m[x].next # NULL
                 => ~ m[m[x].next].free
MergedButBefore(m, B, b) ==
  \A x \in B : m[x].next # b /\ m[x].free /\ m[x].next # NULL
                 => ~ m[m[x].next].free

(* kfree's first merge: block b, just marked free, takes in a free block   *)
(* behind it, and no free pair is left but possibly the one before b.      *)
LEMMA MergeNextMerges ==
  ASSUME NEW m \in LooseMem, NEW B \in SUBSET Cells, Tiled(m, B), NEW b \in B, m[b].free,
         MergedButAround(m, B, b)
  PROVE  LET r == MergeNext(m, b)
             C == B \ (IF NextIsFree(m, b) THEN {m[b].next} ELSE {})
         IN /\ r \in LooseMem /\ Tiled(r, C) /\ b \in C
            /\ r[b].prev = m[b].prev
            /\ \A x \in Cells : r[x].free = m[x].free
            /\ \A x \in Cells : x # b => r[x].size = m[x].size
            /\ MergedButBefore(r, C, b)
<1> PICK nx : nx = m[b].next
  OBVIOUS
<1> PICK nn : nn = m[nx].next
  OBVIOUS
<1> DEFINE r == MergeNext(m, b)
           C == B \ (IF NextIsFree(m, b) THEN {m[b].next} ELSE {})
<1>1. CASE ~ NextIsFree(m, b)
  BY <1>1 DEF MergeNext, NextIsFree, MergedButAround, MergedButBefore
<1>2. CASE NextIsFree(m, b)
  <2>1. nx # NULL /\ m[nx].free /\ r = Absorb(m, b, nx) /\ C = B \ {nx}
    BY <1>2 DEF MergeNext, NextIsFree
  <2>2. /\ nx \in B /\ b < nx /\ nn # b /\ nn # nx
        /\ r \in LooseMem
        /\ r[b].next = nn
        /\ \A x \in Cells : r[x].free = m[x].free
        /\ \A x \in Cells \ {b} : r[x].size = m[x].size /\ r[x].next = m[x].next
        /\ \A x \in Cells \ {nn} : r[x].prev = m[x].prev
    BY <2>1, AbsorbCells
  <2>3. Tiled(r, C)
    BY <2>1, AbsorbKeepsTiled
  <2>4. \A x \in Cells : r[x].free = m[x].free /\ (x # b => r[x].size = m[x].size /\ r[x].next = m[x].next)
    BY <2>2
  <2>5. b \in C /\ r[b].prev = m[b].prev
    BY <2>1, <2>2, CellsAreNat
  <2>6. nn # NULL => nn \in B /\ ~ m[nn].free
    <3>1. nn # NULL => nn \in B
      BY <2>2 DEF Tiled
    <3>2. nx # b
      BY <2>2, CellsAreNat
    <3>3. QED
      BY <3>1, <3>2, <2>1, <2>2 DEF MergedButAround
  <2>7. ASSUME NEW x \in C, r[x].next # b, r[x].free, r[x].next # NULL
        PROVE ~ r[r[x].next].free
    <3>1. r[x].next \in Cells
      BY <2>3, <2>7 DEF Tiled
    <3>2. CASE x = b
      BY <3>1, <3>2, <2>2, <2>4, <2>6, <2>7
    <3>3. CASE x # b
      BY <3>1, <3>3, <2>4, <2>7 DEF MergedButAround
    <3>4. QED
      BY <3>2, <3>3
  <2>8. QED
    BY <2>2, <2>3, <2>4, <2>5, <2>7 DEF MergedButBefore
<1>3. QED
  BY <1>1, <1>2

(* kfree's second merge: a free block before b takes b in, and no free     *)
(* pair is left.                                                           *)
LEMMA MergePrevMerges ==
  ASSUME NEW m \in LooseMem, NEW B \in SUBSET Cells, Tiled(m, B), NEW b \in B, m[b].free,
         MergedButBefore(m, B, b)
  PROVE  LET r == MergePrev(m, b)
             C == B \ (IF PrevIsFree(m, b) THEN {b} ELSE {})
         IN /\ r \in LooseMem /\ Tiled(r, C) /\ Merged(r, C)
            /\ \A x \in Cells : r[x].free = m[x].free
            /\ \A x \in Cells : ~ m[x].free => r[x].size = m[x].size
            /\ \A x \in Cells \ C : r[x].size = m[x].size
<1> DEFINE a == m[b].prev
           nx == m[b].next
           r == MergePrev(m, b)
           C == B \ (IF PrevIsFree(m, b) THEN {b} ELSE {})
<1>1. CASE ~ PrevIsFree(m, b)
  <2>1. r = m /\ C = B
    BY <1>1 DEF MergePrev
  <2>2. ASSUME NEW x \in B, m[x].free, m[x].next # NULL
        PROVE ~ m[m[x].next].free
    <3>1. CASE m[x].next = b
      <4>1. m[b].prev = x /\ x # NULL
        BY <3>1, <2>2, CellsAreNat DEF Tiled
      <4>2. QED
        BY <4>1, <1>1, <2>2 DEF PrevIsFree
    <3>2. QED
      BY <3>1, <2>2 DEF MergedButBefore
  <2>3. QED
    BY <2>1, <2>2 DEF Merged
<1>2. CASE PrevIsFree(m, b)
  <2>1. /\ a # NULL /\ m[a].free /\ a \in B /\ m[a].next = b /\ b # NULL
        /\ r = Absorb(m, a, m[a].next) /\ C = B \ {m[a].next}
    <3>1. a # NULL /\ m[a].free /\ r = Absorb(m, a, b) /\ C = B \ {b}
      BY <1>2 DEF MergePrev, PrevIsFree
    <3>2. a \in B /\ m[a].next = b
      BY <3>1 DEF Tiled
    <3>3. QED
      BY <3>1, <3>2, CellsAreNat
  <2>2. /\ a < b /\ nx # a /\ nx # b
        /\ r \in LooseMem
        /\ r[a].next = nx
        /\ \A x \in Cells : r[x].free = m[x].free
        /\ \A x \in Cells \ {a} : r[x].size = m[x].size /\ r[x].next = m[x].next
    <3> HIDE DEF r, C, a
    <3>1. a \in B /\ m[a].next = b /\ m[a].next # NULL /\ r = Absorb(m, a, m[a].next)
      BY <2>1
    <3>2. QED
      BY <3>1, AbsorbCells
  <2>3. Tiled(r, C)
    BY <2>1, AbsorbKeepsTiled
  <2>4. \A x \in Cells : r[x].free = m[x].free /\ (x # a => r[x].size = m[x].size /\ r[x].next = m[x].next)
    BY <2>2
  <2>5. nx # NULL => nx \in B /\ ~ m[nx].free
    <3>1. nx # NULL => nx \in B
      BY DEF Tiled
    <3>2. QED
      BY <3>1, <2>2 DEF MergedButBefore
  <2>6. ASSUME NEW x \in C, r[x].free, r[x].next # NULL
        PROVE ~ r[r[x].next].free
    <3>1. r[x].next \in C
      BY <2>3, <2>6 DEF Tiled
    <3>2. CASE x = a
      BY <3>1, <3>2, <2>1, <2>2, <2>4, <2>5, <2>6
    <3>3. CASE x # a
      BY <3>1, <3>3, <2>1, <2>4, <2>6 DEF MergedButBefore
    <3>4. QED
      BY <3>2, <3>3
  <2>7. QED
    BY <2>1, <2>2, <2>3, <2>4, <2>6 DEF Merged
<1>3. QED
  BY <1>1, <1>2

-----------------------------------------------------------------------------
(* The invariant, action by action. *)

(* The heap array may be read as headers without a bound on their sizes. *)
LEMMA MemIsLoose == TypeOK => mem \in LooseMem
BY CellsAreNat DEF TypeOK, heap_block_t, LooseMem, LooseHeader

LEMMA TypeFacts ==
  ASSUME TypeOK
  PROVE  /\ blocks \subseteq Cells /\ blocks \subseteq Nat
         /\ \A c \in Cells : /\ mem[c].size \in Nat /\ mem[c].free \in BOOLEAN
                            /\ mem[c].next \in Cells \cup {NULL}
                            /\ End(mem, c) \in Nat
         /\ \A p \in Ptrs : p \in Nat /\ asked[p] \in Nat /\ asked[p] \in Requests \cup {0}
         /\ Requests \subseteq Nat
<1>1. blocks \subseteq Cells /\ blocks \subseteq Nat
  BY CellsAreNat DEF TypeOK
<1>2. \A c \in Cells : mem[c] \in LooseHeader /\ c \in Nat
  BY MemIsLoose, CellsAreNat DEF LooseMem
<1>3. Requests \subseteq Nat
  BY HeapAssumption
<1>4. \A p \in Ptrs : p \in Nat /\ asked[p] \in Nat /\ asked[p] \in Requests \cup {0}
  <2>1. asked \in [Ptrs -> Requests \cup {0}]
    BY DEF TypeOK
  <2>2. Ptrs \subseteq Nat
    BY CellsAreNat DEF Ptrs
  <2>3. \A p \in Ptrs : asked[p] \in Requests \cup {0}
    BY <2>1
  <2>4. \A p \in Ptrs : asked[p] \in Nat
    <3>1. SUFFICES ASSUME NEW p \in Ptrs PROVE asked[p] \in Nat
      OBVIOUS
    <3>2. CASE asked[p] \in Requests
      BY <3>2, <1>3
    <3>3. CASE asked[p] = 0
      BY <3>3
    <3>4. QED
      BY <3>2, <3>3, <2>3
  <2>5. QED
    BY <2>2, <2>3, <2>4
<1>5. ASSUME NEW c \in Cells
      PROVE /\ mem[c].size \in Nat /\ mem[c].free \in BOOLEAN
            /\ mem[c].next \in Cells \cup {NULL}
            /\ End(mem, c) \in Nat
  <2>1. mem[c].size \in Nat /\ mem[c].free \in BOOLEAN /\ mem[c].next \in Cells \cup {NULL}
    BY <1>2 DEF LooseHeader
  <2>2. End(mem, c) \in Nat
    BY <1>2, <2>1 DEF End, HDR
  <2>3. QED
    BY <2>1, <2>2
<1>6. QED
  BY <1>1, <1>3, <1>4, <1>5

(* In a tiled array the sizes are bounded, so that only the headers that   *)
(* changed have to be looked at.                                           *)
LEMMA LooseIsTyped ==
  ASSUME NEW m \in LooseMem, NEW B \in SUBSET Cells, Tiled(m, B),
         \A x \in Cells \ B : m[x].size <= HeapCells - 1
  PROVE  m \in [Cells -> heap_block_t]
<1>1. \A x \in Cells : m[x] \in LooseHeader
  BY DEF LooseMem
<1>2. \A x \in Cells : m[x].size \in 0 .. HeapCells - 1
  <2>1. \A x \in Cells : m[x].size \in Nat
    BY <1>1 DEF LooseHeader
  <2>2. \A x \in B : m[x].size \in 1 .. HeapCells - 1
    BY BlocksEndInside
  <2>3. QED
    BY <2>1, <2>2, CellsAreNat
<1>3. \A x \in Cells : m[x] \in heap_block_t
  BY <1>1, <1>2 DEF LooseHeader, heap_block_t
<1>4. QED
  BY <1>3 DEF LooseMem

LEMMA InitIInv == init_heap => IInv
<1> SUFFICES ASSUME init_heap PROVE IInv
  OBVIOUS
<1>1. 0 \in Cells /\ HeapCells - 1 \in Nat /\ 0 # NULL
  BY CellsAreNat DEF Cells, NULL
<1>2. mem[0] = [size |-> HeapCells - 1, free |-> TRUE, next |-> NULL, prev |-> NULL]
  BY <1>1 DEF init_heap, ZeroHeader, HDR
<1>3. TypeOK
  <2>1. ZeroHeader \in heap_block_t
    BY <1>1 DEF ZeroHeader, heap_block_t
  <2>2. mem[0] \in heap_block_t
    BY <1>1, <1>2 DEF heap_block_t
  <2>3. mem \in [Cells -> heap_block_t]
    BY <2>1, <2>2, <1>1 DEF init_heap
  <2>4. QED
    BY <2>3, <1>1 DEF init_heap, TypeOK
<1>a. /\ blocks = {0} /\ mem[0].size = HeapCells - 1
      /\ mem[0].next = NULL /\ mem[0].prev = NULL
  <2>1. blocks = {0}
    BY DEF init_heap
  <2>2. QED
    BY <2>1, <1>2
<1>4. Tiling
  BY <1>1, <1>a, CellsAreNat DEF Tiling, Tiled, End, HDR
<1>5. Coalesced
  BY <1>a DEF Coalesced, Merged
<1>6. HeldIsUsed
  BY <1>1, <1>2, CellsAreNat DEF init_heap, HeldIsUsed, Live, Ptrs, Cells, HDR
<1>7. DoubleFreeIsSeen /\ FreedIsUnused /\ PassedOver /\ OutOfMemoryIsReal
  BY DEF init_heap, DoubleFreeIsSeen, FreedIsUnused, PassedOver, OutOfMemoryIsReal
<1>8. QED
  BY <1>3, <1>4, <1>5, <1>6, <1>7 DEF IInv

LEMMA KmallocCallIInv ==
  ASSUME IInv, NEW b \in Requests, kmalloc(b)
  PROVE  IInv'
<1>1. TypeOK'
  BY CellsAreNat, HeapAssumption DEF IInv, TypeOK, kmalloc, Cells
<1>2. Tiling' /\ Coalesced' /\ HeldIsUsed' /\ DoubleFreeIsSeen' /\ FreedIsUnused'
  BY DEF IInv, kmalloc, Tiling, Coalesced, HeldIsUsed, DoubleFreeIsSeen, FreedIsUnused, Live
<1>3. PassedOver'
  <2>1. 0 \in blocks /\ \A x \in blocks : ~ (x < 0)
    BY CellsAreNat DEF IInv, TypeOK, Tiling, Tiled
  <2>2. b \in Nat
    BY HeapAssumption
  <2>3. QED
    BY <2>1, <2>2 DEF kmalloc, PassedOver, NULL
<1>4. OutOfMemoryIsReal'
  BY DEF kmalloc, OutOfMemoryIsReal
<1>5. QED
  BY <1>1, <1>2, <1>3, <1>4 DEF IInv

LEMMA ScanOnIInv ==
  ASSUME IInv, RequestsFitWord, ScanOn
  PROVE  IInv'
<1>1. /\ cur \in blocks /\ n \in Requests /\ n > 0 /\ pc = "scan" /\ cur \in Cells
      /\ mem[cur].next \in Cells \cup {NULL} /\ cur # NULL
      /\ mem[cur].free => mem[cur].size < CellsFor(n)
  <2>1. cur \in blocks /\ n \in Requests /\ n > 0 /\ pc = "scan" /\ cur # NULL
    BY DEF IInv, TypeOK, PassedOver, ScanOn, InLoop
  <2>2. cur \in Cells /\ mem[cur].next \in Cells \cup {NULL} /\ mem[cur].size \in Nat
    BY <2>1, CellsAreNat DEF IInv, TypeOK, heap_block_t
  <2>3. QED
    BY <2>1, <2>2, AlignIsExact DEF ScanOn, Suits
<1>2. TypeOK'
  BY <1>1 DEF IInv, TypeOK, ScanOn
<1>3. Tiling' /\ Coalesced' /\ HeldIsUsed' /\ DoubleFreeIsSeen' /\ FreedIsUnused'
  BY DEF IInv, ScanOn, Tiling, Coalesced, HeldIsUsed, DoubleFreeIsSeen, FreedIsUnused, Live
<1>4. PassedOver'
  <2>1. mem[cur].next # NULL => mem[cur].next \in blocks /\ mem[cur].next = End(mem, cur)
    BY <1>1 DEF IInv, Tiling, Tiled
  <2>2. ASSUME NEW b \in blocks, b # cur, ~ (b < cur)
        PROVE mem[cur].next # NULL /\ mem[cur].next <= b
    <3>1. b \in Nat /\ cur \in Nat /\ blocks \subseteq Cells
      BY <1>1, CellsAreNat DEF IInv, TypeOK
    <3>2. cur < b
      BY <3>1, <2>2
    <3>3. End(mem, cur) <= b
      BY <3>2, <1>1 DEF IInv, Tiling, Tiled
    <3>4. mem[cur].next = NULL => End(mem, cur) = HeapCells
      BY <1>1 DEF IInv, Tiling, Tiled
    <3>5. b < HeapCells
      BY <3>1, CellsAreNat DEF Cells
    <3>6. QED
      BY <3>1, <3>3, <3>4, <3>5, <2>1, CellsAreNat
  <2>3. ASSUME NEW b \in blocks, cur' = NULL \/ b < cur', mem[b].free
        PROVE mem[b].size < CellsFor(n)
    <3>1. b \in Nat /\ cur \in Nat /\ (cur' # NULL => cur' \in Nat) /\ cur' = mem[cur].next
      BY <1>1, CellsAreNat DEF IInv, TypeOK, ScanOn
    <3>2. b = cur \/ b < cur
      BY <2>2, <2>3, <3>1
    <3>3. CASE b = cur
      BY <3>3, <1>1, <2>3
    <3>4. CASE b < cur
      BY <3>4, <1>1, <2>3 DEF IInv, PassedOver
    <3>5. QED
      BY <3>2, <3>3, <3>4
  <2>4. QED
    BY <1>1, <2>1, <2>3 DEF PassedOver, ScanOn
<1>5. OutOfMemoryIsReal'
  BY <1>1 DEF ScanOn, OutOfMemoryIsReal
<1>6. QED
  BY <1>2, <1>3, <1>4, <1>5 DEF IInv

LEMMA OutOfMemoryIInv ==
  ASSUME IInv, OutOfMemory
  PROVE  IInv'
<1>1. cur = NULL /\ pc = "scan"
  BY CellsAreNat DEF IInv, TypeOK, OutOfMemory, InLoop, Cells
<1>2. TypeOK'
  BY DEF IInv, TypeOK, OutOfMemory
<1>3. Tiling' /\ Coalesced' /\ HeldIsUsed' /\ DoubleFreeIsSeen' /\ FreedIsUnused'
  BY DEF IInv, OutOfMemory, Tiling, Coalesced, HeldIsUsed, DoubleFreeIsSeen, FreedIsUnused, Live
<1>4. PassedOver' /\ OutOfMemoryIsReal'
  BY <1>1 DEF IInv, PassedOver, OutOfMemory, OutOfMemoryIsReal
<1>5. QED
  BY <1>2, <1>3, <1>4 DEF IInv

(* The owner of a pointer writes only behind its own block's header. *)
LEMMA WritesMissHeaders ==
  ASSUME IInv, NEW p \in Live, NEW c \in Cells, NEW g \in Garbage, ClientWrite(p, c, g)
  PROVE  /\ p - 1 \in blocks /\ p - 1 \in Cells /\ p - 1 \in Nat /\ ~ mem[p - 1].free /\ c \in Nat
         /\ c > p - 1 /\ c < End(mem, p - 1)
         /\ c \notin blocks
<1> DEFINE b == p - 1
<1>1. /\ b \in blocks /\ b \in Cells /\ b \in Nat /\ p = b + 1 /\ ~ mem[b].free /\ c \in Nat
      /\ c > b /\ c < End(mem, b)
  <2>1. p \in Nat /\ asked[p] > 0 /\ asked[p] \in Nat
    BY TypeFacts DEF IInv, Live
  <2>2. b \in blocks /\ CellsFor(asked[p]) <= mem[b].size
    BY DEF IInv, HeldIsUsed, HDR
  <2>3. b \in Cells /\ b \in Nat /\ c \in Nat /\ mem[b].size \in Nat
    BY <2>2, TypeFacts, CellsAreNat DEF IInv
  <2>4. ~ mem[b].free
    BY <2>1, <2>2, <2>3 DEF IInv, HeldIsUsed, HDR
  <2>5. c >= p /\ c < p + CellsFor(asked[p]) /\ CellsFor(asked[p]) \in Int
    BY <2>1, <2>3 DEF ClientWrite, CellsFor, ALIGNMENT
  <2>6. QED
    BY <2>1, <2>2, <2>3, <2>4, <2>5 DEF End, HDR
<1>2. c \notin blocks
  <2>1. c \in blocks => End(mem, b) <= c
    BY <1>1 DEF IInv, Tiling, Tiled
  <2>2. End(mem, b) \in Nat
    BY <1>1, CellsAreNat DEF End, HDR, IInv, TypeOK, heap_block_t
  <2>3. QED
    BY <1>1, <2>1, <2>2
<1>3. QED
  BY <1>1, <1>2

LEMMA ClientWriteIInv ==
  ASSUME IInv, NEW p \in Live, NEW c \in Cells, NEW g \in Garbage, ClientWrite(p, c, g)
  PROVE  IInv'
<1> DEFINE b == p - 1
<1>1. /\ b \in blocks /\ b \in Cells /\ b \in Nat /\ ~ mem[b].free /\ c \in Nat
      /\ c > b /\ c < End(mem, b)
  BY WritesMissHeaders
<1>2. c \notin blocks
  BY WritesMissHeaders
<1>3. \A x \in Cells : x # c => mem'[x] = mem[x]
  BY DEF ClientWrite, IInv, TypeOK
<1>4. TypeOK'
  <2>1. mem' \in [Cells -> heap_block_t]
    BY HeapAssumption DEF IInv, TypeOK, ClientWrite
  <2>2. QED
    BY <2>1 DEF IInv, TypeOK, ClientWrite
<1>5. \A x \in blocks : mem'[x] = mem[x] /\ End(mem', x) = End(mem, x)
  BY <1>2, <1>3 DEF IInv, TypeOK, End
<1>6. UNCHANGED <<pc, cur, n, asked, freed, blocks>> /\ Live' = Live
  BY DEF ClientWrite, Live
<1>7. Tiling'
  <2>1. Tiled(mem, blocks)
    BY DEF IInv, Tiling
  <2>2. Tiled(mem', blocks)
    BY <2>1, <1>5 DEF Tiled
  <2>3. QED
    BY <2>2, <1>6 DEF Tiling
<1>8. Coalesced'
  <2>1. \A x \in blocks : mem[x].next # NULL => mem[x].next \in blocks
    BY DEF IInv, Tiling, Tiled
  <2>2. QED
    BY <1>5, <1>6, <2>1 DEF IInv, Coalesced, Merged
<1>9. HeldIsUsed'
  BY <1>5, <1>6 DEF IInv, HeldIsUsed
<1>10. DoubleFreeIsSeen'
  <2>1. \A q \in freed : q - HDR # c
    <3>1. c \in b .. End(mem, b) - 1
      BY <1>1, TypeFacts DEF IInv
    <3>2. QED
      BY <1>1, <3>1 DEF IInv, FreedIsUnused
  <2>2. QED
    BY <2>1, <1>3, <1>6 DEF IInv, DoubleFreeIsSeen
<1>11. FreedIsUnused' /\ PassedOver' /\ OutOfMemoryIsReal'
  BY <1>5, <1>6 DEF IInv, FreedIsUnused, PassedOver, OutOfMemoryIsReal, ClientWrite
<1>12. QED
  BY <1>4, <1>7, <1>8, <1>9, <1>10, <1>11 DEF IInv

(* kmalloc finds a block: both ways of taking it, split or whole. *)
LEMMA FoundChanges ==
  ASSUME IInv, RequestsFitWord, ScanFound
  PROVE  LET k    == align_size(n)
             ptr  == cur + 1
             new  == cur + 1 + k
             kept == IF Splits(cur, k) THEN k ELSE mem[cur].size
         IN
         /\ cur \in blocks /\ cur \in Cells /\ cur \in Nat
         /\ n \in Requests /\ n > 0 /\ mem[cur].free
         /\ k = CellsFor(n) /\ k \in Nat /\ k > 0 /\ mem[cur].size >= k
         /\ asked' = [asked EXCEPT ![ptr] = n]
         /\ freed' = {p \in freed : p - 1 \notin cur .. cur + kept}
         /\ pc' = "idle" /\ cur' = NULL /\ n' = 0
         /\ mem' \in LooseMem /\ Tiled(mem', blocks') /\ Merged(mem', blocks')
         /\ blocks' \subseteq Cells /\ blocks \subseteq blocks'
         /\ blocks' \subseteq blocks \cup {new}
         /\ \A x \in blocks' \ blocks : mem'[x].free
         /\ ~ mem'[cur].free /\ mem'[cur].size = kept /\ kept \in Nat /\ kept >= k
         /\ \A x \in blocks \ {cur} : mem'[x].free = mem[x].free /\ mem'[x].size = mem[x].size
         /\ \A x \in Cells : x # cur /\ mem[x].free => mem'[x].free
         /\ \A x \in Cells \ blocks' : mem'[x].size = mem[x].size
<1> DEFINE k    == align_size(n)
           ptr  == cur + 1
           new  == cur + 1 + k
           kept == IF Splits(cur, k) THEN k ELSE mem[cur].size
<1>1. /\ cur \in blocks /\ cur \in Cells /\ cur \in Nat
      /\ n \in Requests /\ n > 0 /\ mem[cur].free
      /\ k = CellsFor(n) /\ k \in Nat /\ k > 0 /\ mem[cur].size >= k
  <2>1. cur \in blocks /\ n \in Requests /\ n > 0
    BY DEF IInv, TypeOK, PassedOver, ScanFound, InLoop
  <2>2. cur \in Cells /\ cur \in Nat
    BY <2>1, TypeFacts DEF IInv
  <2>3. QED
    BY <2>1, <2>2, AlignIsExact DEF ScanFound, Suits
<1>2. /\ asked' = [asked EXCEPT ![ptr] = n]
      /\ freed' = {p \in freed : p - 1 \notin cur .. cur + kept}
      /\ pc' = "idle" /\ cur' = NULL /\ n' = 0
  BY DEF ScanFound, HDR
<1>3. /\ mem' \in LooseMem /\ Tiled(mem', blocks') /\ Merged(mem', blocks')
      /\ blocks' \subseteq Cells /\ blocks \subseteq blocks'
      /\ blocks' \subseteq blocks \cup {new}
      /\ \A x \in blocks' \ blocks : mem'[x].free
      /\ ~ mem'[cur].free /\ mem'[cur].size = kept /\ kept \in Nat /\ kept >= k
      /\ \A x \in blocks \ {cur} : mem'[x].free = mem[x].free /\ mem'[x].size = mem[x].size
      /\ \A x \in Cells : x # cur /\ mem[x].free => mem'[x].free
      /\ \A x \in Cells \ blocks' : mem'[x].size = mem[x].size
  <2>1. mem \in LooseMem /\ blocks \subseteq Cells /\ Tiled(mem, blocks) /\ mem[cur].size \in Nat
    BY <1>1, MemIsLoose, TypeFacts DEF IInv, Tiling
  <2>2. mem[cur].next # NULL => mem[cur].next \in blocks /\ ~ mem[mem[cur].next].free
    BY <1>1, <2>1 DEF IInv, Coalesced, Merged, Tiled
  <2>3. \A x \in blocks : mem[x].next # NULL => mem[x].next \in blocks
    BY <2>1 DEF Tiled
  <2>4. CASE Splits(cur, k)
    <3>1. mem' = Split(mem, cur, k) /\ blocks' = blocks \cup {new} /\ kept = k
          /\ mem[cur].size >= k + 2
      BY <2>4, <1>1, <2>1 DEF ScanFound, HDR, Splits, MIN_BLOCK
    <3>2. Tiled(mem', blocks')
      BY <3>1, <2>1, <1>1, SplitKeepsTiled
    <3>3. /\ new \in Cells /\ new \notin blocks /\ mem[cur].next # new /\ mem[cur].next # cur
          /\ mem'[new] = [size |-> mem[cur].size - k - 1, free |-> TRUE,
                          next |-> mem[cur].next, prev |-> cur]
          /\ mem'[cur] = [size |-> k, free |-> FALSE, next |-> new, prev |-> mem[cur].prev]
          /\ mem[cur].next # NULL => mem'[mem[cur].next] = [mem[mem[cur].next] EXCEPT !.prev = new]
          /\ \A x \in Cells \ {new, cur, mem[cur].next} : mem'[x] = mem[x]
          /\ mem' \in LooseMem
      BY <3>1, <2>1, <1>1, SplitCells
    <3>4. mem'[new].free /\ ~ mem'[cur].free /\ mem'[cur].size = k
          /\ mem'[new].next = mem[cur].next
      BY <3>3
    <3>5. ASSUME NEW x \in Cells, x # new, x # cur
          PROVE mem'[x].free = mem[x].free /\ mem'[x].size = mem[x].size /\ mem'[x].next = mem[x].next
      <4>1. mem[x] \in LooseHeader /\ x # NULL
        BY <2>1, CellsAreNat DEF LooseMem
      <4>2. QED
        BY <4>1, <3>3, <3>5 DEF LooseHeader
    <3>6. ASSUME NEW x \in blocks', mem'[x].free, mem'[x].next # NULL
          PROVE ~ mem'[mem'[x].next].free
      <4>1. CASE x = new
        BY <4>1, <3>3, <3>4, <3>5, <3>6, <2>1, <2>2
      <4>2. CASE x \in blocks /\ x # cur
        <5>1. mem[x].free /\ mem[x].next # NULL /\ mem'[x].next = mem[x].next /\ x # new
          BY <4>2, <3>3, <3>5, <3>6, <2>1
        <5>2. ~ mem[mem[x].next].free /\ mem[x].next \in blocks
          BY <5>1, <4>2, <2>3 DEF IInv, Coalesced, Merged
        <5>3. mem[x].next # cur /\ mem[x].next # new
          BY <5>2, <1>1, <3>3
        <5>4. QED
          BY <5>1, <5>2, <5>3, <3>5, <2>1
      <4>3. QED
        BY <4>1, <4>2, <3>1, <3>4, <3>6
    <3>7. QED
      BY <3>1, <3>2, <3>3, <3>4, <3>5, <3>6, <2>1, <1>1 DEF Merged
  <2>5. CASE ~ Splits(cur, k)
    <3>1. mem' = [mem EXCEPT ![cur].free = FALSE] /\ blocks' = blocks /\ kept = mem[cur].size
      BY <2>5 DEF ScanFound
    <3>2. ~ mem'[cur].free /\ mem'[cur].size = mem[cur].size /\ mem' \in LooseMem
          /\ mem'[cur].next = mem[cur].next /\ mem'[cur].prev = mem[cur].prev
      BY <3>1, <2>1, <1>1 DEF LooseMem, LooseHeader
    <3>3. \A x \in Cells : x # cur => mem'[x] = mem[x]
      BY <3>1, <2>1 DEF LooseMem
    <3>4. \A x \in Cells : mem'[x].size = mem[x].size /\ mem'[x].next = mem[x].next
                           /\ mem'[x].prev = mem[x].prev
      BY <3>2, <3>3
    <3>5. Tiled(mem', blocks')
      BY <3>1, <3>4, <2>1 DEF Tiled, End
    <3>6. Merged(mem', blocks')
      <4>1. ASSUME NEW x \in blocks, mem'[x].free, mem'[x].next # NULL
            PROVE ~ mem'[mem'[x].next].free
        <5>1. x # cur /\ mem[x].free /\ mem[x].next # NULL /\ mem'[x].next = mem[x].next
          BY <4>1, <3>2, <3>3, <3>4, <2>1
        <5>2. ~ mem[mem[x].next].free /\ mem[x].next \in blocks
          BY <5>1, <2>3 DEF IInv, Coalesced, Merged
        <5>3. mem[x].next # cur
          BY <5>2, <1>1
        <5>4. QED
          BY <5>1, <5>2, <5>3, <3>3, <2>1
      <4>2. QED
        BY <4>1, <3>1 DEF Merged
    <3>7. QED
      BY <3>1, <3>2, <3>3, <3>5, <3>6, <2>1, <1>1
  <2>6. QED
    BY <2>4, <2>5
<1>4. QED
  BY <1>1, <1>2, <1>3

LEMMA ScanFoundIInv ==
  ASSUME IInv, RequestsFitWord, ScanFound
  PROVE  IInv'
<1> DEFINE k    == align_size(n)
           ptr  == cur + 1
           new  == cur + 1 + k
           kept == IF Splits(cur, k) THEN k ELSE mem[cur].size
<1>1. /\ cur \in blocks /\ cur \in Cells /\ cur \in Nat
      /\ n \in Requests /\ n > 0 /\ mem[cur].free
      /\ k = CellsFor(n) /\ k \in Nat /\ k > 0 /\ mem[cur].size >= k
  BY FoundChanges
<1>2. /\ asked' = [asked EXCEPT ![ptr] = n]
      /\ freed' = {p \in freed : p - 1 \notin cur .. cur + kept}
      /\ pc' = "idle" /\ cur' = NULL /\ n' = 0
  BY FoundChanges
<1>3. /\ mem' \in LooseMem /\ Tiled(mem', blocks') /\ Merged(mem', blocks')
      /\ blocks' \subseteq Cells /\ blocks \subseteq blocks'
      /\ blocks' \subseteq blocks \cup {new}
      /\ \A x \in blocks' \ blocks : mem'[x].free
      /\ ~ mem'[cur].free /\ mem'[cur].size = kept /\ kept \in Nat /\ kept >= k
      /\ \A x \in blocks \ {cur} : mem'[x].free = mem[x].free /\ mem'[x].size = mem[x].size
      /\ \A x \in Cells : x # cur /\ mem[x].free => mem'[x].free
      /\ \A x \in Cells \ blocks' : mem'[x].size = mem[x].size
  BY FoundChanges
<1>4. TypeOK'
  <2>1. \A x \in Cells \ blocks' : mem'[x].size <= HeapCells - 1
    <3>1. \A x \in Cells : mem[x].size <= HeapCells - 1
      BY CellsAreNat DEF IInv, TypeOK, heap_block_t
    <3>2. QED
      BY <1>3, <3>1
  <2>2. mem' \in [Cells -> heap_block_t]
    BY <2>1, <1>3, LooseIsTyped
  <2>3. QED
    BY <2>2, <1>1, <1>2, <1>3 DEF IInv, TypeOK
<1>5. Tiling' /\ Coalesced'
  BY <1>3 DEF Tiling, Coalesced
<1>6. ptr \in Ptrs /\ asked'[ptr] = n /\ \A p \in Ptrs : p # ptr => asked'[p] = asked[p]
  <2>1. ptr \in Ptrs
    BY <1>1, CellsAreNat DEF Ptrs, Cells
  <2>2. QED
    BY <2>1, <1>2 DEF IInv, TypeOK
<1>7. HeldIsUsed'
  <2>1. ASSUME NEW b \in blocks'
        PROVE asked'[b + 1] > 0 <=> ~ mem'[b].free
    <3>1. b \in Nat /\ b + 1 \in Ptrs
      BY <1>3, CellsAreNat DEF Ptrs, Cells
    <3>2. CASE b = cur
      BY <3>2, <1>1, <1>3, <1>6
    <3>3. CASE b \in blocks /\ b # cur
      BY <3>1, <3>3, <1>1, <1>3, <1>6 DEF IInv, HeldIsUsed, HDR
    <3>4. CASE b \notin blocks
      <4>1. ~ (asked[b + 1] > 0)
        BY <3>1, <3>4 DEF IInv, HeldIsUsed, Live, HDR
      <4>2. QED
        BY <4>1, <3>1, <3>4, <1>1, <1>3, <1>6
    <3>5. QED
      BY <3>2, <3>3, <3>4
  <2>2. ASSUME NEW p \in Live'
        PROVE p - 1 \in blocks' /\ CellsFor(asked'[p]) <= mem'[p - 1].size
    <3>1. p \in Ptrs /\ asked'[p] > 0 /\ p \in Nat
      BY TypeFacts DEF IInv, Live
    <3>2. CASE p = ptr
      BY <3>2, <1>1, <1>3, <1>6
    <3>3. CASE p # ptr
      <4>1. p \in Live /\ asked'[p] = asked[p]
        BY <3>1, <3>3, <1>6 DEF Live
      <4>2. p - 1 \in blocks /\ CellsFor(asked[p]) <= mem[p - 1].size /\ p - 1 # cur
        BY <4>1, <3>1, <3>3, <1>1 DEF IInv, HeldIsUsed, HDR
      <4>3. QED
        BY <4>1, <4>2, <1>3
    <3>4. QED
      BY <3>2, <3>3
  <2>3. QED
    BY <2>1, <2>2 DEF HeldIsUsed, HDR
<1>8. DoubleFreeIsSeen'
  <2>1. SUFFICES ASSUME NEW p \in freed'
                 PROVE p - 1 \in Cells /\ mem'[p - 1].free /\ asked'[p] = 0
    BY DEF DoubleFreeIsSeen, HDR
  <2>2. p \in freed /\ p - 1 \in Cells /\ mem[p - 1].free /\ asked[p] = 0 /\ p \in Ptrs
    BY <1>2 DEF IInv, DoubleFreeIsSeen, HDR, TypeOK
  <2>3. p - 1 # cur
    <3>1. cur \in cur .. cur + kept
      BY <1>1, <1>3
    <3>2. QED
      BY <3>1, <1>2
  <2>4. p # ptr
    BY <2>3, <1>1
  <2>5. QED
    BY <2>2, <2>3, <2>4, <1>3, <1>6
<1>9. FreedIsUnused'
  <2>1. SUFFICES ASSUME NEW p \in freed', NEW b \in blocks', ~ mem'[b].free
                 PROVE p - 1 \notin b .. End(mem', b) - 1
    BY DEF FreedIsUnused, HDR
  <2>2. p \in freed /\ p - 1 \notin cur .. cur + kept
    BY <1>2
  <2>3. CASE b = cur
    <3>1. End(mem', cur) - 1 = cur + kept
      BY <1>1, <1>3 DEF End, HDR
    <3>2. QED
      BY <2>2, <2>3, <3>1
  <2>4. CASE b # cur
    <3>1. b \in blocks /\ ~ mem[b].free /\ End(mem', b) = End(mem, b)
      BY <2>1, <2>4, <1>3 DEF End
    <3>2. QED
      BY <3>1, <2>2 DEF IInv, FreedIsUnused, HDR
  <2>5. QED
    BY <2>3, <2>4
<1>10. PassedOver' /\ OutOfMemoryIsReal'
  BY <1>2 DEF PassedOver, OutOfMemoryIsReal
<1>11. QED
  BY <1>4, <1>5, <1>7, <1>8, <1>9, <1>10 DEF IInv

(* kfree of a held pointer: mark, merge with the block behind, merge with  *)
(* the block before. *)
LEMMA KfreeChanges ==
  ASSUME IInv, NEW p \in Live \cup freed, kfree(p)
  PROVE  LET b == p - 1
         IN
         /\ p \in Live /\ p \in Ptrs /\ p \in Nat /\ b \in blocks /\ b \in Nat /\ b \in Cells
         /\ asked' = [asked EXCEPT ![p] = 0]
         /\ freed' = freed \cup {p}
         /\ UNCHANGED <<pc, cur, n>> /\ pc = "idle"
         /\ mem' \in [Cells -> heap_block_t] /\ Tiled(mem', blocks') /\ Merged(mem', blocks')
         /\ blocks' \subseteq blocks /\ blocks' \subseteq Cells
         /\ \A x \in Cells : mem'[x].free = (x = b \/ mem[x].free)
         /\ \A x \in Cells : x # b /\ ~ mem[x].free => mem'[x].size = mem[x].size
         /\ \A x \in blocks : x # b /\ ~ mem[x].free => x \in blocks'
<1> DEFINE b  == p - 1
           m0 == [mem EXCEPT ![b].free = TRUE]
           m1 == MergeNext(m0, b)
           B1 == blocks \ (IF NextIsFree(m0, b) THEN {m0[b].next} ELSE {})
           B2 == B1 \ (IF PrevIsFree(m1, b) THEN {b} ELSE {})
<1>1. /\ b \in Cells /\ ~ mem[b].free /\ mem' = MergePrev(m1, b)
      /\ blocks' = blocks \ ((IF NextIsFree(mem, b) THEN {mem[b].next} ELSE {})
                             \cup (IF PrevIsFree(mem, b) THEN {b} ELSE {}))
      /\ asked' = [asked EXCEPT ![p] = 0]
      /\ freed' = freed \cup {p}
      /\ UNCHANGED <<pc, cur, n>> /\ pc = "idle"
  BY DEF kfree, HDR
<1>2. p \in Live /\ p \in Ptrs /\ p \in Nat /\ b \in blocks /\ b \in Nat /\ b # NULL
  <2>1. p \in Live /\ p \in Ptrs
    BY <1>1 DEF IInv, DoubleFreeIsSeen, HDR, Live
  <2>2. p \in Nat /\ b \in blocks
    BY <2>1, TypeFacts DEF IInv, HeldIsUsed, HDR
  <2>3. QED
    BY <1>1, <2>1, <2>2, CellsAreNat
<1>3. mem \in LooseMem /\ blocks \subseteq Cells /\ Tiled(mem, blocks)
  BY MemIsLoose, TypeFacts DEF IInv, Tiling
<1>4. /\ m0 \in LooseMem /\ m0[b].free
      /\ \A x \in Cells : /\ m0[x].size = mem[x].size /\ m0[x].next = mem[x].next
                         /\ m0[x].prev = mem[x].prev
      /\ \A x \in Cells : x # b => m0[x].free = mem[x].free
  BY <1>3, <1>1 DEF LooseMem, LooseHeader
<1>5. Tiled(m0, blocks)
  BY <1>3, <1>4 DEF Tiled, End
<1>6. /\ \A x \in blocks : mem[x].next # NULL => mem[x].next \in blocks /\ mem[x].next # x
      /\ mem[b].prev # NULL => mem[b].prev \in blocks /\ mem[b].prev # b
                               /\ mem[mem[b].prev].next = b
  <2>1. ASSUME NEW x \in blocks, mem[x].next # NULL
        PROVE mem[x].next \in blocks /\ mem[x].next # x
    <3>1. mem[x].next \in blocks /\ mem[x].next = End(mem, x)
      BY <2>1, <1>3 DEF Tiled
    <3>2. End(mem, x) # x
      BY <1>3, TypeFacts DEF End, HDR, IInv
    <3>3. QED
      BY <3>1, <3>2
  <2>2. mem[b].prev # NULL => mem[b].prev \in blocks /\ mem[mem[b].prev].next = b
    BY <1>2, <1>3 DEF Tiled
  <2>3. QED
    BY <1>2, <2>1, <2>2
<1>7. MergedButAround(m0, blocks, b)
  <2>1. ASSUME NEW x \in blocks, x # b, m0[x].next # b, m0[x].free, m0[x].next # NULL
        PROVE ~ m0[m0[x].next].free
    <3>1. mem[x].free /\ mem[x].next # NULL /\ mem[x].next \in blocks /\ mem[x].next # b
      BY <2>1, <1>3, <1>4, <1>6
    <3>2. ~ mem[mem[x].next].free
      BY <3>1 DEF IInv, Coalesced, Merged
    <3>3. QED
      BY <3>1, <3>2, <1>3, <1>4
  <2>2. QED
    BY <2>1 DEF MergedButAround
<1>8. /\ m1 \in LooseMem /\ Tiled(m1, B1) /\ b \in B1 /\ B1 \in SUBSET Cells
      /\ m1[b].prev = m0[b].prev
      /\ \A x \in Cells : m1[x].free = m0[x].free
      /\ \A x \in Cells : x # b => m1[x].size = m0[x].size
      /\ MergedButBefore(m1, B1, b)
  <2> HIDE DEF m0
  <2>1. QED
    BY <1>2, <1>3, <1>4, <1>5, <1>7, MergeNextMerges
<1>9. /\ mem' \in LooseMem /\ Tiled(mem', B2) /\ Merged(mem', B2)
      /\ \A x \in Cells : mem'[x].free = m1[x].free
      /\ \A x \in Cells : ~ m1[x].free => mem'[x].size = m1[x].size
      /\ \A x \in Cells \ B2 : mem'[x].size = m1[x].size
  <2> HIDE DEF m1, B1, m0
  <2>1. m1[b].free
    BY <1>1, <1>4, <1>8
  <2>2. mem' = MergePrev(m1, b)
    BY <1>1
  <2> DEFINE r == MergePrev(m1, b)
  <2>3. B2 = B1 \ (IF PrevIsFree(m1, b) THEN {b} ELSE {})
    OBVIOUS
  <2> HIDE DEF B2
  <2>4. /\ r \in LooseMem /\ Tiled(r, B2) /\ Merged(r, B2)
        /\ \A x \in Cells : r[x].free = m1[x].free
        /\ \A x \in Cells : ~ m1[x].free => r[x].size = m1[x].size
        /\ \A x \in Cells \ B2 : r[x].size = m1[x].size
    BY <2>1, <2>3, <1>8, MergePrevMerges
  <2>5. r = mem'
    BY <2>2
  <2> HIDE DEF r
  <2>6. QED
    BY <2>4, <2>5
<1>10. blocks' = B2
  <2>1. NextIsFree(m0, b) = NextIsFree(mem, b) /\ m0[b].next = mem[b].next
    BY <1>1, <1>2, <1>3, <1>4, <1>6 DEF NextIsFree
  <2>2. PrevIsFree(m1, b) = PrevIsFree(mem, b)
    <3> HIDE DEF m1, m0
    <3>1. m1[b].prev = mem[b].prev
      BY <1>1, <1>4, <1>8
    <3>2. mem[b].prev # NULL => m1[mem[b].prev].free = mem[mem[b].prev].free
      BY <1>3, <1>4, <1>6, <1>8
    <3>3. QED
      BY <3>1, <3>2 DEF PrevIsFree
  <2>3. QED
    BY <1>1, <2>1, <2>2
<1>11. /\ blocks' \subseteq blocks /\ blocks' \subseteq Cells
       /\ \A x \in Cells : mem'[x].free = (x = b \/ mem[x].free)
       /\ \A x \in Cells : x # b /\ ~ mem[x].free => mem'[x].size = mem[x].size
       /\ \A x \in blocks : x # b /\ ~ mem[x].free => x \in blocks'
  <2>1. blocks' \subseteq blocks /\ blocks' \subseteq Cells
    BY <1>1, <1>3
  <2>2. ASSUME NEW x \in Cells
        PROVE mem'[x].free = (x = b \/ mem[x].free)
    <3> HIDE DEF m1, m0
    <3>1. mem'[x].free = m0[x].free
      BY <1>8, <1>9
    <3>2. mem[x].free \in BOOLEAN
      BY TypeFacts DEF IInv
    <3>3. QED
      BY <3>1, <3>2, <1>4
  <2>3. ASSUME NEW x \in Cells, x # b, ~ mem[x].free
        PROVE mem'[x].size = mem[x].size
    <3> HIDE DEF m1, m0
    <3>1. QED
      BY <2>3, <1>4, <1>8, <1>9
  <2>4. ASSUME NEW x \in blocks, x # b, ~ mem[x].free
        PROVE x \in blocks'
    <3>1. ~ (NextIsFree(mem, b) /\ x = mem[b].next)
      BY <2>4 DEF NextIsFree
    <3>2. QED
      BY <3>1, <2>4, <1>1
  <2>5. QED
    BY <2>1, <2>2, <2>3, <2>4
<1> HIDE DEF m0, m1, B1, B2
<1>12. mem' \in [Cells -> heap_block_t]
  <2>1. \A x \in Cells : mem[x].size <= HeapCells - 1
    BY CellsAreNat DEF IInv, TypeOK, heap_block_t
  <2>2. m1[b].size <= HeapCells - 1
    <3>1. m1[b].size \in 1 .. HeapCells - 1
      BY <1>8, BlocksEndInside
    <3>2. QED
      BY <3>1, CellsAreNat
  <2>3. \A x \in Cells : m1[x].size <= HeapCells - 1
    BY <2>1, <2>2, <1>4, <1>8
  <2>4. \A x \in Cells \ B2 : mem'[x].size <= HeapCells - 1
    BY <2>3, <1>9
  <2>5. B2 \in SUBSET Cells
    BY <1>8 DEF B2
  <2>6. QED
    BY <2>4, <2>5, <1>9, LooseIsTyped
<1>13. QED
  BY <1>1, <1>2, <1>9, <1>10, <1>11, <1>12

LEMMA KfreeIInv ==
  ASSUME IInv, NEW p \in Live \cup freed, kfree(p)
  PROVE  IInv'
<1> DEFINE b == p - 1
<1>1. /\ asked' = [asked EXCEPT ![p] = 0]
      /\ freed' = freed \cup {p}
      /\ UNCHANGED <<pc, cur, n>> /\ pc = "idle" /\ b \in Cells
  BY KfreeChanges
<1>2. p \in Live /\ p \in Ptrs /\ p \in Nat /\ b \in blocks /\ b \in Nat
  BY KfreeChanges
<1>3. mem \in LooseMem /\ blocks \subseteq Cells /\ Tiled(mem, blocks)
  BY MemIsLoose, TypeFacts DEF IInv, Tiling
<1>9. mem' \in [Cells -> heap_block_t] /\ Tiled(mem', blocks') /\ Merged(mem', blocks')
  BY KfreeChanges
<1>11. /\ blocks' \subseteq blocks /\ blocks' \subseteq Cells
       /\ \A x \in Cells : mem'[x].free = (x = b \/ mem[x].free)
       /\ \A x \in Cells : x # b /\ ~ mem[x].free => mem'[x].size = mem[x].size
       /\ \A x \in blocks : x # b /\ ~ mem[x].free => x \in blocks'
  BY KfreeChanges
<1>12. TypeOK'
  BY <1>1, <1>2, <1>9, <1>11 DEF IInv, TypeOK
<1>13. Tiling' /\ Coalesced'
  BY <1>9 DEF Tiling, Coalesced
<1>14. asked'[p] = 0 /\ \A q \in Ptrs : q # p => asked'[q] = asked[q]
  BY <1>1, <1>2 DEF IInv, TypeOK
<1>15. HeldIsUsed'
  <2>1. ASSUME NEW x \in blocks'
        PROVE asked'[x + 1] > 0 <=> ~ mem'[x].free
    <3>1. x \in blocks /\ x \in Cells /\ x \in Nat /\ x + 1 \in Ptrs
      BY <1>11, CellsAreNat DEF Ptrs, Cells
    <3>2. CASE x = b
      <4>1. x + 1 = p
        BY <3>2, <1>2
      <4>2. mem'[x].free
        BY <3>1, <3>2, <1>11
      <4>3. QED
        BY <4>1, <4>2, <1>14
    <3>3. CASE x # b
      <4>1. x + 1 # p
        BY <3>1, <3>3, <1>2
      <4>2. asked[x + 1] > 0 <=> ~ mem[x].free
        BY <3>1 DEF IInv, HeldIsUsed, HDR
      <4>3. mem'[x].free <=> mem[x].free
        BY <3>1, <3>3, <1>11
      <4>4. QED
        BY <3>1, <4>1, <4>2, <4>3, <1>14
    <3>4. QED
      BY <3>2, <3>3
  <2>2. ASSUME NEW q \in Live'
        PROVE q - 1 \in blocks' /\ CellsFor(asked'[q]) <= mem'[q - 1].size
    <3>1. q \in Ptrs /\ asked'[q] > 0 /\ q \in Nat /\ q # p
      BY <1>14, TypeFacts DEF IInv, Live
    <3>2. q \in Live /\ asked'[q] = asked[q] /\ asked[q] > 0
      BY <3>1, <1>14 DEF Live
    <3>3. q - 1 \in blocks /\ q - 1 # b /\ CellsFor(asked[q]) <= mem[q - 1].size
      BY <3>1, <3>2, <1>2 DEF IInv, HeldIsUsed, HDR
    <3>4. ~ mem[q - 1].free /\ q - 1 \in Cells
      BY <3>1, <3>2, <3>3, <1>3 DEF IInv, HeldIsUsed, HDR
    <3>5. QED
      BY <3>2, <3>3, <3>4, <1>11
  <2>3. QED
    BY <2>1, <2>2 DEF HeldIsUsed, HDR
<1>16. DoubleFreeIsSeen'
  <2>1. SUFFICES ASSUME NEW q \in freed'
                 PROVE q - 1 \in Cells /\ mem'[q - 1].free /\ asked'[q] = 0
    BY DEF DoubleFreeIsSeen, HDR
  <2>2. CASE q = p
    BY <2>2, <1>1, <1>11, <1>14
  <2>3. CASE q # p
    <3>1. q \in freed /\ q \in Ptrs /\ q - 1 \in Cells /\ mem[q - 1].free /\ asked[q] = 0
      BY <2>1, <2>3, <1>1 DEF IInv, DoubleFreeIsSeen, HDR, TypeOK
    <3>2. QED
      BY <3>1, <2>3, <1>11, <1>14
  <2>4. QED
    BY <2>2, <2>3
<1>17. FreedIsUnused'
  <2>1. SUFFICES ASSUME NEW q \in freed', NEW x \in blocks', ~ mem'[x].free
                 PROVE q - 1 \notin x .. End(mem', x) - 1
    BY DEF FreedIsUnused, HDR
  <2>2. /\ x \in blocks /\ x \in Cells /\ x \in Nat /\ x # b /\ ~ mem[x].free
        /\ End(mem', x) = End(mem, x) /\ End(mem, x) \in Nat
    <3>1. x \in blocks /\ x \in Cells /\ x \in Nat /\ End(mem, x) \in Nat
      BY <1>11, TypeFacts, CellsAreNat DEF IInv
    <3>2. x # b /\ ~ mem[x].free
      BY <3>1, <2>1, <1>11
    <3>3. QED
      BY <3>1, <3>2, <1>11 DEF End
  <2>3. CASE q = p
    <3>1. x < b => End(mem, x) <= b
      BY <2>2, <1>2, <1>3 DEF Tiled
    <3>2. QED
      BY <3>1, <2>2, <2>3, <1>2
  <2>4. CASE q # p
    BY <2>1, <2>2, <2>4, <1>1 DEF IInv, FreedIsUnused, HDR
  <2>5. QED
    BY <2>3, <2>4
<1>18. PassedOver' /\ OutOfMemoryIsReal'
  BY <1>1 DEF PassedOver, OutOfMemoryIsReal
<1>19. QED
  BY <1>12, <1>13, <1>15, <1>16, <1>17, <1>18 DEF IInv

LEMMA NextIInv == IInv /\ RequestsFitWord /\ [Next]_vars => IInv'
<1> SUFFICES ASSUME IInv, RequestsFitWord, [Next]_vars PROVE IInv'
  OBVIOUS
<1>1. ASSUME NEW b \in Requests, kmalloc(b) PROVE IInv'
  BY <1>1, KmallocCallIInv
<1>2. CASE ScanOn
  BY <1>2, ScanOnIInv
<1>3. CASE ScanFound
  BY <1>3, ScanFoundIInv
<1>4. CASE OutOfMemory
  BY <1>4, OutOfMemoryIInv
<1>5. ASSUME NEW p \in Live \cup freed, kfree(p) PROVE IInv'
  BY <1>5, KfreeIInv
<1>6. ASSUME NEW p \in Live, NEW c \in Cells, NEW g \in Garbage, ClientWrite(p, c, g)
      PROVE IInv'
  BY <1>6, ClientWriteIInv
<1>7. CASE UNCHANGED vars
  BY <1>7 DEF vars, IInv, TypeOK, Tiling, Coalesced, HeldIsUsed, DoubleFreeIsSeen,
              FreedIsUnused, PassedOver, OutOfMemoryIsReal, Live, Tiled, End, Merged
<1>8. QED
  BY <1>1, <1>2, <1>3, <1>4, <1>5, <1>6, <1>7 DEF Next

(* The invariant holds of the specification, for every heap size and every *)
(* set of requests that align_size does not wrap.                          *)
THEOREM HeapInvariant == RequestsFitWord => (Spec => []IInv)
<1>1. SUFFICES ASSUME RequestsFitWord PROVE Spec => []IInv
  OBVIOUS
<1>2. init_heap => IInv
  BY InitIInv
<1>3. IInv /\ [Next]_vars => IInv'
  BY <1>1, NextIInv
<1>4. QED
  BY <1>2, <1>3, PTL DEF Spec

-----------------------------------------------------------------------------
(* What follows from the invariant. *)

(* The headers always tile the heap array, linked both ways and with no    *)
(* two free neighbours (init_heap, kmalloc, kfree).                        *)
THEOREM HeapStaysTiled == RequestsFitWord => (Spec => [](TypeOK /\ Tiling /\ Coalesced))
<1>1. IInv => TypeOK /\ Tiling /\ Coalesced
  BY DEF IInv
<1>2. QED
  BY <1>1, HeapInvariant, PTL

(* Every pointer held names a used block with room for the request.        *)
THEOREM HeldPointersAreGood == RequestsFitWord => (Spec => []HeldIsUsed)
<1>1. IInv => HeldIsUsed
  BY DEF IInv
<1>2. QED
  BY <1>1, HeapInvariant, PTL

(* kfree recognises a pointer given back twice, as long as its header cell *)
(* was not handed out in between.                                          *)
THEOREM DoubleFreesAreSeen == RequestsFitWord => (Spec => []DoubleFreeIsSeen)
<1>1. IInv => DoubleFreeIsSeen
  BY DEF IInv
<1>2. QED
  BY <1>1, HeapInvariant, PTL

(* kmalloc's while(1) is reached only when no free block would do. *)
THEOREM GivingUpIsJustified == RequestsFitWord => (Spec => []OutOfMemoryIsReal)
<1>1. IInv => OutOfMemoryIsReal
  BY DEF IInv
<1>2. QED
  BY <1>1, HeapInvariant, PTL

(* A heap given back entirely is one free block: two blocks would be two   *)
(* free neighbours.                                                        *)
THEOREM NothingIsLost == RequestsFitWord => (Spec => []EmptyHeapIsWhole)
<1>1. ASSUME IInv PROVE EmptyHeapIsWhole
  <2>1. SUFFICES ASSUME Live = {}
                 PROVE blocks = {0} /\ mem[0].size = HeapCells - 1
    BY DEF EmptyHeapIsWhole, HDR
  <2>2. 0 \in blocks /\ blocks \subseteq Cells /\ blocks \subseteq Nat
    BY <1>1, TypeFacts DEF IInv, Tiling, Tiled
  <2>3. \A b \in blocks : mem[b].free
    <3>1. ASSUME NEW b \in blocks PROVE ~ (asked[b + 1] > 0)
      <4>1. b + 1 \in Ptrs
        BY <2>2, CellsAreNat DEF Ptrs, Cells
      <4>2. QED
        BY <2>1, <4>1 DEF Live
    <3>2. QED
      BY <3>1, <1>1 DEF IInv, HeldIsUsed, HDR
  <2>4. mem[0].next = NULL
    <3>1. mem[0].next # NULL => mem[0].next \in blocks /\ ~ mem[mem[0].next].free
      BY <1>1, <2>2, <2>3 DEF IInv, Tiling, Tiled, Coalesced, Merged
    <3>2. QED
      BY <3>1, <2>3
  <2>5. End(mem, 0) = HeapCells /\ mem[0].size = HeapCells - 1
    <3>1. End(mem, 0) = HeapCells /\ mem[0].size \in Nat
      BY <1>1, <2>2, <2>4, TypeFacts DEF IInv, Tiling, Tiled
    <3>2. QED
      BY <3>1, CellsAreNat DEF End, HDR
  <2>6. ASSUME NEW b \in blocks PROVE b = 0
    <3>1. 0 < b => HeapCells <= b
      BY <1>1, <2>2, <2>5 DEF IInv, Tiling, Tiled
    <3>2. b < HeapCells /\ b \in Nat
      BY <2>2, CellsAreNat DEF Cells
    <3>3. QED
      BY <3>1, <3>2, CellsAreNat
  <2>7. QED
    BY <2>2, <2>5, <2>6
<1>2. QED
  BY <1>1, HeapInvariant, PTL

(* What a step of kmalloc that returns does, for the action properties.    *)
LEMMA MallocStep ==
  ASSUME IInv, RequestsFitWord, ScanFound
  PROVE  /\ cur \in blocks /\ cur \in Nat /\ cur + 1 \in Ptrs /\ asked[cur + 1] = 0
         /\ n \in Requests /\ n > 0 /\ n \in Nat /\ CellsFor(n) \in Nat
         /\ cur + 1 + CellsFor(n) <= End(mem, cur)
         /\ asked' = [asked EXCEPT ![cur + 1] = n]
<1>1. cur \in blocks /\ n \in Requests /\ n > 0 /\ asked' = [asked EXCEPT ![cur + 1] = n]
  BY DEF IInv, TypeOK, PassedOver, ScanFound, InLoop, HDR
<1>2. cur \in Cells /\ cur \in Nat /\ mem[cur].size \in Nat /\ n \in Nat
  BY <1>1, TypeFacts DEF IInv
<1>3. cur + 1 \in Ptrs
  BY <1>2, CellsAreNat DEF Ptrs, Cells
<1>4. mem[cur].free /\ align_size(n) = CellsFor(n) /\ CellsFor(n) \in Nat
      /\ mem[cur].size >= CellsFor(n)
  BY <1>1, AlignIsExact DEF ScanFound, Suits
<1>5. asked[cur + 1] = 0
  <2>1. ~ (asked[cur + 1] > 0) /\ asked[cur + 1] \in Nat
    BY <1>1, <1>3, <1>4, TypeFacts DEF IInv, HeldIsUsed, HDR
  <2>2. QED
    BY <2>1
<1>6. QED
  BY <1>1, <1>2, <1>3, <1>4, <1>5 DEF End, HDR

(* kmalloc returns the first block that would do. *)
THEOREM KmallocIsFirstFit == RequestsFitWord => (Spec => FirstFit)
<1> SUFFICES ASSUME RequestsFitWord PROVE Spec => FirstFit
  OBVIOUS
<1>1. ASSUME IInv, [Next]_vars PROVE FirstFitStep
  <2>1. SUFFICES ASSUME NEW p \in Ptrs, asked[p] = 0, asked'[p] > 0, NEW b \in blocks,
                        b < p - 1, mem[b].free
                 PROVE mem[b].size < CellsFor(n)
    BY DEF FirstFitStep, HDR
  <2>2. ScanFound
    <3>1. ASSUME NEW q \in Live \cup freed, kfree(q) PROVE FALSE
      <4>1. asked'[p] = asked[p] \/ asked'[p] = 0
        BY <3>1, <1>1 DEF kfree, IInv, TypeOK
      <4>2. QED
        BY <4>1, <2>1
    <3>2. ~ UNCHANGED asked
      BY <2>1
    <3>3. QED
      BY <1>1, <3>1, <3>2 DEF Next, vars, kmalloc, ScanOn, OutOfMemory, ClientWrite
  <2>3. cur \in Nat /\ asked' = [asked EXCEPT ![cur + 1] = n] /\ pc = "scan"
    BY <1>1, <2>2, MallocStep DEF ScanFound, InLoop
  <2>4. p = cur + 1
    <3>1. p # cur + 1 => asked'[p] = asked[p]
      BY <1>1, <2>3 DEF IInv, TypeOK
    <3>2. QED
      BY <3>1, <2>1
  <2>5. b < cur
    BY <2>1, <2>3, <2>4
  <2>6. QED
    BY <2>1, <2>3, <2>5, <1>1 DEF IInv, PassedOver
<1>2. Spec => []IInv
  BY HeapInvariant
<1>3. QED
  BY <1>1, <1>2, PTL DEF Spec, FirstFit

(* The block list implements the abstract allocator: a kmalloc that        *)
(* returns is a Malloc, a kfree that frees is a Free, all else stutters.   *)
THEOREM HeapImplementsAllocator == RequestsFitWord => (Spec => AllocatorSpec)
<1> SUFFICES ASSUME RequestsFitWord PROVE Spec => AllocatorSpec
  OBVIOUS
<1>1. init_heap => Promise!Init
  BY DEF init_heap, Promise!Init, Ptrs, Promise!Ptrs
<1>2. ASSUME IInv, [Next]_vars PROVE [Promise!Next]_asked
  <2>1. CASE ScanFound
    <3> DEFINE p == cur + 1
    <3>1. /\ cur \in blocks /\ cur \in Nat /\ p \in Ptrs /\ asked[p] = 0
          /\ n \in Requests /\ n > 0 /\ n \in Nat /\ CellsFor(n) \in Nat
          /\ p + CellsFor(n) <= End(mem, cur)
          /\ asked' = [asked EXCEPT ![p] = n]
      BY <1>2, <2>1, MallocStep
    <3>2. End(mem, cur) <= HeapCells /\ End(mem, cur) \in Nat
      BY <1>2, <3>1, MemIsLoose, TypeFacts, BlocksEndInside DEF IInv, Tiling
    <3>3. ASSUME NEW q \in Ptrs, asked[q] > 0
          PROVE q + CellsFor(asked[q]) <= p \/ p + CellsFor(n) <= q
      <4>1. q \in Live /\ q \in Nat /\ asked[q] \in Nat
        BY <3>3, <1>2, TypeFacts DEF Live, IInv
      <4>2. q - 1 \in blocks /\ CellsFor(asked[q]) <= mem[q - 1].size
        BY <4>1, <1>2 DEF IInv, HeldIsUsed, HDR
      <4>3. q - 1 # cur
        BY <3>1, <3>3, <4>1
      <4>a. \A b, c \in blocks : b < c => End(mem, b) <= c
        BY <1>2 DEF IInv, Tiling, Tiled
      <4>4. q - 1 < cur => End(mem, q - 1) <= cur
        BY <3>1, <4>2, <4>a
      <4>5. cur < q - 1 => End(mem, cur) <= q - 1
        BY <3>1, <4>2, <4>a
      <4>6. CellsFor(asked[q]) \in Int /\ mem[q - 1].size \in Nat /\ q - 1 \in Nat
        <5>1. CellsFor(asked[q]) \in Int
          BY <4>1 DEF CellsFor, ALIGNMENT
        <5>2. q - 1 \in Cells /\ q - 1 \in Nat
          BY <1>2, <4>2, TypeFacts DEF IInv
        <5>3. QED
          BY <1>2, <5>1, <5>2, TypeFacts DEF IInv
      <4>7. q - 1 < cur \/ cur < q - 1
        BY <4>3, <4>6, <3>1
      <4>8. /\ p = cur + 1 /\ cur \in Nat /\ CellsFor(n) \in Nat /\ q \in Nat
            /\ p + CellsFor(n) <= End(mem, cur) /\ End(mem, cur) \in Nat
        BY <3>1, <3>2, <4>1
      <4>9. End(mem, q - 1) = q + mem[q - 1].size
        BY <4>1, <4>6 DEF End, HDR
      <4>10. CASE q - 1 < cur
        <5>1. q + mem[q - 1].size <= cur
          BY <4>4, <4>9, <4>10
        <5> HIDE DEF p
        <5>2. QED
          BY <5>1, <4>2, <4>6, <4>8
      <4>11. CASE cur < q - 1
        <5>1. End(mem, cur) <= q - 1
          BY <4>5, <4>11
        <5> HIDE DEF p
        <5>2. p + CellsFor(n) <= q
          BY <5>1, <4>8
        <5>3. QED
          BY <5>2
      <4>12. QED
        BY <4>7, <4>10, <4>11
    <3>4. \A b : CellsFor(b) = Promise!CellsFor(b)
      BY DEF CellsFor, Promise!CellsFor, ALIGNMENT, Promise!ALIGNMENT
    <3>5. p + CellsFor(n) <= HeapCells
      BY <3>1, <3>2, CellsAreNat
    <3>6. Ptrs = Promise!Ptrs
      BY DEF Ptrs, Promise!Ptrs
    <3>7. Promise!Malloc(p, n)
      BY <3>1, <3>3, <3>4, <3>5, <3>6 DEF Promise!Malloc
    <3>8. QED
      BY <3>1, <3>6, <3>7 DEF Promise!Next
  <2>2. ASSUME NEW p \in Live \cup freed, kfree(p) PROVE [Promise!Next]_asked
    <3>1. asked' = [asked EXCEPT ![p] = 0] /\ p \in Ptrs
      BY <2>2, <1>2 DEF kfree, IInv, TypeOK, Live
    <3>2. CASE asked[p] > 0
      BY <3>1, <3>2 DEF Promise!Next, Promise!Free, Promise!Ptrs, Ptrs
    <3>3. CASE ~ (asked[p] > 0)
      <4>1. asked[p] = 0
        BY <3>1, <3>3, <1>2, TypeFacts DEF IInv
      <4>2. asked \in [Ptrs -> Requests \cup {0}]
        BY <1>2 DEF IInv, TypeOK
      <4>3. asked' = asked
        BY <3>1, <4>1, <4>2
      <4>4. QED
        BY <4>3
    <3>4. QED
      BY <3>2, <3>3
  <2>3. CASE UNCHANGED asked
    BY <2>3
  <2>4. QED
    BY <1>2, <2>1, <2>2, <2>3 DEF Next, vars, kmalloc, ScanOn, OutOfMemory, ClientWrite
<1>3. Spec => []IInv
  BY HeapInvariant
<1>4. QED
  BY <1>1, <1>2, <1>3, PTL DEF Spec, AllocatorSpec, Promise!Spec

(* While a pointer is held, its block is neither freed nor resized. *)
THEOREM HeldBlocksAreStable == RequestsFitWord => (Spec => HeldBlockIsStable)
<1> SUFFICES ASSUME RequestsFitWord PROVE Spec => HeldBlockIsStable
  OBVIOUS
<1>1. ASSUME IInv, [Next]_vars PROVE HeldBlockStep
  <2>1. SUFFICES ASSUME NEW p \in Live, asked'[p] > 0
                 PROVE /\ mem'[p - 1].size = mem[p - 1].size
                       /\ mem'[p - 1].free = mem[p - 1].free
    BY DEF HeldBlockStep, HDR
  <2>2. /\ p \in Ptrs /\ p \in Nat /\ p - 1 \in blocks /\ p - 1 \in Cells /\ ~ mem[p - 1].free
        /\ asked[p] > 0
    BY <1>1, TypeFacts DEF Live, IInv, HeldIsUsed, HDR
  <2>3. CASE mem' = mem
    BY <2>3
  <2>4. CASE ScanFound
    <3>1. p - 1 # cur
      BY <1>1, <2>2, <2>4 DEF ScanFound, Suits
    <3>2. QED
      BY <1>1, <2>2, <2>4, <3>1, FoundChanges
  <2>5. ASSUME NEW q \in Live \cup freed, kfree(q)
        PROVE /\ mem'[p - 1].size = mem[p - 1].size
              /\ mem'[p - 1].free = mem[p - 1].free
    <3>a. asked \in [Ptrs -> Requests \cup {0}]
      BY <1>1 DEF IInv, TypeOK
    <3>b. asked' = [asked EXCEPT ![q] = 0]
      BY <2>5 DEF kfree
    <3>1. p # q
      BY <2>1, <2>2, <3>a, <3>b
    <3>2. /\ q \in Nat
          /\ \A x \in Cells : mem'[x].free = (x = q - 1 \/ mem[x].free)
          /\ \A x \in Cells : x # q - 1 /\ ~ mem[x].free => mem'[x].size = mem[x].size
          /\ mem' \in [Cells -> heap_block_t]
      BY <1>1, <2>5, KfreeChanges
    <3>3. p - 1 # q - 1
      BY <2>2, <3>1, <3>2
    <3>4. mem'[p - 1].size = mem[p - 1].size
      BY <2>2, <3>2, <3>3
    <3>5. ~ mem'[p - 1].free
      BY <2>2, <3>2, <3>3
    <3>6. mem[p - 1].free \in BOOLEAN /\ mem'[p - 1].free \in BOOLEAN
      BY <1>1, <2>2, <3>2 DEF IInv, TypeOK, heap_block_t
    <3>7. QED
      BY <2>2, <3>4, <3>5, <3>6
  <2>6. ASSUME NEW q \in Live, NEW c \in Cells, NEW g \in Garbage, ClientWrite(q, c, g)
        PROVE /\ mem'[p - 1].size = mem[p - 1].size
              /\ mem'[p - 1].free = mem[p - 1].free
    <3>1. p - 1 # c
      BY <1>1, <2>2, <2>6, WritesMissHeaders
    <3>2. QED
      BY <2>2, <2>6, <3>1, <1>1 DEF ClientWrite, IInv, TypeOK
  <2>7. QED
    BY <1>1, <2>3, <2>4, <2>5, <2>6 DEF Next, vars, kmalloc, ScanOn, OutOfMemory
<1>2. Spec => []IInv
  BY HeapInvariant
<1>3. QED
  BY <1>1, <1>2, PTL DEF Spec, HeldBlockIsStable
=============================================================================
