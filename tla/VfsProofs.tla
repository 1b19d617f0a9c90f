----------------------------- MODULE VfsProofs -----------------------------
(***************************************************************************)
(* Proofs about Vfs, for every table, heap, disk and set of paths: a node  *)
(* that is held is allocated and has one holder, the nodes that were lost  *)
(* are the known ones, and descriptors behave as module Descriptors says.  *)
(*                                                                         *)
(* The argument: Accounted keeps book of the nodes.  A lookup takes nodes  *)
(* that were free (Found), so what it returns is held by nobody yet; a     *)
(* call loses some of them, gives one of them a holder, or frees what one  *)
(* holder holds (Losing, Binding, Freeing).  No call writes to a node that *)
(* stays allocated (Kept), so all other descriptors name what they named.  *)
(*                                                                         *)
(* A path's walk is a recursive function; that one exists, and what it     *)
(* returns, is shown by induction on the length of the path, from the fact *)
(* that every set of naturals has a least element.                         *)
(***************************************************************************)
EXTENDS Vfs, FiniteSetTheorems, WellFoundedInduction, TLAPS

-----------------------------------------------------------------------------
(* Induction *)

LEMMA Least ==
  ASSUME NEW T, T \subseteq Nat, T # {}
  PROVE  \E x \in T : \A y \in T : x <= y
<1>1. PICK x \in T : \A y \in T : ~ (<<y, x>> \in OpToRel(<, Nat))
  BY NatLessThanWellFounded, WFMin
<1>2. \A y \in T : ~ (y < x)
  BY <1>1 DEF OpToRel
<1>3. QED
  BY <1>2

LEMMA Induct ==
  ASSUME NEW S, 0 \in S, \A n \in Nat : n \in S => n + 1 \in S
  PROVE  Nat \subseteq S
<1>1. SUFFICES ASSUME Nat \ S # {} PROVE FALSE
  OBVIOUS
<1>2. PICK x \in Nat \ S : \A y \in Nat \ S : x <= y
  BY <1>1, Least
<1>3. x # 0 /\ x - 1 \in Nat
  BY <1>2
<1>4. x - 1 \in S
  BY <1>2, <1>3
<1>5. QED
  BY <1>2, <1>3, <1>4

-----------------------------------------------------------------------------
(* Walks *)

AllOn(ws, name) == UNION {WalkOn(w, name) : w \in ws}
AllEntries(ns, name) == UNION {Entries(d, name) : d \in {n \in ns : n.type = "dir"}}

IsWalk(W, path, start, m) ==
  W = [k \in 0 .. m |-> IF k = 0 THEN start ELSE AllOn(W[k - 1], path[k])]
IsSearch(N, path, start, m) ==
  N = [k \in 0 .. m |-> IF k = 0 THEN start ELSE AllEntries(N[k - 1], path[k])]

(* A walk is what its recursive definition says: there is one function     *)
(* that satisfies it on all lengths of a path.                             *)
LEMMA WalksExist ==
  \A path, start : \A m \in Nat :
    \E W : IsWalk(W, path, start, m)
<1> SUFFICES ASSUME NEW path, NEW start, NEW m \in Nat
             PROVE  \E W : IsWalk(W, path, start, m)
  OBVIOUS
<1> USE DEF IsWalk
<1> DEFINE Grows(W, n) == W = [k \in 0 .. n |-> IF k = 0 THEN start ELSE AllOn(W[k - 1], path[k])]
           S == {n \in Nat : \E W : Grows(W, n)}
<1>1. 0 \in S
  <2>1. Grows([k \in 0 .. 0 |-> start], 0)
    OBVIOUS
  <2>2. QED
    BY <2>1
<1>2. ASSUME NEW n \in Nat, n \in S PROVE n + 1 \in S
  <2>1. PICK W : Grows(W, n)
    BY <1>2
  <2> DEFINE V == [k \in 0 .. n + 1 |-> IF k <= n THEN W[k] ELSE AllOn(W[n], path[n + 1])]
  <2>2. ASSUME NEW k \in 0 .. n + 1
        PROVE  V[k] = IF k = 0 THEN start ELSE AllOn(V[k - 1], path[k])
    <3>1. CASE k = 0
      BY <2>1, <3>1
    <3>2. CASE k \in 1 .. n
      <4>1. V[k] = W[k] /\ V[k - 1] = W[k - 1] /\ k # 0 /\ k \in 0 .. n
        BY <3>2
      <4>2. QED
        BY <4>1, <2>1
    <3>3. CASE k = n + 1
      <4>1. V[k] = AllOn(W[n], path[n + 1]) /\ V[k - 1] = W[n] /\ k # 0
        BY <3>3
      <4>2. QED
        BY <4>1, <3>3
    <3>4. QED
      BY <3>1, <3>2, <3>3
  <2>3. Grows(V, n + 1)
    <3> HIDE DEF V
    <3>1. V = [k \in 0 .. n + 1 |-> V[k]]
      BY DEF V
    <3>2. QED
      BY <2>2, <3>1
  <2>4. \E X : Grows(X, n + 1)
    <3> HIDE DEF V, Grows
    <3>1. QED
      BY <2>3
  <2>5. QED
    BY <2>4
<1>3. Nat \subseteq S
  <2> HIDE DEF S
  <2>1. QED
    BY <1>1, <1>2, Induct
<1>4. QED
  BY <1>3

LEMMA WalksDef ==
  ASSUME NEW path \in Seq(STRING)
  PROVE  \E W : /\ W[0] = {[nodes |-> <<>>, at |-> mem[root]]}
                /\ \A k \in 1 .. Len(path) : W[k] = AllOn(W[k - 1], path[k])
                /\ Walks(path) = W[Len(path)]
<1> DEFINE start == {[nodes |-> <<>>, at |-> mem[root]]}
           X == CHOOSE W : IsWalk(W, path, start, Len(path))
<1>0. Len(path) \in Nat
  OBVIOUS
<1>1. \E W : IsWalk(W, path, start, Len(path))
  BY <1>0, WalksExist
<1>2. IsWalk(X, path, start, Len(path))
  BY <1>1
<1>3. Walks(path) = X[Len(path)]
  BY DEF Walks, AllOn, IsWalk
<1>4. X[0] = start /\ \A k \in 1 .. Len(path) : X[k] = AllOn(X[k - 1], path[k])
  <2> HIDE DEF X, start
  <2>1. QED
    BY <1>0, <1>2 DEF IsWalk
<1>5. QED
  BY <1>3, <1>4

LEMMA EntriesExist ==
  \A path, start : \A m \in Nat :
    \E W : IsSearch(W, path, start, m)
<1> SUFFICES ASSUME NEW path, NEW start, NEW m \in Nat
             PROVE  \E W : IsSearch(W, path, start, m)
  OBVIOUS
<1> USE DEF IsSearch
<1> DEFINE Grows(W, n) == W = [k \in 0 .. n |-> IF k = 0 THEN start ELSE AllEntries(W[k - 1], path[k])]
           S == {n \in Nat : \E W : Grows(W, n)}
<1>1. 0 \in S
  <2>1. Grows([k \in 0 .. 0 |-> start], 0)
    OBVIOUS
  <2>2. QED
    BY <2>1
<1>2. ASSUME NEW n \in Nat, n \in S PROVE n + 1 \in S
  <2>1. PICK W : Grows(W, n)
    BY <1>2
  <2> DEFINE V == [k \in 0 .. n + 1 |-> IF k <= n THEN W[k] ELSE AllEntries(W[n], path[n + 1])]
  <2>2. ASSUME NEW k \in 0 .. n + 1
        PROVE  V[k] = IF k = 0 THEN start ELSE AllEntries(V[k - 1], path[k])
    <3>1. CASE k = 0
      BY <2>1, <3>1
    <3>2. CASE k \in 1 .. n
      <4>1. V[k] = W[k] /\ V[k - 1] = W[k - 1] /\ k # 0 /\ k \in 0 .. n
        BY <3>2
      <4>2. QED
        BY <4>1, <2>1
    <3>3. CASE k = n + 1
      <4>1. V[k] = AllEntries(W[n], path[n + 1]) /\ V[k - 1] = W[n] /\ k # 0
        BY <3>3
      <4>2. QED
        BY <4>1, <3>3
    <3>4. QED
      BY <3>1, <3>2, <3>3
  <2>3. Grows(V, n + 1)
    <3> HIDE DEF V
    <3>1. V = [k \in 0 .. n + 1 |-> V[k]]
      BY DEF V
    <3>2. QED
      BY <2>2, <3>1
  <2>4. \E X : Grows(X, n + 1)
    <3> HIDE DEF V, Grows
    <3>1. QED
      BY <2>3
  <2>5. QED
    BY <2>4
<1>3. Nat \subseteq S
  <2> HIDE DEF S
  <2>1. QED
    BY <1>1, <1>2, Induct
<1>4. QED
  BY <1>3

LEMMA NamedDef ==
  ASSUME NEW path \in Seq(STRING)
  PROVE  \E N : /\ N[0] = {NoNode}
                /\ \A k \in 1 .. Len(path) : N[k] = AllEntries(N[k - 1], path[k])
                /\ Named(path) = {n.cluster : n \in N[Len(path)]}
<1> DEFINE start == {NoNode}
           X == CHOOSE W : IsSearch(W, path, start, Len(path))
<1>0. Len(path) \in Nat
  OBVIOUS
<1>1. \E W : IsSearch(W, path, start, Len(path))
  BY <1>0, EntriesExist
<1>2. IsSearch(X, path, start, Len(path))
  BY <1>1
<1>3. Named(path) = {n.cluster : n \in X[Len(path)]}
  BY DEF Named, AllEntries, IsSearch
<1>4. X[0] = start /\ \A k \in 1 .. Len(path) : X[k] = AllEntries(X[k - 1], path[k])
  <2> HIDE DEF X, start
  <2>1. QED
    BY <1>0, <1>2 DEF IsSearch
<1>5. QED
  BY <1>3, <1>4

-----------------------------------------------------------------------------
(* Lookups *)

LEMMA LookupType ==
  ASSUME NEW dir \in Node, NEW name, NEW o \in vfs_lookup(dir, name)
  PROVE  o \in Node \cup {NULL, SPINS}
<1>1. CASE dir.type # "dir" \/ dir.cluster \notin DOMAIN Directory
  BY <1>1 DEF vfs_lookup
<1>2. CASE dir.type = "dir" /\ dir.cluster \in DOMAIN Directory
  <2> DEFINE es   == Directory[dir.cluster]
             hits == {i \in 1 .. Readable[dir.cluster] : es[i].name = name}
             first == CHOOSE i \in hits : \A j \in hits : i <= j
  <2>1. /\ es \in Seq([name : STRING, cluster : Clusters, type : {"file", "dir"}])
        /\ Readable[dir.cluster] \in 0 .. Len(es)
    BY <1>2, VfsAssumption
  <2>2. CASE hits # {}
    <3>1. first \in hits
      <4>1. hits \subseteq Nat
        BY <2>1
      <4>2. \E i \in hits : \A j \in hits : i <= j
        <5> HIDE DEF hits
        <5>1. QED
          BY <2>2, <4>1, Least
      <4>3. QED
        BY <4>2
    <3>2. first \in 1 .. Len(es)
      <4> HIDE DEF first, es
      <4>1. QED
        BY <3>1, <2>1
    <3>3. es[first] \in [name : STRING, cluster : Clusters, type : {"file", "dir"}]
      <4>1. \A T : es \in Seq(T) => es[first] \in T
        <5> HIDE DEF first, es
        <5>1. QED
          BY <3>2
      <4>2. QED
        BY <4>1, <2>1
    <3>4. o = [cluster |-> es[first].cluster, type |-> es[first].type]
      BY <1>2, <2>2 DEF vfs_lookup
    <3>5. QED
      BY <3>3, <3>4 DEF Node
  <2>3. CASE hits = {}
    BY <1>2, <2>3 DEF vfs_lookup
  <2>4. QED
    BY <2>2, <2>3
<1>3. QED
  BY <1>1, <1>2

Walk == [nodes : Seq(Node), at : Node \cup {NULL, SPINS}]

(* Where a walk ends that did not fail is a node it allocated. *)
LEMMA WalkOnType ==
  ASSUME NEW w \in Walk, NEW name, NEW v \in WalkOn(w, name)
  PROVE  /\ v \in Walk
         /\ v.at \notin {NULL, SPINS} => Len(v.nodes) # 0
<1>1. CASE w.at \in {NULL, SPINS}
  BY <1>1 DEF WalkOn
<1>2. CASE w.at \notin {NULL, SPINS}
  <2>1. w.at \in Node /\ w.nodes \in Seq(Node)
    BY <1>2 DEF Walk
  <2>2. PICK o \in vfs_lookup(w.at, name) :
               v = [nodes |-> IF o \in Node THEN Append(w.nodes, o) ELSE w.nodes, at |-> o]
    BY <1>2 DEF WalkOn
  <2>3. o \in Node \cup {NULL, SPINS}
    BY <2>1, <2>2, LookupType
  <2>4. CASE o \in Node
    <3>1. v.nodes = Append(w.nodes, o) /\ v.at = o
      BY <2>2, <2>4
    <3>2. Append(w.nodes, o) \in Seq(Node) /\ Len(Append(w.nodes, o)) = Len(w.nodes) + 1 /\ Len(w.nodes) \in Nat
      BY <2>1, <2>4
    <3>3. v \in Walk
      BY <2>2, <2>4, <3>2 DEF Walk
    <3>4. QED
      BY <3>1, <3>2, <3>3
  <2>5. CASE o \notin Node
    BY <2>1, <2>2, <2>3, <2>5 DEF Walk
  <2>6. QED
    BY <2>4, <2>5
<1>3. QED
  BY <1>1, <1>2

LEMMA WalksType ==
  ASSUME NEW path \in Seq(STRING), path # <<>>, mem[root] \in Node, NEW w \in Walks(path)
  PROVE  /\ w \in Walk
         /\ w.at \notin {NULL, SPINS} => Len(w.nodes) # 0
<1>0. PICK n \in Nat : n = Len(path)
  OBVIOUS
<1>1. PICK W : /\ W[0] = {[nodes |-> <<>>, at |-> mem[root]]}
               /\ \A k \in 1 .. n : W[k] = AllOn(W[k - 1], path[k])
               /\ Walks(path) = W[n]
  BY <1>0, WalksDef
<1> DEFINE Good(v) == v \in Walk /\ (v.at \notin {NULL, SPINS} => Len(v.nodes) # 0)
           S == {k \in Nat : k + 1 <= n => \A v \in W[k + 1] : Good(v)}
<1>2. ASSUME NEW k \in Nat, k + 1 <= n, W[k] \subseteq Walk
      PROVE  \A v \in W[k + 1] : Good(v)
  <2>1. W[k + 1] = AllOn(W[k], path[k + 1])
    <3>1. k + 1 \in 1 .. n /\ (k + 1) - 1 = k
      BY <1>0, <1>2
    <3>2. QED
      BY <1>1, <3>1
  <2>2. SUFFICES ASSUME NEW v \in AllOn(W[k], path[k + 1]) PROVE Good(v)
    BY <2>1
  <2>3. PICK u \in W[k] : v \in WalkOn(u, path[k + 1])
    BY <2>2 DEF AllOn
  <2>4. u \in Walk
    BY <1>2, <2>3
  <2>5. QED
    BY <2>3, <2>4, WalkOnType
<1>3. 0 \in S
  <2>1. W[0] \subseteq Walk
    BY <1>1 DEF Walk
  <2>2. QED
    BY <1>2, <2>1
<1>4. ASSUME NEW k \in Nat, k \in S PROVE k + 1 \in S
  <2>1. SUFFICES ASSUME k + 2 <= n PROVE \A v \in W[k + 2] : Good(v)
    <3>1. (k + 1) + 1 = k + 2
      OBVIOUS
    <3>2. QED
      BY <3>1
  <2>2. k + 1 <= n /\ k + 1 \in Nat /\ (k + 1) + 1 = k + 2
    BY <2>1, <1>0
  <2>3. W[k + 1] \subseteq Walk
    BY <1>4, <2>2
  <2>4. QED
    BY <1>2, <2>1, <2>2, <2>3
<1>5. Nat \subseteq S
  <2> HIDE DEF S
  <2>1. QED
    BY <1>3, <1>4, Induct
<1>6. n # 0
  BY <1>0
<1>7. n - 1 \in Nat /\ (n - 1) + 1 = n
  BY <1>0, <1>6
<1>8. n - 1 \in S
  BY <1>5, <1>7
<1>9. QED
  BY <1>1, <1>7, <1>8

-----------------------------------------------------------------------------
(* What a lookup does to the heap *)

(* A node that was free before, the nodes on its way, and nothing else.    *)
Found(r) ==
  /\ r.node \in {NULL, SPINS} \cup (Slots \ live)
  /\ r.mem \in [Slots -> Node] /\ \A s \in live : r.mem[s] = mem[s]
  /\ \E gone \in SUBSET (Slots \ live) :
       /\ r.node \notin gone /\ r.live = live \cup gone \cup ({r.node} \cap Slots)
       /\ r.lost = Cardinality(gone)

LEMMA PlacedIsFound ==
  ASSUME live \subseteq Slots, mem \in [Slots -> Node], NEW w \in Walk,
         w.at \notin {NULL, SPINS} => Len(w.nodes) # 0, NEW r \in Placed(w)
  PROVE  Found(r)
<1>0. PICK n \in Nat : n = Len(w.nodes)
  BY DEF Walk
<1>1. CASE w.at = SPINS \/ n > Cardinality(Slots \ live)
  <2>1. r = [node |-> SPINS, mem |-> mem, live |-> live, lost |-> 0]
    BY <1>0, <1>1 DEF Placed
  <2>2. Cardinality({}) = 0
    BY FS_EmptySet
  <2>3. QED
    BY <2>1, <2>2, VfsAssumption DEF Found
<1>2. CASE w.at # SPINS /\ ~ (n > Cardinality(Slots \ live)) /\ w.at = NULL
  <2>1. PICK gone \in kSubset(n, Slots \ live) : r = [node |-> NULL, mem |-> mem, live |-> live \cup gone, lost |-> n]
    BY <1>0, <1>2 DEF Placed
  <2>2. gone \in SUBSET (Slots \ live) /\ Cardinality(gone) = n
    BY <2>1 DEF kSubset
  <2>3. NULL \notin Slots
    BY VfsAssumption
  <2>4. QED
    BY <2>1, <2>2, <2>3 DEF Found
<1>3. CASE w.at # SPINS /\ ~ (n > Cardinality(Slots \ live)) /\ w.at # NULL
  <2>1. PICK s \in Slots \ live :
          \E gone \in kSubset(n - 1, (Slots \ live) \ {s}) :
            r = [node |-> s, mem |-> [mem EXCEPT ![s] = w.at], live |-> live \cup gone \cup {s}, lost |-> n - 1]
    BY <1>0, <1>3 DEF Placed
  <2>2. PICK gone \in kSubset(n - 1, (Slots \ live) \ {s}) :
            r = [node |-> s, mem |-> [mem EXCEPT ![s] = w.at], live |-> live \cup gone \cup {s}, lost |-> n - 1]
    BY <2>1
  <2>3. gone \in SUBSET ((Slots \ live) \ {s}) /\ Cardinality(gone) = n - 1
    BY <2>2 DEF kSubset
  <2>4. w.at \in Node
    BY <1>3 DEF Walk
  <2>5. r.mem \in [Slots -> Node] /\ \A t \in live : r.mem[t] = mem[t]
    BY <2>1, <2>2, <2>4
  <2>6. r.node = s /\ r.lost = n - 1 /\ r.live = live \cup gone \cup {s} /\ {s} \cap Slots = {s}
    BY <2>1, <2>2
  <2>7. QED
    BY <2>1, <2>3, <2>5, <2>6 DEF Found
<1>4. QED
  BY <1>1, <1>2, <1>3

LEMMA ResolvedIsFound ==
  ASSUME live \subseteq Slots, mem \in [Slots -> Node], root \in Slots,
         NEW path \in Paths, path # <<>>, NEW r \in vfs_resolve_path(path)
  PROVE  Found(r)
<1>1. CASE ~ mounted
  <2>1. r = [node |-> NULL, mem |-> mem, live |-> live, lost |-> 0]
    BY <1>1 DEF vfs_resolve_path
  <2>2. Cardinality({}) = 0
    BY FS_EmptySet
  <2>3. QED
    BY <2>1, <2>2, VfsAssumption DEF Found
<1>2. CASE mounted
  <2>1. PICK w \in Walks(path) : r \in Placed(w)
    BY <1>2 DEF vfs_resolve_path
  <2>2. path \in Seq(STRING) /\ mem[root] \in Node
    BY VfsAssumption
  <2>3. w \in Walk /\ (w.at \notin {NULL, SPINS} => Len(w.nodes) # 0)
    BY <2>1, <2>2, WalksType
  <2>4. QED
    BY <2>1, <2>3, PlacedIsFound
<1>3. QED
  BY <1>1, <1>2

-----------------------------------------------------------------------------
(* Who holds what *)

RootHolder == <<"root", 0>>
hold == [h \in Holders |-> Held(h)]

(* The nodes that are held are allocated, each by one holder, and all but  *)
(* n of the allocated ones are held.                                       *)
Accounted(f, L, n) ==
  /\ \A h \in Holders : f[h] \in L \cup {NULL}
  /\ \A h, g \in Holders : f[h] = f[g] /\ f[h] # NULL => h = g
  /\ Cardinality(L \ {f[h] : h \in Holders}) = n

Roots == (booted <=> root # NULL) /\ (booted => mem[root] = NoNode)

IInv == TypeOK /\ Roots /\ Accounted(hold, live, lost)

LEMMA Losing ==
  ASSUME NEW f, NEW L \in SUBSET Slots, NEW n \in Nat, Accounted(f, L, n), NEW G \in SUBSET (Slots \ L)
  PROVE  Accounted(f, L \cup G, n + Cardinality(G))
<1> DEFINE Im == {f[h] : h \in Holders}
<1>1. IsFiniteSet(L \ Im) /\ IsFiniteSet(G)
  <2>1. L \ Im \in SUBSET Slots /\ G \in SUBSET Slots
    OBVIOUS
  <2>2. QED
    BY <2>1, VfsAssumption, FS_Subset
<1>2. NULL \notin G
  BY VfsAssumption
<1>3. (L \cup G) \ Im = (L \ Im) \cup G
  BY <1>2 DEF Accounted
<1>4. (L \ Im) \cap G = {}
  OBVIOUS
<1>5. Cardinality((L \ Im) \cup G) = Cardinality(L \ Im) + Cardinality(G)
  <2> HIDE DEF Im
  <2>1. Cardinality((L \ Im) \cap G) = 0
    <3>1. (L \ Im) \cap G = {}
      OBVIOUS
    <3>2. QED
      BY <3>1, FS_EmptySet, Zenon
  <2>2. Cardinality((L \ Im) \cup G) = Cardinality(L \ Im) + Cardinality(G) - Cardinality((L \ Im) \cap G)
    BY <1>1, FS_Union
  <2>3. Cardinality(L \ Im) \in Nat /\ Cardinality(G) \in Nat
    BY <1>1, FS_CardinalityType
  <2>4. QED
    BY <2>1, <2>2, <2>3
<1>6. Cardinality(L \ Im) = n
  BY DEF Accounted
<1>7. Cardinality((L \cup G) \ Im) = n + Cardinality(G)
  BY <1>3, <1>5, <1>6
<1>8. QED
  BY <1>7 DEF Accounted

LEMMA Binding ==
  ASSUME NEW f \in [Holders -> Slots \cup {NULL}], NEW L \in SUBSET Slots, NEW n, Accounted(f, L, n),
         NEW h \in Holders, f[h] = NULL, NEW s \in Slots \ L
  PROVE  Accounted([f EXCEPT ![h] = s], L \cup {s}, n)
<1> DEFINE g == [f EXCEPT ![h] = s]
<1>1. g[h] = s /\ \A k \in Holders : k # h => g[k] = f[k]
  OBVIOUS
<1>2. \A k \in Holders : f[k] \in L \cup {NULL}
  BY DEF Accounted
<1>3. s # NULL
  BY VfsAssumption
<1> HIDE DEF g
<1>4. (L \cup {s}) \ {g[k] : k \in Holders} = L \ {f[k] : k \in Holders}
  <2>1. ASSUME NEW x \in L PROVE x \in {g[k] : k \in Holders} <=> x \in {f[k] : k \in Holders}
    <3>1. x # s /\ x # NULL
      BY VfsAssumption
    <3>2. \A k \in Holders : x = g[k] <=> x = f[k]
      BY <1>1, <3>1
    <3>3. QED
      BY <3>2
  <2>2. s \in {g[k] : k \in Holders}
    BY <1>1
  <2>3. QED
    BY <2>1, <2>2
<1>5. \A k, j \in Holders : g[k] = g[j] /\ g[k] # NULL => k = j
  BY <1>1, <1>2, <1>3 DEF Accounted
<1>6. QED
  BY <1>1, <1>2, <1>4, <1>5 DEF Accounted, g

LEMMA Freeing ==
  ASSUME NEW f \in [Holders -> Slots \cup {NULL}], NEW L \in SUBSET Slots, NEW n, Accounted(f, L, n),
         NEW h \in Holders, f[h] # NULL
  PROVE  Accounted([f EXCEPT ![h] = NULL], L \ {f[h]}, n)
<1> DEFINE g == [f EXCEPT ![h] = NULL]
<1>1. g[h] = NULL /\ \A k \in Holders : k # h => g[k] = f[k]
  OBVIOUS
<1>2. \A k \in Holders : k # h => f[k] # f[h]
  BY DEF Accounted
<1> HIDE DEF g
<1>3. (L \ {f[h]}) \ {g[k] : k \in Holders} = L \ {f[k] : k \in Holders}
  <2>1. ASSUME NEW x \in L, x # f[h] PROVE x \in {g[k] : k \in Holders} <=> x \in {f[k] : k \in Holders}
    <3>1. x # NULL
      BY VfsAssumption
    <3>2. \A k \in Holders : x = g[k] <=> x = f[k]
      BY <1>1, <2>1, <3>1
    <3>3. QED
      BY <3>2
  <2>2. f[h] \in {f[k] : k \in Holders}
    OBVIOUS
  <2>3. QED
    BY <2>1, <2>2
<1>4. \A k, j \in Holders : g[k] = g[j] /\ g[k] # NULL => k = j
  BY <1>1 DEF Accounted
<1>5. \A k \in Holders : g[k] \in (L \ {f[h]}) \cup {NULL}
  BY <1>1, <1>2 DEF Accounted
<1>6. QED
  BY <1>3, <1>4, <1>5 DEF Accounted, g

LEMMA HeldOf ==
  /\ Held(RootHolder) = root
  /\ \A k : Held(<<"fd", k>>) = fd_table[k].node
  /\ \A k : Held(<<"dir", k>>) = dirs[k].node
BY DEF Held, RootHolder

LEMMA HoldersAre ==
  /\ RootHolder \in Holders
  /\ \A k \in Fds : <<"fd", k>> \in Holders
  /\ \A k \in Streams : <<"dir", k>> \in Holders
  /\ \A h \in Holders : \/ h = RootHolder
                        \/ \E k \in Fds : h = <<"fd", k>>
                        \/ \E k \in Streams : h = <<"dir", k>>
BY DEF Holders, RootHolder

LEMMA HoldType ==
  ASSUME TypeOK PROVE hold \in [Holders -> Slots \cup {NULL}]
<1>1. ASSUME NEW h \in Holders PROVE Held(h) \in Slots \cup {NULL}
  <2>1. CASE h = RootHolder
    BY <2>1, HeldOf DEF TypeOK
  <2>2. ASSUME NEW k \in Fds, h = <<"fd", k>> PROVE Held(h) \in Slots \cup {NULL}
    BY <2>2, HeldOf DEF TypeOK
  <2>3. ASSUME NEW k \in Streams, h = <<"dir", k>> PROVE Held(h) \in Slots \cup {NULL}
    BY <2>3, HeldOf DEF TypeOK
  <2>4. QED
    BY <2>1, <2>2, <2>3, HoldersAre
<1>2. QED
  BY <1>1 DEF hold

LEMMA RootBound ==
  ASSUME fd_table' = fd_table, dirs' = dirs
  PROVE  hold' = [hold EXCEPT ![RootHolder] = root']
<1>1. ASSUME NEW h \in Holders PROVE Held(h)' = IF h = RootHolder THEN root' ELSE Held(h)
  <2>1. CASE h = RootHolder
    BY <2>1 DEF Held, RootHolder
  <2>2. CASE h # RootHolder
    BY <2>2 DEF Held, RootHolder, Holders
  <2>3. QED
    BY <2>1, <2>2
<1>2. QED
  BY <1>1, HoldersAre DEF hold

LEMMA FdBound ==
  ASSUME root' = root, dirs' = dirs, NEW fd \in Fds, NEW x,
         \A k \in Fds : fd_table'[k].node = IF k = fd THEN x ELSE fd_table[k].node
  PROVE  hold' = [hold EXCEPT ![<<"fd", fd>>] = x]
<1>1. ASSUME NEW h \in Holders PROVE Held(h)' = IF h = <<"fd", fd>> THEN x ELSE Held(h)
  <2>1. CASE h = RootHolder
    BY <2>1 DEF Held, RootHolder
  <2>2. ASSUME NEW k \in Fds, h = <<"fd", k>> PROVE Held(h)' = IF h = <<"fd", fd>> THEN x ELSE Held(h)
    BY <2>2 DEF Held
  <2>3. ASSUME NEW k \in Streams, h = <<"dir", k>> PROVE Held(h)' = IF h = <<"fd", fd>> THEN x ELSE Held(h)
    BY <2>3 DEF Held
  <2>4. QED
    BY <2>1, <2>2, <2>3, HoldersAre
<1>2. QED
  BY <1>1, HoldersAre DEF hold

LEMMA DirBound ==
  ASSUME root' = root, fd_table' = fd_table, NEW d \in Streams, NEW x,
         \A k \in Streams : dirs'[k].node = IF k = d THEN x ELSE dirs[k].node
  PROVE  hold' = [hold EXCEPT ![<<"dir", d>>] = x]
<1>1. ASSUME NEW h \in Holders PROVE Held(h)' = IF h = <<"dir", d>> THEN x ELSE Held(h)
  <2>1. CASE h = RootHolder
    BY <2>1 DEF Held, RootHolder
  <2>2. ASSUME NEW k \in Fds, h = <<"fd", k>> PROVE Held(h)' = IF h = <<"dir", d>> THEN x ELSE Held(h)
    BY <2>2 DEF Held
  <2>3. ASSUME NEW k \in Streams, h = <<"dir", k>> PROVE Held(h)' = IF h = <<"dir", d>> THEN x ELSE Held(h)
    BY <2>3 DEF Held
  <2>4. QED
    BY <2>1, <2>2, <2>3, HoldersAre
<1>2. QED
  BY <1>1, HoldersAre DEF hold

LEMMA NoneBound ==
  ASSUME root' = root, \A k \in Fds : fd_table'[k].node = fd_table[k].node,
         \A k \in Streams : dirs'[k].node = dirs[k].node
  PROVE  hold' = hold
<1>1. ASSUME NEW h \in Holders PROVE Held(h)' = Held(h)
  BY HoldersAre DEF Held, RootHolder
<1>2. QED
  BY <1>1 DEF hold

-----------------------------------------------------------------------------
(* Steps *)

(* What is allocated before and after a step is not written to by it. *)
Kept == \A s \in live : s \in live' => mem'[s] = mem[s]

LEMMA NoNodeIsNode == NoNode \in Node
BY VfsAssumption DEF NoNode, Node

LEMMA ScrubType ==
  ASSUME NEW m \in [Slots -> Node], NEW freed
  PROVE  /\ Scrub(m, freed) \in [Slots -> Node]
         /\ \A s \in Slots : s \notin freed => Scrub(m, freed)[s] = m[s]
BY NoNodeIsNode DEF Scrub

(* The heap after a lookup. *)
LEMMA HeapStep ==
  ASSUME TypeOK, NEW r, Found(r), NEW freed \in {{}, {r.node}}, NEW more \in Nat, Heap(r, freed, more)
  PROVE  /\ mem' \in [Slots -> Node] /\ live' \subseteq Slots /\ lost' \in Nat /\ hung' = hung
         /\ Kept /\ live \subseteq live'
         /\ \A s \in Slots : s \notin freed => mem'[s] = r.mem[s]
         /\ \E gone \in SUBSET (Slots \ live) :
              /\ r.node \notin gone /\ live' = live \cup gone \cup (({r.node} \cap Slots) \ freed)
              /\ lost' = lost + Cardinality(gone) + more
<1>1. PICK gone \in SUBSET (Slots \ live) :
       /\ r.node \notin gone /\ r.live = live \cup gone \cup ({r.node} \cap Slots)
       /\ r.lost = Cardinality(gone)
  BY DEF Found
<1>2. r.mem \in [Slots -> Node] /\ \A s \in live : r.mem[s] = mem[s]
  BY DEF Found
<1>3. r.node \notin live
  BY VfsAssumption DEF Found, TypeOK
<1>4. live' = live \cup gone \cup (({r.node} \cap Slots) \ freed)
  BY <1>1, <1>3 DEF Heap
<1>5. Cardinality(gone) \in Nat
  <2>1. IsFiniteSet(gone)
    BY VfsAssumption, FS_Subset
  <2>2. QED
    BY <2>1, FS_CardinalityType
<1>6. lost' = lost + Cardinality(gone) + more /\ lost' \in Nat /\ hung' = hung
  BY <1>1, <1>5 DEF Heap, TypeOK
<1>7. /\ mem' \in [Slots -> Node]
      /\ \A s \in Slots : s \notin freed => mem'[s] = r.mem[s]
  BY <1>2, ScrubType DEF Heap
<1>8. Kept
  BY <1>2, <1>3, <1>7 DEF Kept, TypeOK
<1>9. live' \subseteq Slots /\ live \subseteq live'
  BY <1>4 DEF TypeOK
<1>10. QED
  BY <1>1, <1>4, <1>6, <1>7, <1>8, <1>9

(* A lookup whose node is not kept: what was lost on the way, and the node *)
(* itself when it is forgotten.                                            *)
LEMMA NotKept ==
  ASSUME TypeOK, Accounted(hold, live, lost), NEW r, Found(r), hold' = hold,
         \/ Heap(r, {r.node}, 0)
         \/ r.node \notin Slots /\ Heap(r, {}, 0)
         \/ r.node \in Slots /\ Heap(r, {}, 1)
  PROVE  Accounted(hold, live, lost)'
<1>0. live \in SUBSET Slots /\ lost \in Nat
  BY DEF TypeOK
<1>1. CASE Heap(r, {r.node}, 0) \/ (r.node \notin Slots /\ Heap(r, {}, 0))
  <2>1. PICK gone \in SUBSET (Slots \ live) : live' = live \cup gone /\ lost' = lost + Cardinality(gone) + 0
    <3>1. CASE Heap(r, {r.node}, 0)
      <4>1. PICK gone \in SUBSET (Slots \ live) :
              /\ r.node \notin gone /\ live' = live \cup gone \cup (({r.node} \cap Slots) \ {r.node})
              /\ lost' = lost + Cardinality(gone) + 0
        BY <3>1, HeapStep
      <4>2. live \cup gone \cup (({r.node} \cap Slots) \ {r.node}) = live \cup gone
        OBVIOUS
      <4>3. QED
        BY <4>1, <4>2
    <3>2. CASE r.node \notin Slots /\ Heap(r, {}, 0)
      <4>1. PICK gone \in SUBSET (Slots \ live) :
              /\ r.node \notin gone /\ live' = live \cup gone \cup (({r.node} \cap Slots) \ {})
              /\ lost' = lost + Cardinality(gone) + 0
        BY <3>2, HeapStep
      <4>2. live \cup gone \cup (({r.node} \cap Slots) \ {}) = live \cup gone
        BY <3>2
      <4>3. QED
        BY <4>1, <4>2
    <3>3. QED
      BY <1>1, <3>1, <3>2
  <2>2. Accounted(hold, live \cup gone, lost + Cardinality(gone))
    BY <1>0, Losing
  <2>3. IsFiniteSet(gone)
    BY VfsAssumption, FS_Subset
  <2>4. lost' = lost + Cardinality(gone)
    BY <1>0, <2>1, <2>3, FS_CardinalityType
  <2>5. QED
    BY <2>1, <2>2, <2>4
<1>2. CASE r.node \in Slots /\ Heap(r, {}, 1)
  <2>1. PICK gone \in SUBSET (Slots \ live) :
          r.node \notin gone /\ live' = live \cup (gone \cup {r.node}) /\ lost' = lost + Cardinality(gone) + 1
    <3>1. PICK gone \in SUBSET (Slots \ live) :
            /\ r.node \notin gone /\ live' = live \cup gone \cup (({r.node} \cap Slots) \ {})
            /\ lost' = lost + Cardinality(gone) + 1
      BY <1>2, HeapStep
    <3>2. ({r.node} \cap Slots) \ {} = {r.node}
      BY <1>2
    <3>3. QED
      BY <3>1, <3>2
  <2>2. IsFiniteSet(gone)
    BY VfsAssumption, FS_Subset
  <2>3. Cardinality(gone) \in Nat /\ Cardinality(gone \cup {r.node}) = Cardinality(gone) + 1
    BY <2>1, <2>2, FS_CardinalityType, FS_AddElement
  <2>4. gone \cup {r.node} \in SUBSET (Slots \ live)
    BY <1>2, VfsAssumption DEF Found
  <2>5. Accounted(hold, live \cup (gone \cup {r.node}), lost + Cardinality(gone \cup {r.node}))
    BY <1>0, <2>4, Losing
  <2>6. lost' = lost + Cardinality(gone \cup {r.node})
    BY <1>0, <2>1, <2>3
  <2>7. QED
    BY <2>1, <2>5, <2>6
<1>3. QED
  BY <1>1, <1>2

(* A lookup whose node gets a holder. *)
LEMMA NowHeld ==
  ASSUME TypeOK, Accounted(hold, live, lost), NEW r, Found(r), r.node \in Slots, Heap(r, {}, 0),
         NEW h \in Holders, hold[h] = NULL, hold' = [hold EXCEPT ![h] = r.node]
  PROVE  Accounted(hold, live, lost)'
<1>0. live \in SUBSET Slots /\ lost \in Nat
  BY DEF TypeOK
<1>1. PICK gone \in SUBSET (Slots \ live) :
        r.node \notin gone /\ live' = (live \cup gone) \cup {r.node} /\ lost' = lost + Cardinality(gone) + 0
  <2>1. PICK gone \in SUBSET (Slots \ live) :
          /\ r.node \notin gone /\ live' = live \cup gone \cup (({r.node} \cap Slots) \ {})
          /\ lost' = lost + Cardinality(gone) + 0
    BY HeapStep
  <2>2. ({r.node} \cap Slots) \ {} = {r.node}
    OBVIOUS
  <2>3. QED
    BY <2>1, <2>2
<1>2. IsFiniteSet(gone)
  BY VfsAssumption, FS_Subset
<1>3. lost' = lost + Cardinality(gone)
  BY <1>0, <1>1, <1>2, FS_CardinalityType
<1>4. Accounted(hold, live \cup gone, lost + Cardinality(gone))
  BY <1>0, Losing
<1>5. r.node \in Slots \ (live \cup gone)
  BY <1>1, VfsAssumption DEF Found
<1>6. live \cup gone \in SUBSET Slots
  BY <1>0
<1>7. Accounted([hold EXCEPT ![h] = r.node], (live \cup gone) \cup {r.node}, lost + Cardinality(gone))
  <2>1. hold \in [Holders -> Slots \cup {NULL}]
    BY HoldType
  <2>2. QED
    BY <1>4, <1>5, <1>6, <2>1, Binding
<1>8. QED
  BY <1>1, <1>3, <1>7

-----------------------------------------------------------------------------
(* Each call *)

(* The part of the invariant that each call has to show for itself. *)
Sound == TypeOK' /\ Accounted(hold, live, lost)' /\ Kept

LEMMA RootsStay ==
  ASSUME TypeOK, Roots, booted, Accounted(hold, live, lost), Sound, root' = root, booted' = booted
  PROVE  Roots'
<1>1. root \in live
  BY HoldersAre, HeldOf DEF hold, Accounted, Roots
<1>2. root' \in live'
  <2>1. hold[RootHolder]' = root'
    BY HoldersAre DEF hold, Held, RootHolder
  <2>2. RootHolder \in Holders /\ root' # NULL
    BY HoldersAre DEF Roots
  <2>3. hold[RootHolder]' \in live' \cup {NULL}
    BY <2>2 DEF Sound, Accounted
  <2>4. QED
    BY <2>1, <2>2, <2>3
<1>3. mem'[root] = mem[root]
  BY <1>1, <1>2 DEF Sound, Kept
<1>4. QED
  BY <1>3 DEF Roots

LEMMA FirstIsUnused ==
  ASSUME Unused # {}
  PROVE  FirstUnused \in Unused /\ \A k \in Unused : FirstUnused <= k
<1>1. Unused \subseteq Nat
  BY VfsAssumption DEF Unused, Fds
<1>2. \E x \in Unused : \A y \in Unused : x <= y
  BY <1>1, Least
<1>3. QED
  BY <1>2 DEF FirstUnused

LEMMA OpenSound ==
  ASSUME IInv, NEW path \in Paths, path # <<>>, NEW flags, vfs_open(path, flags)
  PROVE  Sound
<1>0. TypeOK /\ Accounted(hold, live, lost) /\ root \in Slots
  BY DEF IInv, Roots, vfs_open, Ready, TypeOK
<1>1. PICK r \in vfs_resolve_path(path) :
       \/ Hangs(r)
       \/ r.node = NULL /\ Heap(r, {}, 0) /\ ret' = ENOENT /\ UNCHANGED <<fd_table, dirs>>
       \/ /\ r.node \in Slots /\ UNCHANGED dirs
          /\ IF flags = "O_WRONLY"
             THEN Heap(r, {}, IF r.node = root THEN 0 ELSE 1) /\ ret' = EACCES /\ UNCHANGED fd_table
             ELSE IF Unused = {} THEN NoDescriptor(r)
             ELSE /\ fd_table' = [fd_table EXCEPT ![FirstUnused] = [node |-> r.node, offset |-> 0]]
                  /\ ret' = FirstUnused
                  /\ Heap(r, {}, 0)
  BY DEF vfs_open
<1>2. Found(r)
  BY <1>0, ResolvedIsFound DEF TypeOK
<1>3. UNCHANGED <<booted, mounted, root>>
  BY DEF vfs_open
<1>4. CASE Hangs(r)
  <2>1. hold' = hold
    BY <1>3, <1>4, NoneBound DEF Hangs
  <2>2. TypeOK' /\ Kept
    BY <1>0, <1>3, <1>4 DEF TypeOK, Kept, Hangs, heap
  <2>3. Accounted(hold, live, lost)'
    BY <1>0, <1>4, <2>1 DEF Accounted, Hangs, heap
  <2>4. QED
    BY <2>2, <2>3 DEF Sound
<1>5. CASE r.node = NULL /\ Heap(r, {}, 0) /\ ret' = ENOENT /\ UNCHANGED <<fd_table, dirs>>
  <2>1. hold' = hold
    BY <1>3, <1>5, NoneBound
  <2>2. r.node \notin Slots
    BY <1>5, VfsAssumption
  <2>3. Accounted(hold, live, lost)'
    BY <1>0, <1>2, <1>5, <2>1, <2>2, NotKept
  <2>4. mem' \in [Slots -> Node] /\ live' \subseteq Slots /\ lost' \in Nat /\ hung' = hung /\ Kept
    BY <1>0, <1>2, <1>5, HeapStep
  <2>5. TypeOK'
    BY <1>0, <1>3, <1>5, <2>4 DEF TypeOK, ENOENT
  <2>6. QED
    BY <2>3, <2>4, <2>5 DEF Sound
<1>6. CASE /\ r.node \in Slots /\ UNCHANGED dirs
           /\ flags = "O_WRONLY"
           /\ Heap(r, {}, IF r.node = root THEN 0 ELSE 1) /\ ret' = EACCES /\ UNCHANGED fd_table
  <2>1. hold' = hold
    BY <1>3, <1>6, NoneBound
  <2>2. r.node # root
    <3>1. root \in live
      BY HoldersAre, HeldOf, VfsAssumption, <1>0 DEF hold, Accounted
    <3>2. QED
      BY <1>2, <1>6, <3>1, VfsAssumption DEF Found
  <2>3. Heap(r, {}, 1)
    BY <1>6, <2>2
  <2>4. Accounted(hold, live, lost)'
    BY <1>0, <1>2, <1>6, <2>1, <2>3, NotKept
  <2>5. mem' \in [Slots -> Node] /\ live' \subseteq Slots /\ lost' \in Nat /\ hung' = hung /\ Kept
    BY <1>0, <1>2, <2>3, HeapStep
  <2>6. TypeOK'
    BY <1>0, <1>3, <1>6, <2>5 DEF TypeOK, EACCES
  <2>7. QED
    BY <2>4, <2>5, <2>6 DEF Sound
<1>7. CASE r.node \in Slots /\ UNCHANGED dirs /\ NoDescriptor(r)
  <2>1. hold' = hold
    BY <1>3, <1>7, NoneBound DEF NoDescriptor
  <2>2. Heap(r, {r.node}, 0)
    BY <1>7 DEF NoDescriptor
  <2>3. Accounted(hold, live, lost)'
    BY <1>0, <1>2, <2>1, <2>2, NotKept
  <2>4. mem' \in [Slots -> Node] /\ live' \subseteq Slots /\ lost' \in Nat /\ hung' = hung /\ Kept
    BY <1>0, <1>2, <2>2, HeapStep
  <2>5. TypeOK'
    BY <1>0, <1>3, <1>7, <2>4 DEF TypeOK, EMFILE, NoDescriptor
  <2>6. QED
    BY <2>3, <2>4, <2>5 DEF Sound
<1>8. CASE /\ r.node \in Slots /\ UNCHANGED dirs /\ Unused # {}
           /\ fd_table' = [fd_table EXCEPT ![FirstUnused] = [node |-> r.node, offset |-> 0]]
           /\ ret' = FirstUnused
           /\ Heap(r, {}, 0)
  <2>0. PICK fd \in Unused : fd = FirstUnused
    BY <1>8, FirstIsUnused
  <2>1. fd \in Fds /\ fd_table[fd].node = NULL /\ fd \in Int
    BY <2>0, VfsAssumption DEF Unused, Fds
  <2>2. fd_table' = [fd_table EXCEPT ![fd] = [node |-> r.node, offset |-> 0]] /\ ret' = fd
    BY <1>8, <2>0
  <2>3. \A k \in Fds : fd_table'[k].node = IF k = fd THEN r.node ELSE fd_table[k].node
    BY <1>0, <2>1, <2>2 DEF TypeOK
  <2>4. hold' = [hold EXCEPT ![<<"fd", fd>>] = r.node]
    BY <1>3, <1>8, <2>1, <2>3, FdBound
  <2>5. <<"fd", fd>> \in Holders /\ hold[<<"fd", fd>>] = NULL
    BY <2>1, HoldersAre, HeldOf DEF hold
  <2>6. Accounted(hold, live, lost)'
    BY <1>0, <1>2, <1>8, <2>4, <2>5, NowHeld
  <2>7. mem' \in [Slots -> Node] /\ live' \subseteq Slots /\ lost' \in Nat /\ hung' = hung /\ Kept
    BY <1>0, <1>2, <1>8, HeapStep
  <2>8. fd_table' \in [Fds -> [node : Slots \cup {NULL}, offset : 0 .. MaxOffset]]
    <3>1. [node |-> r.node, offset |-> 0] \in [node : Slots \cup {NULL}, offset : 0 .. MaxOffset]
      BY <1>8, VfsAssumption
    <3>2. QED
      BY <1>0, <2>2, <3>1 DEF TypeOK
  <2>9. TypeOK'
    BY <1>0, <1>3, <1>8, <2>1, <2>2, <2>7, <2>8 DEF TypeOK
  <2>10. QED
    BY <2>6, <2>7, <2>9 DEF Sound
<1>9. QED
  BY <1>1, <1>4, <1>5, <1>6, <1>7, <1>8

LEMMA PathCallSound ==
  ASSUME IInv, NEW path \in Paths, path # <<>>, NEW result \in Int, vfs_path_call(path, result)
  PROVE  Sound
<1>0. TypeOK /\ Accounted(hold, live, lost) /\ root \in Slots
  BY DEF IInv, Roots, vfs_path_call, Ready, TypeOK
<1>1. PICK r \in vfs_resolve_path(path) :
       \/ Hangs(r)
       \/ r.node = NULL /\ Heap(r, {}, 0) /\ ret' = ENOENT /\ UNCHANGED <<fd_table, dirs>>
       \/ r.node \in Slots /\ Heap(r, {r.node}, 0) /\ ret' = result /\ UNCHANGED <<fd_table, dirs>>
  BY DEF vfs_path_call
<1>2. Found(r)
  BY <1>0, ResolvedIsFound DEF TypeOK
<1>3. UNCHANGED <<booted, mounted, root>>
  BY DEF vfs_path_call
<1>4. CASE Hangs(r)
  <2>1. hold' = hold
    BY <1>3, <1>4, NoneBound DEF Hangs
  <2>2. TypeOK' /\ Kept
    BY <1>0, <1>3, <1>4 DEF TypeOK, Kept, Hangs, heap
  <2>3. Accounted(hold, live, lost)'
    BY <1>0, <1>4, <2>1 DEF Accounted, Hangs, heap
  <2>4. QED
    BY <2>2, <2>3 DEF Sound
<1>5. CASE ~ Hangs(r)
  <2>1. UNCHANGED <<fd_table, dirs>> /\ ret' \in Int
    BY <1>1, <1>5 DEF ENOENT
  <2>2. hold' = hold
    BY <1>3, <2>1, NoneBound
  <2>3. \/ r.node \notin Slots /\ Heap(r, {}, 0)
        \/ Heap(r, {r.node}, 0)
    BY <1>1, <1>5, VfsAssumption
  <2>4. Accounted(hold, live, lost)'
    BY <1>0, <1>2, <2>2, <2>3, NotKept
  <2>5. mem' \in [Slots -> Node] /\ live' \subseteq Slots /\ lost' \in Nat /\ hung' = hung /\ Kept
    BY <1>0, <1>2, <2>3, HeapStep
  <2>6. TypeOK'
    BY <1>0, <1>3, <2>1, <2>5 DEF TypeOK
  <2>7. QED
    BY <2>4, <2>5, <2>6 DEF Sound
<1>6. QED
  BY <1>4, <1>5

LEMMA OpendirSound ==
  ASSUME IInv, NEW path \in Paths, path # <<>>, NEW d \in Streams, vfs_opendir(path, d)
  PROVE  Sound
<1>0. TypeOK /\ Accounted(hold, live, lost) /\ root \in Slots
  BY DEF IInv, Roots, vfs_opendir, Ready, TypeOK
<1>1. PICK r \in vfs_resolve_path(path) :
       \/ Hangs(r)
       \/ /\ r.node \in Slots /\ r.mem[r.node].type = "dir"
          /\ dirs' = [dirs EXCEPT ![d] = [node |-> r.node, index |-> 0]]
          /\ Heap(r, {}, 0) /\ UNCHANGED <<fd_table, ret>>
       \/ /\ r.node = NULL \/ (r.node \in Slots /\ r.mem[r.node].type # "dir")
          /\ Heap(r, {r.node}, 0) /\ UNCHANGED <<fd_table, dirs, ret>>
  BY DEF vfs_opendir
<1>2. Found(r)
  BY <1>0, ResolvedIsFound DEF TypeOK
<1>3. UNCHANGED <<booted, mounted, root>> /\ dirs[d].node = NULL
  BY DEF vfs_opendir
<1>4. CASE Hangs(r)
  <2>1. hold' = hold
    BY <1>3, <1>4, NoneBound DEF Hangs
  <2>2. TypeOK' /\ Kept
    BY <1>0, <1>3, <1>4 DEF TypeOK, Kept, Hangs, heap
  <2>3. Accounted(hold, live, lost)'
    BY <1>0, <1>4, <2>1 DEF Accounted, Hangs, heap
  <2>4. QED
    BY <2>2, <2>3 DEF Sound
<1>5. CASE Heap(r, {r.node}, 0) /\ UNCHANGED <<fd_table, dirs, ret>>
  <2>1. hold' = hold
    BY <1>3, <1>5, NoneBound
  <2>2. Accounted(hold, live, lost)'
    BY <1>0, <1>2, <1>5, <2>1, NotKept
  <2>3. mem' \in [Slots -> Node] /\ live' \subseteq Slots /\ lost' \in Nat /\ hung' = hung /\ Kept
    BY <1>0, <1>2, <1>5, HeapStep
  <2>4. TypeOK'
    BY <1>0, <1>3, <1>5, <2>3 DEF TypeOK
  <2>5. QED
    BY <2>2, <2>3, <2>4 DEF Sound
<1>6. CASE /\ r.node \in Slots
           /\ dirs' = [dirs EXCEPT ![d] = [node |-> r.node, index |-> 0]]
           /\ Heap(r, {}, 0) /\ UNCHANGED <<fd_table, ret>>
  <2>1. \A k \in Streams : dirs'[k].node = IF k = d THEN r.node ELSE dirs[k].node
    BY <1>0, <1>6 DEF TypeOK
  <2>2. hold' = [hold EXCEPT ![<<"dir", d>>] = r.node]
    BY <1>3, <1>6, <2>1, DirBound
  <2>3. <<"dir", d>> \in Holders /\ hold[<<"dir", d>>] = NULL
    BY <1>3, HoldersAre, HeldOf DEF hold
  <2>4. Accounted(hold, live, lost)'
    BY <1>0, <1>2, <1>6, <2>2, <2>3, NowHeld
  <2>5. mem' \in [Slots -> Node] /\ live' \subseteq Slots /\ lost' \in Nat /\ hung' = hung /\ Kept
    BY <1>0, <1>2, <1>6, HeapStep
  <2>6. dirs' \in [Streams -> [node : Slots \cup {NULL}, index : Nat]]
    <3>1. [node |-> r.node, index |-> 0] \in [node : Slots \cup {NULL}, index : Nat]
      BY <1>6
    <3>2. QED
      BY <1>0, <1>6, <3>1 DEF TypeOK
  <2>7. TypeOK'
    BY <1>0, <1>3, <1>6, <2>5, <2>6 DEF TypeOK
  <2>8. QED
    BY <2>4, <2>5, <2>7 DEF Sound
<1>7. QED
  BY <1>1, <1>4, <1>5, <1>6

(* Freeing what one holder holds. *)
LEMMA NowFree ==
  ASSUME TypeOK, Accounted(hold, live, lost), NEW h \in Holders, NEW s \in Slots, hold[h] = s,
         hold' = [hold EXCEPT ![h] = NULL], live' = live \ {s}, mem' = Scrub(mem, {s}), lost' = lost
  PROVE  Accounted(hold, live, lost)' /\ Kept /\ mem' \in [Slots -> Node] /\ live' \subseteq Slots
<1>1. hold \in [Holders -> Slots \cup {NULL}] /\ live \in SUBSET Slots
  BY HoldType DEF TypeOK
<1>2. hold[h] # NULL
  BY VfsAssumption
<1>3. Accounted([hold EXCEPT ![h] = NULL], live \ {hold[h]}, lost)
  BY <1>1, <1>2, Freeing
<1>4. mem \in [Slots -> Node]
  BY DEF TypeOK
<1>5. mem' \in [Slots -> Node] /\ \A t \in Slots : t # s => mem'[t] = mem[t]
  BY <1>4, ScrubType
<1>6. QED
  BY <1>1, <1>3, <1>5 DEF Kept

LEMMA CloseSound ==
  ASSUME IInv, NEW fd, vfs_close(fd)
  PROVE  Sound
<1>0. TypeOK /\ Accounted(hold, live, lost)
  BY DEF IInv
<1>1. UNCHANGED <<booted, mounted, lost, root, dirs, hung>>
  BY DEF vfs_close
<1>2. CASE BadDescriptor(fd) /\ UNCHANGED <<live, mem>>
  <2>1. hold' = hold
    BY <1>1, <1>2, NoneBound DEF BadDescriptor
  <2>2. TypeOK' /\ Kept
    BY <1>0, <1>1, <1>2 DEF TypeOK, Kept, BadDescriptor, EBADF
  <2>3. Accounted(hold, live, lost)'
    BY <1>0, <1>1, <1>2, <2>1 DEF Accounted
  <2>4. QED
    BY <2>2, <2>3 DEF Sound
<1>3. CASE /\ IsOpen(fd)
           /\ live' = live \ {fd_table[fd].node} /\ mem' = Scrub(mem, {fd_table[fd].node})
           /\ fd_table' = [fd_table EXCEPT ![fd] = [node |-> NULL, offset |-> 0]]
           /\ ret' = 0
  <2>1. fd \in Fds /\ fd_table[fd].node \in Slots
    BY <1>0, <1>3 DEF IsOpen, TypeOK
  <2>2. \A k \in Fds : fd_table'[k].node = IF k = fd THEN NULL ELSE fd_table[k].node
    BY <1>0, <1>3, <2>1 DEF TypeOK
  <2>3. hold' = [hold EXCEPT ![<<"fd", fd>>] = NULL]
    BY <1>1, <2>1, <2>2, FdBound
  <2>4. <<"fd", fd>> \in Holders /\ hold[<<"fd", fd>>] = fd_table[fd].node
    BY <2>1, HoldersAre, HeldOf DEF hold
  <2>5. Accounted(hold, live, lost)' /\ Kept /\ mem' \in [Slots -> Node] /\ live' \subseteq Slots
    BY <1>0, <1>1, <1>3, <2>1, <2>3, <2>4, NowFree
  <2>6. fd_table' \in [Fds -> [node : Slots \cup {NULL}, offset : 0 .. MaxOffset]]
    <3>1. [node |-> NULL, offset |-> 0] \in [node : Slots \cup {NULL}, offset : 0 .. MaxOffset]
      BY VfsAssumption
    <3>2. QED
      BY <1>0, <1>3, <3>1 DEF TypeOK
  <2>7. TypeOK'
    <3>1. ret' \in Int
      BY <1>3
    <3>2. QED
      BY <1>0, <1>1, <2>5, <2>6, <3>1, SMTT(30) DEF TypeOK
  <2>8. QED
    BY <2>5, <2>7 DEF Sound
<1>4. QED
  BY <1>2, <1>3 DEF vfs_close

LEMMA ClosedirSound ==
  ASSUME IInv, NEW d \in Streams, vfs_closedir(d)
  PROVE  Sound
<1>0. TypeOK /\ Accounted(hold, live, lost)
  BY DEF IInv
<1>1. /\ dirs[d].node # NULL
      /\ live' = live \ {dirs[d].node} /\ mem' = Scrub(mem, {dirs[d].node})
      /\ dirs' = [dirs EXCEPT ![d] = [node |-> NULL, index |-> 0]]
      /\ UNCHANGED <<booted, mounted, lost, root, fd_table, hung, ret>>
  BY DEF vfs_closedir
<1>2. dirs[d].node \in Slots
  BY <1>0, <1>1 DEF TypeOK
<1>3. \A k \in Streams : dirs'[k].node = IF k = d THEN NULL ELSE dirs[k].node
  BY <1>0, <1>1 DEF TypeOK
<1>4. hold' = [hold EXCEPT ![<<"dir", d>>] = NULL]
  BY <1>1, <1>3, DirBound
<1>5. <<"dir", d>> \in Holders /\ hold[<<"dir", d>>] = dirs[d].node
  BY HoldersAre, HeldOf DEF hold
<1>6. Accounted(hold, live, lost)' /\ Kept /\ mem' \in [Slots -> Node] /\ live' \subseteq Slots
  BY <1>0, <1>1, <1>2, <1>4, <1>5, NowFree
<1>7. dirs' \in [Streams -> [node : Slots \cup {NULL}, index : Nat]]
  <2>1. [node |-> NULL, index |-> 0] \in [node : Slots \cup {NULL}, index : Nat]
    OBVIOUS
  <2>2. QED
    BY <1>0, <1>1, <2>1 DEF TypeOK
<1>8. TypeOK'
  BY <1>0, <1>1, <1>6, <1>7 DEF TypeOK
<1>9. QED
  BY <1>6, <1>8 DEF Sound

LEMMA ReaddirSound ==
  ASSUME IInv, NEW d \in Streams, vfs_readdir(d)
  PROVE  Sound
<1>0. TypeOK /\ Accounted(hold, live, lost)
  BY DEF IInv
<1>1. /\ dirs' = [dirs EXCEPT ![d].index = @ + 1]
      /\ UNCHANGED <<booted, mounted, live, mem, lost, root, fd_table, hung, ret>>
  BY DEF vfs_readdir, heap
<1>2. dirs' \in [Streams -> [node : Slots \cup {NULL}, index : Nat]]
  BY <1>0, <1>1 DEF TypeOK
<1>3. \A k \in Streams : dirs'[k].node = dirs[k].node
  BY <1>0, <1>1 DEF TypeOK
<1>4. hold' = hold
  BY <1>1, <1>3, NoneBound
<1>5. QED
  BY <1>0, <1>1, <1>2, <1>4 DEF Sound, TypeOK, Accounted, Kept

(* The offset of a descriptor moves, and its node stays. *)
OffsetAt(fd, to) == fd_table' = [fd_table EXCEPT ![fd].offset = to]

LEMMA ReadMoves ==
  ASSUME TypeOK, NEW fd \in Fds, IsOpen(fd), NEW count \in Nat, vfs_read(fd, count)
  PROVE  \/ ret' = EIO /\ fd_table' = fd_table
         \/ ret' \in 0 .. count /\ OffsetAt(fd, fd_table[fd].offset + ret')
<1>1. PICK n \in fat32_read(mem[fd_table[fd].node], count, fd_table[fd].offset) : ret' = n /\ Advance(fd, n)
  BY DEF vfs_read, BadDescriptor
<1>2. fd_table[fd].node \in Slots /\ fd_table[fd].offset \in Nat /\ mem[fd_table[fd].node] \in Node
  BY DEF TypeOK, IsOpen
<1>3. Length[mem[fd_table[fd].node].cluster] \in Nat
  BY <1>2, VfsAssumption DEF Node
<1>4. n = EIO \/ n \in 0 .. count
  BY <1>1, <1>2, <1>3 DEF fat32_read
<1>5. CASE n = EIO
  BY <1>1, <1>5 DEF Advance, EIO
<1>6. CASE n \in 0 .. count
  <2>1. CASE n > 0
    <3>1. fd_table' = [fd_table EXCEPT ![fd].offset = @ + n]
      BY <1>1, <2>1 DEF Advance
    <3>2. QED
      BY <1>1, <1>6, <3>1 DEF OffsetAt
  <2>2. CASE n = 0
    <3>1. fd_table' = fd_table /\ fd_table[fd].offset + 0 = fd_table[fd].offset
      BY <1>1, <1>2, <2>2 DEF Advance
    <3>2. fd_table = [fd_table EXCEPT ![fd].offset = fd_table[fd].offset]
      BY DEF TypeOK
    <3>3. QED
      BY <1>1, <2>2, <3>1, <3>2 DEF OffsetAt
  <2>3. QED
    BY <1>6, <2>1, <2>2
<1>7. QED
  BY <1>4, <1>5, <1>6

(* What a read, a write or a seek does: it fails and changes nothing, or   *)
(* moves its own position.                                                 *)
LEMMA DescriptorMoves ==
  ASSUME TypeOK, NEW fd, DescriptorCall(fd)
  PROVE  /\ UNCHANGED <<booted, mounted, live, mem, lost, root, dirs, hung>>
         /\ ret' \in Int
         /\ \/ ret' < 0 /\ fd_table' = fd_table
            \/ /\ IsOpen(fd) /\ ret' \in Nat
               /\ \E to \in {fd_table[fd].offset + ret', ret'} :
                    to \in 0 .. MaxOffset /\ OffsetAt(fd, to)
<1>1. UNCHANGED <<booted, mounted, live, mem, lost, root, dirs, hung>>
  BY DEF DescriptorCall, heap
<1>2. ASSUME NEW count \in 0 .. MaxOffset,
             IsOpen(fd) => fd_table[fd].offset + count <= MaxOffset, vfs_read(fd, count)
      PROVE  /\ ret' \in Int
             /\ \/ ret' < 0 /\ fd_table' = fd_table
                \/ /\ IsOpen(fd) /\ ret' \in Nat
                   /\ \E to \in {fd_table[fd].offset + ret', ret'} :
                        to \in 0 .. MaxOffset /\ OffsetAt(fd, to)
  <2>1. CASE ~ IsOpen(fd)
    BY <1>2, <2>1 DEF vfs_read, BadDescriptor, EBADF
  <2>2. CASE IsOpen(fd)
    <3>1. fd \in Fds /\ count \in Nat /\ fd_table[fd].offset \in Nat
      BY <2>2, VfsAssumption DEF IsOpen, TypeOK
    <3>2. \/ ret' = EIO /\ fd_table' = fd_table
          \/ ret' \in 0 .. count /\ OffsetAt(fd, fd_table[fd].offset + ret')
      BY <1>2, <2>2, <3>1, ReadMoves
    <3>3. CASE ret' = EIO /\ fd_table' = fd_table
      BY <3>3 DEF EIO
    <3>4. CASE ret' \in 0 .. count /\ OffsetAt(fd, fd_table[fd].offset + ret')
      <4>1. fd_table[fd].offset + ret' \in 0 .. MaxOffset
        BY <1>2, <2>2, <3>1, <3>4, VfsAssumption
      <4>2. QED
        BY <2>2, <3>4, <4>1
    <3>5. QED
      BY <3>2, <3>3, <3>4
  <2>3. QED
    BY <2>1, <2>2
<1>3. ASSUME vfs_write(fd)
      PROVE  ret' \in Int /\ ret' < 0 /\ fd_table' = fd_table
  BY <1>3 DEF vfs_write, BadDescriptor, EBADF, ENOSYS, Advance
<1>4. ASSUME NEW offset \in -1 .. MaxOffset, NEW origin, vfs_lseek(fd, offset, origin)
      PROVE  /\ ret' \in Int
             /\ \/ ret' < 0 /\ fd_table' = fd_table
                \/ /\ IsOpen(fd) /\ ret' \in Nat
                   /\ \E to \in {fd_table[fd].offset + ret', ret'} :
                        to \in 0 .. MaxOffset /\ OffsetAt(fd, to)
  <2>1. CASE BadDescriptor(fd)
    BY <2>1 DEF BadDescriptor, EBADF
  <2>2. CASE IsOpen(fd) /\ origin \in {"SEEK_SET", "SEEK_CUR"}
    <3> DEFINE new == IF origin = "SEEK_SET" THEN offset ELSE fd_table[fd].offset + offset
    <3>1. new \in Int
      BY <2>2, VfsAssumption DEF IsOpen, TypeOK
    <3>2. /\ new <= MaxOffset
          /\ IF new < 0 THEN ret' = EINVAL /\ UNCHANGED fd_table
             ELSE ret' = new /\ fd_table' = [fd_table EXCEPT ![fd].offset = new]
      BY <1>4, <2>2 DEF vfs_lseek, BadDescriptor
    <3> HIDE DEF new
    <3>3. CASE new < 0
      BY <3>2, <3>3 DEF EINVAL
    <3>4. CASE ~ (new < 0)
      <4>1. ret' = new /\ OffsetAt(fd, new) /\ new \in 0 .. MaxOffset
        BY <3>1, <3>2, <3>4, VfsAssumption DEF OffsetAt
      <4>2. QED
        BY <2>2, <3>1, <4>1
    <3>5. QED
      BY <3>3, <3>4
  <2>3. CASE origin \notin {"SEEK_SET", "SEEK_CUR"}
    BY <1>4, <2>3 DEF vfs_lseek, BadDescriptor, EBADF, EINVAL, ENOSYS
  <2>4. QED
    BY <1>4, <2>1, <2>2, <2>3 DEF vfs_lseek
<1>5. QED
  BY <1>1, <1>2, <1>3, <1>4 DEF DescriptorCall

LEMMA DescriptorSound ==
  ASSUME IInv, NEW fd, DescriptorCall(fd)
  PROVE  Sound
<1>0. TypeOK /\ Accounted(hold, live, lost)
  BY DEF IInv
<1>1. /\ UNCHANGED <<booted, mounted, live, mem, lost, root, dirs, hung>>
      /\ ret' \in Int
  BY <1>0, DescriptorMoves
<1>2. /\ fd_table' \in [Fds -> [node : Slots \cup {NULL}, offset : 0 .. MaxOffset]]
      /\ \A k \in Fds : fd_table'[k].node = fd_table[k].node
  <2>1. CASE fd_table' = fd_table
    BY <1>0, <2>1 DEF TypeOK
  <2>2. ASSUME fd \in Fds, NEW to \in 0 .. MaxOffset, OffsetAt(fd, to)
        PROVE  /\ fd_table' \in [Fds -> [node : Slots \cup {NULL}, offset : 0 .. MaxOffset]]
               /\ \A k \in Fds : fd_table'[k].node = fd_table[k].node
    <3>1. fd_table \in [Fds -> [node : Slots \cup {NULL}, offset : 0 .. MaxOffset]]
      BY <1>0 DEF TypeOK
    <3>2. fd_table' = [fd_table EXCEPT ![fd].offset = to]
      BY <2>2 DEF OffsetAt
    <3>3. /\ DOMAIN fd_table' = Fds /\ fd_table' = [k \in Fds |-> fd_table'[k]]
          /\ fd_table'[fd] = [node |-> fd_table[fd].node, offset |-> to]
          /\ \A k \in Fds : k # fd => fd_table'[k] = fd_table[k]
      BY <2>2, <3>1, <3>2
    <3>4. [node |-> fd_table[fd].node, offset |-> to] \in [node : Slots \cup {NULL}, offset : 0 .. MaxOffset]
      BY <2>2, <3>1
    <3>5. \A k \in Fds : fd_table'[k] \in [node : Slots \cup {NULL}, offset : 0 .. MaxOffset]
      BY <3>1, <3>3, <3>4
    <3>6. QED
      BY <3>3, <3>5
  <2>3. QED
    BY <1>0, <2>1, <2>2, DescriptorMoves DEF IsOpen
<1>3. hold' = hold
  BY <1>1, <1>2, NoneBound
<1>4. QED
  BY <1>0, <1>1, <1>2, <1>3 DEF Sound, TypeOK, Accounted, Kept

(* vfs_init and vfs_mount. *)
LEMMA InitSound ==
  ASSUME IInv, vfs_init
  PROVE  Sound /\ Roots'
<1>0. TypeOK /\ Accounted(hold, live, lost) /\ root = NULL
  BY DEF IInv, Roots, vfs_init
<1>1. PICK s \in Slots \ live : root' = s /\ live' = live \cup {s} /\ mem' = [mem EXCEPT ![s] = NoNode]
  BY DEF vfs_init
<1>2. booted' = TRUE /\ UNCHANGED <<mounted, fd_table, dirs, hung, ret, lost>>
  BY DEF vfs_init
<1>3. hold' = [hold EXCEPT ![RootHolder] = s]
  BY <1>1, <1>2, RootBound
<1>4. RootHolder \in Holders /\ hold[RootHolder] = NULL
  BY <1>0, HoldersAre, HeldOf DEF hold
<1>5. Accounted(hold, live, lost)'
  <2>1. hold \in [Holders -> Slots \cup {NULL}] /\ live \in SUBSET Slots
    BY <1>0, HoldType DEF TypeOK
  <2>2. Accounted([hold EXCEPT ![RootHolder] = s], live \cup {s}, lost)
    BY <1>0, <1>1, <1>4, <2>1, Binding
  <2>3. QED
    BY <1>1, <1>2, <1>3, <2>2
<1>6. mem' \in [Slots -> Node] /\ mem'[s] = NoNode /\ \A t \in live : mem'[t] = mem[t]
  BY <1>0, <1>1, NoNodeIsNode DEF TypeOK
<1>7. Roots'
  BY <1>1, <1>2, <1>6, VfsAssumption DEF Roots
<1>8. TypeOK'
  BY <1>0, <1>1, <1>2, <1>6 DEF TypeOK
<1>9. QED
  BY <1>5, <1>6, <1>7, <1>8 DEF Sound, Kept

LEMMA MountSound ==
  ASSUME IInv, vfs_mount
  PROVE  Sound
<1>0. TypeOK /\ Accounted(hold, live, lost) /\ root \in Slots /\ mem[root] = NoNode
  BY DEF IInv, Roots, vfs_mount, Ready, TypeOK
<1>1. /\ mounted' = TRUE /\ mem' = [mem EXCEPT ![root] = [@ EXCEPT !.cluster = ROOT]]
      /\ UNCHANGED <<booted, live, root, fd_table, dirs, hung, ret, lost>>
  BY DEF vfs_mount
<1>2. mem' = mem
  <2>1. [NoNode EXCEPT !.cluster = ROOT] = NoNode
    BY DEF NoNode
  <2>2. mem' = [mem EXCEPT ![root] = NoNode]
    BY <1>0, <1>1, <2>1
  <2>3. QED
    BY <1>0, <2>2 DEF TypeOK
<1>3. hold' = hold
  BY <1>1, NoneBound
<1>4. QED
  BY <1>0, <1>1, <1>2, <1>3 DEF Sound, TypeOK, Accounted, Kept

-----------------------------------------------------------------------------
(* The invariant *)

LEMMA InvInit == Init => IInv
<1> SUFFICES ASSUME Init PROVE IInv
  OBVIOUS
<1>1. TypeOK
  <2>1. /\ [node |-> NULL, offset |-> 0] \in [node : Slots \cup {NULL}, offset : 0 .. MaxOffset]
        /\ [node |-> NULL, index |-> 0] \in [node : Slots \cup {NULL}, index : Nat]
    BY VfsAssumption
  <2>2. /\ fd_table \in [Fds -> [node : Slots \cup {NULL}, offset : 0 .. MaxOffset]]
        /\ dirs \in [Streams -> [node : Slots \cup {NULL}, index : Nat]]
    BY <2>1 DEF Init
  <2>3. mem \in [Slots -> Node]
    BY NoNodeIsNode DEF Init
  <2>4. booted \in BOOLEAN /\ mounted \in BOOLEAN /\ hung \in BOOLEAN
    BY Zenon DEF Init
  <2>5. live \subseteq Slots /\ root \in Slots \cup {NULL}
    BY Zenon DEF Init
  <2>6. ret \in Int /\ lost \in Nat
    BY DEF Init
  <2>7. QED
    BY <2>2, <2>3, <2>4, <2>5, <2>6 DEF TypeOK
<1>2. Roots
  BY DEF Init, Roots
<1>3. \A h \in Holders : hold[h] = NULL
  BY HoldersAre DEF hold, Init, Held, RootHolder
<1>4. live \ {hold[h] : h \in Holders} = {} /\ lost = 0
  BY DEF Init
<1>5. Cardinality(live \ {hold[h] : h \in Holders}) = lost
  BY <1>4, FS_EmptySet
<1>6. QED
  BY <1>1, <1>2, <1>3, <1>5 DEF IInv, Accounted

(* Paths other than the root's: vfs_resolve_path hands the shared root     *)
(* node itself to a call on "/", and the call frees it.                    *)
NoRootPath == <<>> \notin Paths

LEMMA InvNext == NoRootPath /\ IInv /\ [Next]_vars => IInv'
<1> SUFFICES ASSUME NoRootPath, IInv, [Next]_vars PROVE IInv'
  OBVIOUS
<1>1. CASE vfs_init
  BY <1>1, InitSound DEF IInv, Sound
<1>2. ASSUME Sound, booted, booted' = booted, root' = root PROVE IInv'
  BY <1>2, RootsStay DEF IInv, Sound
<1>3. CASE vfs_mount
  BY <1>2, <1>3, MountSound DEF vfs_mount, Ready
<1>4. ASSUME NEW path \in Paths, NEW flags \in {"O_RDONLY", "O_WRONLY"}, vfs_open(path, flags) PROVE IInv'
  BY <1>2, <1>4, OpenSound DEF vfs_open, Ready, NoRootPath
<1>5. ASSUME NEW path \in Paths, NEW result \in {0, ENOSYS}, vfs_path_call(path, result) PROVE IInv'
  <2>1. result \in Int /\ path # <<>>
    BY <1>5 DEF ENOSYS, NoRootPath
  <2>2. QED
    BY <1>2, <1>5, <2>1, PathCallSound DEF vfs_path_call, Ready
<1>6. ASSUME NEW path \in Paths, NEW d \in Streams, vfs_opendir(path, d) PROVE IInv'
  BY <1>2, <1>6, OpendirSound DEF vfs_opendir, Ready, NoRootPath
<1>7. ASSUME NEW fd, DescriptorCall(fd) PROVE IInv'
  BY <1>2, <1>7, DescriptorSound DEF DescriptorCall, Ready
<1>8. ASSUME NEW fd, vfs_close(fd) PROVE IInv'
  BY <1>2, <1>8, CloseSound DEF vfs_close, Ready
<1>9. ASSUME NEW d \in Streams, vfs_readdir(d) PROVE IInv'
  BY <1>2, <1>9, ReaddirSound DEF vfs_readdir, Ready
<1>10. ASSUME NEW d \in Streams, vfs_closedir(d) PROVE IInv'
  BY <1>2, <1>10, ClosedirSound DEF vfs_closedir, Ready
<1>11. CASE UNCHANGED vars
  <2>1. hold' = hold
    BY <1>11, NoneBound DEF vars
  <2>2. QED
    BY <1>11, <2>1 DEF vars, heap, IInv, TypeOK, Roots, Accounted
<1>12. QED
  BY <1>1, <1>3, <1>4, <1>5, <1>6, <1>7, <1>8, <1>9, <1>10, <1>11 DEF Next

LEMMA Invariance == NoRootPath => (Spec => []IInv)
<1>1. SUFFICES ASSUME NoRootPath PROVE Spec => []IInv
  OBVIOUS
<1>2. Init => IInv
  BY InvInit
<1>3. IInv /\ [Next]_vars => IInv'
  BY <1>1, InvNext
<1>4. QED
  BY <1>2, <1>3, PTL DEF Spec

(* What the root, a descriptor or a stream points to is allocated, for     *)
(* every table, heap, disk and set of paths but the root's: although nodes *)
(* have no reference count, vfs_close, vfs_closedir and the calls on a     *)
(* path free nodes nobody else holds.                                      *)
THEOREM HeldNodesAreLive == NoRootPath => (Spec => []HeldIsLive)
<1>1. SUFFICES ASSUME NoRootPath PROVE Spec => []HeldIsLive
  OBVIOUS
<1>2. IInv => HeldIsLive
  BY DEF IInv, Accounted, hold, HeldIsLive
<1>3. QED
  BY <1>1, <1>2, Invariance, PTL

Unshared == \A h, g \in Holders : Held(h) = Held(g) /\ Held(h) # NULL => h = g

(* No two of them point to the same node: every lookup allocates its own.  *)
THEOREM NodesAreUnshared == NoRootPath => (Spec => []Unshared)
<1>1. SUFFICES ASSUME NoRootPath PROVE Spec => []Unshared
  OBVIOUS
<1>2. IInv => Unshared
  BY DEF IInv, Accounted, hold, Unshared
<1>3. QED
  BY <1>1, <1>2, Invariance, PTL

(* All other allocated nodes were lost by the two ways vfs.c has: the      *)
(* directories on a path, and an open refused for its flags.               *)
THEOREM LossesAreTheKnown == NoRootPath => (Spec => []LossesAreKnown)
<1>1. SUFFICES ASSUME NoRootPath PROVE Spec => []LossesAreKnown
  OBVIOUS
<1>2. IInv => LossesAreKnown
  <2>1. {hold[h] : h \in Holders} = {Held(h) : h \in Holders}
    BY DEF hold
  <2>2. QED
    BY <2>1 DEF IInv, Accounted, LossesAreKnown
<1>3. QED
  BY <1>1, <1>2, Invariance, PTL

-----------------------------------------------------------------------------
(* Descriptors *)

(* A disk on which a lookup reads nothing that is not there: a directory   *)
(* has its first entry in a good sector, or none (with a bad one vfs_lookup *)
(* looks at an entry nobody wrote), and entries marked as directories are. *)
SoundDisk ==
  /\ ROOT \in DOMAIN Directory
  /\ \A d \in DOMAIN Directory :
       /\ Readable[d] = 0 => Directory[d] = <<>>
       /\ \A i \in DOMAIN Directory[d] :
            Directory[d][i].type = "dir" => Directory[d][i].cluster \in DOMAIN Directory

LEMMA LookupNamed ==
  ASSUME SoundDisk, NEW dir \in Node, dir.type = "dir" => dir.cluster \in DOMAIN Directory,
         NEW name, NEW o \in vfs_lookup(dir, name), o \notin {NULL, SPINS}
  PROVE  dir.type = "dir" /\ o \in Entries(dir, name) /\ (o.type = "dir" => o.cluster \in DOMAIN Directory)
<1>1. dir.type = "dir" /\ dir.cluster \in DOMAIN Directory
  BY DEF vfs_lookup
<1> DEFINE es   == Directory[dir.cluster]
           hits == {i \in 1 .. Readable[dir.cluster] : es[i].name = name}
           first == CHOOSE i \in hits : \A j \in hits : i <= j
<1>2. /\ es \in Seq([name : STRING, cluster : Clusters, type : {"file", "dir"}])
      /\ Readable[dir.cluster] \in 0 .. Len(es)
  BY <1>1, VfsAssumption
<1>3. CASE hits # {}
  <2>1. first \in hits
    <3>1. hits \subseteq Nat
      BY <1>2
    <3>2. \E i \in hits : \A j \in hits : i <= j
      <4> HIDE DEF hits
      <4>1. QED
        BY <1>3, <3>1, Least
    <3>3. QED
      BY <3>2
  <2>2. first \in DOMAIN es /\ es[first].name = name
    <3>1. \A T : es \in Seq(T) => DOMAIN es = 1 .. Len(es) /\ Len(es) \in Nat
      <4> HIDE DEF es
      <4>1. QED
        OBVIOUS
    <3>2. QED
      <4> HIDE DEF first, es
      <4>1. QED
        BY <2>1, <1>2, <3>1
  <2>3. o = [cluster |-> es[first].cluster, type |-> es[first].type]
    BY <1>1, <1>3 DEF vfs_lookup
  <2>4. es[first] \in Range(es)
    BY <2>2 DEF Range
  <2>5. o \in Entries(dir, name)
    BY <2>2, <2>3, <2>4 DEF Entries
  <2>6. o.type = "dir" => o.cluster \in DOMAIN Directory
    BY <1>1, <2>2, <2>3 DEF SoundDisk
  <2>7. QED
    BY <1>1, <2>5, <2>6
<1>4. CASE hits = {}
  <2>1. Readable[dir.cluster] = 0 => Readable[dir.cluster] = Len(es)
    BY <1>1 DEF SoundDisk
  <2>2. o \in {NULL, SPINS}
    BY <1>1, <1>4, <2>1 DEF vfs_lookup
  <2>3. QED
    BY <2>2
<1>5. QED
  BY <1>3, <1>4

(* Where a walk arrives is one of the entries its path names.              *)
LEMMA WalksNamed ==
  ASSUME SoundDisk, NEW path \in Seq(STRING), mem[root] = NoNode, NEW w \in Walks(path), w.at \notin {NULL, SPINS}
  PROVE  w.at \in Node /\ w.at.cluster \in Named(path)
<1>0. PICK n \in Nat : n = Len(path)
  OBVIOUS
<1>1. PICK W : /\ W[0] = {[nodes |-> <<>>, at |-> mem[root]]}
               /\ \A k \in 1 .. n : W[k] = AllOn(W[k - 1], path[k])
               /\ Walks(path) = W[n]
  BY <1>0, WalksDef
<1>2. PICK N : /\ N[0] = {NoNode}
               /\ \A k \in 1 .. n : N[k] = AllEntries(N[k - 1], path[k])
               /\ Named(path) = {e.cluster : e \in N[n]}
  BY <1>0, NamedDef
<1> DEFINE Sure(v, k) == v.at \notin {NULL, SPINS} =>
                           v.at \in Node /\ v.at \in N[k] /\ (v.at.type = "dir" => v.at.cluster \in DOMAIN Directory)
           S == {k \in Nat : k <= n => \A v \in W[k] : Sure(v, k)}
<1>3. 0 \in S
  <2>1. SUFFICES ASSUME NEW v \in W[0] PROVE Sure(v, 0)
    OBVIOUS
  <2>2. v.at = NoNode
    BY <1>1, <2>1
  <2>3. NoNode.type = "dir" => NoNode.cluster \in DOMAIN Directory
    BY DEF NoNode, SoundDisk
  <2>4. QED
    BY <1>2, <2>2, <2>3, NoNodeIsNode
<1>4. ASSUME NEW k \in Nat, k \in S PROVE k + 1 \in S
  <2>1. SUFFICES ASSUME k + 1 <= n, NEW v \in W[k + 1], v.at \notin {NULL, SPINS} PROVE Sure(v, k + 1)
    OBVIOUS
  <2>2. k + 1 \in 1 .. n /\ (k + 1) - 1 = k /\ k <= n
    BY <1>0, <2>1
  <2>3. W[k + 1] = AllOn(W[k], path[k + 1]) /\ N[k + 1] = AllEntries(N[k], path[k + 1])
    BY <1>1, <1>2, <2>2
  <2>4. PICK u \in W[k] : v \in WalkOn(u, path[k + 1])
    BY <2>1, <2>3 DEF AllOn
  <2>5. u.at \notin {NULL, SPINS}
    BY <2>1, <2>4 DEF WalkOn
  <2>6. Sure(u, k)
    BY <1>4, <2>2, <2>4
  <2>7. v.at \in vfs_lookup(u.at, path[k + 1])
    BY <2>4, <2>5 DEF WalkOn
  <2>8. u.at.type = "dir" /\ v.at \in Entries(u.at, path[k + 1]) /\ (v.at.type = "dir" => v.at.cluster \in DOMAIN Directory)
    BY <2>1, <2>5, <2>6, <2>7, LookupNamed
  <2>9. v.at \in N[k + 1]
    BY <2>3, <2>5, <2>6, <2>8 DEF AllEntries
  <2>10. v.at \in Node
    BY <2>1, <2>5, <2>6, <2>7, LookupType
  <2>11. QED
    BY <2>8, <2>9, <2>10
<1>5. Nat \subseteq S
  <2> HIDE DEF S
  <2>1. QED
    BY <1>3, <1>4, Induct
<1>6. w \in W[n] /\ n \in S
  BY <1>1, <1>5
<1>7. QED
  BY <1>2, <1>6

LEMMA ResolvedIsNamed ==
  ASSUME SoundDisk, TypeOK, NEW path \in Paths, path # <<>>, mem[root] = NoNode,
         NEW r \in vfs_resolve_path(path), r.node \in Slots
  PROVE  r.mem[r.node].cluster \in Named(path)
<1>0. path \in Seq(STRING) /\ NULL \notin Slots /\ SPINS \notin Slots
  BY VfsAssumption
<1>1. PICK w \in Walks(path) : r \in Placed(w)
  BY <1>0 DEF vfs_resolve_path
<1>2. w.at \notin {NULL, SPINS} /\ \E s \in Slots : r.node = s /\ r.mem = [mem EXCEPT ![s] = w.at]
  <2>1. w.at # SPINS
    BY <1>0, <1>1 DEF Placed
  <2>2. w.at # NULL
    <3>1. CASE Len(w.nodes) > Cardinality(Slots \ live)
      BY <1>0, <1>1, <3>1 DEF Placed
    <3>2. CASE ~ (Len(w.nodes) > Cardinality(Slots \ live)) /\ w.at = NULL
      <4>1. r \in {[node |-> NULL, mem |-> mem, live |-> live \cup gone, lost |-> Len(w.nodes)]
                   : gone \in kSubset(Len(w.nodes), Slots \ live)}
        BY <1>1, <2>1, <3>2 DEF Placed
      <4>2. r.node = NULL
        BY <4>1
      <4>3. QED
        BY <1>0, <4>2
    <3>3. QED
      BY <3>1, <3>2
  <2>3. CASE Len(w.nodes) > Cardinality(Slots \ live)
    BY <1>0, <1>1, <2>3 DEF Placed
  <2>4. CASE ~ (Len(w.nodes) > Cardinality(Slots \ live))
    <3>1. r \in UNION {{[node |-> s, mem |-> [mem EXCEPT ![s] = w.at], live |-> live \cup gone \cup {s},
                        lost |-> Len(w.nodes) - 1] : gone \in kSubset(Len(w.nodes) - 1, (Slots \ live) \ {s})}
                       : s \in Slots \ live}
      BY <1>1, <2>1, <2>2, <2>4 DEF Placed
    <3>2. PICK s \in Slots \ live :
            r \in {[node |-> s, mem |-> [mem EXCEPT ![s] = w.at], live |-> live \cup gone \cup {s},
                   lost |-> Len(w.nodes) - 1] : gone \in kSubset(Len(w.nodes) - 1, (Slots \ live) \ {s})}
      BY <3>1
    <3>3. r.node = s /\ r.mem = [mem EXCEPT ![s] = w.at]
      BY <3>2
    <3>4. QED
      BY <2>1, <2>2, <3>3
  <2>5. QED
    BY <2>3, <2>4
<1>3. r.mem[r.node] = w.at
  BY <1>2 DEF TypeOK
<1>4. QED
  BY <1>0, <1>1, <1>2, <1>3, WalksNamed

LEMMA NodesKept ==
  ASSUME IInv, Sound, NEW h \in Holders, Held(h)' = Held(h), Held(h) # NULL
  PROVE  mem'[Held(h)] = mem[Held(h)]
<1>1. hold[h] = Held(h) /\ hold'[h] = Held(h)'
  BY DEF hold
<1>2. Held(h) \in live
  BY <1>1 DEF IInv, Accounted
<1>3. Held(h)' \in live'
  BY <1>1 DEF Sound, Accounted
<1>4. QED
  BY <1>2, <1>3 DEF Sound, Kept

(* A descriptor or a stream no call was about names what it named.         *)
LEMMA TableKept ==
  ASSUME IInv, Sound, NEW fd \in Fds, fd_table'[fd].node = fd_table[fd].node
  PROVE  Table'[fd] = IF fd_table[fd].node = NULL THEN NULL
                      ELSE [file |-> mem[fd_table[fd].node].cluster, offset |-> fd_table'[fd].offset]
<1>1. CASE fd_table[fd].node = NULL
  BY <1>1 DEF Table
<1>2. CASE fd_table[fd].node # NULL
  <2>1. <<"fd", fd>> \in Holders /\ Held(<<"fd", fd>>) = fd_table[fd].node /\ Held(<<"fd", fd>>)' = fd_table'[fd].node
    BY HoldersAre, HeldOf DEF Held
  <2>2. mem'[fd_table[fd].node] = mem[fd_table[fd].node]
    BY <1>2, <2>1, NodesKept
  <2>3. QED
    BY <1>2, <2>2 DEF Table
<1>3. QED
  BY <1>1, <1>2

LEMMA ListingKept ==
  ASSUME IInv, Sound, NEW d \in Streams, dirs'[d].node = dirs[d].node
  PROVE  Listing'[d] = IF dirs[d].node = NULL THEN NULL
                       ELSE [file |-> mem[dirs[d].node].cluster, index |-> dirs'[d].index]
<1>1. CASE dirs[d].node = NULL
  BY <1>1 DEF Listing
<1>2. CASE dirs[d].node # NULL
  <2>1. <<"dir", d>> \in Holders /\ Held(<<"dir", d>>) = dirs[d].node /\ Held(<<"dir", d>>)' = dirs'[d].node
    BY HoldersAre, HeldOf DEF Held
  <2>2. mem'[dirs[d].node] = mem[dirs[d].node]
    BY <1>2, <2>1, NodesKept
  <2>3. QED
    BY <1>2, <2>2 DEF Listing
<1>3. QED
  BY <1>1, <1>2

LEMMA SameTable ==
  ASSUME IInv, Sound, fd_table' = fd_table PROVE Table' = Table
<1>1. \A fd \in Fds : Table'[fd] = Table[fd]
  BY TableKept DEF Table
<1>2. QED
  BY <1>1 DEF Table

LEMMA SameListing ==
  ASSUME IInv, Sound, dirs' = dirs PROVE Listing' = Listing
<1>1. \A d \in Streams : Listing'[d] = Listing[d]
  BY ListingKept DEF Listing
<1>2. QED
  BY <1>1 DEF Listing

LEMMA TableIs ==
  ASSUME IInv
  PROVE  /\ \A fd \in Fds : fd_table[fd].node = NULL <=> Table[fd] = NULL
         /\ \A fd \in Fds : fd_table[fd].node # NULL => Table[fd].offset = fd_table[fd].offset
         /\ \A d \in Streams : dirs[d].node = NULL <=> Listing[d] = NULL
         /\ \A d \in Streams : dirs[d].node # NULL => Listing[d].index = dirs[d].index
<1>1. ASSUME NEW fd \in Fds, fd_table[fd].node # NULL
      PROVE  Table[fd] # NULL /\ Table[fd].offset = fd_table[fd].offset
  <2>1. mem[fd_table[fd].node].cluster \in Clusters /\ fd_table[fd].offset \in Nat
    BY <1>1, VfsAssumption DEF IInv, TypeOK, Node
  <2>2. Table[fd] = [file |-> mem[fd_table[fd].node].cluster, offset |-> fd_table[fd].offset]
    BY <1>1 DEF Table
  <2>3. Table[fd] \in [file : Clusters, offset : Nat]
    BY <2>1, <2>2
  <2>4. QED
    BY <2>2, <2>3, VfsAssumption
<1>2. ASSUME NEW d \in Streams, dirs[d].node # NULL
      PROVE  Listing[d] # NULL /\ Listing[d].index = dirs[d].index
  <2>1. mem[dirs[d].node].cluster \in Clusters /\ dirs[d].index \in Nat
    BY <1>2 DEF IInv, TypeOK, Node
  <2>2. Listing[d] = [file |-> mem[dirs[d].node].cluster, index |-> dirs[d].index]
    BY <1>2 DEF Listing
  <2>3. Listing[d] \in [file : Clusters, index : Nat]
    BY <2>1, <2>2
  <2>4. QED
    BY <2>2, <2>3, VfsAssumption
<1>3. QED
  BY <1>1, <1>2 DEF Table, Listing

(* Each call does what Descriptors allows. *)
Promised == [Descr!Next]_<<Table, Listing, ret>>

LEMMA LeavesAlone ==
  ASSUME Table' = Table, Listing' = Listing, ret' < 0 \/ ret' = 0
  PROVE  Promised
BY DEF Promised, Descr!Next, Descr!Leaves

LEMMA OpenPromised ==
  ASSUME SoundDisk, IInv, NEW path \in Paths, path # <<>>, NEW flags, vfs_open(path, flags), Sound
  PROVE  Promised
<1>0. TypeOK /\ Accounted(hold, live, lost) /\ root \in Slots /\ mem[root] = NoNode
  BY DEF IInv, Roots, vfs_open, Ready, TypeOK
<1>1. PICK r \in vfs_resolve_path(path) :
       \/ Hangs(r)
       \/ r.node = NULL /\ Heap(r, {}, 0) /\ ret' = ENOENT /\ UNCHANGED <<fd_table, dirs>>
       \/ /\ r.node \in Slots /\ UNCHANGED dirs
          /\ IF flags = "O_WRONLY"
             THEN Heap(r, {}, IF r.node = root THEN 0 ELSE 1) /\ ret' = EACCES /\ UNCHANGED fd_table
             ELSE IF Unused = {} THEN NoDescriptor(r)
             ELSE /\ fd_table' = [fd_table EXCEPT ![FirstUnused] = [node |-> r.node, offset |-> 0]]
                  /\ ret' = FirstUnused
                  /\ Heap(r, {}, 0)
  BY DEF vfs_open
<1>2. Found(r)
  BY <1>0, ResolvedIsFound DEF TypeOK
<1>3. dirs' = dirs
  BY <1>1 DEF Hangs
<1>4. Listing' = Listing
  BY <1>3, SameListing
<1>5. CASE Hangs(r)
  <2>1. Table' = Table /\ ret' = ret
    BY <1>5, SameTable DEF Hangs
  <2>2. QED
    BY <1>4, <2>1 DEF Promised
<1>6. CASE ret' < 0 /\ UNCHANGED fd_table
  BY <1>4, <1>6, SameTable, LeavesAlone
<1>7. CASE /\ r.node \in Slots /\ Unused # {}
           /\ fd_table' = [fd_table EXCEPT ![FirstUnused] = [node |-> r.node, offset |-> 0]]
           /\ ret' = FirstUnused
           /\ Heap(r, {}, 0)
  <2>0. PICK fd \in Unused : fd = FirstUnused /\ \A k \in Unused : fd <= k
    BY <1>7, FirstIsUnused
  <2>1. fd \in Fds /\ fd_table[fd].node = NULL
    BY <2>0 DEF Unused
  <2>2. fd_table' = [fd_table EXCEPT ![fd] = [node |-> r.node, offset |-> 0]] /\ ret' = fd
    BY <1>7, <2>0
  <2>3. fd_table'[fd] = [node |-> r.node, offset |-> 0] /\ \A k \in Fds : k # fd => fd_table'[k] = fd_table[k]
    BY <1>0, <2>1, <2>2 DEF TypeOK
  <2>4. PICK f \in Named(path) : f = mem'[r.node].cluster
    <3>1. r.mem[r.node].cluster \in Named(path)
      BY <1>0, <1>7, ResolvedIsNamed
    <3>2. mem'[r.node] = r.mem[r.node]
      BY <1>0, <1>2, <1>7, HeapStep
    <3>3. QED
      BY <3>1, <3>2
  <2>5. Table'[fd] = [file |-> f, offset |-> 0]
    <3>1. fd_table'[fd].node = r.node /\ r.node # NULL /\ fd_table'[fd].offset = 0
      BY <1>7, <2>3, VfsAssumption
    <3>2. QED
      BY <2>1, <2>4, <3>1 DEF Table
  <2>6. \A k \in Fds : k # fd => Table'[k] = Table[k]
    BY <2>3, TableKept DEF Table
  <2>7. Table' = [Table EXCEPT ![fd] = [file |-> f, offset |-> 0]]
    BY <2>1, <2>5, <2>6 DEF Table
  <2>8. fd \in Fds \ Descr!Open /\ \A lower \in Fds : lower < fd => lower \in Descr!Open
    <3>1. \A k \in Fds : k \in Descr!Open <=> k \notin Unused
      BY TableIs DEF Descr!Open, Unused
    <3>2. \A k \in Fds : k < fd => ~ (fd <= k)
      BY <2>1, VfsAssumption DEF Fds
    <3>3. QED
      BY <2>0, <2>1, <3>1, <3>2
  <2>9. FilesAt[path] = Named(path) /\ path \in DOMAIN FilesAt
    BY DEF FilesAt
  <2>10. Descr!Opens(path)
    BY <2>2, <2>4, <2>7, <2>8, <2>9 DEF Descr!Opens
  <2>11. QED
    BY <1>4, <2>9, <2>10 DEF Promised, Descr!Next
<1>8. QED
  BY <1>1, <1>5, <1>6, <1>7 DEF ENOENT, EACCES, EMFILE, NoDescriptor

LEMMA PathCallPromised ==
  ASSUME IInv, NEW path, NEW result, result < 0 \/ result = 0, vfs_path_call(path, result), Sound
  PROVE  Promised
<1>1. PICK r \in vfs_resolve_path(path) :
       \/ Hangs(r)
       \/ r.node = NULL /\ Heap(r, {}, 0) /\ ret' = ENOENT /\ UNCHANGED <<fd_table, dirs>>
       \/ r.node \in Slots /\ Heap(r, {r.node}, 0) /\ ret' = result /\ UNCHANGED <<fd_table, dirs>>
  BY DEF vfs_path_call
<1>2. fd_table' = fd_table /\ dirs' = dirs /\ (ret' = ret \/ ret' < 0 \/ ret' = 0)
  BY <1>1 DEF Hangs, ENOENT
<1>3. Table' = Table /\ Listing' = Listing
  BY <1>2, SameTable, SameListing
<1>4. QED
  BY <1>2, <1>3, LeavesAlone DEF Promised

LEMMA OpendirPromised ==
  ASSUME SoundDisk, IInv, NEW path \in Paths, path # <<>>, NEW d \in Streams, vfs_opendir(path, d), Sound
  PROVE  Promised
<1>0. TypeOK /\ Accounted(hold, live, lost) /\ root \in Slots /\ mem[root] = NoNode
  BY DEF IInv, Roots, vfs_opendir, Ready, TypeOK
<1>1. PICK r \in vfs_resolve_path(path) :
       \/ Hangs(r)
       \/ /\ r.node \in Slots /\ r.mem[r.node].type = "dir"
          /\ dirs' = [dirs EXCEPT ![d] = [node |-> r.node, index |-> 0]]
          /\ Heap(r, {}, 0) /\ UNCHANGED <<fd_table, ret>>
       \/ /\ r.node = NULL \/ (r.node \in Slots /\ r.mem[r.node].type # "dir")
          /\ Heap(r, {r.node}, 0) /\ UNCHANGED <<fd_table, dirs, ret>>
  BY DEF vfs_opendir
<1>2. Found(r)
  BY <1>0, ResolvedIsFound DEF TypeOK
<1>3. Table' = Table /\ ret' = ret
  BY <1>1, SameTable DEF Hangs
<1>4. CASE dirs' = dirs
  BY <1>3, <1>4, SameListing DEF Promised
<1>5. CASE /\ r.node \in Slots
           /\ dirs' = [dirs EXCEPT ![d] = [node |-> r.node, index |-> 0]]
           /\ Heap(r, {}, 0)
  <2>1. dirs'[d] = [node |-> r.node, index |-> 0] /\ \A k \in Streams : k # d => dirs'[k] = dirs[k]
    BY <1>0, <1>5 DEF TypeOK
  <2>2. PICK f \in Named(path) : f = mem'[r.node].cluster
    <3>1. r.mem[r.node].cluster \in Named(path)
      BY <1>0, <1>5, ResolvedIsNamed
    <3>2. mem'[r.node] = r.mem[r.node]
      BY <1>0, <1>2, <1>5, HeapStep
    <3>3. QED
      BY <3>1, <3>2
  <2>3. Listing'[d] = [file |-> f, index |-> 0]
    <3>1. dirs'[d].node = r.node /\ r.node # NULL /\ dirs'[d].index = 0
      BY <1>5, <2>1, VfsAssumption
    <3>2. QED
      BY <2>2, <3>1 DEF Listing
  <2>4. \A k \in Streams : k # d => Listing'[k] = Listing[k]
    BY <2>1, ListingKept DEF Listing
  <2>5. Listing' = [Listing EXCEPT ![d] = [file |-> f, index |-> 0]]
    BY <2>3, <2>4 DEF Listing
  <2>6. Listing[d] = NULL
    BY TableIs DEF vfs_opendir
  <2>7. FilesAt[path] = Named(path) /\ path \in DOMAIN FilesAt
    BY DEF FilesAt
  <2>8. Descr!OpensStream(path)
    BY <2>2, <2>5, <2>6, <2>7 DEF Descr!OpensStream
  <2>9. QED
    BY <1>3, <2>7, <2>8 DEF Promised, Descr!Next
<1>6. QED
  BY <1>1, <1>4, <1>5 DEF Hangs

LEMMA DescriptorPromised ==
  ASSUME IInv, NEW fd, DescriptorCall(fd), Sound
  PROVE  Promised
<1>0. TypeOK
  BY DEF IInv
<1>1. /\ UNCHANGED <<booted, mounted, live, mem, lost, root, dirs, hung>>
      /\ ret' \in Int
      /\ \/ ret' < 0 /\ fd_table' = fd_table
         \/ /\ IsOpen(fd) /\ ret' \in Nat
            /\ \E to \in {fd_table[fd].offset + ret', ret'} :
                 to \in 0 .. MaxOffset /\ OffsetAt(fd, to)
  BY <1>0, DescriptorMoves
<1>2. Listing' = Listing
  BY <1>1, SameListing
<1>3. CASE ret' < 0 /\ fd_table' = fd_table
  BY <1>2, <1>3, SameTable, LeavesAlone
<1>4. ASSUME IsOpen(fd), ret' \in Nat, NEW to \in {fd_table[fd].offset + ret', ret'}, OffsetAt(fd, to)
      PROVE  Promised
  <2>1. fd \in Fds /\ fd_table[fd].node # NULL
    BY <1>4 DEF IsOpen
  <2>2. fd_table'[fd].node = fd_table[fd].node /\ fd_table'[fd].offset = to /\ \A k \in Fds : k # fd => fd_table'[k] = fd_table[k]
    BY <1>0, <1>4, <2>1 DEF OffsetAt, TypeOK
  <2>3. Table'[fd] = [file |-> mem[fd_table[fd].node].cluster, offset |-> to]
    BY <2>1, <2>2, TableKept
  <2>4. Table[fd] = [file |-> mem[fd_table[fd].node].cluster, offset |-> fd_table[fd].offset]
    BY <2>1 DEF Table
  <2>5. Table'[fd] = [Table[fd] EXCEPT !.offset = to]
    BY <2>3, <2>4
  <2>6. \A k \in Fds : k # fd => Table'[k] = Table[k]
    BY <2>2, TableKept DEF Table
  <2>7. Table' = [Table EXCEPT ![fd].offset = to]
    BY <2>1, <2>5, <2>6 DEF Table
  <2>8. fd \in Descr!Open /\ to \in {Table[fd].offset + ret', ret'}
    BY <1>4, <2>1, TableIs DEF Descr!Open
  <2>9. Descr!Moves(fd)
    <3>1. ret' >= 0
      BY <1>4
    <3>2. \E x \in {Table[fd].offset + ret', ret'} : Table' = [Table EXCEPT ![fd].offset = x]
      BY <2>7, <2>8
    <3>3. QED
      BY <2>8, <3>1, <3>2, Zenon DEF Descr!Moves
  <2>10. QED
    BY <1>2, <2>1, <2>9 DEF Promised, Descr!Next
<1>5. QED
  BY <1>1, <1>3, <1>4

LEMMA ClosePromised ==
  ASSUME IInv, NEW fd, vfs_close(fd), Sound
  PROVE  Promised
<1>0. TypeOK /\ dirs' = dirs
  BY DEF IInv, vfs_close
<1>1. Listing' = Listing
  BY <1>0, SameListing
<1>2. CASE BadDescriptor(fd)
  BY <1>1, <1>2, SameTable, LeavesAlone DEF BadDescriptor, EBADF
<1>3. CASE /\ IsOpen(fd) /\ ret' = 0
           /\ fd_table' = [fd_table EXCEPT ![fd] = [node |-> NULL, offset |-> 0]]
  <2>1. fd \in Fds /\ fd_table[fd].node # NULL
    BY <1>3 DEF IsOpen
  <2>2. fd_table'[fd].node = NULL /\ \A k \in Fds : k # fd => fd_table'[k] = fd_table[k]
    BY <1>0, <1>3, <2>1 DEF TypeOK
  <2>3. Table'[fd] = NULL
    BY <2>1, <2>2 DEF Table
  <2>4. \A k \in Fds : k # fd => Table'[k] = Table[k]
    BY <2>2, TableKept DEF Table
  <2>5. Table' = [Table EXCEPT ![fd] = NULL]
    BY <2>1, <2>3, <2>4 DEF Table
  <2>6. fd \in Descr!Open
    BY <2>1, TableIs DEF Descr!Open
  <2>7. Descr!Closes(fd)
    BY <1>3, <2>5, <2>6 DEF Descr!Closes
  <2>8. QED
    BY <1>1, <2>1, <2>7 DEF Promised, Descr!Next
<1>4. QED
  BY <1>2, <1>3 DEF vfs_close

LEMMA StreamPromised ==
  ASSUME IInv, NEW d \in Streams, vfs_readdir(d) \/ vfs_closedir(d), Sound
  PROVE  Promised
<1>0. TypeOK /\ fd_table' = fd_table /\ ret' = ret /\ dirs[d].node # NULL
  BY DEF IInv, vfs_readdir, vfs_closedir
<1>1. Table' = Table /\ Listing[d] # NULL
  BY <1>0, SameTable, TableIs
<1>2. CASE vfs_readdir(d)
  <2>1. dirs'[d].node = dirs[d].node /\ dirs'[d].index = dirs[d].index + 1 /\ \A k \in Streams : k # d => dirs'[k] = dirs[k]
    BY <1>0, <1>2 DEF vfs_readdir, TypeOK
  <2>2. Listing'[d] = [file |-> mem[dirs[d].node].cluster, index |-> dirs[d].index + 1]
    BY <1>0, <2>1, ListingKept
  <2>3. Listing[d] = [file |-> mem[dirs[d].node].cluster, index |-> dirs[d].index]
    BY <1>0 DEF Listing
  <2>4. Listing'[d] = [Listing[d] EXCEPT !.index = @ + 1]
    BY <2>2, <2>3
  <2>5. \A k \in Streams : k # d => Listing'[k] = Listing[k]
    BY <2>1, ListingKept DEF Listing
  <2>6. Listing' = [Listing EXCEPT ![d].index = @ + 1]
    <3>1. Listing' = [Listing EXCEPT ![d] = [Listing[d] EXCEPT !.index = @ + 1]]
      <4>1. Listing' = [k \in Streams |-> Listing'[k]] /\ Listing = [k \in Streams |-> Listing[k]]
        BY DEF Listing
      <4>2. QED
        BY <2>4, <2>5, <4>1
    <3>2. QED
      BY <3>1
  <2>7. Descr!Lists(d)
    BY <1>1, <2>6 DEF Descr!Lists
  <2>8. QED
    BY <1>0, <1>1, <2>7 DEF Promised, Descr!Next
<1>3. CASE vfs_closedir(d)
  <2>1. dirs'[d].node = NULL /\ \A k \in Streams : k # d => dirs'[k] = dirs[k]
    BY <1>0, <1>3 DEF vfs_closedir, TypeOK
  <2>2. Listing'[d] = NULL
    BY <2>1 DEF Listing
  <2>3. \A k \in Streams : k # d => Listing'[k] = Listing[k]
    BY <2>1, ListingKept DEF Listing
  <2>4. Listing' = [Listing EXCEPT ![d] = NULL]
    BY <2>2, <2>3 DEF Listing
  <2>5. Descr!ClosesStream(d)
    BY <1>1, <2>4 DEF Descr!ClosesStream
  <2>6. QED
    BY <1>0, <1>1, <2>5 DEF Promised, Descr!Next
<1>4. QED
  BY <1>2, <1>3

LEMMA StepPromised == NoRootPath /\ SoundDisk /\ IInv /\ [Next]_vars => Promised
<1> SUFFICES ASSUME NoRootPath, SoundDisk, IInv, [Next]_vars PROVE Promised
  OBVIOUS
<1>1. CASE vfs_init \/ vfs_mount
  <2>1. Sound
    BY <1>1, InitSound, MountSound
  <2>2. fd_table' = fd_table /\ dirs' = dirs /\ ret' = ret
    BY <1>1 DEF vfs_init, vfs_mount
  <2>3. QED
    BY <2>1, <2>2, SameTable, SameListing DEF Promised
<1>2. ASSUME NEW path \in Paths, NEW flags, vfs_open(path, flags) PROVE Promised
  BY <1>2, OpenSound, OpenPromised DEF NoRootPath
<1>3. ASSUME NEW path \in Paths, NEW result \in {0, ENOSYS}, vfs_path_call(path, result) PROVE Promised
  <2>1. result \in Int /\ (result < 0 \/ result = 0) /\ path # <<>>
    BY <1>3 DEF ENOSYS, NoRootPath
  <2>2. QED
    BY <1>3, <2>1, PathCallSound, PathCallPromised
<1>4. ASSUME NEW path \in Paths, NEW d \in Streams, vfs_opendir(path, d) PROVE Promised
  BY <1>4, OpendirSound, OpendirPromised DEF NoRootPath
<1>5. ASSUME NEW fd, DescriptorCall(fd) PROVE Promised
  BY <1>5, DescriptorSound, DescriptorPromised
<1>6. ASSUME NEW fd, vfs_close(fd) PROVE Promised
  BY <1>6, CloseSound, ClosePromised
<1>7. ASSUME NEW d \in Streams, vfs_readdir(d) \/ vfs_closedir(d) PROVE Promised
  BY <1>7, ReaddirSound, ClosedirSound, StreamPromised
<1>8. CASE UNCHANGED vars
  <2>1. Table' = Table /\ Listing' = Listing /\ ret' = ret
    BY <1>8 DEF vars, heap, Table, Listing
  <2>2. QED
    BY <2>1 DEF Promised
<1>9. QED
  BY <1>1, <1>2, <1>3, <1>4, <1>5, <1>6, <1>7, <1>8 DEF Next

LEMMA InitPromised == Init => Descr!Init
BY DEF Init, Descr!Init, Table, Listing

(* The descriptors and streams, pointers to nodes that are freed and used  *)
(* again, behave as independent ones: each is the file its path named and  *)
(* has a position of its own, and a call that fails leaves them alone.     *)
THEOREM VfsImplementsDescriptors == NoRootPath /\ SoundDisk => (Spec => DescriptorsSpec)
<1>1. SUFFICES ASSUME NoRootPath, SoundDisk PROVE Spec => DescriptorsSpec
  OBVIOUS
<1>2. Spec => []IInv
  BY <1>1, Invariance
<1>3. IInv /\ [Next]_vars => [Descr!Next]_<<Table, Listing, ret>>
  BY <1>1, StepPromised DEF Promised
<1>4. Init => Descr!Init
  BY InitPromised
<1>5. QED
  BY <1>2, <1>3, <1>4, PTL DEF Spec, DescriptorsSpec, Descr!Spec, Descr!vars
=============================================================================
