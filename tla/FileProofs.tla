----------------------------- MODULE FileProofs -----------------------------
(***************************************************************************)
(* Proofs about Fat32 and Streams.                                         *)
(*                                                                         *)
(* Fat32: what fat32_read returns, for clusters of every size, files of    *)
(* every length, any offset and count, and any number of sectors that      *)
(* cannot be read.  The argument: the read walks the chain from its first  *)
(* cluster, first to skip what lies before the offset, then to copy. Base  *)
(* says where the cluster the walk stands at begins in the file, and ties  *)
(* offset and bytes_read to it; a chain that was cut short by an           *)
(* unreadable FAT sector (asked.cut) is left out, as in the property.      *)
(* What readdir lists, for directories of any items whose labels stand     *)
(* behind the files.  The argument: the walk is at an entry of one item    *)
(* (AtEntry), the files of the items before it are counted, and lfn_buffer *)
(* holds the parts passed of that item, put together backwards (Taken), so *)
(* that the file a call comes to is the next one expected.                 *)
(*                                                                         *)
(* Streams: that the streams implement ordered pipes, that no line stays   *)
(* behind and no descriptor is lost, for buffers of every size, all texts  *)
(* and formats, any number of files and calls and any answers of the       *)
(* kernel.  The argument: what a stream was given and has not handed over  *)
(* is what its buffer holds (Waits), in whatever stage its call is         *)
(* (CallOK), and a descriptor without a stream exists only between open    *)
(* and mmap (Descriptors).                                                 *)
(***************************************************************************)
EXTENDS Fat32, Streams, FiniteSetTheorems, SequenceTheorems, WellFoundedInduction, TLAPS

-----------------------------------------------------------------------------
(* Sequences *)

(* A set of naturals has a least element.                                  *)

LEMMA Least ==
  ASSUME NEW T, T \subseteq Nat, T # {}
  PROVE  \E x \in T : \A y \in T : x <= y
<1>1. PICK x \in T : \A y \in T : ~ (<<y, x>> \in OpToRel(<, Nat))
  BY NatLessThanWellFounded, WFMin
<1>2. \A y \in T : ~ (y < x)
  BY <1>1 DEF OpToRel
<1>3. QED
  BY <1>2

(* Induction over the naturals, for a set.                                 *)
LEMMA Induct ==
  ASSUME NEW S, 0 \in S, \A n \in Nat : n \in S => n + 1 \in S
  PROVE  Nat \subseteq S
<1>1. SUFFICES ASSUME Nat \ S # {} PROVE FALSE
  OBVIOUS
<1>2. PICK x \in Nat \ S : \A y \in Nat \ S : x <= y
  BY <1>1, Least
<1>3. x # 0 /\ x - 1 \in Nat
  BY <1>2
<1>4. x - 1 \in S
  BY <1>2, <1>3
<1>5. QED
  BY <1>2, <1>3, <1>4

(* A text that another continues with from some place on.                  *)
LEMMA Shifted ==
  ASSUME NEW S, NEW s \in Seq(S), NEW t \in Seq(S), NEW k \in Nat, Len(t) = k + Len(s),
         \A i \in 1 .. Len(s) : s[i] = t[k + i], NEW r \in 0 .. Len(s)
  PROVE  SubSeq(s, 1, r) = SubSeq(t, k + 1, k + r)
<1> DEFINE a == SubSeq(s, 1, r)
           b == SubSeq(t, k + 1, k + r)
<1>1. a \in Seq(S) /\ Len(a) = r /\ \A i \in 1 .. r : a[i] = s[i]
  OBVIOUS
<1>2. b \in Seq(S) /\ Len(b) = r /\ \A i \in 1 .. r : b[i] = t[k + i]
  OBVIOUS
<1>3. \A i \in 1 .. r : s[i] = t[k + i]
  OBVIOUS
<1> HIDE DEF a, b
<1>4. Len(a) = Len(b) /\ \A i \in 1 .. Len(a) : a[i] = b[i]
  BY <1>1, <1>2, <1>3
<1>5. a = b
  BY <1>1, <1>2, <1>4, SeqEqual
<1>6. QED
  BY <1>5 DEF a, b

(* What is where in two texts put together.                                *)
LEMMA Extended ==
  ASSUME NEW S, NEW s \in Seq(S), NEW t \in Seq(S)
  PROVE  /\ s \o t \in Seq(S) /\ Len(s \o t) = Len(s) + Len(t)
         /\ \A i \in 1 .. Len(s) : (s \o t)[i] = s[i]
         /\ \A i \in 1 .. Len(t) : (s \o t)[Len(s) + i] = t[i]
         /\ IsPrefix(s, s \o t)
<1>1. /\ s \o t \in Seq(S) /\ Len(s \o t) = Len(s) + Len(t)
      /\ \A i \in 1 .. Len(s) : (s \o t)[i] = s[i]
      /\ \A i \in 1 .. Len(t) : (s \o t)[Len(s) + i] = t[i]
  OBVIOUS
<1>2. SubSeq(s, 1, Len(s)) = SubSeq(s \o t, 1, Len(s))
  <2>1. SubSeq(s, 1, Len(s)) \in Seq(S) /\ Len(SubSeq(s, 1, Len(s))) = Len(s)
        /\ \A i \in 1 .. Len(s) : SubSeq(s, 1, Len(s))[i] = s[i]
    OBVIOUS
  <2>2. SubSeq(s \o t, 1, Len(s)) \in Seq(S) /\ Len(SubSeq(s \o t, 1, Len(s))) = Len(s)
        /\ \A i \in 1 .. Len(s) : SubSeq(s \o t, 1, Len(s))[i] = (s \o t)[i]
    BY <1>1
  <2>3. QED
    BY <1>1, <2>1, <2>2, SeqEqual
<1>3. QED
  BY <1>1, <1>2 DEF IsPrefix

(* A walk over a sequence from one value to the next. *)
HasWalk(T, base, s, step) ==
  \E W \in [0 .. Len(s) -> T] : W[0] = base /\ \A k \in 1 .. Len(s) : W[k] = step[<<W[k - 1], s[k]>>]
IsWalk(X, T, s, step) ==
  X[0] \in T /\ \A k \in 1 .. Len(s) : X[k - 1] \in T => X[k] = step[<<X[k - 1], s[k]>>]

LEMMA WalkExists ==
  ASSUME NEW T, NEW base \in T, NEW A, NEW s \in Seq(A), NEW step \in [T \X A -> T]
  PROVE  HasWalk(T, base, s, step)
<1> DEFINE Grows(W, n) == W[0] = base /\ \A k \in 1 .. n : W[k] = step[<<W[k - 1], s[k]>>]
           S == {n \in Nat : n <= Len(s) => \E W \in [0 .. n -> T] : Grows(W, n)}
<1>1. 0 \in S
  <2>1. [k \in 0 .. 0 |-> base] \in [0 .. 0 -> T] /\ Grows([k \in 0 .. 0 |-> base], 0)
    OBVIOUS
  <2>2. QED
    BY <2>1
<1>2. ASSUME NEW n \in Nat, n \in S PROVE n + 1 \in S
  <2> SUFFICES ASSUME n + 1 <= Len(s) PROVE \E W \in [0 .. n + 1 -> T] : Grows(W, n + 1)
    OBVIOUS
  <2>0. n <= Len(s) /\ s[n + 1] \in A /\ Len(s) \in Nat
    OBVIOUS
  <2>1. PICK W \in [0 .. n -> T] : Grows(W, n)
    BY <1>2, <2>0
  <2> DEFINE V == [k \in 0 .. n + 1 |-> IF k <= n THEN W[k] ELSE step[<<W[n], s[n + 1]>>]]
  <2>2. step[<<W[n], s[n + 1]>>] \in T
    BY <2>0
  <2>3. V \in [0 .. n + 1 -> T]
    BY <2>2
  <2>4. V[0] = base
    BY <2>1
  <2>5. ASSUME NEW k \in 1 .. n + 1 PROVE V[k] = step[<<V[k - 1], s[k]>>]
    <3>1. CASE k <= n
      <4>1. V[k] = W[k] /\ V[k - 1] = W[k - 1] /\ k \in 1 .. n
        BY <3>1
      <4>2. QED
        BY <4>1, <2>1
    <3>2. CASE ~ (k <= n)
      <4>1. k = n + 1
        BY <3>2
      <4>2. V[n + 1] = step[<<W[n], s[n + 1]>>] /\ V[n] = W[n]
        OBVIOUS
      <4>3. k - 1 = n
        BY <4>1
      <4> HIDE DEF V
      <4>4. QED
        BY <4>1, <4>2, <4>3
    <3>3. QED
      BY <3>1, <3>2
  <2>6. Grows(V, n + 1)
    <3> HIDE DEF V
    <3>1. QED
      BY <2>4, <2>5
  <2>7. QED
    <3> HIDE DEF V, Grows
    <3>1. QED
      BY <2>3, <2>6
<1>3. Len(s) \in S
  <2>1. Nat \subseteq S
    <3> HIDE DEF S
    <3>1. QED
      BY <1>1, <1>2, Induct
  <2>2. Len(s) \in Nat
    OBVIOUS
  <2>3. QED
    BY <2>1, <2>2
<1>4. QED
  BY <1>3 DEF HasWalk

(* All that such a walk comes through is of the type of its steps. *)
LEMMA WalkType ==
  ASSUME NEW T, NEW A, NEW s \in Seq(A), NEW step \in [T \X A -> T], NEW X, IsWalk(X, T, s, step)
  PROVE  X[Len(s)] \in T
<1> DEFINE S == {n \in Nat : n <= Len(s) => X[n] \in T}
<1>1. 0 \in S
  BY DEF IsWalk
<1>2. ASSUME NEW n \in Nat, n \in S PROVE n + 1 \in S
  <2> SUFFICES ASSUME n + 1 <= Len(s) PROVE X[n + 1] \in T
    OBVIOUS
  <2>1. n <= Len(s) /\ n + 1 \in 1 .. Len(s) /\ n + 1 - 1 = n
    OBVIOUS
  <2>2. X[n] \in T /\ s[n + 1] \in A
    BY <1>2, <2>1
  <2>3. X[n + 1] = step[<<X[n], s[n + 1]>>]
    BY <2>1, <2>2 DEF IsWalk
  <2>4. QED
    BY <2>2, <2>3
<1>3. Nat \subseteq S
  <2> HIDE DEF S
  <2>1. QED
    BY <1>1, <1>2, Induct
<1>4. QED
  BY <1>3

-----------------------------------------------------------------------------
(* Sums *)

(* The sums of sizes. *)
LEMMA SumsAre ==
  ASSUME NEW s \in Seq(Nat)
  PROVE  /\ Len(s) \in Nat /\ DOMAIN Sums(s) = 0 .. Len(s) /\ Sums(s)[0] = 0
         /\ \A k \in 0 .. Len(s) : Sums(s)[k] \in Nat
         /\ \A k \in 1 .. Len(s) : k - 1 \in 0 .. Len(s) /\ Sums(s)[k] = Sums(s)[k - 1] + s[k]
<1> DEFINE f(Q) == [k \in 0 .. Len(s) |-> IF k = 0 THEN 0 ELSE Q[k - 1] + s[k]]
           step == [p \in Nat \X Nat |-> p[1] + p[2]]
<1>1. Len(s) \in Nat /\ \A k \in 1 .. Len(s) : s[k] \in Nat
  OBVIOUS
<1>2. Sums(s) = CHOOSE Q : Q = f(Q)
  BY DEF Sums
<1>3. PICK P \in [0 .. Len(s) -> Nat] : P[0] = 0 /\ \A k \in 1 .. Len(s) : P[k] = step[<<P[k - 1], s[k]>>]
  <2>1. HasWalk(Nat, 0, s, step)
    <3>1. step \in [Nat \X Nat -> Nat] /\ 0 \in Nat
      OBVIOUS
    <3> HIDE DEF step
    <3>2. QED
      BY <3>1, WalkExists
  <2>2. QED
    BY <2>1 DEF HasWalk
<1>4. \A k \in 1 .. Len(s) : k - 1 \in 0 .. Len(s) /\ P[k] = P[k - 1] + s[k]
  <2> SUFFICES ASSUME NEW k \in 1 .. Len(s) PROVE k - 1 \in 0 .. Len(s) /\ P[k] = P[k - 1] + s[k]
    OBVIOUS
  <2>1. k - 1 \in 0 .. Len(s) /\ P[k - 1] \in Nat /\ s[k] \in Nat
    <3>1. k - 1 \in 0 .. Len(s)
      BY <1>1
    <3>2. QED
      BY <1>1, <3>1
  <2>2. \A a, b \in Nat : step[<<a, b>>] = a + b
    OBVIOUS
  <2> HIDE DEF step
  <2>3. QED
    BY <1>3, <2>1, <2>2
<1>5. P = f(P)
  <2>1. \A k \in 0 .. Len(s) : P[k] = IF k = 0 THEN 0 ELSE P[k - 1] + s[k]
    BY <1>1, <1>3, <1>4
  <2>2. P = [k \in 0 .. Len(s) |-> P[k]]
    OBVIOUS
  <2>3. QED
    BY <2>1, <2>2
<1>6. Sums(s) = f(Sums(s))
  <2>1. \E Q : Q = f(Q)
    BY <1>5
  <2> HIDE DEF f
  <2>2. QED
    BY <1>2, <2>1
<1> DEFINE Z == Sums(s)
           S == {n \in Nat : n <= Len(s) => Z[n] \in Nat}
<1>7. Z = f(Z)
  BY <1>6
<1> HIDE DEF Z
<1>8. DOMAIN Z = 0 .. Len(s) /\ Z[0] = 0 /\ \A k \in 1 .. Len(s) : Z[k] = Z[k - 1] + s[k]
  <2>1. DOMAIN Z = 0 .. Len(s) /\ \A k \in 0 .. Len(s) : Z[k] = IF k = 0 THEN 0 ELSE Z[k - 1] + s[k]
    BY <1>7
  <2>2. 0 \in 0 .. Len(s) /\ \A k \in 1 .. Len(s) : k \in 0 .. Len(s) /\ k # 0
    BY <1>1
  <2>3. QED
    BY <2>1, <2>2
<1>9. 0 \in S
  BY <1>8
<1>10. ASSUME NEW n \in Nat, n \in S PROVE n + 1 \in S
  <2> SUFFICES ASSUME n + 1 <= Len(s) PROVE Z[n + 1] \in Nat
    OBVIOUS
  <2>1. n <= Len(s) /\ n + 1 \in 1 .. Len(s) /\ n + 1 - 1 = n
    BY <1>1
  <2>2. Z[n] \in Nat /\ s[n + 1] \in Nat
    BY <1>1, <1>10, <2>1
  <2>3. Z[n + 1] = Z[n] + s[n + 1]
    BY <1>8, <2>1
  <2>4. QED
    BY <2>2, <2>3
<1>11. Nat \subseteq S
  <2> HIDE DEF S
  <2>1. QED
    BY <1>9, <1>10, Induct
<1>12. \A k \in 0 .. Len(s) : Z[k] \in Nat
  BY <1>1, <1>11
<1>13. QED
  BY <1>1, <1>4, <1>8, <1>12 DEF Z

(* Sums of sizes do not fall. *)
LEMMA SumsGrow ==
  ASSUME NEW s \in Seq(Nat), NEW j \in 0 .. Len(s), NEW i \in 0 .. j
  PROVE  Sums(s)[i] <= Sums(s)[j]
<1> DEFINE Z == Sums(s)
           S == {n \in Nat : n <= Len(s) => \A h \in 0 .. n : Z[h] <= Z[n]}
<1>1. /\ Len(s) \in Nat /\ \A k \in 0 .. Len(s) : Z[k] \in Nat
      /\ \A k \in 1 .. Len(s) : Z[k] = Z[k - 1] + s[k] /\ s[k] \in Nat
  BY SumsAre
<1> HIDE DEF Z
<1>2. 0 \in S
  <2>1. \A h \in 0 .. 0 : h = 0
    OBVIOUS
  <2>2. Z[0] \in Nat
    BY <1>1
  <2>3. QED
    BY <2>1, <2>2
<1>3. ASSUME NEW n \in Nat, n \in S PROVE n + 1 \in S
  <2> SUFFICES ASSUME n + 1 <= Len(s), NEW h \in 0 .. n + 1 PROVE Z[h] <= Z[n + 1]
    OBVIOUS
  <2>1. n <= Len(s) /\ n + 1 \in 1 .. Len(s) /\ n + 1 - 1 = n /\ n \in 0 .. Len(s) /\ h \in 0 .. Len(s)
    BY <1>1
  <2>2. Z[n + 1] = Z[n] + s[n + 1] /\ s[n + 1] \in Nat /\ Z[n] \in Nat /\ Z[h] \in Nat
    BY <1>1, <2>1
  <2>3. CASE h = n + 1
    BY <2>2, <2>3
  <2>4. CASE h \in 0 .. n
    <3>1. Z[h] <= Z[n]
      BY <1>3, <2>1, <2>4
    <3>2. QED
      BY <2>2, <3>1
  <2>5. QED
    BY <2>3, <2>4
<1>4. Nat \subseteq S
  <2> HIDE DEF S
  <2>1. QED
    BY <1>2, <1>3, Induct
<1>5. j \in S /\ j <= Len(s)
  BY <1>1, <1>4
<1>6. QED
  BY <1>5 DEF Z

(* A number is the first in one place only. *)
LEMMA WhichIs ==
  ASSUME NEW s \in Seq(Nat), NEW k \in 1 .. Len(s), NEW n \in Nat, Sums(s)[k - 1] < n, n <= Sums(s)[k]
  PROVE  Which(Sums(s), n) = k
<1> DEFINE Z == Sums(s)
           Right(j) == Z[j - 1] < n /\ n <= Z[j]
<1>1. Len(s) \in Nat /\ DOMAIN Z \ {0} = 1 .. Len(s) /\ \A j \in 0 .. Len(s) : Z[j] \in Nat
  BY SumsAre
<1>2. \A j \in 0 .. Len(s), i \in 0 .. Len(s) : i <= j => Z[i] <= Z[j]
  <2>1. \A j \in 0 .. Len(s), i \in 0 .. Len(s) : i <= j => i \in 0 .. j
    BY <1>1
  <2>2. QED
    BY <2>1, SumsGrow
<1> HIDE DEF Z
<1>3. Right(k)
  BY DEF Z
<1>4. ASSUME NEW j \in 1 .. Len(s), Right(j) PROVE j = k
  <2>1. j \in 0 .. Len(s) /\ k \in 0 .. Len(s) /\ j - 1 \in 0 .. Len(s) /\ k - 1 \in 0 .. Len(s)
    BY <1>1
  <2>2. Z[j] \in Nat /\ Z[k] \in Nat /\ Z[j - 1] \in Nat /\ Z[k - 1] \in Nat
    BY <1>1, <2>1
  <2>3. CASE j < k
    <3>1. j <= k - 1
      BY <1>1, <2>3
    <3>2. Z[j] <= Z[k - 1]
      BY <1>2, <2>1, <3>1
    <3>3. QED
      BY <1>3, <1>4, <2>2, <3>2
  <2>4. CASE k < j
    <3>1. k <= j - 1
      BY <1>1, <2>4
    <3>2. Z[k] <= Z[j - 1]
      BY <1>2, <2>1, <3>1
    <3>3. QED
      BY <1>3, <1>4, <2>2, <3>2
  <2>5. QED
    BY <1>1, <2>3, <2>4
<1>5. (CHOOSE j \in 1 .. Len(s) : Right(j)) = k
  <2> HIDE DEF Right
  <2>1. QED
    BY <1>3, <1>4
<1>6. QED
  BY <1>1, <1>5 DEF Which, Z

(* Sizes of zero add nothing. *)
LEMMA SumsStay ==
  ASSUME NEW s \in Seq(Nat), NEW k \in 0 .. Len(s), \A i \in k + 1 .. Len(s) : s[i] = 0
  PROVE  Sums(s)[k] = Sums(s)[Len(s)]
<1> DEFINE Z == Sums(s)
           S == {n \in Nat : k + n <= Len(s) => Z[k + n] = Z[k]}
<1>1. /\ Len(s) \in Nat /\ \A j \in 0 .. Len(s) : Z[j] \in Nat
      /\ \A j \in 1 .. Len(s) : Z[j] = Z[j - 1] + s[j]
  BY SumsAre
<1> HIDE DEF Z
<1>2. 0 \in S
  BY <1>1
<1>3. ASSUME NEW n \in Nat, n \in S PROVE n + 1 \in S
  <2> SUFFICES ASSUME k + (n + 1) <= Len(s) PROVE Z[k + (n + 1)] = Z[k]
    OBVIOUS
  <2>1. k + n + 1 \in 1 .. Len(s) /\ k + n + 1 \in k + 1 .. Len(s) /\ k + (n + 1) = k + n + 1 /\ k + n + 1 - 1 = k + n
        /\ k + n \in 0 .. Len(s)
    BY <1>1
  <2>2. Z[k + n + 1] = Z[k + n] + 0 /\ Z[k + n] = Z[k] /\ Z[k + n] \in Nat
    BY <1>1, <1>3, <2>1
  <2>3. QED
    BY <2>1, <2>2
<1>4. Nat \subseteq S
  <2> HIDE DEF S
  <2>1. QED
    BY <1>2, <1>3, Induct
<1>5. PICK d \in Nat : k + d = Len(s) /\ k + d <= Len(s)
  <2> DEFINE d == Len(s) - k
  <2>1. d \in Nat /\ k + d = Len(s) /\ k + d <= Len(s)
    BY <1>1
  <2> HIDE DEF d
  <2>2. QED
    BY <2>1
<1>6. Z[Len(s)] = Z[k]
  <2>1. d \in S
    BY <1>4
  <2>2. QED
    BY <1>5, <2>1
<1>7. QED
  BY <1>6 DEF Z
-----------------------------------------------------------------------------
(* Fat32 *)

(* The sectors the chain holds.                                            *)
Held == Walked * sectors_per_cluster

(* Where cluster c of the chain begins in the file. *)
Base(c) == (c - 1) * sectors_per_cluster

(* While clusters are skipped, the place asked for is where the walk is    *)
(* and the offset beyond; then what was read ends where the walk is,       *)
(* unless that is all that was asked for.                                  *)
Skipped ==
  /\ bytes_read = 0
  /\ asked.cut \/ IF cluster = EOC THEN asked.from >= Held
                  ELSE asked.from = Base(cluster) + offset
Copied ==
  \/ asked.cut
  \/ asked.from >= Held /\ bytes_read = 0 /\ cluster = EOC
  \/ /\ asked.from < Held /\ asked.from + bytes_read =< Held /\ bytes_read =< count
     /\ \/ bytes_read = count
        \/ cluster = EOC /\ asked.from + bytes_read = Held
        \/ /\ cluster # EOC /\ offset < sectors_per_cluster
           /\ asked.from + bytes_read = Base(cluster) + offset

Reading ==
  /\ cluster \in 0 .. Walked
  /\ offset \in Nat /\ count \in Nat /\ bytes_read \in Nat
  /\ \/ pc = "skip" /\ Skipped
     \/ pc = "copy" /\ Copied /\ (cluster # EOC => offset < sectors_per_cluster)

(* The inductive invariant.                                                *)
FatInv ==
  /\ asked \in [from : Nat, cut : BOOLEAN]
  /\ op = "read" => Reading
  /\ ReadCountIsExact

(* The kinds of the sizes.                                                 *)
LEMMA Sizes ==
  /\ sectors_per_cluster \in Nat \ {0} /\ MaxCount \in Nat
  /\ FileClusters \in Nat /\ Walked \in Nat \ {0} /\ Held \in Nat
<1>1. sectors_per_cluster \in Nat \ {0} /\ MaxCount \in Nat /\ FileSectors \in Nat
  BY FatAssumption DEF FatAssumption
<1>2. FileClusters \in Nat
  BY <1>1 DEF FileClusters
<1>3. Walked \in Nat \ {0}
  BY <1>2 DEF Walked
<1>4. Held \in Nat
  BY <1>1, <1>3 DEF Held
<1>5. QED
  BY <1>1, <1>2, <1>3, <1>4

(* Each cluster begins where the one before it ends, and none behind the   *)
(* end.                                                                    *)
LEMMA Bases ==
  ASSUME NEW c \in 1 .. Walked
  PROVE  /\ Base(c) \in Nat /\ Base(c + 1) = Base(c) + sectors_per_cluster
         /\ Base(c) + sectors_per_cluster =< Held
         /\ c = Walked => Base(c) + sectors_per_cluster = Held
<1> DEFINE z == sectors_per_cluster
<1>1. z \in Nat \ {0} /\ Walked \in Nat /\ c \in Nat \ {0}
  BY Sizes
<1>2. \A k, n \in Nat \ {0} : (n - 1) * k \in Nat /\ (n + 1 - 1) * k = (n - 1) * k + k
  OBVIOUS
<1>3. \A k, n, m \in Nat \ {0} : n =< m => (n - 1) * k + k =< m * k
  OBVIOUS
<1>4. \A k, n \in Nat \ {0} : (n - 1) * k + k = n * k
  OBVIOUS
<1>5. QED
  BY <1>1, <1>2, <1>3, <1>4 DEF Base, Held

(* The first cluster begins the file.                                      *)
LEMMA FirstBase == Base(1) = 0
  BY Sizes DEF Base

(* One step along the file's chain: to the next cluster, to the end behind *)
(* the last, or, with the chain cut, to the end.                           *)
LEMMA FollowStep ==
  ASSUME NEW c \in 1 .. Walked, asked \in [from : Nat, cut : BOOLEAN], Follow(c, FileClusters)
  PROVE  /\ asked' \in [from : Nat, cut : BOOLEAN] /\ asked'.from = asked.from
         /\ asked.cut => asked'.cut
         /\ cluster' \in 0 .. Walked
         /\ asked'.cut \/ (c < Walked /\ cluster' = c + 1) \/ (c = Walked /\ cluster' = EOC)
<1>1. PICK n \in fat32_next_cluster(c, FileClusters) :
        /\ cluster' = n
        /\ IF n = EOC /\ c < FileClusters THEN asked' = [asked EXCEPT !.cut = TRUE]
           ELSE asked' = asked
  BY DEF Follow
<1>2. c \in Nat \ {0} /\ FileClusters \in Nat /\ Walked \in Nat \ {0}
  BY Sizes
<1>3. n = EOC \/ (c < FileClusters /\ n = c + 1)
  BY DEF fat32_next_cluster
<1>4. CASE c < FileClusters /\ n = c + 1
  BY <1>1, <1>2, <1>4 DEF EOC, Walked
<1>5. CASE n = EOC /\ c < FileClusters
  <2>1. asked' = [asked EXCEPT !.cut = TRUE] /\ cluster' = 0
    BY <1>1, <1>5 DEF EOC
  <2>2. asked' \in [from : Nat, cut : BOOLEAN] /\ asked'.from = asked.from /\ asked'.cut
    BY <2>1
  <2>3. QED
    BY <1>2, <2>1, <2>2
<1>6. CASE n = EOC /\ ~(c < FileClusters)
  BY <1>1, <1>2, <1>6 DEF EOC, Walked
<1>7. QED
  BY <1>3, <1>4, <1>5, <1>6

(* A cluster before the offset is passed over, or the copying begins.      *)
LEMMA SkipStep ==
  ASSUME FatInv, SkipCluster
  PROVE  FatInv'
<1>1. op = "read" /\ op' = "read" /\ pc = "skip" /\ Reading /\ Skipped
      /\ UNCHANGED <<bytes_read, count>>
  BY DEF SkipCluster, FatInv, Reading
<1>2. /\ asked \in [from : Nat, cut : BOOLEAN] /\ cluster \in 0 .. Walked /\ offset \in Nat
      /\ count \in Nat /\ bytes_read = 0
  BY <1>1 DEF FatInv, Reading, Skipped
<1>3. CASE offset >= sectors_per_cluster /\ cluster # EOC
  <2>1. /\ offset' = offset - sectors_per_cluster /\ pc' = "skip"
        /\ Follow(cluster, FileClusters)
    BY <1>1, <1>3 DEF SkipCluster
  <2>2. cluster \in 1 .. Walked
    BY <1>2, <1>3 DEF EOC
  <2>3. offset' \in Nat
    BY <1>2, <1>3, <2>1, Sizes
  <2>4. asked' \in [from : Nat, cut : BOOLEAN] /\ cluster' \in 0 .. Walked
    BY <1>2, <2>1, <2>2, FollowStep
  <2>5. asked'.cut \/ IF cluster' = EOC THEN asked'.from >= Held ELSE asked'.from = Base(cluster') + offset'
    <3>1. CASE asked'.cut
      BY <3>1
    <3>2. CASE ~asked'.cut
      <4>1. ~asked.cut /\ asked'.from = asked.from
            /\ ((cluster < Walked /\ cluster' = cluster + 1) \/ (cluster = Walked /\ cluster' = EOC))
        BY <1>2, <2>1, <2>2, <3>2, FollowStep
      <4>2. asked.from = Base(cluster) + offset
        BY <1>1, <1>3, <4>1 DEF Skipped
      <4>3. /\ Base(cluster) \in Nat /\ Base(cluster + 1) = Base(cluster) + sectors_per_cluster
            /\ cluster = Walked => Base(cluster) + sectors_per_cluster = Held
        BY <2>2, Bases
      <4>4. CASE cluster < Walked /\ cluster' = cluster + 1
        <5>1. cluster' # EOC
          BY <2>2, <4>4 DEF EOC
        <5>2. asked.from = Base(cluster + 1) + (offset - sectors_per_cluster)
          BY <1>2, <4>2, <4>3, Sizes
        <5>3. QED
          BY <2>1, <4>1, <4>4, <5>1, <5>2
      <4>5. CASE cluster = Walked /\ cluster' = EOC
        BY <1>2, <1>3, <4>1, <4>2, <4>3, <4>5, Sizes
      <4>6. QED
        BY <4>1, <4>4, <4>5
    <3>3. QED
      BY <3>1, <3>2
  <2>6. Reading'
    BY <1>1, <1>2, <2>1, <2>3, <2>4, <2>5 DEF Reading, Skipped
  <2>7. QED
    BY <1>1, <2>4, <2>6 DEF FatInv, ReadCountIsExact
<1>4. CASE ~(offset >= sectors_per_cluster /\ cluster # EOC)
  <2>1. pc' = "copy" /\ UNCHANGED <<offset, cluster, asked>>
    BY <1>4 DEF SkipCluster
  <2>2. Copied
    <3>1. CASE asked.cut
      BY <3>1 DEF Copied
    <3>2. CASE ~asked.cut /\ cluster = EOC
      BY <1>1, <3>2 DEF Copied, Skipped
    <3>3. CASE ~asked.cut /\ cluster # EOC
      <4>1. asked.from = Base(cluster) + offset /\ offset < sectors_per_cluster /\ cluster \in 1 .. Walked
        BY <1>1, <1>2, <1>4, <3>3, Sizes DEF Skipped, EOC
      <4>2. Base(cluster) \in Nat /\ Base(cluster) + sectors_per_cluster =< Held
        BY <4>1, Bases
      <4>3. asked.from < Held /\ asked.from + bytes_read =< Held /\ bytes_read =< count
            /\ asked.from + bytes_read = Base(cluster) + offset
        BY <1>2, <4>1, <4>2, Sizes
      <4>4. QED
        BY <3>3, <4>1, <4>3 DEF Copied
    <3>4. QED
      BY <3>1, <3>2, <3>3
  <2>3. cluster # EOC => offset < sectors_per_cluster
    BY <1>2, <1>4, Sizes
  <2>4. Reading'
    BY <1>1, <1>2, <2>1, <2>2, <2>3 DEF Reading, Copied
  <2>5. QED
    BY <1>1, <1>2, <2>1, <2>4 DEF FatInv, ReadCountIsExact
<1>5. QED
  BY <1>3, <1>4

(* A cluster is copied, up to its end or up to the count.                  *)
LEMMA CopyStep ==
  ASSUME FatInv, CopyCluster
  PROVE  FatInv'
<1>1. /\ op = "read" /\ op' = "read" /\ pc = "copy" /\ pc' = "copy" /\ Reading /\ Copied
      /\ cluster # EOC /\ bytes_read < count /\ count' = count
      /\ bytes_read' = bytes_read + ToCopy /\ offset' = 0 /\ Follow(cluster, FileClusters)
  BY DEF CopyCluster, FatInv, Reading
<1>2. /\ asked \in [from : Nat, cut : BOOLEAN] /\ cluster \in 1 .. Walked /\ offset \in Nat
      /\ count \in Nat /\ bytes_read \in Nat
  BY <1>1 DEF FatInv, Reading, EOC
<1>3. asked' \in [from : Nat, cut : BOOLEAN] /\ cluster' \in 0 .. Walked
  BY <1>1, <1>2, FollowStep
<1>4. bytes_read' \in Nat /\ 0 < sectors_per_cluster
  <2>1. offset < sectors_per_cluster
    BY <1>1 DEF Reading
  <2>2. ToCopy \in Nat
    BY <1>1, <1>2, <2>1, Sizes DEF ToCopy
  <2>3. QED
    BY <1>1, <1>2, <2>2, Sizes
<1>5. Copied'
  <2>1. CASE asked'.cut
    BY <2>1 DEF Copied
  <2>2. CASE ~asked'.cut
    <3>1. ~asked.cut /\ asked'.from = asked.from
          /\ ((cluster < Walked /\ cluster' = cluster + 1) \/ (cluster = Walked /\ cluster' = EOC))
      BY <1>1, <1>2, <2>2, FollowStep
    <3>2. /\ asked.from < Held /\ offset < sectors_per_cluster
          /\ asked.from + bytes_read = Base(cluster) + offset
      BY <1>1, <1>2, <3>1 DEF Copied
    <3>3. /\ Base(cluster) \in Nat /\ Base(cluster + 1) = Base(cluster) + sectors_per_cluster
          /\ Base(cluster) + sectors_per_cluster =< Held
          /\ cluster = Walked => Base(cluster) + sectors_per_cluster = Held
      BY <1>2, Bases
    <3>4. CASE count - bytes_read < sectors_per_cluster - offset
      <4>1. bytes_read' = count
        BY <1>1, <1>2, <3>4 DEF ToCopy
      <4>2. asked.from + count =< Held
        BY <1>2, <3>2, <3>3, <3>4, Sizes
      <4>3. QED
        BY <1>1, <1>2, <3>1, <3>2, <4>1, <4>2 DEF Copied
    <3>5. CASE ~(count - bytes_read < sectors_per_cluster - offset)
      <4>1. bytes_read' = bytes_read + (sectors_per_cluster - offset)
        BY <1>1, <3>5 DEF ToCopy
      <4>2. asked.from + bytes_read' = Base(cluster) + sectors_per_cluster /\ bytes_read' =< count
        BY <1>2, <3>2, <3>3, <3>5, <4>1, Sizes
      <4>3. CASE cluster = Walked /\ cluster' = EOC
        BY <1>1, <3>1, <3>2, <3>3, <4>2, <4>3 DEF Copied
      <4>4. CASE cluster < Walked /\ cluster' = cluster + 1
        <5>1. cluster' # EOC
          BY <1>2, <4>4 DEF EOC
        <5>2. asked.from + bytes_read' = Base(cluster') + 0 /\ 0 < sectors_per_cluster
          BY <3>3, <4>2, <4>4, Sizes
        <5>3. QED
          BY <1>1, <3>1, <3>2, <3>3, <4>2, <5>1, <5>2 DEF Copied
      <4>5. QED
        BY <3>1, <4>3, <4>4
    <3>6. QED
      BY <3>4, <3>5
  <2>3. QED
    BY <2>1, <2>2
<1>6. Reading'
  BY <1>1, <1>2, <1>3, <1>4, <1>5 DEF Reading
<1>7. QED
  BY <1>1, <1>3, <1>6 DEF FatInv, ReadCountIsExact

(* The loop ends with all that was asked for or with the chain.            *)
LEMMA ReturnStep ==
  ASSUME FatInv, ReadReturns
  PROVE  FatInv'
<1>1. /\ op = "read" /\ op' = "over" /\ pc = "copy" /\ Copied /\ result' = bytes_read
      /\ UNCHANGED <<asked, count>> /\ (cluster = EOC \/ bytes_read >= count)
  BY DEF ReadReturns, FatInv, Reading, reader
<1>2. /\ asked \in [from : Nat, cut : BOOLEAN] /\ bytes_read \in Nat /\ count \in Nat
  BY <1>1 DEF FatInv, Reading
<1>3. ReadCountIsExact'
  <2> SUFFICES ASSUME ~asked.cut
               PROVE  bytes_read = IF asked.from >= Held THEN 0
                                   ELSE IF count < Held - asked.from THEN count ELSE Held - asked.from
    BY <1>1 DEF ReadCountIsExact, Held
  <2>1. CASE asked.from >= Held /\ bytes_read = 0
    BY <2>1
  <2>2. CASE asked.from < Held /\ asked.from + bytes_read =< Held /\ bytes_read =< count
             /\ (bytes_read = count \/ asked.from + bytes_read = Held)
    BY <1>2, <2>2, Sizes
  <2>3. QED
    BY <1>1, <1>2, <2>1, <2>2 DEF Copied
<1>4. QED
  BY <1>1, <1>2, <1>3 DEF FatInv

(* A call stands at the first cluster with nothing read.                   *)
LEMMA ReadStarts ==
  ASSUME FatInv, NEW o \in 0 .. MaxCount, NEW n \in 0 .. MaxCount, fat32_read(o, n)
  PROVE  FatInv'
<1>1. /\ op' = "read" /\ pc' = "skip" /\ offset' = o /\ count' = n /\ bytes_read' = 0
      /\ asked' = [asked EXCEPT !.from = o, !.cut = FALSE] /\ cluster' = 1
  BY DEF fat32_read
<1>2. asked' \in [from : Nat, cut : BOOLEAN] /\ asked'.from = o /\ o \in Nat /\ n \in Nat
  <2>1. o \in Nat /\ n \in Nat
    BY Sizes
  <2>2. QED
    BY <1>1, <2>1 DEF FatInv
<1>3. 1 \in 0 .. Walked /\ Base(1) + o = o
  BY <1>2, Sizes, FirstBase
<1>4. Reading'
  BY <1>1, <1>2, <1>3 DEF Reading, Skipped, EOC
<1>5. QED
  BY <1>1, <1>2, <1>4 DEF FatInv, ReadCountIsExact

(* A step along a directory's chain keeps what was asked of a read.        *)
LEMMA AskedIsKept ==
  ASSUME asked \in [from : Nat, cut : BOOLEAN], NEW c, NEW last, Follow(c, last)
  PROVE  asked' \in [from : Nat, cut : BOOLEAN]
  BY DEF Follow

(* Mounting and listing start no read.                                     *)
LEMMA BeforeRead ==
  ASSUME FatInv, fs_init \/ Readdir
  PROVE  FatInv'
<1>1. op' \in {"list", "done"}
  BY DEF fs_init, Readdir, vfs_readdir, SectorFails, EndOfDirectory, DeletedEntry, LfnEntry,
         SkipEntry, SkipLabel, ReturnEntry, Return, Here
<1>2. UNCHANGED asked \/ Advance
  BY DEF fs_init, Readdir, vfs_readdir, SectorFails, EndOfDirectory, DeletedEntry, LfnEntry,
         SkipEntry, SkipLabel, ReturnEntry
<1>3. asked' \in [from : Nat, cut : BOOLEAN]
  BY <1>2, AskedIsKept DEF Advance, FatInv
<1>4. QED
  BY <1>1, <1>3 DEF FatInv, ReadCountIsExact

(* In every reachable state a read of fat32_read stands in the chain at    *)
(* the place that its offset and the bytes it has read say (its two loops, *)
(* fat32.c:135-147).                                                       *)
THEOREM FatInvariant == Spec => []FatInv
<1>1. Init => FatInv
  BY DEF Init, FatInv, ReadCountIsExact
<1>2. FatInv /\ [Next]_vars => FatInv'
  <2> SUFFICES ASSUME FatInv, [Next]_vars PROVE FatInv'
    OBVIOUS
  <2>1. CASE fs_init \/ Readdir
    BY <2>1, BeforeRead
  <2>2. CASE SkipCluster
    BY <2>2, SkipStep
  <2>3. CASE CopyCluster
    BY <2>3, CopyStep
  <2>4. CASE CopyFails
    BY <2>4 DEF CopyFails, FatInv, ReadCountIsExact
  <2>5. CASE ReadReturns
    BY <2>5, ReturnStep
  <2>6. CASE \E o, n \in 0 .. MaxCount : fat32_read(o, n)
    BY <2>6, ReadStarts
  <2>7. CASE UNCHANGED vars
    BY <2>7 DEF vars, FatInv, Reading, Skipped, Copied, ReadCountIsExact, reader, walk
  <2>8. QED
    BY <2>1, <2>2, <2>3, <2>4, <2>5, <2>6, <2>7 DEF Next, Read
<1>3. QED
  BY <1>1, <1>2, PTL DEF Spec

(* fat32_read returns the count asked for, or what the chain holds from    *)
(* the offset on when that is less, for every offset and count.            *)
THEOREM ReadsReturnWhatTheChainHolds == Spec => []ReadCountIsExact
<1>1. FatInv => ReadCountIsExact
  BY DEF FatInv
<1>2. QED
  BY <1>1, FatInvariant, PTL

-----------------------------------------------------------------------------
(* Fat32, listing *)

(* A directory in which no file stands behind a label. *)
LabelsLast(c) ==
  \A i, j \in DOMAIN c : i < j /\ c[i].kind = "label" => ~ IsFile(c[j])

LfnType == [parts : Seq(STRING), pos : 0 .. LFN_MAX, sequence : -1 .. 31, sum : Int]

(* The long name after the first parts of an item, or after too many.      *)
Lengths(item) == Sums([i \in DOMAIN item.long |-> item.long[i][2]])
Taken(l, item, n) ==
  IF Lengths(item)[n] < LFN_MAX
  THEN /\ l.parts = [i \in 1 .. n |-> item.long[n + 1 - i][1]] /\ l.pos = Lengths(item)[n]
       /\ l.sequence = Len(item.long) - n /\ l.sum = Raw(item, 1).sum
  ELSE l.pos = 0 /\ l.sequence \in {-1, 0}

(* The entry the walk is at, counted from the front; it is the i-th of     *)
(* item k, or the one behind them all.                                     *)
Place == (cluster - 1) * PerCluster + sector * ENTRIES + entry + 1
Room(k) == IF k > Len(content) THEN 1 ELSE Size(content[k])
AtEntry(k, i) ==
  /\ Place = Lasts[k - 1] + i
  /\ current_index = Counts[k - 1]
  /\ k <= Len(content) =>
       IF i = 1 \/ content[k].kind = "deleted" THEN lfn.pos = 0 /\ lfn.sequence = 0
       ELSE Taken(lfn, content[k], i - 1)

Walking ==
  /\ cluster \in 0 .. Clusters
  /\ IF cluster = EOC THEN asked.cut \/ current_index = Counts[Len(content)]
     ELSE \E k \in 1 .. Len(content) + 1 : \E i \in 1 .. Room(k) : AtEntry(k, i)

(* What the caller has seen. *)
Listed == index <= Counts[Len(content)] /\ listed = [n \in 1 .. index |-> Expected[n]]

(* The inductive invariant of a listing.                                   *)
ListInv ==
  /\ content \in Contents /\ TypeOK /\ lfn \in LfnType /\ Listed
  /\ (op = "list" /\ pc = "entry" => Walking)
  /\ (op = "boot" => pc = "out")
  /\ EndMeansAll

(* The items of a directory, their entries, and the files among them. *)
LEMMA Directory ==
  ASSUME content \in Contents
  PROVE  /\ Len(content) \in Nat /\ DOMAIN content = 1 .. Len(content)
         /\ \A k \in 1 .. Len(content) : content[k] \in Items /\ Len(content[k].long) \in 0 .. 31
         /\ Lasts[0] = 0 /\ Counts[0] = 0
         /\ \A k \in 0 .. Len(content) : Lasts[k] \in Nat /\ Lasts[k] <= Entries /\ Counts[k] \in Nat
         /\ \A k \in 1 .. Len(content) :
              /\ k - 1 \in 0 .. Len(content)
              /\ Lasts[k] = Lasts[k - 1] + Size(content[k])
              /\ Counts[k] = Counts[k - 1] + (IF IsFile(content[k]) THEN 1 ELSE 0)
<1> DEFINE m == Len(content)
           sizes == [i \in DOMAIN content |-> Size(content[i])]
           files == [i \in DOMAIN content |-> IF IsFile(content[i]) THEN 1 ELSE 0]
<1>1. m \in Nat /\ DOMAIN content = 1 .. m /\ content \in Seq(Items)
  BY FatAssumption DEF FatAssumption
<1>2. \A k \in 1 .. m : content[k] \in Items /\ Len(content[k].long) \in 0 .. 31
  <2> SUFFICES ASSUME NEW k \in 1 .. m PROVE content[k] \in Items /\ Len(content[k].long) \in 0 .. 31
    OBVIOUS
  <2>1. content[k] \in Items
    BY <1>1
  <2>2. content[k].long \in Seq(STRING \X (Nat \ {0}))
    BY <2>1 DEF Items
  <2>3. Len(content[k].long) < 32 /\ Len(content[k].long) \in Nat
    BY <1>1, <2>2, FatAssumption DEF FatAssumption
  <2> DEFINE n == Len(content[k].long)
  <2>4. n \in Nat /\ n < 32
    BY <2>3
  <2> HIDE DEF n
  <2>5. n \in 0 .. 31
    BY <2>4
  <2>6. QED
    BY <2>1, <2>5 DEF n
<1>3. sizes \in Seq(Nat) /\ Len(sizes) = m /\ \A k \in 1 .. m : sizes[k] = Size(content[k])
  BY <1>1, <1>2 DEF Size
<1>4. files \in Seq(Nat) /\ Len(files) = m /\ \A k \in 1 .. m : files[k] = IF IsFile(content[k]) THEN 1 ELSE 0
  BY <1>1
<1>5. Lasts = Sums(sizes) /\ Counts = Sums(files) /\ Entries = Sums(sizes)[m]
  BY DEF Lasts, Counts, Entries
<1> HIDE DEF sizes, files
<1>6. /\ Lasts[0] = 0 /\ \A k \in 0 .. m : Lasts[k] \in Nat
      /\ \A k \in 1 .. m : k - 1 \in 0 .. m /\ Lasts[k] = Lasts[k - 1] + Size(content[k])
  BY <1>3, <1>5, SumsAre
<1>7. /\ Counts[0] = 0 /\ \A k \in 0 .. m : Counts[k] \in Nat
      /\ \A k \in 1 .. m : Counts[k] = Counts[k - 1] + (IF IsFile(content[k]) THEN 1 ELSE 0)
  BY <1>4, <1>5, SumsAre
<1>8. \A k \in 0 .. m : Lasts[k] <= Entries
  <2> SUFFICES ASSUME NEW k \in 0 .. m PROVE Sums(sizes)[k] <= Sums(sizes)[m]
    BY <1>5
  <2>1. m \in 0 .. Len(sizes) /\ k \in 0 .. m
    BY <1>1, <1>3
  <2>2. QED
    BY <1>3, <2>1, SumsGrow
<1>9. QED
  BY <1>1, <1>2, <1>6, <1>7, <1>8

(* Which item an entry belongs to, and which is a file. *)
LEMMA ItemsAre ==
  ASSUME content \in Contents, NEW k \in 1 .. Len(content)
  PROVE  /\ \A n \in Nat : Lasts[k - 1] < n /\ n <= Lasts[k] => Which(Lasts, n) = k
         /\ IsFile(content[k]) => Which(Counts, Counts[k - 1] + 1) = k
         /\ Counts[k] <= Counts[Len(content)]
         /\ (\A j \in k .. Len(content) : ~ IsFile(content[j])) => Counts[k - 1] = Counts[Len(content)]
<1> DEFINE m == Len(content)
           sizes == [i \in DOMAIN content |-> Size(content[i])]
           files == [i \in DOMAIN content |-> IF IsFile(content[i]) THEN 1 ELSE 0]
<1>1. /\ m \in Nat /\ DOMAIN content = 1 .. m /\ k - 1 \in 0 .. m
      /\ \A j \in 1 .. m : content[j] \in Items /\ Size(content[j]) \in Nat \ {0}
      /\ Lasts[k - 1] \in Nat /\ Lasts[k] = Lasts[k - 1] + Size(content[k])
      /\ Counts[k - 1] \in Nat /\ Counts[k] = Counts[k - 1] + (IF IsFile(content[k]) THEN 1 ELSE 0)
  BY Directory DEF Size
<1>2. sizes \in Seq(Nat) /\ Len(sizes) = m
  BY <1>1
<1>3. files \in Seq(Nat) /\ Len(files) = m /\ \A j \in 1 .. m : files[j] = IF IsFile(content[j]) THEN 1 ELSE 0
  BY <1>1
<1>4. Lasts = Sums(sizes) /\ Counts = Sums(files)
  BY DEF Lasts, Counts
<1> HIDE DEF sizes, files
<1>5. ASSUME NEW n \in Nat, Lasts[k - 1] < n, n <= Lasts[k] PROVE Which(Lasts, n) = k
  BY <1>2, <1>4, <1>5, WhichIs
<1>6. ASSUME IsFile(content[k]) PROVE Which(Counts, Counts[k - 1] + 1) = k
  <2> DEFINE n == Counts[k - 1] + 1
  <2>1. n \in Nat /\ Counts[k - 1] < n /\ n <= Counts[k]
    BY <1>1, <1>6
  <2> HIDE DEF n
  <2>2. Which(Counts, n) = k
    BY <1>3, <1>4, <2>1, WhichIs
  <2>3. QED
    BY <2>2 DEF n
<1>7. Counts[k] <= Counts[m]
  <2>1. m \in 0 .. Len(files) /\ k \in 0 .. m
    BY <1>1, <1>3
  <2>2. QED
    BY <1>3, <1>4, <2>1, SumsGrow
<1>8. ASSUME \A j \in k .. m : ~ IsFile(content[j]) PROVE Counts[k - 1] = Counts[m]
  <2> DEFINE h == k - 1
  <2>1. h \in 0 .. Len(files) /\ \A j \in h + 1 .. Len(files) : files[j] = 0
    BY <1>1, <1>3, <1>8
  <2> HIDE DEF h
  <2>2. Sums(files)[h] = Sums(files)[Len(files)]
    BY <1>3, <2>1, SumsStay
  <2>3. QED
    BY <1>3, <1>4, <2>2 DEF h
<1>9. QED
  BY <1>5, <1>6, <1>7, <1>8

(* The entry at a place. *)
LEMMA EntryIs ==
  ASSUME content \in Contents, cluster # EOC, NEW k \in 1 .. Len(content), NEW i \in 1 .. Size(content[k]),
         Place = Lasts[k - 1] + i
  PROVE  At(cluster, sector, entry) = Raw(content[k], i) /\ Place <= Entries
<1>1. /\ Lasts[k - 1] \in Nat /\ Lasts[k] = Lasts[k - 1] + Size(content[k]) /\ Lasts[k] <= Entries
      /\ Lasts[k] \in Nat /\ Entries \in Nat /\ i \in Nat /\ i >= 1 /\ i <= Size(content[k]) /\ Size(content[k]) \in Nat
  <2>1. k \in 0 .. Len(content) /\ Len(content) \in 0 .. Len(content) /\ k - 1 \in 0 .. Len(content)
    BY Directory
  <2>2. Len(content[k].long) \in 0 .. 31
    BY Directory
  <2>3. Size(content[k]) \in Nat
    BY <2>2 DEF Size
  <2>4. QED
    BY <2>1, <2>3, Directory DEF Entries
<1>2. Place \in Nat /\ Lasts[k - 1] < Place /\ Place <= Lasts[k] /\ Place <= Entries /\ Place - Lasts[k - 1] = i
  BY <1>1
<1>3. Which(Lasts, Place) = k
  BY <1>2, ItemsAre
<1>4. QED
  BY <1>2, <1>3 DEF At, Place

(* Behind the last entry there is none. *)
LEMMA EndIs ==
  ASSUME content \in Contents, cluster # EOC, Place = Entries + 1
  PROVE  At(cluster, sector, entry) = [kind |-> END]
<1>1. Entries \in Nat
  BY Directory DEF Entries
<1>2. ~ (Place <= Entries)
  BY <1>1
<1>3. QED
  BY <1>2 DEF At, Place

(* A cluster holds whole sectors, and the clusters hold all entries. *)
LEMMA Geometry ==
  ASSUME content \in Contents
  PROVE  /\ ENTRIES \in Nat \ {0} /\ sectors_per_cluster \in Nat \ {0} /\ PerCluster \in Nat \ {0}
         /\ Clusters \in Nat \ {0} /\ Entries <= Clusters * PerCluster
<1>1. ENTRIES \in Nat \ {0} /\ sectors_per_cluster \in Nat \ {0} /\ Entries \in Nat
  BY FatAssumption, Directory DEF FatAssumption, Entries
<1>2. PerCluster \in Nat \ {0}
  BY <1>1 DEF PerCluster
<1> DEFINE p == PerCluster
           q == (Entries + p - 1) \div p
<1>3. CASE Entries = 0
  <2>1. Clusters = 1
    BY <1>3 DEF Clusters
  <2>2. QED
    BY <1>1, <1>2, <1>3, <2>1
<1>4. CASE Entries # 0
  <2>1. \A n, d \in Nat \ {0} : (n + d - 1) \div d \in Nat \ {0} /\ n <= ((n + d - 1) \div d) * d
    <3> SUFFICES ASSUME NEW n \in Nat \ {0}, NEW d \in Nat \ {0}
                 PROVE  (n + d - 1) \div d \in Nat \ {0} /\ n <= ((n + d - 1) \div d) * d
      OBVIOUS
    <3> DEFINE r == (n + d - 1) % d
               t == (n + d - 1) \div d
    <3>1. t \in Int /\ r \in 0 .. d - 1 /\ n + d - 1 = d * t + r
      OBVIOUS
    <3> HIDE DEF r, t
    <3>2. d * t >= n /\ d * t = t * d
      BY <3>1
    <3>3. t > 0
      <4>1. CASE t <= 0
        <5>1. d * t <= 0
          BY <3>1, <4>1
        <5>2. d * t \in Int
          BY <3>1
        <5>3. QED
          BY <3>2, <5>1, <5>2
      <4>2. QED
        BY <3>1, <4>1
    <3>4. QED
      BY <3>1, <3>2, <3>3 DEF t
  <2>2. Clusters = q
    BY <1>4 DEF Clusters
  <2>3. QED
    BY <1>1, <1>2, <1>4, <2>1, <2>2
<1>5. QED
  BY <1>1, <1>2, <1>3, <1>4

PlaceOf(c, s, e) == (c - 1) * PerCluster + s * ENTRIES + e + 1

(* From one place to the next, in a sector, to the next sector of the      *)
(* cluster, and from the end of a cluster to the next.                     *)
LEMMA Places ==
  ASSUME content \in Contents, NEW c \in Nat \ {0}, NEW s \in 0 .. sectors_per_cluster - 1, NEW e \in 0 .. ENTRIES - 1
  PROVE  /\ PlaceOf(c, s, e) \in Nat
         /\ e + 1 < ENTRIES => PlaceOf(c, s, e + 1) = PlaceOf(c, s, e) + 1
         /\ e + 1 = ENTRIES => PlaceOf(c, s + 1, 0) = PlaceOf(c, s, e) + 1
         /\ e + 1 = ENTRIES /\ s + 1 = sectors_per_cluster =>
              PlaceOf(c, s, e) = c * PerCluster /\ PlaceOf(c + 1, 0, 0) = PlaceOf(c, s, e) + 1
<1> DEFINE p == PerCluster
           n == ENTRIES
           a == (c - 1) * p
           b == s * n
<1>1. p \in Nat \ {0} /\ n \in Nat \ {0} /\ p = n * sectors_per_cluster /\ sectors_per_cluster \in Nat \ {0}
  BY Geometry DEF PerCluster
<1>2. a \in Nat /\ a + p = c * p /\ (c + 1 - 1) * p = c * p /\ c * p \in Nat
  <2> HIDE DEF p
  <2>1. QED
    BY <1>1
<1>3. b \in Nat /\ (s + 1) * n = b + n /\ 0 * n = 0
  <2> HIDE DEF n
  <2>1. QED
    BY <1>1
<1>4. s + 1 = sectors_per_cluster => b + n = p
  <2>1. ASSUME s + 1 = sectors_per_cluster PROVE b + n = p
    <3>1. p = n * (s + 1)
      BY <1>1, <2>1
    <3>2. n * (s + 1) = (s + 1) * n
      BY <1>1
    <3>3. QED
      BY <1>3, <3>1, <3>2
  <2>2. QED
    BY <2>1
<1>5. /\ PlaceOf(c, s, e) = a + b + e + 1 /\ PlaceOf(c, s, e + 1) = a + b + (e + 1) + 1
      /\ PlaceOf(c, s + 1, 0) = a + (b + n) + 0 + 1 /\ PlaceOf(c + 1, 0, 0) = c * p + 0 + 0 + 1
  BY <1>2, <1>3 DEF PlaceOf
<1> HIDE DEF a, b, n, p
<1>6. e \in Nat
  BY Geometry
<1>7. e + 1 < n => PlaceOf(c, s, e + 1) = PlaceOf(c, s, e) + 1
  BY <1>2, <1>3, <1>5, <1>6
<1>8. e + 1 = n => PlaceOf(c, s + 1, 0) = PlaceOf(c, s, e) + 1
  BY <1>1, <1>2, <1>3, <1>5, <1>6
<1>9. e + 1 = n /\ s + 1 = sectors_per_cluster =>
        PlaceOf(c, s, e) = c * p /\ PlaceOf(c + 1, 0, 0) = PlaceOf(c, s, e) + 1
  BY <1>1, <1>2, <1>3, <1>4, <1>5, <1>6
<1>10. PlaceOf(c, s, e) \in Nat
  BY <1>2, <1>3, <1>5, <1>6
<1>11. QED
  BY <1>7, <1>8, <1>9, <1>10 DEF n, p

WalkOK ==
  /\ sector \in 0 .. sectors_per_cluster - 1 /\ entry \in 0 .. ENTRIES - 1
  /\ faults \in 0 .. MaxFaults /\ asked \in [from : Nat, cut : BOOLEAN]

(* What wraps around at n. *)
LEMMA Remainders ==
  ASSUME NEW n \in Nat \ {0}
  PROVE  n % n = 0 /\ \A a \in 0 .. n - 1 : a % n = a
<1>1. n % n = 0
  <2> DEFINE r == n % n
             t == n \div n
  <2>1. t \in Int /\ r \in 0 .. n - 1 /\ n = n * t + r
    OBVIOUS
  <2> HIDE DEF r, t
  <2>2. n * (1 - t) = r
    BY <2>1
  <2>3. CASE t >= 1
    <3>1. n * (1 - t) <= 0
      BY <2>1, <2>3
    <3>2. r = 0
      BY <2>1, <2>2, <3>1
    <3>3. QED
      BY <3>2 DEF r
  <2>4. CASE t < 1
    <3>1. n * (1 - t) >= n
      BY <2>1, <2>4
    <3>2. QED
      BY <2>1, <2>2, <3>1
  <2>5. QED
    BY <2>1, <2>3, <2>4
<1>2. QED
  BY <1>1

(* The walk comes to the next entry, or to the end of the chain. *)
LEMMA NextEntry ==
  ASSUME content \in Contents, WalkOK, cluster \in 1 .. Clusters, Advance, UNCHANGED content
  PROVE  /\ WalkOK' /\ cluster' \in 0 .. Clusters /\ Place \in Nat
         /\ \/ cluster' # EOC /\ Place' = Place + 1
            \/ cluster' = EOC /\ (asked'.cut \/ Place = Clusters * PerCluster)
<1> DEFINE z == sectors_per_cluster
<1>1. /\ ENTRIES \in Nat \ {0} /\ z \in Nat \ {0} /\ Clusters \in Nat \ {0}
      /\ sector \in 0 .. z - 1 /\ entry \in 0 .. ENTRIES - 1 /\ MaxFaults \in Nat /\ faults \in 0 .. MaxFaults
      /\ asked \in [from : Nat, cut : BOOLEAN] /\ cluster \in Nat \ {0} /\ cluster <= Clusters
  BY Geometry, FatAssumption DEF FatAssumption, WalkOK
<1>2. /\ entry' = (entry + 1) % ENTRIES
      /\ sector' = IF entry + 1 < ENTRIES THEN sector ELSE (sector + 1) % z
      /\ IF entry + 1 = ENTRIES /\ sector + 1 = z THEN Follow(cluster, Clusters)
         ELSE cluster' = cluster /\ faults' = faults /\ asked' = asked
  BY DEF Advance
<1>3. Place = PlaceOf(cluster, sector, entry) /\ Place' = PlaceOf(cluster', sector', entry') /\ Place \in Nat
  <2>1. Place = PlaceOf(cluster, sector, entry) /\ Place' = PlaceOf(cluster', sector', entry')
    BY DEF Place, PlaceOf
  <2>2. QED
    BY <1>1, <2>1, Places
<1>4. CASE entry + 1 < ENTRIES
  <2>1. entry' = entry + 1 /\ sector' = sector /\ cluster' = cluster /\ faults' = faults /\ asked' = asked
    <3>1. entry + 1 \in 0 .. ENTRIES - 1
      BY <1>1, <1>4
    <3>2. (entry + 1) % ENTRIES = entry + 1
      BY <1>1, <3>1, Remainders
    <3>3. QED
      BY <1>1, <1>2, <1>4, <3>2
  <2>2. Place' = Place + 1
    BY <1>1, <1>3, <1>4, <2>1, Places
  <2>3. entry' \in 0 .. ENTRIES - 1
    BY <1>1, <1>4, <2>1
  <2>4. QED
    BY <1>1, <1>3, <2>1, <2>2, <2>3 DEF WalkOK, EOC
<1>5. CASE entry + 1 = ENTRIES /\ sector + 1 < z
  <2>1. entry' = 0 /\ sector' = sector + 1 /\ cluster' = cluster /\ faults' = faults /\ asked' = asked
    <3>1. sector + 1 \in 0 .. z - 1
      BY <1>1, <1>5
    <3>2. (entry + 1) % ENTRIES = 0 /\ (sector + 1) % z = sector + 1
      BY <1>1, <1>5, <3>1, Remainders
    <3>3. QED
      BY <1>1, <1>2, <1>5, <3>2
  <2>2. Place' = Place + 1
    BY <1>1, <1>3, <1>5, <2>1, Places
  <2>3. entry' \in 0 .. ENTRIES - 1 /\ sector' \in 0 .. z - 1
    BY <1>1, <1>5, <2>1
  <2>4. QED
    BY <1>1, <1>3, <2>1, <2>2, <2>3 DEF WalkOK, EOC
<1>6. CASE entry + 1 = ENTRIES /\ sector + 1 = z
  <2>1. entry' = 0 /\ sector' = 0 /\ Follow(cluster, Clusters)
    <3>1. (entry + 1) % ENTRIES = 0 /\ (sector + 1) % z = 0
      BY <1>1, <1>6, Remainders
    <3>2. QED
      BY <1>1, <1>2, <1>6, <3>1
  <2>2. PICK n \in fat32_next_cluster(cluster, Clusters) :
          /\ cluster' = n
          /\ IF n = EOC /\ cluster < Clusters
             THEN faults < MaxFaults /\ faults' = faults + 1 /\ asked' = [asked EXCEPT !.cut = TRUE]
             ELSE faults' = faults /\ asked' = asked
    BY <2>1 DEF Follow, Fault
  <2>3. n = EOC \/ (cluster < Clusters /\ n = cluster + 1)
    BY DEF fat32_next_cluster
  <2>4. faults' \in 0 .. MaxFaults /\ asked' \in [from : Nat, cut : BOOLEAN]
    <3>1. CASE n = EOC /\ cluster < Clusters
      <4>1. faults' = faults + 1 /\ faults < MaxFaults /\ asked' = [asked EXCEPT !.cut = TRUE]
        BY <2>2, <3>1
      <4>2. faults' \in 0 .. MaxFaults
        BY <1>1, <4>1
      <4>3. asked' \in [from : Nat, cut : BOOLEAN]
        BY <1>1, <4>1
      <4>4. QED
        BY <4>2, <4>3
    <3>2. CASE ~ (n = EOC /\ cluster < Clusters)
      BY <1>1, <2>2, <3>2
    <3>3. QED
      BY <3>1, <3>2
  <2>5. WalkOK' /\ cluster' \in 0 .. Clusters
    <3>1. 0 \in 0 .. ENTRIES - 1 /\ 0 \in 0 .. z - 1
      BY <1>1
    <3>2. cluster' \in 0 .. Clusters
      BY <1>1, <2>2, <2>3 DEF EOC
    <3>3. QED
      BY <2>1, <2>4, <3>1, <3>2 DEF WalkOK
  <2>6. CASE n = EOC /\ cluster < Clusters
    <3>1. asked'.cut
      BY <1>1, <2>2, <2>6
    <3>2. QED
      BY <1>3, <2>2, <2>5, <2>6, <3>1
  <2>7. CASE n = EOC /\ ~ (cluster < Clusters)
    <3>1. cluster = Clusters
      BY <1>1, <2>7
    <3>2. Place = Clusters * PerCluster
      BY <1>1, <1>3, <1>6, <3>1, Places
    <3>3. QED
      BY <1>3, <2>2, <2>5, <2>7, <3>2
  <2>8. CASE cluster < Clusters /\ n = cluster + 1
    <3>1. Place' = Place + 1
      BY <1>1, <1>3, <1>6, <2>1, <2>2, <2>8, Places
    <3>2. cluster' # EOC
      BY <1>1, <2>2, <2>8 DEF EOC
    <3>3. QED
      BY <1>3, <2>5, <3>1, <3>2
  <2>9. QED
    BY <2>3, <2>6, <2>7, <2>8
<1>7. QED
  BY <1>1, <1>4, <1>5, <1>6

(* The lengths of the first parts of a long name, added up. *)
LEMMA LengthsAre ==
  ASSUME NEW item \in Items
  PROVE  /\ Len(item.long) \in Nat /\ Lengths(item)[0] = 0
         /\ Total(item.long) = Lengths(item)[Len(item.long)]
         /\ \A n \in 0 .. Len(item.long) : Lengths(item)[n] \in Nat
         /\ \A n \in 1 .. Len(item.long) :
              /\ n - 1 \in 0 .. Len(item.long)
              /\ item.long[n][1] \in STRING /\ item.long[n][2] \in Nat \ {0}
              /\ Lengths(item)[n] = Lengths(item)[n - 1] + item.long[n][2]
<1> DEFINE parts == [i \in DOMAIN item.long |-> item.long[i][2]]
<1>1. item.long \in Seq(STRING \X (Nat \ {0}))
  BY DEF Items
<1>2. \A n \in 1 .. Len(item.long) : item.long[n][1] \in STRING /\ item.long[n][2] \in Nat \ {0}
  BY <1>1
<1>3. /\ Len(item.long) \in Nat /\ parts \in Seq(Nat) /\ Len(parts) = Len(item.long)
      /\ \A n \in 1 .. Len(item.long) : parts[n] = item.long[n][2]
  BY <1>1, <1>2
<1>4. Lengths(item) = Sums(parts) /\ Total(item.long) = Sums(parts)[Len(item.long)]
  BY DEF Lengths, Total
<1> HIDE DEF parts
<1>5. /\ Lengths(item)[0] = 0 /\ \A n \in 0 .. Len(item.long) : Lengths(item)[n] \in Nat
      /\ \A n \in 1 .. Len(item.long) :
           n - 1 \in 0 .. Len(item.long) /\ Lengths(item)[n] = Lengths(item)[n - 1] + parts[n]
  <2>1. /\ Sums(parts)[0] = 0 /\ \A n \in 0 .. Len(parts) : Sums(parts)[n] \in Nat
        /\ \A n \in 1 .. Len(parts) : n - 1 \in 0 .. Len(parts) /\ Sums(parts)[n] = Sums(parts)[n - 1] + parts[n]
    BY <1>3, SumsAre
  <2>2. QED
    BY <1>3, <1>4, <2>1
<1>6. QED
  BY <1>2, <1>3, <1>4, <1>5

(* The long name after one more part. *)
LEMMA PartTaken ==
  ASSUME NEW item \in Items, NEW n, n = Len(item.long), n \in 0 .. 31, item.kind # "deleted", NEW i \in 1 .. n,
         lfn \in LfnType, i = 1 \/ Taken(lfn, item, i - 1)
  PROVE  LfnAfter(Raw(item, i)) \in LfnType /\ Taken(LfnAfter(Raw(item, i)), item, i)
<1> DEFINE raw == Raw(item, i)
           u == Raw(item, 1).sum
           p == item.long[i]
           L == Lengths(item)
           l == IF raw.first THEN [parts |-> <<>>, pos |-> 0, sequence |-> raw.seq, sum |-> raw.sum] ELSE lfn
           next == LfnAfter(raw)
<1>0. /\ n + 1 - i \in 1 .. 31 /\ n - i \in 0 .. 31 /\ n \in Nat /\ i \in Nat \ {0} /\ i < n + 1
      /\ i - 1 + 1 = i /\ n - (i - 1) = n + 1 - i /\ n + 1 - i - 1 = n - i /\ i + 1 - 1 = i
  <2>1. \A a \in 0 .. 31 : \A b \in 1 .. a :
          /\ a + 1 - b \in 1 .. 31 /\ a - b \in 0 .. 31 /\ a \in Nat /\ b \in Nat \ {0} /\ b < a + 1
          /\ b - 1 + 1 = b /\ a - (b - 1) = a + 1 - b /\ a + 1 - b - 1 = a - b /\ b + 1 - 1 = b
    OBVIOUS
  <2>2. QED
    BY <2>1
<1>1. /\ raw.seq = n + 1 - i /\ raw.first = (i = 1) /\ raw.sum = u /\ raw.part = p
  <2>1. Size(item) = n + 1 /\ i < Size(item)
    BY <1>0 DEF Size
  <2>2. raw.seq = Size(item) - i /\ raw.first = (i = 1) /\ raw.sum = u
    BY DEF Raw
  <2>3. raw.part = p
    BY <2>1 DEF Raw
  <2>4. QED
    BY <2>1, <2>2, <2>3
<1>2. u \in Int
  <2>1. Checksum[item.short] \in Int
    BY FatAssumption DEF FatAssumption, Items
  <2>2. QED
    BY <2>1 DEF Raw
<1>3. /\ p[1] \in STRING /\ p[2] \in Nat \ {0} /\ L[i] = L[i - 1] + p[2]
      /\ L[i] \in Nat /\ L[i - 1] \in Nat /\ L[0] = 0 /\ LFN_MAX \in Nat
  <2>1. i \in 1 .. Len(item.long) /\ i \in 0 .. Len(item.long) /\ i - 1 \in 0 .. Len(item.long)
    BY <1>1
  <2>2. QED
    BY <2>1, LengthsAre, FatAssumption DEF FatAssumption
<1>4. next = IF raw.seq # l.sequence \/ raw.sum # l.sum
             THEN [l EXCEPT !.parts = <<>>, !.pos = 0, !.sequence = 0]
             ELSE IF l.pos + p[2] < LFN_MAX
             THEN [[l EXCEPT !.parts = <<p[1]>> \o l.parts, !.pos = @ + p[2]] EXCEPT !.sequence = @ - 1]
             ELSE [l EXCEPT !.parts = <<>>, !.pos = 0, !.sequence = -1]
  BY <1>1 DEF LfnAfter, Prepend
<1>9. /\ i = 1 => l = [parts |-> <<>>, pos |-> 0, sequence |-> n + 1 - i, sum |-> u]
      /\ i # 1 => l = lfn
  BY <1>1
<1>10. next = LfnAfter(Raw(item, i))
  OBVIOUS
<1> HIDE DEF l, next, raw
<1> DEFINE before == [j \in 1 .. i - 1 |-> item.long[i - j][1]]
           after == [j \in 1 .. i |-> item.long[i + 1 - j][1]]
           Is(r, parts, pos, seq) == r.parts = parts /\ r.pos = pos /\ r.sequence = seq /\ r.sum = u
<1>5. before \in Seq(STRING) /\ after \in Seq(STRING) /\ <<p[1]>> \o before = after
  <2>1. \A j \in 1 .. i : item.long[i + 1 - j][1] \in STRING
    <3> TAKE j \in 1 .. i
    <3>1. i + 1 - j \in 1 .. Len(item.long)
      BY <1>0
    <3>2. QED
      BY <3>1, LengthsAre
  <2>2. \A j \in 1 .. i - 1 : item.long[i - j][1] \in STRING
    <3> TAKE j \in 1 .. i - 1
    <3>1. i - j \in 1 .. Len(item.long)
      BY <1>0
    <3>2. QED
      BY <3>1, LengthsAre
  <2>3. before \in Seq(STRING) /\ after \in Seq(STRING) /\ i \in Nat /\ i - 1 \in Nat
    BY <1>0, <2>1, <2>2
  <2>4. /\ Len(before) = i - 1 /\ \A j \in 1 .. i - 1 : before[j] = item.long[i - j][1]
        /\ Len(after) = i /\ \A j \in 1 .. i : after[j] = item.long[i + 1 - j][1]
    BY <2>3
  <2> HIDE DEF before, after
  <2> DEFINE joined == <<p[1]>> \o before
  <2>5. <<p[1]>> \in Seq(STRING) /\ Len(<<p[1]>>) = 1 /\ <<p[1]>>[1] = p[1]
    BY <1>3
  <2>6. /\ joined \in Seq(STRING) /\ Len(joined) = i /\ joined[1] = p[1]
        /\ \A j \in 1 .. i - 1 : joined[1 + j] = before[j]
    <3>1. /\ joined \in Seq(STRING) /\ Len(joined) = 1 + Len(before)
          /\ \A j \in 1 .. 1 : joined[j] = <<p[1]>>[j]
          /\ \A j \in 1 .. Len(before) : joined[1 + j] = before[j]
      BY <2>3, <2>5, Extended
    <3>2. 1 \in 1 .. 1 /\ 1 + (i - 1) = i
      BY <1>0
    <3>3. QED
      BY <2>4, <2>5, <3>1, <3>2
  <2> HIDE DEF joined
  <2>7. ASSUME NEW j \in 1 .. i PROVE joined[j] = after[j]
    <3>1. CASE j = 1
      <4>1. i + 1 - 1 = i /\ 1 \in 1 .. i
        BY <1>0
      <4>2. after[1] = p[1]
        BY <2>4, <4>1
      <4>3. QED
        BY <2>6, <3>1, <4>2
    <3>2. CASE j # 1
      <4> DEFINE h == j - 1
      <4>1. h \in 1 .. i - 1 /\ 1 + h = j /\ i - h = i + 1 - j
        BY <1>0, <3>2
      <4> HIDE DEF h
      <4>2. joined[1 + h] = item.long[i - h][1] /\ after[j] = item.long[i + 1 - j][1]
        BY <2>4, <2>6, <4>1
      <4>3. QED
        BY <4>1, <4>2
    <3>3. QED
      BY <3>1, <3>2
  <2>8. joined = after
    BY <2>3, <2>4, <2>6, <2>7, SeqEqual
  <2>9. QED
    BY <2>3, <2>8 DEF joined
<1>11. before = [j \in 1 .. i - 1 |-> item.long[i - 1 + 1 - j][1]]
  BY <1>0
<1>12. i = 1 => before = <<>> /\ L[i - 1] = 0
  <2> SUFFICES ASSUME i = 1 PROVE before = <<>> /\ L[i - 1] = 0
    OBVIOUS
  <2>1. i - 1 = 0 /\ 1 .. 0 = {}
    OBVIOUS
  <2>2. before \in [1 .. 0 -> STRING]
    BY <1>0, <1>5, <2>1
  <2>3. before = <<>>
    BY <2>1, <2>2
  <2>4. QED
    BY <1>3, <2>1, <2>3
<1>13. Taken(next, item, i) <=> IF L[i] < LFN_MAX THEN Is(next, after, L[i], n - i)
                                ELSE next.pos = 0 /\ next.sequence \in {-1, 0}
  BY DEF Taken
<1>14. i # 1 => IF L[i - 1] < LFN_MAX THEN Is(lfn, before, L[i - 1], n + 1 - i) ELSE lfn.pos = 0 /\ lfn.sequence \in {-1, 0}
  <2> SUFFICES ASSUME i # 1
               PROVE  IF L[i - 1] < LFN_MAX THEN Is(lfn, before, L[i - 1], n + 1 - i) ELSE lfn.pos = 0 /\ lfn.sequence \in {-1, 0}
    OBVIOUS
  <2>1. Taken(lfn, item, i - 1)
    OBVIOUS
  <2>2. IF L[i - 1] < LFN_MAX
        THEN Is(lfn, [j \in 1 .. i - 1 |-> item.long[i - 1 + 1 - j][1]], L[i - 1], n - (i - 1))
        ELSE lfn.pos = 0 /\ lfn.sequence \in {-1, 0}
    BY <2>1 DEF Taken
  <2> HIDE DEF before, L, u
  <2>3. QED
    BY <1>0, <1>11, <2>2
<1>15. <<>> \in Seq(STRING) /\ \A k \in 0 .. LFN_MAX, q \in -1 .. 31, s \in Seq(STRING) :
         [parts |-> s, pos |-> k, sequence |-> q, sum |-> u] \in LfnType
  BY <1>2 DEF LfnType
<1>16. 0 \in 0 .. LFN_MAX /\ -1 \in -1 .. 31 /\ 0 \in -1 .. 31 /\ n - i \in -1 .. 31 /\ n + 1 - i \in -1 .. 31
  BY <1>0, <1>3
<1> HIDE DEF before, after, L, u, p
<1>17. l \in LfnType
  <2>1. CASE i = 1
    BY <1>9, <1>15, <1>16, <2>1
  <2>2. CASE i # 1
    BY <1>9, <2>2
  <2>3. QED
    BY <2>1, <2>2
<1>6. CASE L[i - 1] < LFN_MAX
  <2>1. Is(l, before, L[i - 1], n + 1 - i)
    <3>1. CASE i = 1
      BY <1>9, <1>12, <3>1
    <3>2. CASE i # 1
      BY <1>6, <1>9, <1>14, <3>2
    <3>3. QED
      BY <3>1, <3>2
  <2>2. l.sequence = n + 1 - i /\ l.sum = u /\ l.pos = L[i - 1] /\ l.parts = before
    BY <2>1
  <2>3. CASE L[i] < LFN_MAX
    <3>1. next = [[l EXCEPT !.parts = <<p[1]>> \o l.parts, !.pos = @ + p[2]] EXCEPT !.sequence = @ - 1]
      BY <1>1, <1>3, <1>4, <2>2, <2>3
    <3>2. L[i] \in 0 .. LFN_MAX
      BY <1>3, <2>3
    <3>3. l.pos + p[2] = L[i] /\ <<p[1]>> \o l.parts = after /\ l.sequence - 1 = n - i
      <4>1. l.pos + p[2] = L[i]
        BY <1>3, <2>2
      <4>2. <<p[1]>> \o l.parts = after
        BY <1>5, <2>2
      <4>3. l.sequence - 1 = n - i
        BY <1>0, <2>2
      <4>4. QED
        BY <4>1, <4>2, <4>3
    <3>4. next \in LfnType /\ Is(next, after, L[i], n - i)
      <4> DEFINE m == [l EXCEPT !.parts = <<p[1]>> \o l.parts, !.pos = @ + p[2]]
      <4>1. /\ m \in LfnType /\ m.parts = <<p[1]>> \o l.parts /\ m.pos = l.pos + p[2]
            /\ m.sequence = l.sequence /\ m.sum = l.sum
        <5>1. <<p[1]>> \o l.parts \in Seq(STRING) /\ l.pos + p[2] \in 0 .. LFN_MAX
          BY <1>5, <3>2, <3>3
        <5>2. QED
          BY <1>17, <5>1 DEF LfnType
      <4>2. next = [m EXCEPT !.sequence = @ - 1]
        BY <3>1
      <4> HIDE DEF m
      <4>3. m.sequence - 1 \in -1 .. 31
        BY <1>16, <3>3, <4>1
      <4>4. next \in LfnType /\ next.parts = m.parts /\ next.pos = m.pos /\ next.sequence = m.sequence - 1 /\ next.sum = m.sum
        BY <4>1, <4>2, <4>3 DEF LfnType
      <4>5. QED
        BY <2>2, <3>3, <4>1, <4>4
    <3>5. QED
      BY <1>10, <1>13, <2>3, <3>4
  <2>4. CASE ~ (L[i] < LFN_MAX)
    <3>1. next = [l EXCEPT !.parts = <<>>, !.pos = 0, !.sequence = -1]
      BY <1>1, <1>3, <1>4, <2>2, <2>4
    <3>2. next \in LfnType /\ next.pos = 0 /\ next.sequence = -1
      BY <1>15, <1>16, <1>17, <3>1 DEF LfnType
    <3>3. QED
      BY <1>10, <1>13, <2>4, <3>2
  <2>5. QED
    BY <2>3, <2>4
<1>7. CASE ~ (L[i - 1] < LFN_MAX)
  <2>1. ~ (L[i] < LFN_MAX)
    BY <1>3, <1>7
  <2>2. /\ i = 1 => LFN_MAX = 0
        /\ i # 1 => l = lfn /\ lfn.pos = 0 /\ lfn.sequence \in {-1, 0}
    <3>1. ASSUME i = 1 PROVE LFN_MAX = 0
      BY <1>3, <1>7, <1>12, <3>1
    <3>2. QED
      BY <1>7, <1>9, <1>14, <3>1
  <2>4. ASSUME NEW q \in {-1, 0}, next = [l EXCEPT !.parts = <<>>, !.pos = 0, !.sequence = q]
        PROVE  next \in LfnType /\ next.pos = 0 /\ next.sequence \in {-1, 0}
    <3>1. q \in -1 .. 31
      OBVIOUS
    <3>2. QED
      BY <1>15, <1>16, <1>17, <2>4, <3>1 DEF LfnType
  <2>5. next \in LfnType /\ next.pos = 0 /\ next.sequence \in {-1, 0}
    <3>1. CASE raw.seq # l.sequence \/ raw.sum # l.sum
      <4>1. next = [l EXCEPT !.parts = <<>>, !.pos = 0, !.sequence = 0]
        BY <1>4, <3>1
      <4>2. QED
        BY <2>4, <4>1
    <3>2. CASE ~ (raw.seq # l.sequence \/ raw.sum # l.sum)
      <4>1. i = 1
        <5>1. ASSUME i # 1 PROVE FALSE
          BY <1>0, <1>1, <2>2, <3>2, <5>1
        <5>2. QED
          BY <5>1
      <4>2. l.pos = 0 /\ LFN_MAX = 0
        BY <1>9, <2>2, <4>1
      <4>3. ~ (l.pos + p[2] < LFN_MAX)
        BY <1>3, <4>2
      <4>4. next = [l EXCEPT !.parts = <<>>, !.pos = 0, !.sequence = -1]
        BY <1>4, <3>2, <4>3
      <4>5. QED
        BY <2>4, <4>4
    <3>3. QED
      BY <3>1, <3>2
  <2>6. QED
    BY <1>10, <1>13, <2>1, <2>5
<1>8. QED
  BY <1>6, <1>7

(* The name that a file is listed under is its own. *)
LEMMA NameIs ==
  ASSUME NEW item \in Items, IsFile(item), lfn \in LfnType,
         IF item.long = <<>> THEN lfn.pos = 0 ELSE Taken(lfn, item, Len(item.long))
  PROVE  [name |-> FinalName(item), dir |-> item.dir] = Shown(item)
<1> DEFINE n == Len(item.long)
           L == Lengths(item)
           own == Checksum[item.short]
<1>1. /\ n \in Nat /\ item.long \in Seq(STRING \X (Nat \ {0})) /\ own \in Int /\ LFN_MAX \in Nat
      /\ L[n] \in Nat /\ Total(item.long) = L[n]
  BY LengthsAre, FatAssumption DEF FatAssumption, Items
<1>2. Raw(item, 1).sum = own <=> item.kind = "whole"
  <2>1. Raw(item, 1).sum = IF item.kind = "orphan" THEN own + 1 ELSE own
    BY DEF Raw
  <2>2. item.kind \in {"whole", "orphan"}
    BY DEF IsFile
  <2>3. QED
    BY <1>1, <2>1, <2>2
<1>3. CASE item.long = <<>>
  <2>1. FinalName(item) = <<item.short>>
    BY <1>3 DEF FinalName
  <2>2. QED
    BY <1>3, <2>1 DEF Shown
<1>4. CASE item.long # <<>> /\ L[n] < LFN_MAX
  <2>1. /\ lfn.parts = [i \in 1 .. n |-> item.long[n + 1 - i][1]] /\ lfn.pos = L[n]
        /\ lfn.sequence = n - n /\ lfn.sum = Raw(item, 1).sum
    BY <1>4 DEF Taken
  <2>2. n \in 1 .. n /\ n \in Nat \ {0}
    BY <1>1, <1>4
  <2>3. L[n] > 0
    <3>1. n - 1 \in 0 .. n /\ item.long[n][2] \in Nat \ {0} /\ L[n] = L[n - 1] + item.long[n][2]
      BY <2>2, LengthsAre
    <3>2. L[n - 1] \in Nat
      BY <3>1, LengthsAre
    <3>3. QED
      BY <3>1, <3>2
  <2>4. /\ lfn.pos > 0 /\ lfn.sequence = 0 /\ lfn.sum = Raw(item, 1).sum
        /\ lfn.parts = [i \in 1 .. n |-> item.long[n + 1 - i][1]]
    <3>1. n - n = 0
      BY <1>1
    <3> HIDE DEF n, L
    <3>2. QED
      BY <2>1, <2>3, <3>1
  <2>5. Reverse([i \in DOMAIN item.long |-> item.long[i][1]]) = [i \in 1 .. n |-> item.long[n + 1 - i][1]]
    <3> DEFINE names == [i \in DOMAIN item.long |-> item.long[i][1]]
    <3>1. DOMAIN item.long = 1 .. n /\ names \in [1 .. n -> STRING]
      BY <1>1
    <3>2. Len(names) = n
      BY <1>1, <3>1
    <3>3. Reverse(names) = [i \in 1 .. n |-> names[n - i + 1]]
      BY <3>2 DEF Reverse
    <3>4. ASSUME NEW i \in 1 .. n PROVE names[n - i + 1] = item.long[n + 1 - i][1]
      <4>1. n - i + 1 \in 1 .. n /\ n - i + 1 = n + 1 - i
        BY <1>1
      <4> HIDE DEF n
      <4>2. names[n - i + 1] = item.long[n - i + 1][1]
        BY <3>1, <4>1
      <4>3. QED
        BY <4>1, <4>2
    <3> HIDE DEF names
    <3>5. [i \in 1 .. n |-> names[n - i + 1]] = [i \in 1 .. n |-> item.long[n + 1 - i][1]]
      BY <3>4
    <3>6. QED
      BY <3>3, <3>5 DEF names
  <2>6. FinalName(item) = IF item.kind = "whole" THEN lfn.parts ELSE <<item.short>>
    BY <1>2, <2>4 DEF FinalName
  <2>7. QED
    BY <1>1, <1>4, <2>4, <2>5, <2>6 DEF Shown
<1>5. CASE item.long # <<>> /\ ~ (L[n] < LFN_MAX)
  <2>1. lfn.pos = 0
    BY <1>5 DEF Taken
  <2>2. FinalName(item) = <<item.short>>
    BY <2>1 DEF FinalName
  <2>3. QED
    BY <1>1, <1>5, <2>2 DEF Shown
<1>6. QED
  BY <1>3, <1>4, <1>5

(* The directory does not change. *)
LEMMA Kept ==
  ASSUME UNCHANGED content
  PROVE  /\ Lasts' = Lasts /\ Counts' = Counts /\ Entries' = Entries /\ Expected' = Expected /\ Clusters' = Clusters
         /\ \A k : Room(k)' = Room(k)
<1>1. Lasts' = Lasts /\ Counts' = Counts
  BY DEF Lasts, Counts
<1>2. Entries' = Entries /\ Expected' = Expected
  BY <1>1 DEF Entries, Expected
<1>3. QED
  BY <1>1, <1>2 DEF Clusters, Room

(* Where a call of readdir may stand, and what it finds there. *)
LEMMA Standing ==
  ASSUME ListInv, op = "list", pc = "entry"
  PROVE  \/ cluster = EOC /\ At(cluster, sector, entry) = [kind |-> END]
            /\ (asked.cut \/ current_index = Counts[Len(content)])
         \/ cluster \in 1 .. Clusters /\ At(cluster, sector, entry) = [kind |-> END]
            /\ current_index = Counts[Len(content)]
         \/ \E k \in 1 .. Len(content) : \E i \in 1 .. Size(content[k]) :
              /\ cluster \in 1 .. Clusters /\ AtEntry(k, i)
              /\ At(cluster, sector, entry) = Raw(content[k], i) /\ Place <= Entries
<1>1. content \in Contents /\ Walking
  BY DEF ListInv
<1>2. CASE cluster = EOC
  BY <1>1, <1>2 DEF Walking, At
<1>3. CASE cluster # EOC
  <2>1. cluster \in 1 .. Clusters
    BY <1>1, <1>3, Geometry DEF Walking, EOC
  <2>2. PICK k \in 1 .. Len(content) + 1 : \E i \in 1 .. Room(k) : AtEntry(k, i)
    BY <1>1, <1>3 DEF Walking
  <2>3. PICK i \in 1 .. Room(k) : AtEntry(k, i)
    BY <2>2
  <2>4. Len(content) \in Nat
    BY <1>1, Directory
  <2>5. CASE k \in 1 .. Len(content)
    <3>1. i \in 1 .. Size(content[k])
      BY <2>4, <2>5 DEF Room
    <3>2. Place = Lasts[k - 1] + i
      BY <2>3 DEF AtEntry
    <3>3. At(cluster, sector, entry) = Raw(content[k], i) /\ Place <= Entries
      BY <1>1, <1>3, <2>5, <3>1, <3>2, EntryIs
    <3>4. QED
      BY <2>1, <2>3, <2>5, <3>1, <3>3
  <2>6. CASE k = Len(content) + 1
    <3>1. i = 1
      BY <2>4, <2>6 DEF Room
    <3>2. k - 1 = Len(content)
      BY <2>4, <2>6
    <3>3. Place = Entries + 1 /\ current_index = Counts[Len(content)]
      BY <2>3, <3>1, <3>2 DEF AtEntry, Entries
    <3>4. QED
      BY <1>1, <1>3, <2>1, <3>3, EndIs
  <2>7. QED
    BY <2>4, <2>5, <2>6
<1>4. QED
  BY <1>2, <1>3

(* The walk goes on: within an item, to the next one, or to the end.       *)
LEMMA GoesOn ==
  ASSUME content \in Contents, WalkOK, cluster \in 1 .. Clusters, Advance, UNCHANGED content,
         NEW k \in 1 .. Len(content), NEW i \in 1 .. Size(content[k]), Place = Lasts[k - 1] + i,
         i < Size(content[k]) =>
           /\ current_index' = Counts[k - 1]
           /\ IF content[k].kind = "deleted" THEN lfn'.pos = 0 /\ lfn'.sequence = 0 ELSE Taken(lfn', content[k], i),
         i = Size(content[k]) => current_index' = Counts[k] /\ lfn'.pos = 0 /\ lfn'.sequence = 0
  PROVE  Walking' /\ WalkOK'
<1> DEFINE m == Len(content)
<1>1. /\ WalkOK' /\ cluster' \in 0 .. Clusters /\ Place \in Nat
      /\ \/ cluster' # EOC /\ Place' = Place + 1
         \/ cluster' = EOC /\ (asked'.cut \/ Place = Clusters * PerCluster)
  BY NextEntry
<1>2. /\ m \in Nat /\ k \in Nat \ {0} /\ k <= m /\ k - 1 \in 0 .. m /\ k \in 0 .. m
      /\ Lasts[k - 1] \in Nat /\ Lasts[k] \in Nat /\ Lasts[k] <= Entries /\ Lasts[k] = Lasts[k - 1] + Size(content[k])
      /\ Size(content[k]) \in Nat \ {0} /\ i \in Nat \ {0} /\ i <= Size(content[k])
      /\ Entries = Lasts[m]
      /\ k < m => k + 1 \in 1 .. m /\ k + 1 - 1 = k /\ Lasts[k + 1] = Lasts[k] + Size(content[k + 1])
                  /\ Lasts[k + 1] \in Nat /\ Lasts[k + 1] <= Entries /\ Size(content[k + 1]) \in Nat \ {0}
  <2>1. /\ m \in Nat /\ \A j \in 1 .. m : Len(content[j].long) \in 0 .. 31
        /\ \A j \in 0 .. m : Lasts[j] \in Nat /\ Lasts[j] <= Entries
        /\ \A j \in 1 .. m : j - 1 \in 0 .. m /\ Lasts[j] = Lasts[j - 1] + Size(content[j])
    BY Directory
  <2>2. \A j \in 1 .. m : Size(content[j]) \in Nat \ {0}
    BY <2>1 DEF Size
  <2>3. k < m => k + 1 \in 1 .. m /\ k + 1 - 1 = k
    BY <2>1
  <2>4. Entries = Lasts[m]
    BY DEF Entries
  <2> HIDE DEF m
  <2>5. k \in 1 .. m /\ i \in 1 .. Size(content[k])
    BY DEF m
  <2>6. k \in Nat \ {0} /\ k <= m /\ k - 1 \in 0 .. m /\ k \in 0 .. m
    BY <2>1, <2>5
  <2>7. Size(content[k]) \in Nat \ {0} /\ i \in Nat \ {0} /\ i <= Size(content[k])
    <3>1. Size(content[k]) \in Nat \ {0}
      BY <2>2, <2>5
    <3>2. QED
      BY <2>5, <3>1
  <2>8. Lasts[k - 1] \in Nat /\ Lasts[k] \in Nat /\ Lasts[k] <= Entries /\ Lasts[k] = Lasts[k - 1] + Size(content[k])
    BY <2>1, <2>5, <2>6
  <2>9. ASSUME k < m
        PROVE  /\ k + 1 \in 1 .. m /\ k + 1 - 1 = k /\ Lasts[k + 1] = Lasts[k] + Size(content[k + 1])
               /\ Lasts[k + 1] \in Nat /\ Lasts[k + 1] <= Entries /\ Size(content[k + 1]) \in Nat \ {0}
    <3>1. k + 1 \in 1 .. m /\ k + 1 \in 0 .. m /\ k + 1 - 1 = k
      BY <2>1, <2>6, <2>9
    <3>2. Lasts[k + 1] = Lasts[k + 1 - 1] + Size(content[k + 1])
      BY <2>1, <3>1
    <3>3. QED
      BY <2>1, <2>2, <3>1, <3>2
  <2>10. QED
    BY <2>1, <2>4, <2>6, <2>7, <2>8, <2>9
<1>3. /\ Lasts' = Lasts /\ Counts' = Counts /\ Clusters' = Clusters /\ \A j : Room(j)' = Room(j)
      /\ Len(content') = m /\ content' = content
  BY Kept
<1>4. CASE cluster' # EOC /\ Place' = Place + 1
  <2>1. \E j \in 1 .. m + 1 : \E h \in 1 .. Room(j)' : AtEntry(j, h)'
    <3>1. CASE i < Size(content[k])
      <4>1. i + 1 \in 1 .. Room(k) /\ k \in 1 .. m + 1 /\ i + 1 # 1 /\ i + 1 - 1 = i
        BY <1>2, <3>1 DEF Room
      <4>2. Place' = Lasts[k - 1] + (i + 1)
        <5>1. Place' = Lasts[k - 1] + i + 1
          BY <1>4
        <5>2. \A a, b \in Nat : a + b + 1 = a + (b + 1)
          OBVIOUS
        <5>3. Lasts[k - 1] \in Nat /\ i \in Nat
          BY <1>2
        <5>4. QED
          BY <5>1, <5>2, <5>3
      <4>3. AtEntry(k, i + 1)'
        BY <1>3, <3>1, <4>1, <4>2 DEF AtEntry
      <4>4. QED
        BY <1>3, <4>1, <4>3
    <3>2. CASE i = Size(content[k])
      <4>1. k + 1 \in 1 .. m + 1 /\ k + 1 - 1 = k /\ 1 \in 1 .. Room(k + 1)
        <5>1. k + 1 \in 1 .. m + 1 /\ k + 1 - 1 = k
          BY <1>2
        <5>2. CASE k < m
          BY <1>2, <5>2 DEF Room
        <5>3. CASE k = m
          BY <1>2, <5>3 DEF Room
        <5>4. QED
          BY <1>2, <5>1, <5>2, <5>3
      <4>2. Place' = Lasts[k] + 1
        BY <1>2, <1>4, <3>2
      <4>3. AtEntry(k + 1, 1)'
        BY <1>3, <3>2, <4>1, <4>2 DEF AtEntry
      <4>4. QED
        BY <1>3, <4>1, <4>3
    <3>3. QED
      BY <1>2, <3>1, <3>2
  <2>2. QED
    BY <1>1, <1>3, <1>4, <2>1 DEF Walking
<1>5. CASE cluster' = EOC /\ asked'.cut
  BY <1>1, <1>3, <1>5 DEF Walking
<1>6. CASE cluster' = EOC /\ Place = Clusters * PerCluster
  <2>1. Entries <= Place
    BY <1>6, Geometry
  <2>2. Entries \in Nat
    BY <1>2, Directory DEF Entries
  <2>3. i = Size(content[k]) /\ Lasts[k] = Entries
    BY <1>2, <2>1, <2>2
  <2>4. k = m
    <3>1. ASSUME k < m PROVE FALSE
      <4>1. Lasts[k + 1] = Entries + Size(content[k + 1]) /\ Lasts[k + 1] <= Entries /\ Size(content[k + 1]) \in Nat \ {0}
        BY <1>2, <2>3, <3>1
      <4>2. QED
        BY <2>2, <4>1
    <3>2. QED
      BY <1>2, <3>1
  <2>5. current_index' = Counts[m]
    BY <2>3, <2>4
  <2>6. QED
    BY <1>1, <1>3, <1>6, <2>5 DEF Walking
<1>7. QED
  BY <1>1, <1>4, <1>5, <1>6

(* What was listed stays right. *)
LEMMA ListedKept ==
  ASSUME Listed, UNCHANGED <<content, index, listed>>
  PROVE  Listed'
BY Kept DEF Listed

(* The walk's counters are in range. *)
LEMMA WalkIsOK ==
  ASSUME FatInv, ListInv
  PROVE  WalkOK
BY DEF FatInv, ListInv, TypeOK, WalkOK

(* A step over an entry that leaves the walk where it should be.           *)
LEMMA OverEntry ==
  ASSUME ListInv, op = "list", pc = "entry", UNCHANGED <<disk, mounted, op, pc, lister, result, reader>>,
         Walking', WalkOK', lfn' \in LfnType, current_index' \in 0 .. index
  PROVE  ListInv'
<1>1. /\ content' = content /\ mounted' = mounted /\ op' = op /\ pc' = pc /\ index' = index /\ listed' = listed
      /\ offset' = offset /\ bytes_read' = bytes_read /\ count' = count
  BY DEF disk, lister, reader
<1>2. Listed'
  BY <1>1, ListedKept DEF ListInv
<1>3. TypeOK'
  BY <1>1 DEF ListInv, TypeOK, WalkOK, LfnType
<1>4. EndMeansAll'
  BY <1>1 DEF EndMeansAll
<1>5. QED
  BY <1>1, <1>2, <1>3, <1>4 DEF ListInv

(* What an entry says of its item. *)
LEMMA RawIs ==
  ASSUME NEW item, NEW i
  PROVE  /\ Raw(item, i).item = item
         /\ Raw(item, i).kind = IF item.kind = "deleted" THEN "deleted" ELSE IF i < Size(item) THEN "lfn" ELSE "sfn"
BY DEF Raw

(* What kind of entry is where.                                            *)
LEMMA Kinds ==
  ASSUME ListInv, op = "list", pc = "entry", At(cluster, sector, entry).kind # END
  PROVE  \E k \in 1 .. Len(content) : \E i \in 1 .. Size(content[k]) :
           /\ cluster \in 1 .. Clusters /\ AtEntry(k, i) /\ Place = Lasts[k - 1] + i
           /\ At(cluster, sector, entry) = Raw(content[k], i)
           /\ content[k] \in Items /\ Len(content[k].long) \in 0 .. 31 /\ Size(content[k]) = Len(content[k].long) + 1
           /\ At(cluster, sector, entry).kind =
                IF content[k].kind = "deleted" THEN "deleted" ELSE IF i < Size(content[k]) THEN "lfn" ELSE "sfn"
           /\ Lasts[k - 1] \in Nat /\ Counts[k - 1] \in Nat /\ current_index = Counts[k - 1]
           /\ Counts[k] = Counts[k - 1] + (IF IsFile(content[k]) THEN 1 ELSE 0)
<1>1. content \in Contents
  BY DEF ListInv
<1>2. [kind |-> END].kind = END
  OBVIOUS
<1>3. PICK k \in 1 .. Len(content) : \E i \in 1 .. Size(content[k]) :
              /\ cluster \in 1 .. Clusters /\ AtEntry(k, i)
              /\ At(cluster, sector, entry) = Raw(content[k], i) /\ Place <= Entries
  BY <1>2, Standing
<1>4. PICK i \in 1 .. Size(content[k]) :
              /\ cluster \in 1 .. Clusters /\ AtEntry(k, i)
              /\ At(cluster, sector, entry) = Raw(content[k], i) /\ Place <= Entries
  BY <1>3
<1>5. Place = Lasts[k - 1] + i /\ current_index = Counts[k - 1]
  BY <1>4 DEF AtEntry
<1>6. /\ content[k] \in Items /\ Len(content[k].long) \in 0 .. 31 /\ Lasts[k - 1] \in Nat /\ Counts[k - 1] \in Nat
      /\ Counts[k] = Counts[k - 1] + (IF IsFile(content[k]) THEN 1 ELSE 0)
  <2>1. k - 1 \in 0 .. Len(content)
    BY <1>1, Directory
  <2>2. QED
    BY <1>1, <2>1, Directory
<1>7. At(cluster, sector, entry).kind =
        IF content[k].kind = "deleted" THEN "deleted" ELSE IF i < Size(content[k]) THEN "lfn" ELSE "sfn"
  BY <1>4, RawIs
<1>8. Size(content[k]) = Len(content[k].long) + 1
  BY DEF Size
<1>9. QED
  BY <1>4, <1>5, <1>6, <1>7, <1>8

(* A deleted entry is passed. *)
LEMMA AtDeleted ==
  ASSUME FatInv, ListInv, DeletedEntry
  PROVE  ListInv'
<1>1. /\ op = "list" /\ pc = "entry" /\ At(cluster, sector, entry).kind = "deleted" /\ Advance
      /\ UNCHANGED <<disk, mounted, op, pc, lister, result, current_index, lfn, reader>>
  BY DEF DeletedEntry, Here
<1>2. content \in Contents /\ WalkOK /\ content' = content /\ lfn \in LfnType /\ current_index \in 0 .. index
  BY <1>1, WalkIsOK DEF ListInv, TypeOK, disk
<1>3. PICK k \in 1 .. Len(content) : \E i \in 1 .. Size(content[k]) :
           /\ cluster \in 1 .. Clusters /\ AtEntry(k, i) /\ Place = Lasts[k - 1] + i
           /\ content[k].kind = "deleted" /\ Counts[k - 1] \in Nat /\ current_index = Counts[k - 1]
           /\ Counts[k] = Counts[k - 1] + (IF IsFile(content[k]) THEN 1 ELSE 0)
  BY <1>1, Kinds DEF END
<1>4. PICK i \in 1 .. Size(content[k]) :
           /\ cluster \in 1 .. Clusters /\ AtEntry(k, i) /\ Place = Lasts[k - 1] + i
           /\ content[k].kind = "deleted" /\ Counts[k - 1] \in Nat /\ current_index = Counts[k - 1]
           /\ Counts[k] = Counts[k - 1] + (IF IsFile(content[k]) THEN 1 ELSE 0)
  BY <1>3
<1>5. lfn.pos = 0 /\ lfn.sequence = 0
  <2>1. k <= Len(content)
    BY <1>2, Directory
  <2>2. QED
    BY <1>4, <2>1 DEF AtEntry
<1>6. Counts[k] = Counts[k - 1]
  BY <1>4 DEF IsFile
<1>7. Walking' /\ WalkOK'
  BY <1>1, <1>2, <1>4, <1>5, <1>6, GoesOn
<1>8. QED
  BY <1>1, <1>2, <1>7, OverEntry

(* A part of a long name is put before those that were passed. *)
LEMMA AtPart ==
  ASSUME FatInv, ListInv, LfnEntry
  PROVE  ListInv'
<1> DEFINE raw == At(cluster, sector, entry)
<1>1. /\ op = "list" /\ pc = "entry" /\ raw.kind = "lfn" /\ Advance /\ lfn' = LfnAfter(raw)
      /\ UNCHANGED <<disk, mounted, op, pc, lister, result, current_index, reader>>
  BY DEF LfnEntry, Here
<1>2. content \in Contents /\ WalkOK /\ content' = content /\ lfn \in LfnType /\ current_index \in 0 .. index
  BY <1>1, WalkIsOK DEF ListInv, TypeOK, disk
<1>3. PICK k \in 1 .. Len(content) : \E i \in 1 .. Size(content[k]) :
           /\ cluster \in 1 .. Clusters /\ AtEntry(k, i) /\ Place = Lasts[k - 1] + i /\ raw = Raw(content[k], i)
           /\ content[k] \in Items /\ Len(content[k].long) \in 0 .. 31 /\ Size(content[k]) = Len(content[k].long) + 1
           /\ content[k].kind # "deleted" /\ i < Size(content[k]) /\ current_index = Counts[k - 1]
  BY <1>1, Kinds DEF END
<1>4. PICK i \in 1 .. Size(content[k]) :
           /\ cluster \in 1 .. Clusters /\ AtEntry(k, i) /\ Place = Lasts[k - 1] + i /\ raw = Raw(content[k], i)
           /\ content[k] \in Items /\ Len(content[k].long) \in 0 .. 31 /\ Size(content[k]) = Len(content[k].long) + 1
           /\ content[k].kind # "deleted" /\ i < Size(content[k]) /\ current_index = Counts[k - 1]
  BY <1>3
<1>5. i \in 1 .. Len(content[k].long)
  BY <1>4
<1>6. i = 1 \/ Taken(lfn, content[k], i - 1)
  <2>1. k <= Len(content)
    BY <1>2, Directory
  <2>2. QED
    BY <1>4, <2>1 DEF AtEntry
<1>7. \A item \in Items : Len(item.long) \in 0 .. 31 /\ item.kind # "deleted" =>
        \A j \in 1 .. Len(item.long) : j = 1 \/ Taken(lfn, item, j - 1) =>
          LfnAfter(Raw(item, j)) \in LfnType /\ Taken(LfnAfter(Raw(item, j)), item, j)
  BY <1>2, PartTaken
<1>8. lfn' \in LfnType /\ Taken(lfn', content[k], i)
  BY <1>1, <1>4, <1>5, <1>6, <1>7
<1>9. i # Size(content[k])
  BY <1>4
<1>10. Walking' /\ WalkOK'
  BY <1>1, <1>2, <1>4, <1>8, <1>9, GoesOn
<1>11. QED
  BY <1>1, <1>2, <1>8, <1>10, OverEntry

(* Behind a label there is no file. *)
LEMMA NoMoreFiles ==
  ASSUME \A c \in Contents : LabelsLast(c), ListInv, NEW k \in 1 .. Len(content), content[k].kind = "label"
  PROVE  Counts[k - 1] = Counts[Len(content)]
<1>1. content \in Contents /\ LabelsLast(content)
  BY DEF ListInv
<1>2. Len(content) \in Nat /\ DOMAIN content = 1 .. Len(content)
  BY <1>1, Directory
<1>3. ASSUME NEW j \in k .. Len(content) PROVE ~ IsFile(content[j])
  <2>1. CASE j = k
    BY <2>1 DEF IsFile
  <2>2. CASE j # k
    <3>1. k \in 1 .. Len(content) /\ j \in 1 .. Len(content) /\ k < j
      BY <1>2, <2>2
    <3>2. QED
      BY <1>1, <1>2, <3>1 DEF LabelsLast
  <2>3. QED
    BY <2>1, <2>2
<1>4. QED
  BY <1>1, <1>3, ItemsAre

(* A short entry returned before, or a label, is passed. *)
LEMMA AtSkipped ==
  ASSUME \A c \in Contents : LabelsLast(c), FatInv, ListInv, SkipEntry \/ SkipLabel
  PROVE  ListInv'
<1>1. /\ op = "list" /\ pc = "entry" /\ At(cluster, sector, entry).kind = "sfn" /\ Advance /\ lfn' = Forget
      /\ \/ current_index < index /\ current_index' = current_index + 1
         \/ current_index = index /\ current_index' = current_index /\ At(cluster, sector, entry).item.kind = "label"
      /\ UNCHANGED <<disk, mounted, op, pc, lister, result, reader>>
  BY DEF SkipEntry, SkipLabel, Here, IsLabel
<1>2. /\ content \in Contents /\ WalkOK /\ content' = content /\ lfn \in LfnType
      /\ index \in Nat /\ current_index \in 0 .. index /\ index <= Counts[Len(content)]
  BY <1>1, WalkIsOK DEF ListInv, TypeOK, disk, Listed
<1>3. PICK k \in 1 .. Len(content) : \E i \in 1 .. Size(content[k]) :
           /\ cluster \in 1 .. Clusters /\ Place = Lasts[k - 1] + i /\ At(cluster, sector, entry) = Raw(content[k], i)
           /\ content[k] \in Items /\ content[k].kind # "deleted" /\ ~ (i < Size(content[k]))
           /\ Counts[k - 1] \in Nat /\ current_index = Counts[k - 1]
           /\ Counts[k] = Counts[k - 1] + (IF IsFile(content[k]) THEN 1 ELSE 0)
  BY <1>1, Kinds DEF END
<1>4. PICK i \in 1 .. Size(content[k]) :
           /\ cluster \in 1 .. Clusters /\ Place = Lasts[k - 1] + i /\ At(cluster, sector, entry) = Raw(content[k], i)
           /\ content[k] \in Items /\ content[k].kind # "deleted" /\ ~ (i < Size(content[k]))
           /\ Counts[k - 1] \in Nat /\ current_index = Counts[k - 1]
           /\ Counts[k] = Counts[k - 1] + (IF IsFile(content[k]) THEN 1 ELSE 0)
  BY <1>3
<1>5. At(cluster, sector, entry).item = content[k]
  BY <1>4, RawIs
<1>6. lfn' \in LfnType /\ lfn'.pos = 0 /\ lfn'.sequence = 0
  <2>1. <<>> \in Seq(STRING) /\ 0 \in 0 .. LFN_MAX /\ 0 \in -1 .. 31
    BY FatAssumption DEF FatAssumption
  <2>2. QED
    BY <1>1, <1>2, <2>1 DEF Forget, LfnType
<1>7. current_index' = Counts[k] /\ current_index' \in 0 .. index
  <2>1. CASE content[k].kind = "label"
    <3>1. Counts[k - 1] = Counts[Len(content)] /\ Counts[k] = Counts[k - 1]
      BY <1>4, <2>1, NoMoreFiles DEF IsFile
    <3>2. ~ (current_index < index)
      BY <1>2, <1>4, <3>1
    <3>3. QED
      BY <1>1, <1>2, <1>4, <3>1, <3>2
  <2>2. CASE content[k].kind # "label"
    <3>1. Counts[k] = Counts[k - 1] + 1
      BY <1>4, <2>2 DEF IsFile, Items
    <3>2. current_index < index /\ current_index' = current_index + 1
      BY <1>1, <1>5, <2>2
    <3>3. QED
      BY <1>2, <1>4, <3>1, <3>2
  <2>3. QED
    BY <2>1, <2>2
<1>8. Walking' /\ WalkOK'
  BY <1>1, <1>2, <1>4, <1>6, <1>7, GoesOn
<1>9. QED
  BY <1>1, <1>6, <1>7, <1>8, OverEntry

(* The caller gets the next file. *)
LEMMA AtFile ==
  ASSUME FatInv, ListInv, ReturnEntry
  PROVE  ListInv'
<1> DEFINE m == Len(content)
           item == At(cluster, sector, entry).item
<1>1. /\ op = "list" /\ pc = "entry" /\ At(cluster, sector, entry).kind = "sfn" /\ current_index = index
      /\ item.kind # "label" /\ listed' = Append(listed, [name |-> FinalName(item), dir |-> item.dir])
      /\ index' = index + 1 /\ pc' = "out" /\ op' = "list"
      /\ UNCHANGED <<disk, faults, mounted, walk, reader, asked>>
  BY DEF ReturnEntry, Here, IsLabel, Return
<1>2. /\ content \in Contents /\ content' = content /\ lfn \in LfnType /\ lfn' = lfn
      /\ index \in Nat /\ Listed /\ TypeOK
  BY <1>1 DEF ListInv, TypeOK, disk, walk
<1>3. PICK k \in 1 .. Len(content) : \E i \in 1 .. Size(content[k]) :
           /\ AtEntry(k, i) /\ At(cluster, sector, entry) = Raw(content[k], i)
           /\ content[k] \in Items /\ content[k].kind # "deleted" /\ ~ (i < Size(content[k]))
           /\ Size(content[k]) = Len(content[k].long) + 1 /\ Len(content[k].long) \in 0 .. 31
           /\ Counts[k - 1] \in Nat /\ current_index = Counts[k - 1]
           /\ Counts[k] = Counts[k - 1] + (IF IsFile(content[k]) THEN 1 ELSE 0)
  BY <1>1, Kinds DEF END
<1>4. PICK i \in 1 .. Size(content[k]) :
           /\ AtEntry(k, i) /\ At(cluster, sector, entry) = Raw(content[k], i)
           /\ content[k] \in Items /\ content[k].kind # "deleted" /\ ~ (i < Size(content[k]))
           /\ Size(content[k]) = Len(content[k].long) + 1 /\ Len(content[k].long) \in 0 .. 31
           /\ Counts[k - 1] \in Nat /\ current_index = Counts[k - 1]
           /\ Counts[k] = Counts[k - 1] + (IF IsFile(content[k]) THEN 1 ELSE 0)
  BY <1>3
<1>5. item = content[k] /\ IsFile(content[k])
  <2>1. item = content[k]
    BY <1>4, RawIs
  <2>2. QED
    BY <1>1, <1>4, <2>1 DEF IsFile, Items
<1> HIDE DEF item
<1>6. [name |-> FinalName(item), dir |-> item.dir] = Shown(item)
  <2>1. i = Len(content[k].long) + 1 /\ i - 1 = Len(content[k].long) /\ k <= Len(content)
    <3>1. k <= Len(content)
      BY <1>2, Directory
    <3>2. QED
      BY <1>4, <3>1
  <2>2. IF content[k].long = <<>> THEN lfn.pos = 0 ELSE Taken(lfn, content[k], Len(content[k].long))
    <3>1. CASE content[k].long = <<>>
      <4>1. i = 1
        BY <2>1, <3>1
      <4>2. QED
        BY <1>4, <2>1, <3>1, <4>1 DEF AtEntry
    <3>2. CASE content[k].long # <<>>
      <4>1. Len(content[k].long) # 0
        BY <1>4, <3>2 DEF Items
      <4>2. i # 1
        BY <1>4, <2>1, <4>1
      <4>3. QED
        BY <1>4, <2>1, <3>2, <4>2 DEF AtEntry
    <3>3. QED
      BY <3>1, <3>2
  <2>3. \A x \in Items : IsFile(x) /\ (IF x.long = <<>> THEN lfn.pos = 0 ELSE Taken(lfn, x, Len(x.long))) =>
          [name |-> FinalName(x), dir |-> x.dir] = Shown(x)
    BY <1>2, NameIs
  <2>4. QED
    BY <1>4, <1>5, <2>2, <2>3
<1>7. Counts[m] \in Nat /\ index + 1 <= Counts[m] /\ Expected[index + 1] = Shown(item)
  <2>1. Counts[m] \in Nat /\ Counts[k] <= Counts[m] /\ Which(Counts, Counts[k - 1] + 1) = k
    <3>1. m \in 0 .. m
      BY <1>2, Directory
    <3>2. QED
      BY <1>2, <1>5, <3>1, Directory, ItemsAre
  <2>2. index + 1 = Counts[k - 1] + 1 /\ index + 1 = Counts[k] /\ index + 1 \in 1 .. Counts[m]
    BY <1>1, <1>2, <1>4, <1>5, <2>1
  <2>3. Expected[index + 1] = Shown(content[Which(Counts, index + 1)])
    BY <2>2 DEF Expected
  <2>4. QED
    BY <1>5, <2>1, <2>2, <2>3
<1>8. Append(listed, Shown(item)) = [n \in 1 .. index + 1 |-> Expected[n]]
  <2> DEFINE S == {Expected[n] : n \in 1 .. index + 1}
             longer == [n \in 1 .. index + 1 |-> Expected[n]]
             next == Append(listed, Shown(item))
  <2>1. listed = [n \in 1 .. index |-> Expected[n]]
    BY <1>2 DEF Listed
  <2>2. \A n \in 1 .. index : Expected[n] \in S
    BY <1>2
  <2>3. index + 1 \in 1 .. index + 1
    BY <1>2
  <2>4. listed \in Seq(S) /\ Len(listed) = index
    <3> HIDE DEF S
    <3>1. QED
      BY <1>2, <2>1, <2>2
  <2>5. longer \in Seq(S) /\ Len(longer) = index + 1
    <3>1. \A n \in 1 .. index + 1 : Expected[n] \in S
      OBVIOUS
    <3> HIDE DEF S
    <3>2. QED
      BY <1>2, <3>1
  <2>6. Shown(item) \in S
    BY <1>7, <2>3
  <2> HIDE DEF S
  <2>7. next \in Seq(S) /\ Len(next) = index + 1 /\ next[index + 1] = Shown(item) /\ \A n \in 1 .. index : next[n] = listed[n]
    BY <2>4, <2>6
  <2>8. \A n \in 1 .. index + 1 : longer[n] = Expected[n]
    OBVIOUS
  <2> HIDE DEF next, longer
  <2>9. ASSUME NEW n \in 1 .. index + 1 PROVE next[n] = longer[n]
    <3>1. n = index + 1 \/ n \in 1 .. index
      BY <1>2
    <3>2. QED
      BY <1>7, <2>1, <2>7, <2>8, <3>1
  <2>10. next = longer
    BY <2>5, <2>7, <2>9, SeqEqual
  <2>11. QED
    BY <2>10 DEF next, longer
<1>9. Listed'
  BY <1>1, <1>2, <1>6, <1>7, <1>8, Kept DEF Listed
<1>10. TypeOK'
  <2>1. /\ faults' = faults /\ mounted' = mounted /\ current_index' = current_index /\ sector' = sector /\ entry' = entry
        /\ offset' = offset /\ bytes_read' = bytes_read /\ count' = count
    BY <1>1 DEF walk, reader
  <2>2. index' \in Nat /\ current_index \in 0 .. index'
    BY <1>1, <1>2 DEF TypeOK
  <2>3. QED
    BY <1>1, <1>2, <2>1, <2>2 DEF TypeOK
<1>11. QED
  BY <1>1, <1>2, <1>9, <1>10 DEF ListInv, EndMeansAll

(* A listing ends with 0 behind the last file, or where the chain was cut. *)
LEMMA AtEnd ==
  ASSUME ListInv, EndOfDirectory
  PROVE  ListInv'
<1>1. /\ op = "list" /\ pc = "entry" /\ At(cluster, sector, entry).kind = END
      /\ pc' = "out" /\ op' = "done"
      /\ UNCHANGED <<disk, faults, mounted, lister, walk, reader, asked>>
  BY DEF EndOfDirectory, Return, IsEnd
<1>2. /\ content \in Contents /\ content' = content /\ index' = index /\ listed' = listed /\ lfn' = lfn
      /\ asked' = asked /\ index \in Nat /\ current_index \in 0 .. index /\ Listed
  BY <1>1 DEF ListInv, TypeOK, disk, lister, walk
<1>3. asked.cut \/ current_index = Counts[Len(content)]
  <2>1. ASSUME NEW k \in 1 .. Len(content), NEW i \in 1 .. Size(content[k]), At(cluster, sector, entry) = Raw(content[k], i)
        PROVE  FALSE
    <3>1. Raw(content[k], i).kind \in {"deleted", "lfn", "sfn"}
      BY RawIs
    <3>2. QED
      BY <1>1, <2>1, <3>1 DEF END
  <2>2. QED
    BY <1>1, <2>1, Standing
<1>4. asked.cut \/ listed = Expected
  <2>1. Counts[Len(content)] \in Nat
    <3>1. Len(content) \in 0 .. Len(content)
      BY <1>2, Directory
    <3>2. QED
      BY <1>2, <3>1, Directory
  <2>2. current_index = Counts[Len(content)] => index = Counts[Len(content)]
    BY <1>2, <2>1 DEF Listed
  <2>3. index = Counts[Len(content)] => listed = Expected
    BY <1>2 DEF Listed, Expected
  <2>4. QED
    BY <1>3, <2>2, <2>3
<1>5. EndMeansAll'
  BY <1>2, <1>4, Kept DEF EndMeansAll
<1>6. Listed'
  BY <1>2, ListedKept
<1>7. TypeOK'
  BY <1>1 DEF ListInv, TypeOK, lister, walk, reader
<1>8. QED
  BY <1>1, <1>2, <1>5, <1>6, <1>7 DEF ListInv

(* A call starts at the first entry. *)
LEMMA CallStarts ==
  ASSUME ListInv, vfs_readdir
  PROVE  ListInv'
<1>1. /\ op = "list" /\ op' = "list" /\ pc' = "entry" /\ cluster' = 1 /\ sector' = 0 /\ entry' = 0
      /\ current_index' = 0 /\ lfn' = NoLfn /\ content' = content /\ index' = index /\ listed' = listed
      /\ faults' = faults /\ mounted' = mounted /\ offset' = offset /\ bytes_read' = bytes_read /\ count' = count
  BY DEF vfs_readdir, disk, lister, reader
<1>2. content \in Contents /\ TypeOK /\ Listed
  BY DEF ListInv
<1>3. /\ ENTRIES \in Nat \ {0} /\ sectors_per_cluster \in Nat \ {0} /\ PerCluster \in Nat \ {0} /\ Clusters \in Nat \ {0}
  BY <1>2, Geometry
<1>4. NoLfn \in LfnType /\ NoLfn.pos = 0 /\ NoLfn.sequence = 0
  <2>1. <<>> \in Seq(STRING) /\ 0 \in 0 .. LFN_MAX /\ 0 \in -1 .. 31 /\ 0 \in Int
    BY FatAssumption DEF FatAssumption
  <2>2. QED
    BY <2>1 DEF NoLfn, LfnType
<1>5. Walking'
  <2>1. Place' = Lasts[0] + 1
    <3>1. Place' = (1 - 1) * PerCluster + 0 * ENTRIES + 0 + 1
      BY <1>1 DEF Place
    <3>2. Lasts[0] = 0
      BY <1>2, Directory
    <3>3. QED
      BY <1>3, <3>1, <3>2
  <2>2. /\ 1 \in 1 .. Len(content) + 1 /\ 1 \in 1 .. Room(1) /\ 1 - 1 = 0 /\ current_index' = Counts[0]
    <3>1. Len(content) \in Nat /\ Counts[0] = 0
      BY <1>2, Directory
    <3>2. 1 \in 1 .. Room(1)
      <4>1. CASE 1 > Len(content)
        BY <4>1 DEF Room
      <4>2. CASE ~ (1 > Len(content))
        <5>1. Len(content[1].long) \in 0 .. 31
          BY <1>2, <3>1, <4>2, Directory
        <5>2. QED
          BY <4>2, <5>1 DEF Room, Size
      <4>3. QED
        BY <4>1, <4>2
    <3>3. QED
      BY <1>1, <3>1, <3>2
  <2>3. /\ Lasts' = Lasts /\ Counts' = Counts /\ Clusters' = Clusters /\ Room(1)' = Room(1)
        /\ Len(content') = Len(content)
    BY <1>1, Kept
  <2>4. AtEntry(1, 1)'
    BY <1>1, <1>4, <2>1, <2>2, <2>3 DEF AtEntry
  <2>5. cluster' # EOC /\ cluster' \in 0 .. Clusters
    BY <1>1, <1>3 DEF EOC
  <2>6. QED
    BY <2>2, <2>3, <2>4, <2>5 DEF Walking
<1>6. TypeOK'
  <2>1. index \in Nat /\ LFN_MAX \in Nat
    BY <1>2, FatAssumption DEF FatAssumption, TypeOK
  <2>2. 0 \in 0 .. sectors_per_cluster - 1 /\ 0 \in 0 .. ENTRIES - 1 /\ 0 \in 0 .. index /\ 0 \in 0 .. LFN_MAX
    BY <1>3, <2>1
  <2>3. lfn'.pos \in 0 .. LFN_MAX /\ lfn'.sequence \in -1 .. 31
    BY <1>1, <1>4, <2>2
  <2>4. QED
    BY <1>1, <1>2, <2>1, <2>2, <2>3 DEF TypeOK
<1>7. Listed'
  BY <1>1, <1>2, ListedKept
<1>8. QED
  BY <1>1, <1>2, <1>4, <1>5, <1>6, <1>7 DEF ListInv, EndMeansAll

(* A FAT sector that cannot be read is one of MaxFaults. *)
LEMMA FollowFaults ==
  ASSUME faults \in 0 .. MaxFaults, NEW c, NEW last, Follow(c, last)
  PROVE  faults' \in 0 .. MaxFaults
<1>1. MaxFaults \in Nat
  BY FatAssumption DEF FatAssumption
<1>2. faults' = faults \/ (faults < MaxFaults /\ faults' = faults + 1)
  BY DEF Follow, Fault
<1>3. QED
  BY <1>1, <1>2

(* Mounting, a sector that cannot be read, and all of fat32_read leave     *)
(* what was listed alone.                                                  *)
LEMMA NotListing ==
  ASSUME FatInv, ListInv, fs_init \/ SectorFails \/ Read \/ \E o, n \in 0 .. MaxCount : fat32_read(o, n)
  PROVE  ListInv'
<1>1. /\ content \in Contents /\ TypeOK /\ Listed /\ lfn \in LfnType /\ MaxFaults \in Nat /\ LFN_MAX \in Nat
      /\ sectors_per_cluster \in Nat \ {0} /\ ENTRIES \in Nat \ {0}
  BY FatAssumption DEF ListInv, FatAssumption
<1>2. content' = content /\ index' = index /\ listed' = listed
  BY DEF fs_init, SectorFails, Read, SkipCluster, CopyCluster, CopyFails, ReadReturns, fat32_read, disk, lister
<1>3. ~ (op' = "list" /\ pc' = "entry") /\ (op' = "boot" => pc' = "out")
  <2>1. CASE fs_init
    <3>1. pc = "out" /\ pc' = pc
      BY <2>1 DEF fs_init, ListInv
    <3>2. QED
      BY <3>1
  <2>2. CASE SectorFails
    BY <2>2 DEF SectorFails, Return
  <2>3. CASE Read \/ \E o, n \in 0 .. MaxCount : fat32_read(o, n)
    <3>1. op' \in {"read", "over"}
      BY <2>3 DEF Read, SkipCluster, CopyCluster, CopyFails, ReadReturns, fat32_read
    <3>2. QED
      BY <3>1
  <2>4. QED
    BY <2>1, <2>2, <2>3
<1>4. EndMeansAll'
  <2>1. CASE fs_init
    <3>1. op' = "done" => ~ mounted'
      BY <2>1 DEF fs_init
    <3>2. QED
      BY <3>1 DEF EndMeansAll
  <2>2. CASE SectorFails
    BY <2>2 DEF SectorFails, Return, EndMeansAll
  <2>3. CASE Read \/ \E o, n \in 0 .. MaxCount : fat32_read(o, n)
    BY <2>3 DEF Read, SkipCluster, CopyCluster, CopyFails, ReadReturns, fat32_read, EndMeansAll
  <2>4. QED
    BY <2>1, <2>2, <2>3
<1>5. lfn' \in LfnType
  <2>1. <<>> \in Seq(STRING) /\ 0 \in 0 .. LFN_MAX /\ 0 \in -1 .. 31 /\ 0 \in Int
    BY <1>1
  <2>2. NoLfn \in LfnType
    BY <2>1 DEF NoLfn, LfnType
  <2>3. lfn' = lfn \/ lfn' = NoLfn
    BY DEF fs_init, SectorFails, Read, SkipCluster, CopyCluster, CopyFails, ReadReturns, fat32_read, walk
  <2>4. QED
    BY <1>1, <2>2, <2>3
<1>6. faults' \in 0 .. MaxFaults
  <2>1. faults' = faults \/ Fault \/ Follow(cluster, FileClusters)
    BY DEF fs_init, SectorFails, Read, SkipCluster, CopyCluster, CopyFails, ReadReturns, fat32_read
  <2>2. faults \in 0 .. MaxFaults
    BY <1>1 DEF TypeOK
  <2>3. Fault => faults' \in 0 .. MaxFaults
    BY <1>1, <2>2 DEF Fault
  <2>4. QED
    BY <2>1, <2>2, <2>3, FollowFaults
<1>7. /\ op' \in {"boot", "list", "done", "read", "over"} /\ pc' \in {"out", "entry", "skip", "copy"} /\ mounted' \in BOOLEAN
  BY <1>1 DEF fs_init, SectorFails, Read, SkipCluster, CopyCluster, CopyFails, ReadReturns, fat32_read, Return, TypeOK
<1>8. /\ sector' \in 0 .. sectors_per_cluster - 1 /\ entry' \in 0 .. ENTRIES - 1 /\ current_index' \in 0 .. index
  <2>1. \/ sector' = sector /\ entry' = entry /\ current_index' = current_index
        \/ sector' = 0 /\ entry' = 0 /\ current_index' = 0
    BY DEF fs_init, SectorFails, Read, SkipCluster, CopyCluster, CopyFails, ReadReturns, fat32_read, walk
  <2>2. QED
    BY <1>1, <2>1 DEF TypeOK
<1>9. offset' \in Nat /\ bytes_read' \in 0 .. count'
  <2>1. CASE fs_init \/ SectorFails \/ CopyFails \/ ReadReturns
    BY <1>1, <2>1 DEF fs_init, SectorFails, CopyFails, ReadReturns, reader, TypeOK
  <2>2. CASE SkipCluster
    <3>1. bytes_read' = bytes_read /\ count' = count
          /\ (offset' = offset \/ (offset >= sectors_per_cluster /\ offset' = offset - sectors_per_cluster))
      BY <2>2 DEF SkipCluster
    <3>2. QED
      BY <1>1, <3>1 DEF TypeOK
  <2>3. CASE CopyCluster
    <3>1. /\ count' = count /\ offset' = 0 /\ bytes_read' = bytes_read + ToCopy /\ bytes_read < count
          /\ offset < sectors_per_cluster /\ offset \in Nat /\ count \in Nat /\ bytes_read \in Nat
      BY <2>3 DEF CopyCluster, FatInv, Reading
    <3>2. ToCopy \in Nat /\ ToCopy <= count - bytes_read
      BY <1>1, <3>1 DEF ToCopy
    <3>3. QED
      BY <3>1, <3>2
  <2>4. CASE \E o, n \in 0 .. MaxCount : fat32_read(o, n)
    <3>1. PICK o, n \in 0 .. MaxCount : offset' = o /\ count' = n /\ bytes_read' = 0
      BY <2>4 DEF fat32_read
    <3>2. MaxCount \in Nat
      BY FatAssumption DEF FatAssumption
    <3>3. QED
      BY <3>1, <3>2
  <2>5. QED
    BY <2>1, <2>2, <2>3, <2>4 DEF Read
<1>10. TypeOK'
  BY <1>1, <1>2, <1>5, <1>6, <1>7, <1>8, <1>9 DEF TypeOK, LfnType
<1>11. QED
  BY <1>1, <1>2, <1>3, <1>4, <1>5, <1>10, ListedKept DEF ListInv

(* Nothing is listed before the first call. *)
LEMMA ListBegins ==
  ASSUME Init
  PROVE  ListInv
<1>1. /\ content \in Contents /\ faults = 0 /\ mounted = FALSE /\ op = "boot" /\ pc = "out" /\ index = 0 /\ listed = <<>>
      /\ sector = 0 /\ entry = 0 /\ current_index = 0 /\ lfn = NoLfn /\ offset = 0 /\ bytes_read = 0 /\ count = 0
  BY DEF Init
<1>2. /\ MaxFaults \in Nat /\ LFN_MAX \in Nat /\ sectors_per_cluster \in Nat \ {0} /\ ENTRIES \in Nat \ {0}
  BY FatAssumption DEF FatAssumption
<1>3. NoLfn \in LfnType
  <2>1. <<>> \in Seq(STRING) /\ 0 \in 0 .. LFN_MAX /\ 0 \in -1 .. 31 /\ 0 \in Int
    BY <1>2
  <2>2. QED
    BY <2>1 DEF NoLfn, LfnType
<1>4. TypeOK
  <2>1. faults \in 0 .. MaxFaults /\ current_index \in 0 .. index /\ bytes_read \in 0 .. count /\ index \in Nat /\ offset \in Nat
    BY <1>1, <1>2
  <2>2. sector \in 0 .. sectors_per_cluster - 1 /\ entry \in 0 .. ENTRIES - 1
    BY <1>1, <1>2
  <2>3. lfn.pos \in 0 .. LFN_MAX /\ lfn.sequence \in -1 .. 31
    BY <1>1, <1>3 DEF LfnType
  <2>4. QED
    BY <1>1, <2>1, <2>2, <2>3 DEF TypeOK
<1>5. Listed
  <2>1. Len(content) \in 0 .. Len(content)
    BY <1>1, Directory
  <2>2. Counts[Len(content)] \in Nat
    BY <1>1, <2>1, Directory
  <2>3. [n \in 1 .. 0 |-> Expected[n]] = <<>>
    OBVIOUS
  <2>4. QED
    BY <1>1, <2>2, <2>3 DEF Listed
<1>6. QED
  BY <1>1, <1>3, <1>4, <1>5 DEF ListInv, EndMeansAll

(* Every step keeps the invariant. *)
LEMMA ListStep ==
  ASSUME \A c \in Contents : LabelsLast(c), FatInv, ListInv, [Next]_vars
  PROVE  ListInv'
<1>1. CASE fs_init \/ SectorFails \/ Read \/ \E o, n \in 0 .. MaxCount : fat32_read(o, n)
  BY <1>1, NotListing
<1>2. CASE vfs_readdir
  BY <1>2, CallStarts
<1>3. CASE EndOfDirectory
  BY <1>3, AtEnd
<1>4. CASE DeletedEntry
  BY <1>4, AtDeleted
<1>5. CASE LfnEntry
  BY <1>5, AtPart
<1>6. CASE SkipEntry \/ SkipLabel
  BY <1>6, AtSkipped
<1>7. CASE ReturnEntry
  BY <1>7, AtFile
<1>8. CASE UNCHANGED vars
  <2>1. /\ content' = content /\ faults' = faults /\ mounted' = mounted /\ op' = op /\ pc' = pc /\ result' = result
        /\ index' = index /\ listed' = listed /\ cluster' = cluster /\ sector' = sector /\ entry' = entry
        /\ current_index' = current_index /\ lfn' = lfn /\ offset' = offset /\ bytes_read' = bytes_read /\ count' = count
        /\ asked' = asked
    BY <1>8 DEF vars, disk, lister, walk, reader
  <2>2. Walking' <=> Walking
    BY <2>1, Kept DEF Walking, AtEntry, Place
  <2>3. TypeOK' /\ EndMeansAll' /\ Listed'
    BY <2>1, Kept, ListedKept DEF TypeOK, EndMeansAll, ListInv
  <2>4. QED
    BY <2>1, <2>2, <2>3 DEF ListInv
<1>9. QED
  BY <1>1, <1>2, <1>3, <1>4, <1>5, <1>6, <1>7, <1>8 DEF Next, Readdir

(* For every directory in which no file stands behind a label, in every    *)
(* reachable state the caller of readdir has the first files, the walk is  *)
(* at the entry its counters say, and lfn_buffer holds the parts passed.   *)
THEOREM ListInvariant ==
  ASSUME \A c \in Contents : LabelsLast(c)
  PROVE  Spec => []ListInv
<1>1. Init => ListInv
  BY ListBegins
<1>2. FatInv /\ ListInv /\ [Next]_vars => ListInv'
  BY ListStep
<1>3. QED
  BY <1>1, <1>2, FatInvariant, PTL DEF Spec

(* Whatever fails, a listing shows every file once, in order, under its    *)
(* own name, and one that ends with 0 is complete (fat32.c:156-302).       *)
THEOREM ListingsAreRight ==
  ASSUME \A c \in Contents : LabelsLast(c)
  PROVE  Spec => []ListingIsRight
<1>1. ListInv => ListingIsRight
  <2> SUFFICES ASSUME ListInv PROVE ListingIsRight
    OBVIOUS
  <2>1. content \in Contents /\ TypeOK /\ EndMeansAll /\ Listed /\ index \in Nat
    BY DEF ListInv, TypeOK
  <2>2. Counts[Len(content)] \in Nat
    <3>1. Len(content) \in 0 .. Len(content)
      BY <2>1, Directory
    <3>2. QED
      BY <2>1, <3>1, Directory
  <2>3. IsPrefix(listed, Expected)
    <3> DEFINE m == Counts[Len(content)]
               S == {Expected[n] : n \in 1 .. m}
    <3>1. Expected = [n \in 1 .. m |-> Expected[n]] /\ listed = [n \in 1 .. index |-> Expected[n]] /\ index <= m
      BY <2>1 DEF Expected, Listed
    <3>2. \A n \in 1 .. m : Expected[n] \in S
      OBVIOUS
    <3> HIDE DEF S, m
    <3>3. m \in Nat
      BY <2>2 DEF m
    <3>4. Expected \in Seq(S) /\ Len(Expected) = m
      BY <3>1, <3>2, <3>3
    <3>5. \A n \in 1 .. index : n \in 1 .. m
      BY <2>1, <3>1, <3>3
    <3>6. listed \in Seq(S) /\ Len(listed) = index /\ \A n \in 1 .. index : listed[n] = Expected[n]
      <4>1. \A n \in 1 .. index : Expected[n] \in S
        BY <3>2, <3>5
      <4> DEFINE l == [n \in 1 .. index |-> Expected[n]]
      <4>2. l \in Seq(S) /\ Len(l) = index
        BY <2>1, <4>1
      <4>3. \A n \in 1 .. index : l[n] = Expected[n]
        OBVIOUS
      <4> HIDE DEF l
      <4>4. QED
        BY <3>1, <4>2, <4>3 DEF l
    <3>7. SubSeq(listed, 1, Len(listed)) = SubSeq(Expected, 1, Len(listed))
      <4> DEFINE a == SubSeq(listed, 1, index)
                 b == SubSeq(Expected, 1, index)
      <4>1. a \in Seq(S) /\ Len(a) = index /\ \A n \in 1 .. index : a[n] = listed[n]
        BY <2>1, <3>6
      <4>2. b \in Seq(S) /\ Len(b) = index /\ \A n \in 1 .. index : b[n] = Expected[n]
        BY <2>1, <3>1, <3>3, <3>4
      <4> HIDE DEF a, b
      <4>3. a = b
        BY <3>6, <4>1, <4>2, SeqEqual
      <4>4. QED
        BY <3>6, <4>3 DEF a, b
    <3>8. QED
      BY <3>1, <3>4, <3>6, <3>7 DEF IsPrefix
  <2>4. QED
    BY <2>1, <2>3 DEF ListingIsRight, ListsEachOnce
<1>2. QED
  BY <1>1, ListInvariant, PTL

-----------------------------------------------------------------------------
(* Streams *)

Text == Seq(Chars)
FileType == [fd : Int, mode : {"r", "w", "closed"}, buf_mode : {"none", "line", "full"}, buffer : Text,
             error : BOOLEAN, given : Text, taken : Nat, out : Text]

(* What was given and is not handed over yet is what the buffer holds. *)
Waits(f) == /\ Len(f.given) = f.taken + Len(f.buffer)
            /\ \A i \in 1 .. Len(f.buffer) : f.buffer[i] = f.given[f.taken + i]
(* What is true of a file at any time.                                     *)
FileOK(f) ==
  /\ f \in FileType
  /\ f.buf_mode = "none" => f.buffer = <<>>
  /\ Len(f.buffer) <= BUFSIZ
  /\ f.mode # "closed" => Waits(f)

Names == {"none", "vfprintf", "puts", "fflush", "fclose", "fopen"}
Modes == {<<"r">>, <<"w">>}
(* The calls under way: which function, where it stands, and what that     *)
(* says of its stream.                                                     *)
Printing ==
  /\ call.op \in {"vfprintf", "puts"} /\ at \in {"piece", "copy", "flush", "direct"}
  /\ call.pieces \in Seq(Text) /\ this.mode # "closed"
  /\ at = "direct" => this.buf_mode = "none"
  /\ at \in {"copy", "flush"} => this.buf_mode # "none"
Flushing == call.op = "fflush" /\ at = "flush" /\ this.mode # "closed"
Closing ==
  /\ call.op = "fclose" /\ at \in {"last", "close"} /\ mine \in Files /\ this.mode # "closed"
  /\ at = "close" /\ this.mode = "w" => this.buffer = <<>>
Opening ==
  call.op = "fopen" /\ at \in {"open", "mmap"} /\ mine \in Files /\ this.mode = "closed" /\ call.pieces \in Modes

CallOK ==
  /\ call \in [op : Names, s : Streams, pieces : Seq(Text) \cup Modes, text : Text]
  /\ at = "done" \/ Printing \/ Flushing \/ Closing \/ Opening

(* A line-buffered stream holds a newline only while it is being flushed.  *)
NoLine(f) == f.buf_mode = "line" /\ ~ f.error => ~ \E i \in DOMAIN f.buffer : f.buffer[i] = NL
Lines == \A s \in Streams : (at = "flush" /\ s = mine) \/ NoLine(file[s])

(* A descriptor is open for each open stream, and one more between the     *)
(* two system calls of fopen.                                              *)
IsOpen == {f \in Files : file[f].mode # "closed"}
Fd(f) == file[f].fd
Fds == (0 .. 2) \cup {Fd(f) : f \in IsOpen}
Descriptors ==
  /\ IsFiniteSet(IsOpen)
  /\ \A f \in IsOpen : Fd(f) \in Nat /\ Fd(f) > 2
  /\ \A f \in Files \ IsOpen : Fd(f) = -1
  /\ \A f, g \in IsOpen : Fd(f) = Fd(g) => f = g
  /\ at # "mmap" => fds = Fds
  /\ at = "mmap" => \E d \in Nat : d > 2 /\ (\A f \in IsOpen : Fd(f) # d) /\ fds = Fds \cup {d}

DataInv ==
  /\ file \in [Streams -> FileType] /\ \A s \in Streams : FileOK(file[s])
  /\ CallOK /\ Lines
(* The inductive invariant.                                                *)
StreamsInv == DataInv /\ Descriptors

-----------------------------------------------------------------------------
(* Files *)

(* What write_buffer copies into the buffer.                               *)
LEMMA Fill ==
  ASSUME NEW f, FileOK(f), f.mode # "closed", f.buf_mode # "none", NEW part \in Text,
         Len(f.buffer) + Len(part) <= BUFSIZ,
         NEW g, g = [f EXCEPT !.buffer = @ \o part, !.given = @ \o part]
  PROVE  /\ FileOK(g) /\ IsPrefix(f.given, g.given)
         /\ g.mode = f.mode /\ g.buf_mode = f.buf_mode /\ g.error = f.error /\ g.fd = f.fd
         /\ g.taken = f.taken /\ g.out = f.out /\ g.buffer = f.buffer \o part
<1>1. f \in FileType /\ Waits(f)
  BY DEF FileOK
<1>2. /\ f.buffer \in Text /\ f.given \in Text /\ f.taken \in Nat
  BY <1>1 DEF FileType
<1>3. /\ g.mode = f.mode /\ g.buf_mode = f.buf_mode /\ g.error = f.error /\ g.fd = f.fd
      /\ g.taken = f.taken /\ g.out = f.out /\ g.buffer = f.buffer \o part /\ g.given = f.given \o part
  BY <1>1 DEF FileType
<1>4. g.buffer \in Text /\ g.given \in Text
  BY <1>2, <1>3, Extended DEF Text
<1>5. g \in FileType
  BY <1>1, <1>4, <1>3 DEF FileType
<1>6. Waits(g)
  <2>1. /\ Len(g.given) = Len(f.given) + Len(part) /\ Len(g.buffer) = Len(f.buffer) + Len(part)
        /\ \A i \in 1 .. Len(f.given) : g.given[i] = f.given[i]
        /\ \A i \in 1 .. Len(part) : g.given[Len(f.given) + i] = part[i]
        /\ \A i \in 1 .. Len(f.buffer) : g.buffer[i] = f.buffer[i]
        /\ \A i \in 1 .. Len(part) : g.buffer[Len(f.buffer) + i] = part[i]
    <3>1. f.given \in Seq(Chars) /\ f.buffer \in Seq(Chars) /\ part \in Seq(Chars)
      BY <1>2 DEF Text
    <3>2. /\ Len(f.given \o part) = Len(f.given) + Len(part)
          /\ \A i \in 1 .. Len(f.given) : (f.given \o part)[i] = f.given[i]
          /\ \A i \in 1 .. Len(part) : (f.given \o part)[Len(f.given) + i] = part[i]
      BY <3>1, Extended
    <3>3. /\ Len(f.buffer \o part) = Len(f.buffer) + Len(part)
          /\ \A i \in 1 .. Len(f.buffer) : (f.buffer \o part)[i] = f.buffer[i]
          /\ \A i \in 1 .. Len(part) : (f.buffer \o part)[Len(f.buffer) + i] = part[i]
      BY <3>1, Extended
    <3>4. QED
      BY <1>3, <3>2, <3>3
  <2>2. f.taken \in Nat /\ Len(f.given) \in Nat /\ Len(f.buffer) \in Nat /\ Len(part) \in Nat
        /\ Len(f.given) = f.taken + Len(f.buffer)
    BY <1>1, <1>2 DEF Waits, Text
  <2>5. \A i \in 1 .. Len(f.buffer) : f.buffer[i] = f.given[f.taken + i]
    BY <1>1 DEF Waits
  <2>6. Len(g.given) = g.taken + Len(g.buffer)
    <3>1. Len(g.given) = Len(f.given) + Len(part) /\ Len(g.buffer) = Len(f.buffer) + Len(part) /\ g.taken = f.taken
      BY <1>3, <2>1
    <3>2. QED
      BY <2>2, <3>1
  <2>3. ASSUME NEW i \in 1 .. Len(g.buffer) PROVE g.buffer[i] = g.given[f.taken + i]
    <3>0. i \in Nat \ {0} /\ i <= Len(f.buffer) + Len(part)
      BY <2>1, <2>2
    <3>1. CASE i <= Len(f.buffer)
      <4>1. i \in 1 .. Len(f.buffer) /\ f.taken + i \in 1 .. Len(f.given)
        BY <2>2, <3>0, <3>1
      <4>2. QED
        BY <2>1, <2>5, <4>1
    <3>2. CASE ~ (i <= Len(f.buffer))
      <4> DEFINE j == i - Len(f.buffer)
      <4>1. j \in 1 .. Len(part) /\ i = Len(f.buffer) + j /\ f.taken + i = Len(f.given) + j
        <5>1. i > Len(f.buffer) /\ i - Len(f.buffer) \in Nat \ {0} /\ i - Len(f.buffer) <= Len(part)
          BY <2>2, <3>0, <3>2
        <5>2. j \in 1 .. Len(part)
          BY <2>2, <5>1
        <5>3. i = Len(f.buffer) + j
          BY <2>2, <3>0
        <5>4. f.taken + i = Len(f.given) + j
          BY <2>2, <3>0, <5>3
        <5>5. QED
          BY <5>2, <5>3, <5>4
      <4> HIDE DEF j
      <4>2. g.buffer[Len(f.buffer) + j] = part[j] /\ g.given[Len(f.given) + j] = part[j]
        BY <2>1, <4>1
      <4>3. QED
        BY <4>1, <4>2
    <3>3. QED
      BY <3>1, <3>2
  <2>4. QED
    BY <1>3, <2>3, <2>6 DEF Waits
<1>7. IsPrefix(f.given, g.given) /\ Len(g.buffer) <= BUFSIZ
  BY <1>2, <1>3, Extended DEF Text
<1>8. QED
  BY <1>3, <1>5, <1>6, <1>7 DEF FileOK

(* What a write of the buffer hands over, of which the kernel takes r. *)
LEMMA HandOver ==
  ASSUME NEW f, FileOK(f), f.mode # "closed", NEW r \in 0 .. Len(f.buffer),
         NEW g, g = [Emptied(f) EXCEPT !.out = @ \o SubSeq(f.buffer, 1, r)]
  PROVE  /\ FileOK(g)
         /\ g.mode = f.mode /\ g.buf_mode = f.buf_mode /\ g.error = f.error /\ g.fd = f.fd
         /\ g.taken = f.taken + Len(f.buffer) /\ g.given = f.given /\ g.buffer = <<>>
         /\ g.taken <= Len(g.given)
         /\ g.out = f.out \o SubSeq(g.given, f.taken + 1, f.taken + r)
<1>1. f \in FileType /\ Waits(f)
  BY DEF FileOK
<1>2. f.buffer \in Text /\ f.given \in Text /\ f.taken \in Nat /\ f.out \in Text /\ Len(f.buffer) \in Nat
  BY <1>1 DEF FileType, Text
<1>3. /\ g.mode = f.mode /\ g.buf_mode = f.buf_mode /\ g.error = f.error /\ g.fd = f.fd
      /\ g.taken = f.taken + Len(f.buffer) /\ g.given = f.given /\ g.buffer = <<>>
      /\ g.out = f.out \o SubSeq(f.buffer, 1, r)
  BY <1>1 DEF FileType, Emptied
<1>4. SubSeq(f.buffer, 1, r) = SubSeq(f.given, f.taken + 1, f.taken + r)
  BY <1>1, <1>2, Shifted DEF Waits, Text
<1>5. g.out \in Text
  <2>1. SubSeq(f.buffer, 1, r) \in Text
    BY <1>2 DEF Text
  <2>2. f.out \in Seq(Chars) /\ SubSeq(f.buffer, 1, r) \in Seq(Chars)
    BY <1>2, <2>1 DEF Text
  <2>3. f.out \o SubSeq(f.buffer, 1, r) \in Seq(Chars)
    BY <2>2, Extended
  <2>4. QED
    BY <1>3, <2>3 DEF Text
<1>6. g \in FileType
  <2>1. <<>> \in Text /\ f.taken + Len(f.buffer) \in Nat
    BY <1>2 DEF Text
  <2>2. QED
    BY <1>1, <1>2, <1>3, <1>5, <2>1 DEF FileType, Emptied
<1>7. Waits(g) /\ g.taken <= Len(g.given)
  <2>1. Len(g.given) = f.taken + Len(f.buffer) /\ Len(g.buffer) = 0
    BY <1>1, <1>3 DEF Waits
  <2>2. g.taken \in Nat /\ g.taken + 0 = g.taken
    BY <1>2, <1>3
  <2>3. QED
    BY <1>3, <2>1, <2>2 DEF Waits
<1>8. Len(g.buffer) <= BUFSIZ
  BY <1>3, StreamsAssumption DEF StreamsAssumption
<1>9. QED
  BY <1>3, <1>4, <1>6, <1>7, <1>8 DEF FileOK

(* The same without a buffer. *)
Passed(f, text, r) ==
  [[f EXCEPT !.given = @ \o text, !.taken = @ + Len(text)] EXCEPT !.out = @ \o SubSeq(text, 1, r)]

PassedOn(f, text, r, g) ==
  /\ FileOK(g) /\ IsPrefix(f.given, g.given)
  /\ g.mode = f.mode /\ g.buf_mode = f.buf_mode /\ g.error = f.error /\ g.fd = f.fd
  /\ g.taken = f.taken + Len(text) /\ g.buffer = f.buffer /\ g.taken <= Len(g.given)
  /\ g.out = f.out \o SubSeq(g.given, f.taken + 1, f.taken + r)

LEMMA PassOn ==
  ASSUME NEW f, FileOK(f), f.mode # "closed", f.buf_mode = "none", NEW text \in Text, NEW r \in 0 .. Len(text),
         NEW g, g = Passed(f, text, r)
  PROVE  PassedOn(f, text, r, g)
<1>1. f \in FileType /\ Waits(f) /\ f.buffer = <<>>
  BY DEF FileOK
<1>2. f.given \in Text /\ f.taken \in Nat /\ f.out \in Text /\ Len(text) \in Nat /\ Len(f.given) = f.taken
  BY <1>1 DEF FileType, Text, Waits
<1>3. /\ g.mode = f.mode /\ g.buf_mode = f.buf_mode /\ g.error = f.error /\ g.fd = f.fd
      /\ g.taken = f.taken + Len(text) /\ g.given = f.given \o text /\ g.buffer = f.buffer
      /\ g.out = f.out \o SubSeq(text, 1, r)
  BY <1>1 DEF FileType, Passed
<1>4. /\ g.given \in Text /\ Len(g.given) = Len(f.given) + Len(text)
      /\ \A i \in 1 .. Len(text) : g.given[Len(f.given) + i] = text[i]
      /\ IsPrefix(f.given, g.given)
  <2>1. /\ f.given \o text \in Text /\ Len(f.given \o text) = Len(f.given) + Len(text)
        /\ \A i \in 1 .. Len(text) : (f.given \o text)[Len(f.given) + i] = text[i]
        /\ IsPrefix(f.given, f.given \o text)
    <3>1. f.given \in Seq(Chars) /\ text \in Seq(Chars)
      BY <1>2 DEF Text
    <3>2. QED
      BY <3>1, Extended DEF Text
  <2>2. QED
    BY <1>3, <2>1
<1>5. SubSeq(text, 1, r) = SubSeq(g.given, f.taken + 1, f.taken + r)
  <2>1. /\ text \in Seq(Chars) /\ g.given \in Seq(Chars) /\ f.taken \in Nat /\ Len(g.given) = f.taken + Len(text)
        /\ \A i \in 1 .. Len(text) : text[i] = g.given[f.taken + i]
    BY <1>2, <1>4 DEF Text
  <2>2. \A k \in Nat, t \in Seq(Chars) :
          Len(t) = k + Len(text) /\ (\A i \in 1 .. Len(text) : text[i] = t[k + i]) =>
            SubSeq(text, 1, r) = SubSeq(t, k + 1, k + r)
    <3>1. text \in Seq(Chars) /\ r \in 0 .. Len(text)
      BY <2>1
    <3>2. QED
      BY <3>1, Shifted, Zenon
  <2>3. QED
    BY <2>1, <2>2
<1>6. g.out \in Text
  <2>1. SubSeq(text, 1, r) \in Text
    BY <1>2 DEF Text
  <2>2. f.out \in Seq(Chars) /\ SubSeq(text, 1, r) \in Seq(Chars)
    BY <1>2, <2>1 DEF Text
  <2>3. f.out \o SubSeq(text, 1, r) \in Seq(Chars)
    BY <2>2, Extended
  <2>4. QED
    BY <1>3, <2>3 DEF Text
<1>7. g \in FileType
  <2>1. f.taken + Len(text) \in Nat
    BY <1>2
  <2>2. QED
    BY <1>1, <1>3, <1>4, <1>6, <2>1 DEF FileType, Passed
<1>8. Waits(g)
  BY <1>1, <1>2, <1>3, <1>4 DEF Waits
<1>9. FileOK(g)
  BY <1>1, <1>3, <1>7, <1>8 DEF FileOK
<1>10. g.taken <= Len(g.given)
  BY <1>2, <1>3, <1>4
<1>11. QED
  BY <1>3, <1>4, <1>5, <1>9, <1>10 DEF PassedOn

-----------------------------------------------------------------------------
(* Formats *)

(* What vfprintf has while it goes over a format. *)
Part == [out : Seq(Text), buf : Text]

LEMMA PartStep ==
  ASSUME NEW p \in Part, NEW c \in Chars
  PROVE  Cut(p, c) \in Part /\ Sent(p) \in Part /\ Put(p, c) \in Part
<1>1. \A q \in Part : Sent(q) \in Part
  BY DEF Part, Sent, Text
<1>2. Cut(p, c) \in Part
  <2>1. p.buf \in Seq(Chars) /\ Append(p.buf, c) \in Seq(Chars)
    BY DEF Part, Text
  <2>2. [p EXCEPT !.buf = Append(p.buf, c)] \in Part
    BY <2>1 DEF Part, Text
  <2>3. QED
    BY <2>2 DEF Cut
<1>3. QED
  BY <1>1, <1>2 DEF Put

LEMMA SentType ==
  ASSUME NEW p \in Part
  PROVE  Sent(p) \in Part /\ Sent(p).out \in Seq(Text)
<1>1. Sent(p) \in Part
  BY DEF Part, Sent, Text
<1>2. QED
  BY <1>1 DEF Part

LEMMA ConversionType ==
  ASSUME NEW p \in Part, NEW item \in [conv : BOOLEAN, text : Strings]
  PROVE  Conversion(p, item) \in Part
<1> DEFINE text == item.text
           IsDone(W) == W = [k \in 0 .. Len(text) |-> IF k = 0 THEN Sent(p) ELSE Put(W[k - 1], text[k])]
           X == CHOOSE W : IsDone(W)
           step == [x \in Part \X Chars |-> Put(x[1], x[2])]
<1>1. text \in Seq(Chars) /\ Len(text) \in Nat
  BY StreamsAssumption DEF StreamsAssumption
<1>2. step \in [Part \X Chars -> Part]
  BY PartStep
<1>3. Sent(p) \in Part
  BY SentType
<1> HIDE DEF text
<1>4. \A p1 \in Part, c \in Chars : step[<<p1, c>>] = Put(p1, c)
  OBVIOUS
<1> HIDE DEF step
<1>5. PICK W \in [0 .. Len(text) -> Part] :
        W[0] = Sent(p) /\ \A k \in 1 .. Len(text) : W[k] = step[<<W[k - 1], text[k]>>]
  <2>1. HasWalk(Part, Sent(p), text, step)
    BY <1>1, <1>2, <1>3, WalkExists
  <2>2. QED
    BY <2>1 DEF HasWalk
<1>6. \A k \in 1 .. Len(text) : W[k] = Put(W[k - 1], text[k])
  <2> SUFFICES ASSUME NEW k \in 1 .. Len(text) PROVE W[k] = Put(W[k - 1], text[k])
    OBVIOUS
  <2>1. W[k - 1] \in Part /\ text[k] \in Chars
    BY <1>1
  <2>2. QED
    BY <1>4, <1>5, <2>1
<1>7. IsDone(W)
  <2>1. W = [k \in 0 .. Len(text) |-> W[k]]
    OBVIOUS
  <2>2. \A k \in 0 .. Len(text) : W[k] = IF k = 0 THEN Sent(p) ELSE Put(W[k - 1], text[k])
    BY <1>1, <1>5, <1>6
  <2>3. QED
    BY <2>1, <2>2
<1>8. IsDone(X)
  BY <1>7
<1>9. X[Len(text)] \in Part
  <2>1. /\ X[0] = Sent(p)
        /\ \A k \in 1 .. Len(text) : X[k] = Put(X[k - 1], text[k])
    <3> HIDE DEF X
    <3>1. QED
      BY <1>1, <1>8
  <2> HIDE DEF X
  <2>2. \A k \in 1 .. Len(text) : X[k - 1] \in Part => X[k] = step[<<X[k - 1], text[k]>>]
    BY <1>1, <1>4, <2>1
  <2>3. IsWalk(X, Part, text, step)
    BY <1>3, <2>1, <2>2 DEF IsWalk
  <2>4. QED
    BY <1>1, <1>2, <2>3, WalkType
<1>10. Conversion(p, item) = X[Len(text)]
  BY DEF Conversion, text
<1>11. QED
  BY <1>9, <1>10

LEMMA LiteralType ==
  ASSUME NEW p \in Part, NEW item \in [conv : BOOLEAN, text : Strings]
  PROVE  Literal(p, item) \in Part
<1> DEFINE text == item.text
           IsDone(W) == W = [k \in 0 .. Len(text) |-> IF k = 0 THEN p ELSE Cut(W[k - 1], text[k])]
           X == CHOOSE W : IsDone(W)
           step == [x \in Part \X Chars |-> Cut(x[1], x[2])]
<1>1. text \in Seq(Chars) /\ Len(text) \in Nat
  BY StreamsAssumption DEF StreamsAssumption
<1>2. step \in [Part \X Chars -> Part]
  BY PartStep
<1>3. p \in Part
  BY SentType
<1> HIDE DEF text
<1>4. \A p1 \in Part, c \in Chars : step[<<p1, c>>] = Cut(p1, c)
  OBVIOUS
<1> HIDE DEF step
<1>5. PICK W \in [0 .. Len(text) -> Part] :
        W[0] = p /\ \A k \in 1 .. Len(text) : W[k] = step[<<W[k - 1], text[k]>>]
  <2>1. HasWalk(Part, p, text, step)
    BY <1>1, <1>2, <1>3, WalkExists
  <2>2. QED
    BY <2>1 DEF HasWalk
<1>6. \A k \in 1 .. Len(text) : W[k] = Cut(W[k - 1], text[k])
  <2> SUFFICES ASSUME NEW k \in 1 .. Len(text) PROVE W[k] = Cut(W[k - 1], text[k])
    OBVIOUS
  <2>1. W[k - 1] \in Part /\ text[k] \in Chars
    BY <1>1
  <2>2. QED
    BY <1>4, <1>5, <2>1
<1>7. IsDone(W)
  <2>1. W = [k \in 0 .. Len(text) |-> W[k]]
    OBVIOUS
  <2>2. \A k \in 0 .. Len(text) : W[k] = IF k = 0 THEN p ELSE Cut(W[k - 1], text[k])
    BY <1>1, <1>5, <1>6
  <2>3. QED
    BY <2>1, <2>2
<1>8. IsDone(X)
  BY <1>7
<1>9. X[Len(text)] \in Part
  <2>1. /\ X[0] = p
        /\ \A k \in 1 .. Len(text) : X[k] = Cut(X[k - 1], text[k])
    <3> HIDE DEF X
    <3>1. QED
      BY <1>1, <1>8
  <2> HIDE DEF X
  <2>2. \A k \in 1 .. Len(text) : X[k - 1] \in Part => X[k] = step[<<X[k - 1], text[k]>>]
    BY <1>1, <1>4, <2>1
  <2>3. IsWalk(X, Part, text, step)
    BY <1>3, <2>1, <2>2 DEF IsWalk
  <2>4. QED
    BY <1>1, <1>2, <2>3, WalkType
<1>10. Literal(p, item) = X[Len(text)]
  BY DEF Literal, text
<1>11. QED
  BY <1>9, <1>10

(* The texts vfprintf hands to write_buffer. *)
FormatItems == [conv : BOOLEAN, text : Strings]

Nothing == [out |-> <<>>, buf |-> <<>>]

LEMMA vfprintfType ==
  ASSUME NEW format \in Formats
  PROVE  vfprintf(format) \in Seq(Text)
<1> DEFINE text == format
           IsDone(W) == W = [k \in 0 .. Len(text) |-> IF k = 0 THEN Nothing ELSE IF text[k].conv THEN Conversion(W[k - 1], text[k]) ELSE Literal(W[k - 1], text[k])]
           X == CHOOSE W : IsDone(W)
           step == [x \in Part \X FormatItems |-> IF x[2].conv THEN Conversion(x[1], x[2]) ELSE Literal(x[1], x[2])]
<1>1. text \in Seq(FormatItems) /\ Len(text) \in Nat
  <2>1. PICK n \in 1 .. MaxPieces : format \in [1 .. n -> FormatItems]
    BY DEF Formats, FormatItems
  <2>2. QED
    BY <2>1, StreamsAssumption DEF StreamsAssumption
<1>2. step \in [Part \X FormatItems -> Part]
  BY ConversionType, LiteralType DEF FormatItems
<1>3. Nothing \in Part
  BY DEF Part, Text, Nothing
<1> HIDE DEF text
<1>4. \A p1 \in Part, c \in FormatItems : step[<<p1, c>>] = IF c.conv THEN Conversion(p1, c) ELSE Literal(p1, c)
  OBVIOUS
<1> HIDE DEF step
<1>5. PICK W \in [0 .. Len(text) -> Part] :
        W[0] = Nothing /\ \A k \in 1 .. Len(text) : W[k] = step[<<W[k - 1], text[k]>>]
  <2>1. HasWalk(Part, Nothing, text, step)
    BY <1>1, <1>2, <1>3, WalkExists
  <2>2. QED
    BY <2>1 DEF HasWalk
<1>6. \A k \in 1 .. Len(text) : W[k] = IF text[k].conv THEN Conversion(W[k - 1], text[k]) ELSE Literal(W[k - 1], text[k])
  <2> SUFFICES ASSUME NEW k \in 1 .. Len(text) PROVE W[k] = IF text[k].conv THEN Conversion(W[k - 1], text[k]) ELSE Literal(W[k - 1], text[k])
    OBVIOUS
  <2>1. W[k - 1] \in Part /\ text[k] \in FormatItems
    BY <1>1
  <2>2. QED
    BY <1>4, <1>5, <2>1
<1>7. IsDone(W)
  <2>1. W = [k \in 0 .. Len(text) |-> W[k]]
    OBVIOUS
  <2>2. \A k \in 0 .. Len(text) : W[k] = IF k = 0 THEN Nothing ELSE IF text[k].conv THEN Conversion(W[k - 1], text[k]) ELSE Literal(W[k - 1], text[k])
    BY <1>1, <1>5, <1>6
  <2>3. QED
    BY <2>1, <2>2
<1>8. IsDone(X)
  BY <1>7
<1>9. X[Len(text)] \in Part
  <2>1. /\ X[0] = Nothing
        /\ \A k \in 1 .. Len(text) : X[k] = IF text[k].conv THEN Conversion(X[k - 1], text[k]) ELSE Literal(X[k - 1], text[k])
    <3> DEFINE Value(k) == IF k = 0 THEN Nothing
                           ELSE IF text[k].conv THEN Conversion(X[k - 1], text[k]) ELSE Literal(X[k - 1], text[k])
    <3>1. X = [k \in 0 .. Len(text) |-> Value(k)]
      BY <1>8
    <3> HIDE DEF X
    <3>2. \A k \in 0 .. Len(text) : X[k] = Value(k)
      <4> HIDE DEF Value
      <4>1. QED
        BY <3>1
    <3>3. QED
      BY <1>1, <3>2
  <2> HIDE DEF X
  <2>2. \A k \in 1 .. Len(text) : X[k - 1] \in Part => X[k] = step[<<X[k - 1], text[k]>>]
    BY <1>1, <1>4, <2>1
  <2>3. IsWalk(X, Part, text, step)
    BY <1>3, <2>1, <2>2 DEF IsWalk
  <2>4. QED
    BY <1>1, <1>2, <2>3, WalkType
<1>10. vfprintf(format) = Sent(X[Len(text)]).out
  BY DEF vfprintf, text, Nothing
<1>11. QED
  BY <1>9, <1>10, SentType

-----------------------------------------------------------------------------
(* Steps *)

(* A step that changes one file. *)
LEMMA Update ==
  ASSUME DataInv, NEW g, FileOK(g), file' = [file EXCEPT ![mine] = g]
  PROVE  /\ file' \in [Streams -> FileType] /\ \A s \in Streams : FileOK(file'[s])
         /\ mine \in Streams /\ file'[mine] = g /\ \A s \in Streams \ {mine} : file'[s] = file[s]
<1>1. mine \in Streams /\ file \in [Streams -> FileType]
  BY DEF DataInv, CallOK, mine
<1>2. g \in FileType
  BY DEF FileOK
<1>3. file'[mine] = g /\ \A s \in Streams \ {mine} : file'[s] = file[s]
  BY <1>1
<1>4. file' \in [Streams -> FileType]
  BY <1>1, <1>2
<1>5. QED
  BY <1>1, <1>3, <1>4 DEF DataInv

(* Descriptors are as they were when no stream is opened or closed. *)
LEMMA SameDescriptors ==
  ASSUME Descriptors, \A s \in Files : file'[s].mode = file[s].mode /\ file'[s].fd = file[s].fd,
         fds' = fds, at # "mmap", at' # "mmap"
  PROVE  Descriptors'
<1>1. IsOpen' = IsOpen
  BY DEF IsOpen
<1>2. \A f \in Files : Fd(f)' = Fd(f)
  BY DEF Fd
<1>3. Fds' = Fds
  <2>1. IsOpen \subseteq Files
    BY DEF IsOpen
  <2>2. QED
    BY <1>1, <1>2, <2>1 DEF Fds
<1>4. IsOpen \subseteq Files
  BY DEF IsOpen
<1>5. QED
  BY <1>1, <1>2, <1>3, <1>4 DEF Descriptors

(* What may happen to a file between opening and closing, and what that is *)
(* for the pipe. *)
Transfers(f, g, r) ==
  /\ FileOK(g) /\ IsPrefix(f.given, g.given)
  /\ g.mode = f.mode /\ g.fd = f.fd
  /\ g.taken - f.taken \in Nat /\ g.taken <= Len(g.given) /\ r \in 0 .. g.taken - f.taken
  /\ g.out = f.out \o SubSeq(g.given, f.taken + 1, f.taken + r)

LEMMA TransferStep ==
  ASSUME DataInv, NEW g, NEW r, this.mode # "closed", Transfers(this, g, r), file' = [file EXCEPT ![mine] = g],
         shorts' = IF r < g.taken - this.taken THEN shorts + 1 ELSE shorts
  PROVE  [Abstract!Next]_(Abstract!vars)
<1>1. /\ mine \in Streams /\ file'[mine] = g /\ \A s \in Streams \ {mine} : file'[s] = file[s]
      /\ file \in [Streams -> FileType] /\ file' \in [Streams -> FileType]
  BY Update DEF Transfers, DataInv
<1> DEFINE mode == Field("mode")
           given == Field("given")
           taken == Field("taken")
           out == Field("out")
<1>2. /\ mode[mine] # "closed" /\ mode' = mode
      /\ DOMAIN mode = Streams
  BY <1>1 DEF Field, Transfers, this
<1>3. /\ given[mine] = this.given /\ taken[mine] = this.taken /\ out[mine] = this.out
      /\ given'[mine] = g.given /\ taken'[mine] = g.taken /\ out'[mine] = g.out
  BY <1>1 DEF Field, this
<1>4. \A s \in Streams \ {mine} : given'[s] = given[s] /\ taken'[s] = taken[s] /\ out'[s] = out[s]
  BY <1>1 DEF Field
<1>5. Abstract!Others(mine, given', given) /\ Abstract!Others(mine, taken', taken) /\ Abstract!Others(mine, out', out)
  BY <1>2, <1>4 DEF Abstract!Others, Abstract!Streams
<1> HIDE DEF mode, given, taken, out
<1>6. Abstract!Transfer(mine)
  <2> DEFINE n == taken'[mine] - taken[mine]
  <2>1. IsPrefix(given[mine], given'[mine]) /\ n >= 0 /\ taken'[mine] <= Len(given'[mine])
    BY <1>3 DEF Transfers
  <2>2. n = g.taken - this.taken
    BY <1>3
  <2>3. \E k \in 0 .. n :
          /\ out'[mine] = out[mine] \o SubSeq(given'[mine], taken[mine] + 1, taken[mine] + k)
          /\ shorts' = IF k < n THEN shorts + 1 ELSE shorts
    BY <1>3, <2>2 DEF Transfers
  <2> HIDE DEF n
  <2>4. mode[mine] # "closed" /\ UNCHANGED mode
    BY <1>2
  <2>5. Abstract!IsPrefix(given[mine], given'[mine])
    BY <2>1 DEF Abstract!IsPrefix, IsPrefix
  <2>6. QED
    BY <1>5, <2>1, <2>3, <2>4, <2>5 DEF Abstract!Transfer, mode, given, taken, out, n
<1>7. Abstract!Next
  BY <1>1, <1>2, <1>6 DEF Abstract!Next, Abstract!Streams, mode
<1>8. QED
  BY <1>7

LEMMA Stutter ==
  ASSUME UNCHANGED shorts, \A s \in Streams : file'[s].mode = file[s].mode /\ file'[s].given = file[s].given
           /\ file'[s].taken = file[s].taken /\ file'[s].out = file[s].out
  PROVE  UNCHANGED Abstract!vars
  BY DEF Abstract!vars, Field

CallType == [op : Names, s : Streams, pieces : Seq(Text) \cup Modes, text : Text]

LEMMA FinishOK ==
  ASSUME CallOK, Finish
  PROVE  at' = "done" /\ CallOK' /\ call'.s = call.s
<1>1. call \in CallType
  BY DEF CallOK, CallType
<1>2. <<>> \in Seq(Text) /\ <<>> \in Text
  BY DEF Text
<1>3. call' \in CallType /\ call'.s = call.s
  BY <1>1, <1>2 DEF Finish, CallType
<1>4. at' = "done"
  BY DEF Finish
<1>5. CallOK'
  BY <1>3, <1>4 DEF CallOK, CallType
<1>6. QED
  BY <1>3, <1>4, <1>5

(* A call that does not touch a file, or only its error. *)
LEMMA QuietStep ==
  ASSUME StreamsInv, UNCHANGED <<file, shorts, fds>>, CallOK', Lines', at # "mmap", at' # "mmap"
  PROVE  StreamsInv' /\ [Abstract!Next]_(Abstract!vars)
<1>1. DataInv'
  BY DEF StreamsInv, DataInv, FileOK, Waits
<1>2. Descriptors'
  BY SameDescriptors DEF StreamsInv
<1>3. QED
  BY <1>1, <1>2, Stutter DEF StreamsInv

(* The kernel does not take what it was asked to. *)
LEMMA FailStep ==
  ASSUME StreamsInv, WriteFailed, UNCHANGED fds, Finish, at # "done", at # "mmap"
  PROVE  StreamsInv' /\ [Abstract!Next]_(Abstract!vars)
<1> DEFINE g == [this EXCEPT !.error = TRUE]
<1>0. this \in FileType /\ FileOK(this) /\ file \in [Streams -> FileType] /\ mine \in Streams
  BY DEF StreamsInv, DataInv, CallOK, this, mine
<1>1. file' = [file EXCEPT ![mine] = g] /\ UNCHANGED shorts
  BY <1>0 DEF WriteFailed, this
<1>2. /\ g.mode = this.mode /\ g.fd = this.fd /\ g.given = this.given /\ g.taken = this.taken /\ g.out = this.out
      /\ g.buffer = this.buffer /\ g.buf_mode = this.buf_mode /\ g.error = TRUE /\ g \in FileType
  BY <1>0 DEF FileType
<1> HIDE DEF g
<1>3. FileOK(g)
  BY <1>0, <1>2 DEF FileOK, Waits
<1>4. /\ file' \in [Streams -> FileType] /\ (\A s \in Streams : FileOK(file'[s]))
      /\ file'[mine] = g /\ \A s \in Streams \ {mine} : file'[s] = file[s]
  BY <1>1, <1>3, Update DEF StreamsInv
<1>5. at' = "done" /\ CallOK'
  BY FinishOK DEF StreamsInv, DataInv
<1>6. Lines'
  BY <1>2, <1>4, <1>5 DEF Lines, NoLine, StreamsInv, DataInv
<1>7. \A s \in Streams : /\ file'[s].mode = file[s].mode /\ file'[s].given = file[s].given
                          /\ file'[s].taken = file[s].taken /\ file'[s].out = file[s].out
                          /\ file'[s].fd = file[s].fd
  BY <1>2, <1>4 DEF this
<1>8. Descriptors'
  BY <1>5, <1>7, SameDescriptors DEF StreamsInv, Streams
<1>9. QED
  BY <1>1, <1>4, <1>5, <1>6, <1>7, <1>8, Stutter DEF StreamsInv, DataInv

(* More is given to a file, or some of it handed over. *)
LEMMA MoveStep ==
  ASSUME StreamsInv, NEW g, NEW r, this.mode # "closed", Transfers(this, g, r), file' = [file EXCEPT ![mine] = g],
         shorts' = IF r < g.taken - this.taken THEN shorts + 1 ELSE shorts, UNCHANGED fds,
         call'.s = call.s, CallOK', at # "mmap", at' # "mmap", at' = "flush" \/ NoLine(g)
  PROVE  StreamsInv' /\ [Abstract!Next]_(Abstract!vars)
<1>1. /\ file' \in [Streams -> FileType] /\ (\A s \in Streams : FileOK(file'[s])) /\ mine \in Streams
      /\ file'[mine] = g /\ \A s \in Streams \ {mine} : file'[s] = file[s]
  BY Update DEF StreamsInv, Transfers
<1>2. Lines'
  BY <1>1 DEF Lines, StreamsInv, DataInv, mine
<1>3. \A s \in Streams : file'[s].mode = file[s].mode /\ file'[s].fd = file[s].fd
  BY <1>1 DEF Transfers, this
<1>4. Descriptors'
  BY <1>3, SameDescriptors DEF StreamsInv, Streams
<1>5. [Abstract!Next]_(Abstract!vars)
  BY TransferStep DEF StreamsInv
<1>6. QED
  BY <1>1, <1>2, <1>4, <1>5 DEF StreamsInv, DataInv

-----------------------------------------------------------------------------
(* The actions *)

Holds == StreamsInv' /\ [Abstract!Next]_(Abstract!vars)

LEMMA Context ==
  ASSUME StreamsInv
  PROVE  /\ mine \in Streams /\ this \in FileType /\ FileOK(this) /\ CallOK /\ Lines /\ call \in CallType
         /\ file \in [Streams -> FileType]
  BY DEF StreamsInv, DataInv, CallOK, CallType, mine, this, FileOK

MayBegin(name, s, pieces, there) ==
  /\ s \in Streams /\ pieces \in Seq(Text) \cup Modes
  /\ \/ name \in {"vfprintf", "puts"} /\ there = "piece" /\ pieces \in Seq(Text) /\ file[s].mode # "closed"
     \/ name = "fflush" /\ there = "flush" /\ file[s].mode # "closed"
     \/ /\ name = "fclose" /\ s \in Files /\ file[s].mode # "closed" /\ there \in {"last", "close"}
        /\ there = "close" /\ file[s].mode = "w" => file[s].buffer = <<>>
     \/ name = "fopen" /\ s \in Files /\ file[s].mode = "closed" /\ pieces \in Modes /\ there = "open"

LEMMA BeginStep ==
  ASSUME StreamsInv, NEW name, NEW s, NEW pieces, NEW there,
         MayBegin(name, s, pieces, there), Begin(name, s, pieces, there)
  PROVE  Holds
<1>0. name \in Names /\ s \in Streams /\ pieces \in Seq(Text) \cup Modes /\ there # "mmap"
  BY DEF MayBegin, Names
<1>1. /\ at = "done" /\ at' = there /\ call' = [op |-> name, s |-> s, pieces |-> pieces, text |-> <<>>]
      /\ UNCHANGED <<file, fds, errno, shorts>>
  BY DEF Begin
<1>2. /\ call' \in CallType /\ call'.op = name /\ call'.s = s /\ call'.pieces = pieces
  <2>1. <<>> \in Text
    BY DEF Text
  <2>2. QED
    BY <1>0, <1>1, <2>1 DEF CallType
<1>3. CallOK'
  BY <1>1, <1>2 DEF MayBegin, CallOK, CallType, Printing, Flushing, Closing, Opening, this, mine
<1>4. Lines'
  BY <1>1, Context DEF Lines, mine
<1>5. QED
  BY <1>0, <1>1, <1>3, <1>4, QuietStep DEF Holds

LEMMA CallsStep ==
  ASSUME StreamsInv, (\E f \in Streams : printf(f)) \/ puts \/ FlushCall \/ fclose \/ fopen
  PROVE  Holds
<1>1. ASSUME NEW s \in Streams, printf(s) PROVE Holds
  <2>1. PICK f \in Formats : Begin("vfprintf", s, vfprintf(f), "piece")
    BY <1>1 DEF printf
  <2>2. vfprintf(f) \in Seq(Text)
    BY vfprintfType
  <2>3. file[s].mode # "closed"
    BY <2>1 DEF Begin
  <2>4. MayBegin("vfprintf", s, vfprintf(f), "piece")
    BY <2>1, <2>2, <2>3 DEF MayBegin
  <2>5. QED
    BY <2>1, <2>4, BeginStep
<1>2. ASSUME puts PROVE Holds
  <2>1. PICK t \in Strings : Begin("puts", "stdout", <<t, <<NL>>>>, "piece")
    BY <1>2 DEF puts
  <2>2. <<t, <<NL>>>> \in Seq(Text) /\ "stdout" \in Streams
    BY StreamsAssumption DEF StreamsAssumption, Text, Streams
  <2>3. file["stdout"].mode # "closed"
    BY <2>1 DEF Begin
  <2>4. MayBegin("puts", "stdout", <<t, <<NL>>>>, "piece")
    BY <2>1, <2>2, <2>3 DEF MayBegin
  <2>5. QED
    BY <2>1, <2>4, BeginStep
<1>3. ASSUME FlushCall PROVE Holds
  <2>1. PICK f \in Streams : Begin("fflush", f, <<>>, "flush")
    BY <1>3 DEF FlushCall
  <2>2. <<>> \in Seq(Text)
    OBVIOUS
  <2>3. file[f].mode # "closed"
    BY <2>1 DEF Begin
  <2>4. MayBegin("fflush", f, <<>>, "flush")
    BY <2>1, <2>2, <2>3 DEF MayBegin
  <2>5. QED
    BY <2>1, <2>4, BeginStep
<1>4. ASSUME fclose PROVE Holds
  <2>1. PICK f \in Files : Begin("fclose", f, <<>>, IF file[f].mode = "w" /\ file[f].buffer # <<>> THEN "last" ELSE "close")
    BY <1>4 DEF fclose
  <2>2. <<>> \in Seq(Text) /\ f \in Streams
    BY DEF Streams
  <2>3. file[f].mode # "closed"
    BY <2>1 DEF Begin
  <2> DEFINE there == IF file[f].mode = "w" /\ file[f].buffer # <<>> THEN "last" ELSE "close"
  <2>4. there \in {"last", "close"} /\ (there = "close" /\ file[f].mode = "w" => file[f].buffer = <<>>) /\ there # "mmap"
    OBVIOUS
  <2>5. Begin("fclose", f, <<>>, there)
    BY <2>1
  <2> HIDE DEF there
  <2>6. MayBegin("fclose", f, <<>>, there)
    BY <2>2, <2>3, <2>4 DEF MayBegin
  <2>7. QED
    BY <2>5, <2>6, BeginStep
<1>5. ASSUME fopen PROVE Holds
  <2>1. PICK f \in Files, m \in {"r", "w"} : file[f].mode = "closed" /\ Begin("fopen", f, <<m>>, "open")
    BY <1>5 DEF fopen
  <2>2. <<m>> \in Modes /\ f \in Streams
    BY DEF Streams, Modes
  <2>3. MayBegin("fopen", f, <<m>>, "open")
    BY <2>1, <2>2 DEF MayBegin
  <2>4. QED
    BY <2>1, <2>3, BeginStep
<1>6. QED
  BY <1>1, <1>2, <1>3, <1>4, <1>5

LEMMA PieceStep ==
  ASSUME StreamsInv, write_buffer
  PROVE  Holds
<1>1. at = "piece" /\ UNCHANGED <<file, fds, shorts>> /\ Printing /\ Lines /\ CallOK /\ call \in CallType
  BY Context DEF write_buffer, Step, CallOK, Flushing, Closing, Opening
<1>2. CASE Finish
  <2>1. at' = "done" /\ CallOK' /\ call'.s = call.s
    BY <1>1, <1>2, FinishOK
  <2>2. Lines'
    BY <1>1, <2>1 DEF Lines, NoLine
  <2>3. QED
    BY <1>1, <2>1, <2>2, QuietStep DEF Holds
<1>3. CASE /\ call.pieces # <<>> /\ call' = [call EXCEPT !.text = Head(call.pieces), !.pieces = Tail(call.pieces)]
           /\ at' = IF this.buf_mode = "none" THEN "direct" ELSE "copy"
  <2>1. call.pieces \in Seq(Text) /\ Head(call.pieces) \in Text /\ Tail(call.pieces) \in Seq(Text)
    BY <1>1, <1>3 DEF Printing
  <2>2. /\ call' \in CallType /\ call'.s = call.s /\ call'.op = call.op /\ call'.pieces \in Seq(Text)
    BY <1>1, <1>3, <2>1 DEF CallType
  <2>3. Printing'
    BY <1>1, <1>3, <2>2 DEF Printing, this, mine
  <2>4. CallOK'
    BY <2>2, <2>3 DEF CallOK, CallType
  <2>5. Lines'
    BY <1>1, <1>3 DEF Lines, NoLine
  <2>6. QED
    BY <1>1, <1>3, <2>4, <2>5, QuietStep DEF Holds
<1>4. QED
  BY <1>1, <1>2, <1>3 DEF write_buffer

LEMMA SmallerIsLess ==
  ASSUME NEW a \in Nat, NEW b \in Int
  PROVE  Min({a, b}) \in {a, b} /\ Min({a, b}) <= a /\ Min({a, b}) <= b
<1>1. \E x \in {a, b} : \A y \in {a, b} : x <= y
  <2>1. CASE a <= b
    BY <2>1
  <2>2. CASE ~ (a <= b)
    BY <2>2
  <2>3. QED
    BY <2>1, <2>2
<1>2. QED
  BY <1>1 DEF Min

LEMMA FillStep ==
  ASSUME StreamsInv, Copy
  PROVE  Holds
<1>1. /\ at = "copy" /\ UNCHANGED <<fds, shorts>> /\ Printing /\ Lines /\ CallOK /\ call \in CallType
      /\ this \in FileType /\ FileOK(this) /\ this.mode # "closed" /\ this.buf_mode # "none"
      /\ mine \in Streams /\ file \in [Streams -> FileType]
  BY Context DEF Copy, Step, CallOK, Flushing, Closing, Opening, Printing
<1>2. CASE call.text = <<>>
  <2>1. at' = "piece" /\ UNCHANGED <<file, call>>
    BY <1>2 DEF Copy
  <2>2. Printing'
    BY <1>1, <2>1 DEF Printing, this, mine
  <2>3. CallOK'
    BY <1>1, <2>1, <2>2 DEF CallOK, CallType
  <2>4. Lines'
    BY <1>1, <2>1 DEF Lines, NoLine
  <2>5. QED
    BY <1>1, <2>1, <2>3, <2>4, QuietStep DEF Holds
<1>3. CASE call.text # <<>>
  <2> DEFINE n == Min({Len(call.text), BUFSIZ - Len(this.buffer)})
             part == SubSeq(call.text, 1, n)
             rest == SubSeq(call.text, n + 1, Len(call.text))
             g == [this EXCEPT !.buffer = @ \o part, !.given = @ \o part]
  <2>1. /\ file' = [file EXCEPT ![mine].buffer = @ \o part, ![mine].given = @ \o part]
        /\ call' = [call EXCEPT !.text = SubSeq(@, n + 1, Len(@))]
        /\ at' = IF MustFlush(file'[mine], call.text) THEN "flush" ELSE "copy"
    BY <1>3 DEF Copy
  <2>2. call.text \in Text /\ Len(call.text) \in Nat /\ this.buffer \in Text /\ Len(this.buffer) \in Nat
    <3>1. call.text \in Text /\ this.buffer \in Text
      BY <1>1 DEF CallType, FileType
    <3>2. QED
      BY <3>1 DEF Text
  <2>3. n \in Nat /\ n <= Len(call.text) /\ n <= BUFSIZ - Len(this.buffer)
    <3>1. BUFSIZ \in Nat /\ Len(this.buffer) <= BUFSIZ
      BY <1>1, StreamsAssumption DEF StreamsAssumption, FileOK
    <3>2. BUFSIZ - Len(this.buffer) \in Nat
      BY <2>2, <3>1
    <3>3. QED
      BY <2>2, <3>2, SmallerIsLess
  <2> HIDE DEF n
  <2>4. part \in Text /\ rest \in Text /\ Len(part) = n
    BY <2>2, <2>3 DEF Text
  <2>5. \A i \in DOMAIN part : i \in DOMAIN call.text /\ part[i] = call.text[i]
    BY <2>2, <2>3 DEF Text
  <2> HIDE DEF part
  <2>6. file' = [file EXCEPT ![mine] = g]
    BY <1>1, <2>1 DEF this
  <2> HIDE DEF g
  <2>7. Transfers(this, g, 0) /\ g.buffer = this.buffer \o part /\ g.buf_mode = this.buf_mode /\ g.error = this.error
        /\ g.taken = this.taken /\ FileOK(g)
    <3>1. /\ FileOK(g) /\ IsPrefix(this.given, g.given)
          /\ g.mode = this.mode /\ g.buf_mode = this.buf_mode /\ g.error = this.error /\ g.fd = this.fd
          /\ g.taken = this.taken /\ g.out = this.out /\ g.buffer = this.buffer \o part
      <4>1. Len(this.buffer) + Len(part) <= BUFSIZ
        BY <2>2, <2>3, <2>4, StreamsAssumption DEF StreamsAssumption
      <4>2. QED
        BY <1>1, <2>4, <4>1, Fill DEF g
    <3>2. g.taken \in Nat /\ g.given \in Text /\ g.out \in Text /\ Len(g.given) = g.taken + Len(g.buffer)
          /\ Len(g.buffer) \in Nat
      BY <1>1, <3>1 DEF FileOK, FileType, Text, Waits
    <3>3. SubSeq(g.given, this.taken + 1, this.taken + 0) = <<>>
      BY <3>1, <3>2 DEF Text
    <3>4. g.out = this.out \o SubSeq(g.given, this.taken + 1, this.taken + 0)
      BY <3>1, <3>2, <3>3 DEF Text
    <3>5. g.taken <= Len(g.given) /\ g.taken - this.taken = 0
      BY <3>1, <3>2
    <3>6. QED
      <4>1. 0 \in 0 .. g.taken - this.taken /\ g.taken - this.taken \in Nat
        BY <3>5
      <4>2. g.out = this.out \o SubSeq(g.given, this.taken + 1, this.taken + 0)
        BY <3>4
      <4>3. QED
        BY <3>1, <3>5, <4>1, <4>2 DEF Transfers
  <2>8. call' \in CallType /\ call'.s = call.s /\ call'.op = call.op /\ call'.pieces = call.pieces
    BY <1>1, <2>1, <2>4 DEF CallType
  <2>9. file'[mine] = g /\ at' \in {"flush", "copy"}
    BY <1>1, <2>1, <2>6
  <2>10. Printing'
    <3>1. this' = g
      BY <2>8, <2>9 DEF this, mine
    <3>2. QED
      BY <1>1, <2>7, <2>8, <2>9, <3>1 DEF Printing, Transfers
  <2>11. CallOK'
    BY <2>8, <2>10 DEF CallOK, CallType
  <2>12. at' = "flush" \/ NoLine(g)
    <3> SUFFICES ASSUME at' # "flush", g.buf_mode = "line", ~ g.error, NEW i \in DOMAIN g.buffer, g.buffer[i] = NL
                 PROVE  FALSE
      BY DEF NoLine
    <3>1. ~ HasNewline(call.text)
      BY <2>1, <2>9 DEF MustFlush
    <3>2. NoLine(this)
      BY <1>1 DEF Lines, this
    <3>3. \A k \in DOMAIN this.buffer : this.buffer[k] # NL
      BY <2>7, <3>2 DEF NoLine
    <3>4. \A k \in DOMAIN part : part[k] # NL
      BY <2>5, <3>1 DEF HasNewline
    <3>5. CASE i <= Len(this.buffer)
      BY <2>2, <2>4, <2>7, <3>3, <3>5 DEF Text
    <3>6. CASE ~ (i <= Len(this.buffer))
      <4>1. i - Len(this.buffer) \in DOMAIN part /\ g.buffer[i] = part[i - Len(this.buffer)]
        BY <2>2, <2>4, <2>7, <3>6 DEF Text
      <4>2. QED
        BY <3>4, <4>1
    <3>7. QED
      BY <3>5, <3>6
  <2>13. shorts' = IF 0 < g.taken - this.taken THEN shorts + 1 ELSE shorts
    <3>1. this.taken \in Nat
      BY <1>1 DEF FileType
    <3>2. QED
      BY <1>1, <2>7, <3>1
  <2>14. QED
    BY <1>1, <2>6, <2>7, <2>8, <2>9, <2>11, <2>12, <2>13, MoveStep DEF Holds
<1>4. QED
  BY <1>2, <1>3

(* A write of the whole buffer. *)
LEMMA Written ==
  ASSUME StreamsInv, NEW r \in 0 .. Len(this.buffer), this.mode # "closed", Took(this.buffer, Emptied(this), r)
  PROVE  \E g : /\ Transfers(this, g, r) /\ file' = [file EXCEPT ![mine] = g] /\ file'[mine] = g
                /\ g.mode = this.mode /\ g.buf_mode = this.buf_mode /\ g.buffer = <<>> /\ NoLine(g)
                /\ shorts' = IF r < g.taken - this.taken THEN shorts + 1 ELSE shorts
<1> DEFINE g == [Emptied(this) EXCEPT !.out = @ \o SubSeq(this.buffer, 1, r)]
<1>1. /\ this \in FileType /\ FileOK(this) /\ mine \in Streams /\ file \in [Streams -> FileType]
  BY Context
<1>2. file' = [file EXCEPT ![mine] = g] /\ shorts' = IF r < Len(this.buffer) THEN shorts + 1 ELSE shorts
  BY DEF Took
<1> HIDE DEF g
<1>3. /\ FileOK(g)
      /\ g.mode = this.mode /\ g.buf_mode = this.buf_mode /\ g.error = this.error /\ g.fd = this.fd
      /\ g.taken = this.taken + Len(this.buffer) /\ g.given = this.given /\ g.buffer = <<>>
      /\ g.taken <= Len(g.given)
      /\ g.out = this.out \o SubSeq(g.given, this.taken + 1, this.taken + r)
  BY <1>1, HandOver DEF g
<1>4. this.taken \in Nat /\ Len(this.buffer) \in Nat /\ this.given \in Text
  BY <1>1 DEF FileType, Text
<1>5. IsPrefix(this.given, g.given)
  BY <1>3, <1>4 DEF IsPrefix
<1>6. g.taken - this.taken = Len(this.buffer)
  BY <1>3, <1>4
<1>7. Transfers(this, g, r)
  BY <1>3, <1>4, <1>5, <1>6 DEF Transfers
<1>8. NoLine(g)
  BY <1>3 DEF NoLine
<1>9. file'[mine] = g
  BY <1>1, <1>2
<1>10. QED
  BY <1>2, <1>3, <1>6, <1>7, <1>8, <1>9

LEMMA FlushStep ==
  ASSUME StreamsInv, fflush
  PROVE  Holds
<1>1. /\ at = "flush" /\ UNCHANGED fds /\ CallOK /\ call \in CallType /\ Lines /\ mine \in Streams
      /\ (Printing \/ Flushing) /\ this.mode # "closed"
  BY Context DEF fflush, Step, CallOK, Flushing, Closing, Opening, Printing
<1>2. CASE this.error /\ Finish /\ UNCHANGED <<file, shorts>>
  <2>1. at' = "done" /\ CallOK' /\ call'.s = call.s
    BY <1>1, <1>2, FinishOK
  <2>2. NoLine(this)
    BY <1>2 DEF NoLine
  <2>3. Lines'
    BY <1>1, <1>2, <2>1, <2>2 DEF Lines, NoLine, this
  <2>4. QED
    BY <1>1, <1>2, <2>1, <2>3, QuietStep DEF Holds
<1>3. CASE WriteFailed /\ Finish
  BY <1>1, <1>3, FailStep DEF Holds
<1>4. ASSUME NEW r \in 0 .. Len(this.buffer), Took(this.buffer, Emptied(this), r),
             IF call.op = "fflush" THEN Finish ELSE at' = "copy" /\ UNCHANGED call
      PROVE  Holds
  <2>1. PICK g : /\ Transfers(this, g, r) /\ file' = [file EXCEPT ![mine] = g] /\ file'[mine] = g
                 /\ g.mode = this.mode /\ g.buf_mode = this.buf_mode /\ g.buffer = <<>> /\ NoLine(g)
                 /\ shorts' = IF r < g.taken - this.taken THEN shorts + 1 ELSE shorts
    BY <1>1, <1>4, Written
  <2>2. CallOK' /\ call'.s = call.s /\ at' # "mmap"
    <3>1. CASE call.op = "fflush"
      BY <1>1, <1>4, <3>1, FinishOK
    <3>2. CASE call.op # "fflush"
      <4>1. Printing /\ at' = "copy" /\ UNCHANGED call
        BY <1>1, <1>4, <3>2 DEF Flushing
      <4>2. Printing'
        BY <1>1, <2>1, <4>1 DEF Printing, this, mine
      <4>3. QED
        BY <1>1, <4>1, <4>2 DEF CallOK, CallType
    <3>3. QED
      BY <3>1, <3>2
  <2>3. QED
    BY <1>1, <2>1, <2>2, MoveStep DEF Holds
<1>5. QED
  BY <1>2, <1>3, <1>4 DEF fflush

LEMMA DirectStep ==
  ASSUME StreamsInv, Direct
  PROVE  Holds
<1>1. /\ at = "direct" /\ UNCHANGED fds /\ CallOK /\ call \in CallType /\ Lines /\ mine \in Streams
      /\ Printing /\ this.mode # "closed" /\ this.buf_mode = "none" /\ this \in FileType /\ FileOK(this)
      /\ file \in [Streams -> FileType]
  BY Context DEF Direct, Step, CallOK, Flushing, Closing, Opening, Printing
<1>2. CASE WriteFailed /\ Finish
  BY <1>1, <1>2, FailStep DEF Holds
<1>3. ASSUME NEW r \in 0 .. Len(call.text),
             Took(call.text, [this EXCEPT !.given = @ \o call.text, !.taken = @ + Len(call.text)], r),
             at' = "piece", UNCHANGED call
      PROVE  Holds
  <2> DEFINE g == [[this EXCEPT !.given = @ \o call.text, !.taken = @ + Len(call.text)]
                     EXCEPT !.out = @ \o SubSeq(call.text, 1, r)]
  <2>1. file' = [file EXCEPT ![mine] = g] /\ shorts' = IF r < Len(call.text) THEN shorts + 1 ELSE shorts
    BY <1>3 DEF Took
  <2> HIDE DEF g
  <2>2. call.text \in Text /\ Len(call.text) \in Nat /\ this.taken \in Nat
    BY <1>1 DEF CallType, FileType, Text
  <2>3. /\ FileOK(g) /\ IsPrefix(this.given, g.given)
        /\ g.mode = this.mode /\ g.buf_mode = this.buf_mode /\ g.error = this.error /\ g.fd = this.fd
        /\ g.taken = this.taken + Len(call.text) /\ g.buffer = this.buffer /\ g.taken <= Len(g.given)
        /\ g.out = this.out \o SubSeq(g.given, this.taken + 1, this.taken + r)
    <3>1. g = Passed(this, call.text, r)
      BY DEF g, Passed
    <3>2. FileOK(this) /\ this.mode # "closed" /\ this.buf_mode = "none" /\ call.text \in Text
      BY <1>1, <2>2
    <3> HIDE DEF g
    <3>3. PassedOn(this, call.text, r, g)
      BY <1>3, <3>1, <3>2, PassOn
    <3>4. QED
      BY <3>3 DEF PassedOn
  <2>4. g.taken - this.taken = Len(call.text)
    <3> DEFINE old == this.taken
               new == g.taken
               len == Len(call.text)
    <3>1. old \in Nat /\ len \in Nat /\ new = old + len
      BY <2>2, <2>3
    <3> HIDE DEF old, new, len
    <3>2. new - old = len
      BY <3>1
    <3>3. QED
      BY <3>2 DEF old, new, len
  <2>5. Transfers(this, g, r)
    BY <2>2, <2>3, <2>4 DEF Transfers
  <2>6. file'[mine] = g
    BY <1>1, <2>1
  <2>7. Printing'
    BY <1>1, <1>3, <2>3, <2>6 DEF Printing, this, mine
  <2>8. CallOK'
    BY <1>1, <1>3, <2>7 DEF CallOK, CallType
  <2>9. NoLine(g)
    BY <1>1, <2>3 DEF NoLine
  <2>10. QED
    BY <1>1, <1>3, <2>1, <2>4, <2>5, <2>8, <2>9, MoveStep DEF Holds
<1>4. QED
  BY <1>2, <1>3 DEF Direct

LEMMA LastWriteStep ==
  ASSUME StreamsInv, LastWrite
  PROVE  Holds
<1>1. /\ at = "last" /\ UNCHANGED fds /\ CallOK /\ call \in CallType /\ Lines /\ mine \in Streams
      /\ Closing /\ this.mode # "closed"
  BY Context DEF LastWrite, Step, CallOK, Flushing, Closing, Opening, Printing
<1>2. CASE WriteFailed /\ Finish
  BY <1>1, <1>2, FailStep DEF Holds
<1>3. ASSUME NEW r \in 0 .. Len(this.buffer), Took(this.buffer, Emptied(this), r), at' = "close", UNCHANGED call
      PROVE  Holds
  <2>1. PICK g : /\ Transfers(this, g, r) /\ file' = [file EXCEPT ![mine] = g] /\ file'[mine] = g
                 /\ g.mode = this.mode /\ g.buf_mode = this.buf_mode /\ g.buffer = <<>> /\ NoLine(g)
                 /\ shorts' = IF r < g.taken - this.taken THEN shorts + 1 ELSE shorts
    BY <1>1, <1>3, Written
  <2>2. Closing'
    BY <1>1, <1>3, <2>1 DEF Closing, this, mine
  <2>3. CallOK'
    BY <1>1, <1>3, <2>2 DEF CallOK, CallType
  <2>4. QED
    BY <1>1, <1>3, <2>1, <2>3, MoveStep DEF Holds
<1>4. QED
  BY <1>2, <1>3 DEF LastWrite

(* A step that opens or closes the stream of the call. *)
LEMMA OthersStay ==
  ASSUME StreamsInv, NEW g, FileOK(g), file' = [file EXCEPT ![mine] = g], Finish, at # "done", at # "flush", NoLine(g)
  PROVE  DataInv' /\ at' = "done" /\ file'[mine] = g /\ \A s \in Streams \ {mine} : file'[s] = file[s]
<1>1. /\ file' \in [Streams -> FileType] /\ (\A s \in Streams : FileOK(file'[s])) /\ mine \in Streams
      /\ file'[mine] = g /\ \A s \in Streams \ {mine} : file'[s] = file[s]
  BY Update DEF StreamsInv
<1>2. at' = "done" /\ CallOK'
  BY FinishOK DEF StreamsInv, DataInv
<1>3. Lines'
  BY <1>1 DEF Lines, NoLine, StreamsInv, DataInv
<1>4. QED
  BY <1>1, <1>2, <1>3 DEF DataInv

LEMMA ClosedDescriptors ==
  ASSUME Descriptors, NEW f \in IsOpen, at # "mmap", at' # "mmap", fds' = fds \ {Fd(f)},
         file'[f].mode = "closed", file'[f].fd = -1,
         \A g \in Files \ {f} : file'[g].mode = file[g].mode /\ file'[g].fd = file[g].fd
  PROVE  Descriptors'
<1>1. f \in Files /\ IsOpen \subseteq Files
  BY DEF IsOpen
<1>2. IsOpen' = IsOpen \ {f}
  BY <1>1 DEF IsOpen
<1>3. (\A g \in Files \ {f} : Fd(g)' = Fd(g)) /\ Fd(f)' = -1
  BY DEF Fd
<1>4. /\ \A g \in IsOpen : Fd(g) \in Nat /\ Fd(g) > 2
      /\ \A g, h \in IsOpen : Fd(g) = Fd(h) => g = h
      /\ \A g \in Files \ IsOpen : Fd(g) = -1
      /\ fds = Fds /\ IsFiniteSet(IsOpen)
  BY DEF Descriptors
<1>5. Fds' = Fds \ {Fd(f)}
  <2>1. \A x : x \in Fds' <=> x \in 0 .. 2 \/ \E g \in IsOpen \ {f} : x = Fd(g)
    BY <1>1, <1>2, <1>3 DEF Fds
  <2>2. \A x : x \in Fds <=> x \in 0 .. 2 \/ \E g \in IsOpen : x = Fd(g)
    BY DEF Fds
  <2>3. Fd(f) \notin 0 .. 2
    BY <1>4
  <2>4. \A x : x \in Fds' <=> x \in Fds \ {Fd(f)}
    BY <1>4, <2>1, <2>2, <2>3
  <2>5. QED
    BY <2>4
<1>6. IsFiniteSet(IsOpen')
  BY <1>2, <1>4, FS_RemoveElement
<1>7. /\ \A g \in IsOpen' : Fd(g)' \in Nat /\ Fd(g)' > 2
      /\ \A g, h \in IsOpen' : Fd(g)' = Fd(h)' => g = h
      /\ \A g \in Files \ IsOpen' : Fd(g)' = -1
  BY <1>1, <1>2, <1>3, <1>4
<1>8. fds' = Fds'
  BY <1>4, <1>5
<1>9. QED
  BY <1>6, <1>7, <1>8 DEF Descriptors

(* fclose gives its descriptor back. *)
LEMMA CloseStep ==
  ASSUME StreamsInv, Close
  PROVE  Holds
<1> DEFINE g == [this EXCEPT !.mode = "closed", !.fd = -1, !.buffer = <<>>, !.error = FALSE]
<1>1. /\ at = "close" /\ Finish /\ Closing /\ mine \in Files /\ mine \in Streams /\ this \in FileType /\ FileOK(this)
      /\ file \in [Streams -> FileType] /\ this.mode # "closed"
  BY Context DEF Close, Step, CallOK, Flushing, Closing, Opening, Printing
<1>2. file' = [file EXCEPT ![mine] = g] /\ fds' = fds \ {this.fd} /\ UNCHANGED shorts
  BY <1>1 DEF Close, this
<1>3. /\ g.mode = "closed" /\ g.fd = -1 /\ g.buffer = <<>> /\ g.given = this.given /\ g.taken = this.taken
      /\ g.out = this.out /\ g \in FileType
  <2>1. <<>> \in Text /\ -1 \in Int
    BY DEF Text
  <2>2. QED
    BY <1>1, <2>1 DEF FileType
<1> HIDE DEF g
<1>4. FileOK(g) /\ NoLine(g)
  BY <1>3, StreamsAssumption DEF FileOK, NoLine, StreamsAssumption
<1>5. DataInv' /\ at' = "done" /\ file'[mine] = g /\ \A s \in Streams \ {mine} : file'[s] = file[s]
  BY <1>1, <1>2, <1>4, OthersStay
<1>6. Descriptors'
  <2>1. Descriptors /\ mine \in IsOpen /\ Fd(mine) = this.fd /\ Files \subseteq Streams
    BY <1>1 DEF StreamsInv, IsOpen, Fd, this, Streams
  <2>2. \A h \in Files \ {mine} : file'[h].mode = file[h].mode /\ file'[h].fd = file[h].fd
    BY <1>5, <2>1
  <2>3. QED
    BY <1>1, <1>2, <1>3, <1>5, <2>1, <2>2, ClosedDescriptors
<1>7. Abstract!Close(mine)
  <2>1. this.mode = "w" => this.taken = Len(this.given)
    <3>1. this.mode = "w" => this.buffer = <<>> /\ Waits(this)
      BY <1>1 DEF Closing, FileOK
    <3>2. this.taken \in Nat /\ Len(<<>>) = 0
      BY <1>1 DEF FileType
    <3>3. QED
      BY <3>1, <3>2 DEF Waits
  <2>2. DOMAIN file = Streams /\ DOMAIN file' = Streams
    BY <1>1, <1>2
  <2>3. Field("mode")[mine] = this.mode /\ Field("taken")[mine] = this.taken /\ Field("given")[mine] = this.given
    BY <1>1 DEF Field, this
  <2>4. UNCHANGED <<Field("given"), Field("taken"), Field("out")>>
    BY <1>3, <1>5 DEF Field, this
  <2>5. Field("mode")' = [Field("mode") EXCEPT ![mine] = "closed"]
    BY <1>1, <1>3, <1>5 DEF Field
  <2>6. QED
    BY <1>1, <1>2, <2>1, <2>3, <2>4, <2>5 DEF Abstract!Close
<1>8. Abstract!Next
  <2>1. mine \in Abstract!Streams
    BY <1>1 DEF Abstract!Streams, Field
  <2>2. QED
    BY <1>7, <2>1 DEF Abstract!Next
<1>9. QED
  BY <1>5, <1>6, <1>8 DEF Holds, StreamsInv

(* The standard descriptors and one for each open stream. *)
LEMMA FdsFinite ==
  ASSUME Descriptors
  PROVE  /\ IsFiniteSet(Fds) /\ Fds \subseteq Nat
         /\ Cardinality(Fds) = 3 + Cardinality(IsOpen)
<1> DEFINE Opened == {Fd(f) : f \in IsOpen}
<1>1. IsFiniteSet(IsOpen) /\ (\A f \in IsOpen : Fd(f) \in Nat /\ Fd(f) > 2)
      /\ \A f, g \in IsOpen : Fd(f) = Fd(g) => f = g
  BY DEF Descriptors
<1>2. IsFiniteSet(Opened) /\ Cardinality(Opened) = Cardinality(IsOpen)
  <2> DEFINE fn == [f \in IsOpen |-> Fd(f)]
  <2>1. fn \in Injection(IsOpen, Opened)
    BY <1>1 DEF Injection, IsInjective
  <2>2. fn \in Surjection(IsOpen, Opened)
    BY DEF Surjection
  <2>3. ExistsBijection(IsOpen, Opened)
    BY <2>1, <2>2 DEF ExistsBijection, Bijection
  <2> HIDE DEF Opened
  <2>4. QED
    BY <1>1, <2>3, FS_Bijection
<1>3. IsFiniteSet(0 .. 2) /\ Cardinality(0 .. 2) = 3
  <2>1. 0 \in Int /\ 2 \in Int /\ ~ (0 > 2) /\ 2 - 0 + 1 = 3
    OBVIOUS
  <2>2. IsFiniteSet(0 .. 2) /\ Cardinality(0 .. 2) = IF 0 > 2 THEN 0 ELSE 2 - 0 + 1
    BY <2>1, FS_Interval
  <2>3. QED
    BY <2>1, <2>2
<1>4. (0 .. 2) \cap Opened = {}
  BY <1>1
<1>5. /\ IsFiniteSet((0 .. 2) \cup Opened)
      /\ Cardinality((0 .. 2) \cup Opened) = Cardinality(0 .. 2) + Cardinality(Opened) - Cardinality((0 .. 2) \cap Opened)
  BY <1>2, <1>3, FS_Union
<1>6. Cardinality({}) = 0 /\ Cardinality(IsOpen) \in Nat
  BY <1>1, FS_EmptySet, FS_CardinalityType
<1>7. Cardinality((0 .. 2) \cup Opened) = 3 + Cardinality(IsOpen)
  <2> DEFINE U == Cardinality((0 .. 2) \cup Opened)
             o == Cardinality(IsOpen)
  <2>1. U = Cardinality(0 .. 2) + Cardinality(Opened) - Cardinality({})
    BY <1>4, <1>5
  <2>2. U = 3 + o - 0 /\ o \in Nat
    BY <1>2, <1>3, <1>6, <2>1
  <2> HIDE DEF U, o
  <2>3. U = 3 + o
    BY <2>2
  <2>4. QED
    BY <2>3 DEF U, o
<1>8. QED
  BY <1>1, <1>5, <1>7 DEF Fds

(* The lowest free descriptor exists, because the open ones are fewer than  *)
(* the numbers to choose from, and no stream has it.                       *)
LEMMA OpenStep ==
  ASSUME StreamsInv, Open
  PROVE  Holds
<1>1. /\ at = "open" /\ Opening /\ UNCHANGED <<file, shorts>> /\ CallOK /\ call \in CallType /\ Lines
  BY Context DEF Open, Step, CallOK, Flushing, Closing, Opening, Printing
<1>2. CASE Finish /\ UNCHANGED fds
  <2>1. at' = "done" /\ CallOK' /\ call'.s = call.s
    BY <1>1, <1>2, FinishOK
  <2>2. Lines'
    BY <1>1, <2>1 DEF Lines, NoLine
  <2>3. QED
    BY <1>1, <1>2, <2>1, <2>2, QuietStep DEF Holds
<1>3. CASE at' = "mmap" /\ UNCHANGED call /\ fds' = fds \union {Min((0 .. Cardinality(fds)) \ fds)}
  <2> DEFINE S == (0 .. Cardinality(fds)) \ fds
             d == Min(S)
  <2>1. Descriptors /\ fds = Fds
    BY <1>1 DEF StreamsInv, Descriptors
  <2>2. IsFiniteSet(fds) /\ Cardinality(fds) \in Nat
    BY <2>1, FdsFinite, FS_CardinalityType
  <2>3. S \subseteq Nat /\ S # {}
    <3>1. SUFFICES ASSUME 0 .. Cardinality(fds) \subseteq fds PROVE FALSE
      BY <2>2
    <3>2. Cardinality(0 .. Cardinality(fds)) = Cardinality(fds) + 1
      BY <2>2, FS_Interval
    <3>3. Cardinality(0 .. Cardinality(fds)) <= Cardinality(fds)
      BY <2>2, <3>1, FS_Subset
    <3>4. QED
      BY <2>2, <3>2, <3>3
  <2>4. d \in S
    <3>1. \E x \in S : \A y \in S : x <= y
      BY <2>3, Least
    <3>2. QED
      BY <3>1 DEF Min
  <2>5. d \in Nat /\ d \notin Fds
    BY <2>1, <2>3, <2>4
  <2> HIDE DEF d
  <2>6. d > 2 /\ \A f \in IsOpen : Fd(f) # d
    BY <2>5 DEF Fds
  <2>7. IsOpen' = IsOpen /\ Fds' = Fds /\ \A f : Fd(f)' = Fd(f)
    BY <1>1 DEF IsOpen, Fds, Fd
  <2>8. Descriptors'
    <3>1. d \in Nat /\ d > 2 /\ (\A f \in IsOpen' : Fd(f)' # d) /\ fds' = Fds' \cup {d}
      BY <1>3, <2>1, <2>5, <2>6, <2>7 DEF d
    <3>2. QED
      BY <1>3, <2>1, <2>7, <3>1 DEF Descriptors
  <2>9. CallOK'
    BY <1>1, <1>3 DEF CallOK, CallType, Opening, this, mine
  <2>10. Lines'
    BY <1>1 DEF Lines, NoLine
  <2>11. DataInv'
    BY <1>1, <2>9, <2>10 DEF StreamsInv, DataInv, FileOK, Waits
  <2>12. UNCHANGED Abstract!vars
    BY <1>1, Stutter
  <2>13. QED
    BY <2>8, <2>11, <2>12 DEF Holds, StreamsInv
<1>4. QED
  BY <1>2, <1>3 DEF Open

(* Of the open descriptors, one has no stream: the one that open returned. *)
LEMMA TheNewFd ==
  ASSUME Descriptors, at = "mmap"
  PROVE  NewFd \in Nat /\ NewFd > 2 /\ (\A f \in IsOpen : Fd(f) # NewFd) /\ fds = Fds \cup {NewFd}
<1>1. PICK d \in Nat : d > 2 /\ (\A f \in IsOpen : Fd(f) # d) /\ fds = Fds \cup {d}
  BY DEF Descriptors
<1>2. \A f \in Files : file[f].fd # d
  BY <1>1 DEF Descriptors, Fd
<1>3. ASSUME NEW e \in fds, e > 2, \A f \in Files : file[f].fd # e
      PROVE  e = d
  BY <1>1, <1>3 DEF Fds, Fd, IsOpen
<1>4. d \in fds
  BY <1>1
<1>5. NewFd = d
  BY <1>1, <1>2, <1>3, <1>4 DEF NewFd
<1>6. QED
  BY <1>1, <1>5

LEMMA OpenedDescriptors ==
  ASSUME Descriptors, at = "mmap", at' # "mmap", fds' = fds, NEW f \in Files, f \notin IsOpen,
         file'[f].mode # "closed", file'[f].fd = NewFd,
         \A g \in Files \ {f} : file'[g].mode = file[g].mode /\ file'[g].fd = file[g].fd
  PROVE  Descriptors'
<1>1. IsOpen \subseteq Files /\ IsOpen' = IsOpen \cup {f}
  BY DEF IsOpen
<1>2. (\A g \in Files \ {f} : Fd(g)' = Fd(g)) /\ Fd(f)' = NewFd
  BY DEF Fd
<1>3. /\ \A g \in IsOpen : Fd(g) \in Nat /\ Fd(g) > 2
      /\ \A g, h \in IsOpen : Fd(g) = Fd(h) => g = h
      /\ \A g \in Files \ IsOpen : Fd(g) = -1
      /\ IsFiniteSet(IsOpen)
  BY DEF Descriptors
<1>4. NewFd \in Nat /\ NewFd > 2 /\ (\A g \in IsOpen : Fd(g) # NewFd) /\ fds = Fds \cup {NewFd}
  BY TheNewFd
<1>5. IsFiniteSet(IsOpen')
  BY <1>1, <1>3, FS_AddElement
<1>6. /\ \A g \in IsOpen' : Fd(g)' \in Nat /\ Fd(g)' > 2
      /\ \A g, h \in IsOpen' : Fd(g)' = Fd(h)' => g = h
      /\ \A g \in Files \ IsOpen' : Fd(g)' = -1
  BY <1>1, <1>2, <1>3, <1>4
<1>7. fds' = Fds'
  <2>1. \A x : x \in Fds' <=> x \in Fds \/ x = NewFd
    BY <1>1, <1>2 DEF Fds
  <2>2. QED
    BY <1>4, <2>1
<1>8. QED
  BY <1>5, <1>6, <1>7 DEF Descriptors

LEMMA MmapStep ==
  ASSUME StreamsInv, Mmap
  PROVE  Holds
<1>1. /\ at = "mmap" /\ Finish /\ Opening /\ UNCHANGED shorts /\ CallOK /\ call \in CallType /\ Lines
      /\ mine \in Files /\ mine \in Streams /\ this.mode = "closed" /\ call.pieces \in Modes
      /\ file \in [Streams -> FileType]
  BY Context DEF Mmap, Step, CallOK, Flushing, Closing, Opening, Printing
<1>2. Descriptors /\ Files \subseteq Streams
  BY DEF StreamsInv, Streams
<1>3. NewFd \in Nat /\ NewFd > 2 /\ (\A f \in IsOpen : Fd(f) # NewFd) /\ fds = Fds \cup {NewFd}
  BY <1>1, <1>2, TheNewFd
<1>4. at' = "done" /\ CallOK'
  BY <1>1, FinishOK
<1>5. CASE fds' = Given_Up /\ UNCHANGED file
  <2>1. NewFd \notin Fds
    BY <1>3 DEF Fds
  <2>2. fds' = Fds
    BY <1>3, <1>5, <2>1 DEF Given_Up
  <2>3. IsOpen' = IsOpen /\ Fds' = Fds /\ \A f : Fd(f)' = Fd(f)
    BY <1>5 DEF IsOpen, Fds, Fd
  <2>4. Descriptors'
    BY <1>2, <1>4, <2>2, <2>3 DEF Descriptors
  <2>5. Lines'
    BY <1>1, <1>5 DEF Lines, NoLine
  <2>6. DataInv'
    BY <1>4, <1>5, <2>5 DEF StreamsInv, DataInv, FileOK, Waits
  <2>7. UNCHANGED Abstract!vars
    BY <1>1, <1>5, Stutter
  <2>8. QED
    BY <2>4, <2>6, <2>7 DEF Holds, StreamsInv
<1>6. CASE file' = [file EXCEPT ![mine] = FILE(NewFd, call.pieces[1], "full")] /\ UNCHANGED fds
  <2> DEFINE g == FILE(NewFd, call.pieces[1], "full")
  <2>1. call.pieces[1] \in {"r", "w"}
    BY <1>1 DEF Modes
  <2>2. /\ g.mode \in {"r", "w"} /\ g.fd = NewFd /\ g.given = <<>> /\ g.taken = 0 /\ g.out = <<>> /\ g.buffer = <<>>
        /\ g.buf_mode = "full" /\ g \in FileType
    BY <1>3, <2>1 DEF FILE, FileType, Text
  <2>3. file' = [file EXCEPT ![mine] = g]
    BY <1>6
  <2> HIDE DEF g
  <2>4. FileOK(g) /\ NoLine(g)
    BY <2>2, StreamsAssumption DEF FileOK, NoLine, Waits, StreamsAssumption
  <2>5. DataInv' /\ at' = "done" /\ file'[mine] = g /\ \A s \in Streams \ {mine} : file'[s] = file[s]
    BY <1>1, <2>3, <2>4, OthersStay
  <2>6. Descriptors'
    <3>1. mine \notin IsOpen
      BY <1>1 DEF IsOpen, this
    <3>2. \A h \in Files \ {mine} : file'[h].mode = file[h].mode /\ file'[h].fd = file[h].fd
      BY <1>2, <2>5
    <3>3. file'[mine].mode # "closed" /\ file'[mine].fd = NewFd
      BY <2>2, <2>5
    <3>4. QED
      BY <1>1, <1>2, <1>4, <1>6, <3>1, <3>2, <3>3, OpenedDescriptors
  <2>7. Abstract!Open(mine)
    <3>1. Field("mode")[mine] = "closed" /\ Field("mode")'[mine] # "closed"
      BY <1>1, <2>2, <2>5 DEF Field, this
    <3>2. Field("mode")' = [Field("mode") EXCEPT ![mine] = Field("mode")'[mine]]
      BY <1>1, <2>5 DEF Field
    <3>3. /\ Field("given")' = [Field("given") EXCEPT ![mine] = <<>>]
          /\ Field("out")' = [Field("out") EXCEPT ![mine] = <<>>]
          /\ Field("taken")' = [Field("taken") EXCEPT ![mine] = 0]
      BY <1>1, <2>2, <2>5 DEF Field
    <3>4. QED
      BY <1>1, <3>1, <3>2, <3>3 DEF Abstract!Open
  <2>8. Abstract!Next
    <3>1. mine \in Abstract!Streams
      BY <1>1 DEF Abstract!Streams, Field
    <3>2. QED
      BY <2>7, <3>1 DEF Abstract!Next
  <2>9. QED
    BY <2>5, <2>6, <2>8 DEF Holds, StreamsInv
<1>7. QED
  BY <1>5, <1>6 DEF Mmap

(* At the start of a program. *)
LEMMA InitStep ==
  ASSUME StreamsInit
  PROVE  StreamsInv /\ Abstract!Init
<1>1. /\ file = stdio_init /\ fds = 0 .. 2 /\ at = "done"
      /\ call = [op |-> "none", s |-> "stdout", pieces |-> <<>>, text |-> <<>>] /\ shorts = 0
  BY DEF StreamsInit
<1>2. /\ CLOSED \in FileType /\ FileOK(CLOSED) /\ NoLine(CLOSED) /\ CLOSED.mode = "closed" /\ CLOSED.fd = -1
      /\ CLOSED.given = <<>> /\ CLOSED.taken = 0 /\ CLOSED.out = <<>>
  BY StreamsAssumption DEF CLOSED, FILE, FileType, FileOK, NoLine, Text, StreamsAssumption
<1>3. ASSUME NEW fd \in Nat, NEW b \in {"line", "none"}
      PROVE  LET f == FILE(fd, "w", b) IN
             f \in FileType /\ FileOK(f) /\ NoLine(f) /\ f.given = <<>> /\ f.taken = 0 /\ f.out = <<>>
  BY StreamsAssumption DEF FILE, FileType, FileOK, NoLine, Text, Waits, StreamsAssumption
<1> DEFINE Fresh(f) == f \in FileType /\ FileOK(f) /\ NoLine(f) /\ f.given = <<>> /\ f.taken = 0 /\ f.out = <<>>
<1>4. ASSUME NEW s \in Streams PROVE Fresh(file[s])
  <2>1. CASE s = "stdout"
    <3>1. file[s] = FILE(1, "w", "line")
      BY <1>1, <2>1 DEF stdio_init
    <3>2. QED
      BY <1>3, <3>1
  <2>2. CASE s = "stderr"
    <3>1. file[s] = FILE(2, "w", "none")
      BY <1>1, <2>2 DEF stdio_init
    <3>2. QED
      BY <1>3, <3>1
  <2>3. CASE s # "stdout" /\ s # "stderr"
    <3>1. file[s] = CLOSED
      BY <1>1, <2>3 DEF stdio_init
    <3>2. QED
      BY <1>2, <3>1
  <2>4. QED
    BY <2>1, <2>2, <2>3
<1>5. \A f \in Files : file[f] = CLOSED
  BY <1>1, StreamsAssumption DEF stdio_init, Streams, StreamsAssumption
<1>6. file \in [Streams -> FileType]
  BY <1>1, <1>4 DEF stdio_init
<1>7. CallOK
  BY <1>1 DEF CallOK, Names, Text, Streams
<1>8. DataInv
  BY <1>4, <1>6, <1>7 DEF DataInv, Lines
<1>9. Descriptors
  <2>1. IsOpen = {}
    BY <1>2, <1>5 DEF IsOpen
  <2>2. Fds = 0 .. 2
    BY <2>1 DEF Fds
  <2>3. QED
    BY <1>1, <1>2, <1>5, <2>1, <2>2, FS_EmptySet DEF Descriptors, Fd
<1>10. Abstract!Init
  BY <1>1, <1>4 DEF Abstract!Init, Abstract!Streams, Field
<1>11. QED
  BY <1>8, <1>9, <1>10 DEF StreamsInv

LEMMA StreamsStep ==
  ASSUME StreamsInv, [StreamsNext]_stream_vars
  PROVE  Holds
<1>1. CASE StreamsNext
  BY <1>1, CallsStep, PieceStep, FillStep, FlushStep, DirectStep, LastWriteStep, CloseStep, OpenStep, MmapStep
  DEF StreamsNext, Library
<1>2. CASE UNCHANGED stream_vars
  <2>1. UNCHANGED <<file, fds, errno, call, at, shorts>>
    BY <1>2 DEF stream_vars
  <2>2. DataInv'
    BY <2>1 DEF StreamsInv, DataInv, FileOK, Waits, CallOK, Printing, Flushing, Closing, Opening, this, mine, Lines, NoLine
  <2>3. IsOpen' = IsOpen /\ Fds' = Fds /\ \A f : Fd(f)' = Fd(f)
    BY <2>1 DEF IsOpen, Fds, Fd
  <2>4. Descriptors'
    BY <2>1, <2>3 DEF StreamsInv, Descriptors
  <2>5. UNCHANGED Abstract!vars
    BY <2>1, Stutter
  <2>6. QED
    BY <2>2, <2>4, <2>5 DEF Holds, StreamsInv
<1>3. QED
  BY <1>1, <1>2

(* In every reachable state each stream's buffer holds what it was given   *)
(* and has not handed over, a newline waits only in the stream that is     *)
(* being flushed, and the open descriptors are those of the open streams   *)
(* and of the fopen under way (stdio/buffer.c:432-506, fopen.c, fclose.c). *)
THEOREM StreamsInvariant == StreamsSpec => []StreamsInv
<1>1. StreamsInit => StreamsInv
  BY InitStep
<1>2. StreamsInv /\ [StreamsNext]_stream_vars => StreamsInv'
  BY StreamsStep DEF Holds
<1>3. QED
  BY <1>1, <1>2, PTL DEF StreamsSpec

(* What a program gives to a stream arrives in order and once, only a      *)
(* short write of the kernel loses anything, and fclose hands everything   *)
(* over first: the streams implement ordered pipes.                        *)
THEOREM StreamsImplementPipe == StreamsSpec => PipeSpec
<1>1. StreamsInit => Abstract!Init
  BY InitStep
<1>2. StreamsInv /\ [StreamsNext]_stream_vars => [Abstract!Next]_(Abstract!vars)
  BY StreamsStep DEF Holds
<1>3. QED
  BY <1>1, <1>2, StreamsInvariant, PTL DEF StreamsSpec, PipeSpec, Abstract!Spec

(* Between calls no newline waits in a line-buffered stream, unless a      *)
(* write of it has failed (write_buffer's flush, buffer.c:475).            *)
THEOREM NoLineStaysBehind == StreamsSpec => []LinesAreOut
<1>1. StreamsInv => LinesAreOut
  BY DEF StreamsInv, DataInv, Lines, NoLine, LinesAreOut
<1>2. QED
  BY <1>1, StreamsInvariant, PTL

(* Between calls exactly the open streams have descriptors, one each: none *)
(* is lost when fopen finds no memory (fopen.c:36) or a write of fclose    *)
(* fails, and none is shared.                                              *)
THEOREM DescriptorsAreKept == StreamsSpec => []DescriptorsAreStreams
<1>1. StreamsInv => DescriptorsAreStreams
  <2> SUFFICES ASSUME StreamsInv, at = "done" PROVE DescriptorsAreStreams
    BY DEF DescriptorsAreStreams
  <2>1. fds = Fds /\ Cardinality(fds) = 3 + Cardinality(IsOpen)
    BY FdsFinite DEF StreamsInv, Descriptors
  <2>2. QED
    BY <2>1 DEF DescriptorsAreStreams, Fds, Fd, IsOpen
<1>2. QED
  BY <1>1, StreamsInvariant, PTL
=============================================================================
