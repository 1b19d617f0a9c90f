------------------------------- MODULE Fat32 -------------------------------
(***************************************************************************)
(* The FAT32 file system, src/kernel/fs/fat32.c, and the partition table   *)
(* it is found by (mbr.c, fs_init of main.c): reading a directory, one     *)
(* call of vfs_readdir per entry, and reading a file.  Every sector is     *)
(* read when the code reads it, and any read may fail.                     *)
(*                                                                         *)
(* A directory is laid out from a list of what its maker put there, so     *)
(* that what a listing must show is known without the code.                *)
(***************************************************************************)
EXTENDS Integers, Sequences, SequencesExt, FiniteSets

CONSTANTS
  ENTRIES,     (* directory entries of a sector                             *)
  sectors_per_cluster,
  LFN_MAX,     (* characters lfn_buffer is good for                         *)
  Checksum,    (* short name -> compute_sfn_checksum of its 11 characters   *)
  Contents,    (* the directories tried: sequences of items                 *)
  FileSectors, (* the sectors of the file that is read                      *)
  Mbrs,        (* the partition tables tried: sequences of types            *)
  MaxFaults,   (* bound: reads that fail                                    *)
  MaxCount     (* bound: sectors asked for and skipped by a file read       *)

(* An item is what stands for one file, one label or a remnant of one: a   *)
(* short name, the parts of its long name from the last to the first with  *)
(* their lengths, whether it is a directory, and what has become of it:    *)
(* "whole", "deleted", "label", or "orphan" when the entries of the long   *)
(* name are left from another file.                                        *)
Items == [short : DOMAIN Checksum, long : Seq(STRING \X (Nat \ {0})), dir : BOOLEAN,
          kind : {"whole", "deleted", "label", "orphan"}]

(* The number of a part has five bits. *)
ASSUME FatAssumption ==
  /\ ENTRIES \in Nat \ {0} /\ sectors_per_cluster \in Nat \ {0}
  /\ LFN_MAX \in Nat /\ FileSectors \in Nat /\ MaxFaults \in Nat /\ MaxCount \in Nat
  /\ Checksum \in [DOMAIN Checksum -> Int]
  /\ \A c \in Contents : c \in Seq(Items) /\ \A i \in DOMAIN c : Len(c[i].long) < 32

VARIABLES
  mbr, content,              (* the disk                                    *)
  faults,                    (* reads that failed so far                    *)
  mounted,
  op,                        (* "boot", "list", "done" or "read"            *)
  pc,                        (* in fat32_readdir or fat32_read, or outside  *)
  index, listed, result,     (* the caller of readdir, what it has seen     *)
  cluster, sector, entry,    (* where the walk is                           *)
  current_index, lfn,        (* lfn: lfn_buffer, _pos, _sequence, _checksum *)
  offset, bytes_read, count, (* fat32_read, in sectors                      *)
  asked                      (* history: its offset; whether a FAT read failed *)

walk   == <<cluster, sector, entry, current_index, lfn>>
lister == <<index, listed>>
reader == <<offset, bytes_read, count>>
disk   == <<mbr, content>>
vars   == <<disk, faults, mounted, op, pc, lister, result, walk, reader, asked>>
-----------------------------------------------------------------------------
(* The disk *)

END == "end"

(* The sums of the first sizes, and among how many of them n is first.     *)
Sums(sizes) ==
  LET sum[k \in 0 .. Len(sizes)] == IF k = 0 THEN 0 ELSE sum[k - 1] + sizes[k] IN sum
Which(sums, n) == CHOOSE k \in DOMAIN sums \ {0} : sums[k - 1] < n /\ n <= sums[k]

(* The raw entries of an item, in the order they have on disk. *)
Size(item) == Len(item.long) + 1
Raw(item, i) ==
  LET part == i < Size(item)
  IN [kind  |-> IF item.kind = "deleted" THEN "deleted" ELSE IF part THEN "lfn" ELSE "sfn",
      seq   |-> Size(item) - i,
      first |-> i = 1,
      sum   |-> IF item.kind = "orphan" THEN Checksum[item.short] + 1 ELSE Checksum[item.short],
      part  |-> IF part THEN item.long[i] ELSE <<"", 0>>,
      item  |-> item]

(* The last entries of the items, and of the directory. *)
Lasts   == Sums([i \in DOMAIN content |-> Size(content[i])])
Entries == Lasts[Len(content)]

PerCluster == ENTRIES * sectors_per_cluster

(* The directory's clusters follow each other in its chain; behind the     *)
(* last entry stands a zero unless the chain ends there, too.              *)
Clusters ==
  IF Entries = 0 THEN 1 ELSE (Entries + PerCluster - 1) \div PerCluster

EOC == 0

At(c, s, e) ==
  LET n == (c - 1) * PerCluster + s * ENTRIES + e + 1
      k == Which(Lasts, n)
  IN IF c # EOC /\ n <= Entries THEN Raw(content[k], n - Lasts[k - 1]) ELSE [kind |-> END]

(* A read that fails, as one of at most MaxFaults. *)
Fault == faults < MaxFaults /\ faults' = faults + 1

(* Mutant: the walk does not leave its cluster. *)
fat32_next_cluster_Stays(c, last) == {c}
(* fat32_read_fat_entry and fat32_next_cluster: a FAT sector that cannot   *)
(* be read is taken for the end of the chain.                              *)
fat32_next_cluster(c, last) ==
  {n \in {IF c < last THEN c + 1 ELSE EOC, EOC} : n = EOC /\ c < last => faults < MaxFaults}

(* Follows the chain; EOC before the last cluster is a fault. *)
Follow(c, last) ==
  \E n \in fat32_next_cluster(c, last) :
    /\ cluster' = n
    /\ IF n = EOC /\ c < last THEN Fault /\ asked' = [asked EXCEPT !.cut = TRUE]
       ELSE UNCHANGED <<faults, asked>>
-----------------------------------------------------------------------------
(* Finding and mounting the file system *)

Found == \E i \in DOMAIN mbr : mbr[i] \in {11, 12}

(* mbr_parse, fat32_init and fat32_mount: the boot sectors are read; a     *)
(* failure of any of them leaves the root without operations.              *)
fs_init ==
  /\ op = "boot"
  /\ \/ Found /\ mounted' = TRUE /\ UNCHANGED faults
     \/ ~ Found /\ UNCHANGED <<mounted, faults>>
     \/ Fault /\ UNCHANGED mounted
  /\ op' = IF mounted' THEN "list" ELSE "done"
  /\ UNCHANGED <<disk, pc, lister, result, walk, reader, asked>>
-----------------------------------------------------------------------------
(* Listing *)

NoLfn == [parts |-> <<>>, pos |-> 0, sequence |-> 0, sum |-> 0]

(* What every reset in the loop leaves of a long name. *)
Forget == [lfn EXCEPT !.parts = <<>>, !.pos = 0, !.sequence = 0]

(* The caller asks for the next entry; fat32_readdir starts at the front.  *)
vfs_readdir ==
  /\ op = "list" /\ pc = "out"
  /\ pc' = "entry"
  /\ cluster' = 1 /\ sector' = 0 /\ entry' = 0 /\ current_index' = 0 /\ lfn' = NoLfn
  /\ UNCHANGED <<disk, faults, mounted, op, lister, result, reader, asked>>

(* Control goes to the next entry, sector or cluster of the walk. *)
Advance ==
  /\ entry' = (entry + 1) % ENTRIES
  /\ sector' = IF entry + 1 < ENTRIES THEN sector ELSE (sector + 1) % sectors_per_cluster
  /\ IF entry + 1 = ENTRIES /\ sector + 1 = sectors_per_cluster
     THEN Follow(cluster, Clusters)
     ELSE UNCHANGED <<cluster, faults, asked>>

Return(r) ==
  /\ pc' = "out" /\ result' = r
  /\ op' = IF r = 1 THEN "list" ELSE "done"

(* The sector of the walk cannot be read, when it comes to its start. *)
SectorFails ==
  /\ op = "list" /\ pc = "entry" /\ cluster # EOC /\ entry = 0
  /\ Fault
  /\ Return(-5)
  /\ UNCHANGED <<disk, mounted, lister, walk, reader, asked>>

IsEnd(kind) == kind = END

(* The end of the chain, or a zero entry. *)
EndOfDirectory ==
  /\ op = "list" /\ pc = "entry"
  /\ IsEnd(At(cluster, sector, entry).kind)
  /\ Return(0)
  /\ UNCHANGED <<disk, faults, mounted, lister, walk, reader, asked>>

Here(kind) ==
  /\ op = "list" /\ pc = "entry"
  /\ At(cluster, sector, entry).kind = kind

DeletedEntry ==
  /\ Here("deleted")
  /\ Advance
  /\ UNCHANGED <<disk, mounted, op, pc, lister, result, current_index, lfn, reader>>

Prepend(l, part) == [l EXCEPT !.parts = <<part[1]>> \o l.parts, !.pos = @ + part[2]]

(* The state of the long name after one of its entries.  A name that grows *)
(* too long is forgotten, and its other parts then come out of sequence.   *)
LfnAfter(raw) ==
  LET l == IF raw.first THEN [parts |-> <<>>, pos |-> 0, sequence |-> raw.seq, sum |-> raw.sum] ELSE lfn
  IN IF raw.seq # l.sequence \/ raw.sum # l.sum
     THEN [l EXCEPT !.parts = <<>>, !.pos = 0, !.sequence = 0]
     ELSE IF l.pos + raw.part[2] < LFN_MAX
     THEN [Prepend(l, raw.part) EXCEPT !.sequence = @ - 1]
     ELSE [l EXCEPT !.parts = <<>>, !.pos = 0, !.sequence = -1]

LfnEntry ==
  /\ Here("lfn")
  /\ lfn' = LfnAfter(At(cluster, sector, entry))
  /\ Advance
  /\ UNCHANGED <<disk, mounted, op, pc, lister, result, current_index, reader>>

(* Entries returned by earlier calls are counted, labels among them. *)
SkipEntry ==
  /\ Here("sfn") /\ current_index < index
  /\ current_index' = current_index + 1
  /\ lfn' = Forget
  /\ Advance
  /\ UNCHANGED <<disk, mounted, op, pc, lister, result, reader>>

IsLabel == At(cluster, sector, entry).item.kind = "label"

(* A label is not returned and not counted. *)
SkipLabel ==
  /\ Here("sfn") /\ current_index = index /\ IsLabel
  /\ lfn' = Forget
  /\ Advance
  /\ UNCHANGED <<disk, mounted, op, pc, lister, result, current_index, reader>>

(* Mutant: a long name is taken whatever it belongs to. *)
FinalName_Unchecked(item) == IF lfn.pos > 0 /\ lfn.sequence = 0 THEN lfn.parts ELSE <<item.short>>
FinalName(item) ==
  IF lfn.pos > 0 /\ lfn.sequence = 0 /\ Checksum[item.short] = lfn.sum
  THEN lfn.parts ELSE <<item.short>>

ReturnEntry ==
  /\ Here("sfn") /\ current_index = index /\ ~ IsLabel
  /\ LET item == At(cluster, sector, entry).item
     IN listed' = Append(listed, [name |-> FinalName(item), dir |-> item.dir])
  /\ index' = index + 1
  /\ Return(1)
  /\ UNCHANGED <<disk, faults, mounted, walk, reader, asked>>
-----------------------------------------------------------------------------
(* Reading *)

FileClusters == (FileSectors + sectors_per_cluster - 1) \div sectors_per_cluster

(* A call of fat32_read: from sector o, n of them. *)
fat32_read(o, n) ==
  /\ op = "done" /\ mounted
  /\ op' = "read" /\ pc' = "skip"
  /\ offset' = o /\ count' = n /\ bytes_read' = 0
  /\ asked' = [asked EXCEPT !.from = o, !.cut = FALSE]
  /\ cluster' = 1 /\ sector' = 0 /\ entry' = 0 /\ result' = 0
  /\ current_index' = 0 /\ lfn' = NoLfn
  /\ UNCHANGED <<disk, faults, mounted, lister>>

SkipCluster ==
  /\ op = "read" /\ pc = "skip"
  /\ IF offset >= sectors_per_cluster /\ cluster # EOC
     THEN /\ offset' = offset - sectors_per_cluster
          /\ Follow(cluster, FileClusters)
          /\ UNCHANGED pc
     ELSE pc' = "copy" /\ UNCHANGED <<offset, cluster, faults, asked>>
  /\ UNCHANGED <<disk, mounted, op, lister, result, sector, entry, current_index, lfn, bytes_read, count>>

(* Mutant: the offset in the cluster is forgotten. *)
ToCopy_NoOffset == IF count - bytes_read < sectors_per_cluster THEN count - bytes_read ELSE sectors_per_cluster
ToCopy ==
  LET room == sectors_per_cluster - offset
      left == count - bytes_read
  IN IF left < room THEN left ELSE room

(* The cluster is read, and nothing is copied: the memcpy is in a comment. *)
CopyCluster ==
  /\ op = "read" /\ pc = "copy" /\ cluster # EOC /\ bytes_read < count
  /\ bytes_read' = bytes_read + ToCopy
  /\ offset' = 0
  /\ Follow(cluster, FileClusters)
  /\ UNCHANGED <<disk, mounted, op, pc, lister, result, sector, entry, current_index, lfn, count>>

CopyFails ==
  /\ op = "read" /\ pc = "copy" /\ cluster # EOC /\ bytes_read < count
  /\ Fault
  /\ op' = "over" /\ pc' = "out" /\ result' = -5
  /\ UNCHANGED <<disk, mounted, lister, walk, reader, asked>>

ReadReturns ==
  /\ op = "read" /\ pc = "copy" /\ (cluster = EOC \/ bytes_read >= count)
  /\ op' = "over" /\ pc' = "out" /\ result' = bytes_read
  /\ UNCHANGED <<disk, faults, mounted, lister, walk, reader, asked>>
-----------------------------------------------------------------------------
Init ==
  /\ mbr \in Mbrs /\ content \in Contents
  /\ faults = 0 /\ mounted = FALSE
  /\ op = "boot" /\ pc = "out" /\ index = 0 /\ listed = <<>> /\ result = 0
  /\ cluster = EOC /\ sector = 0 /\ entry = 0 /\ current_index = 0 /\ lfn = NoLfn
  /\ offset = 0 /\ bytes_read = 0 /\ count = 0
  /\ asked = [from |-> 0, cut |-> FALSE]

Readdir ==
  \/ vfs_readdir \/ SectorFails \/ EndOfDirectory
  \/ DeletedEntry \/ LfnEntry \/ SkipEntry \/ SkipLabel \/ ReturnEntry

Read == SkipCluster \/ CopyCluster \/ CopyFails \/ ReadReturns

Next ==
  \/ fs_init \/ Readdir \/ Read
  \/ \E o, n \in 0 .. MaxCount : fat32_read(o, n)

(* The processor runs the code; the call of fat32_read is the caller's.    *)
Spec == Init /\ [][Next]_vars /\ WF_vars(fs_init \/ Readdir \/ Read)
-----------------------------------------------------------------------------
(* Properties *)

TypeOK ==
  /\ faults \in 0 .. MaxFaults /\ mounted \in BOOLEAN
  /\ op \in {"boot", "list", "done", "read", "over"}
  /\ pc \in {"out", "entry", "skip", "copy"}
  /\ index \in Nat /\ current_index \in 0 .. index
  /\ sector \in 0 .. sectors_per_cluster - 1 /\ entry \in 0 .. ENTRIES - 1
  /\ lfn.pos \in 0 .. LFN_MAX /\ lfn.sequence \in -1 .. 31
  /\ offset \in Nat /\ bytes_read \in 0 .. count

Total(parts) == Sums([i \in DOMAIN parts |-> parts[i][2]])[Len(parts)]

(* What a listing of an item must show: its long name, first part first,   *)
(* when that is its own and fits, and else the short one.                  *)
Shown(item) ==
  [name |-> IF item.kind = "whole" /\ item.long # <<>> /\ Total(item.long) < LFN_MAX
            THEN Reverse([i \in DOMAIN item.long |-> item.long[i][1]])
            ELSE <<item.short>>,
   dir |-> item.dir]

IsFile(item) == item.kind \in {"whole", "orphan"}

(* How many of the first items are files, and these one by one. *)
Counts    == Sums([i \in DOMAIN content |-> IF IsFile(content[i]) THEN 1 ELSE 0])
Expected == [n \in 1 .. Counts[Len(content)] |-> Shown(content[Which(Counts, n)])]

(* The listing so far is the beginning of the directory.                   *)
ListsEachOnce == IsPrefix(listed, Expected)

(* A listing that ends with 0 was complete, unless a FAT sector could not  *)
(* be read, which fat32_next_cluster takes for the end of the chain.       *)
EndMeansAll ==
  op = "done" /\ mounted /\ result = 0 /\ ~ asked.cut => listed = Expected

(* Whatever fails, a listing shows every file once, in order, under its    *)
(* own long name, though every call counts its way from the first entry    *)
(* again, names are put together backwards over sector and cluster         *)
(* borders, and remnants of deleted files lie between; and one that ends   *)
(* without an error is complete.                                           *)
ListingIsRight == TypeOK /\ ListsEachOnce /\ EndMeansAll

(* The clusters a read comes through. An empty file has cluster 0: it is   *)
(* read like one of the file's own, until the FAT's entry 0, which is no   *)
(* cluster's, ends the walk.                                               *)
Walked == IF FileClusters = 0 THEN 1 ELSE FileClusters

(* fat32_read returns the sectors asked for that the chain holds, from the *)
(* offset, also when that is on or behind a cluster's end; it has no file  *)
(* size to stop at before the last cluster's end, or to tell an empty      *)
(* file.                                                                   *)
ReadCountIsExact ==
  op = "over" /\ result >= 0 /\ ~ asked.cut =>
    LET held == Walked * sectors_per_cluster
    IN result = IF asked.from >= held THEN 0
                ELSE IF count < held - asked.from THEN count ELSE held - asked.from

(* Every listing and every read comes to its end on a chain without loops. *)
CallsEnd == pc # "out" ~> pc = "out"
=============================================================================
