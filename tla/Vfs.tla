-------------------------------- MODULE Vfs --------------------------------
(***************************************************************************)
(* The virtual file system, src/kernel/fs/vfs.c: one mount, a table of     *)
(* descriptors and directory streams, all by pointers to nodes that every  *)
(* path lookup allocates from the kernel heap.  The file system's          *)
(* operations are those of fat32.c as seen from here; its on-disk format   *)
(* is module Fat32's.                                                      *)
(*                                                                         *)
(* A call is one step: nothing in the kernel's interrupt handlers comes    *)
(* here, and there is one thread.                                          *)
(***************************************************************************)
EXTENDS Integers, Sequences, FiniteSets, FiniteSetsExt, Functions

CONSTANTS
  MAX_FDS,
  Slots,     (* node-sized blocks of the heap                               *)
  Streams,   (* bound: directory streams at a time                          *)
  Paths,     (* the paths asked for: sequences of names, <<>> for "/"       *)
  Directory, (* on disk: the cluster of a directory -> its entries in order *)
  Readable,  (* ... -> how many of them can be read before a bad sector     *)
  Length,    (* ... of a file or directory -> the bytes of its chain        *)
  ROOT,      (* the root directory's cluster                                *)
  MaxOffset, (* bound: offsets, counts and distances                        *)
  NULL,
  SPINS      (* the outcome of a lookup that never returns                  *)

Clusters == DOMAIN Length
Node == [cluster : Clusters, type : {"file", "dir"}]

ASSUME VfsAssumption ==
  /\ MAX_FDS \in Nat /\ MaxOffset \in Nat
  /\ IsFiniteSet(Slots) /\ {NULL, SPINS} \cap Slots = {} /\ NULL # SPINS
  /\ NULL \notin [file : Clusters, offset : Nat] /\ NULL \notin [file : Clusters, index : Nat]
  /\ Paths \subseteq Seq(STRING)
  /\ ROOT \in Clusters /\ \A c \in Clusters : Length[c] \in Nat
  /\ \A d \in DOMAIN Directory :
       /\ Directory[d] \in Seq([name : STRING, cluster : Clusters, type : {"file", "dir"}])
       /\ Readable[d] \in 0 .. Len(Directory[d])

VARIABLES
  booted, mounted,    (* vfs_init has run; root->ops is set                 *)
  live, mem,          (* the heap: the slots allocated, what all slots hold *)
  root, fd_table, dirs,
  hung,               (* the kernel spins, in kmalloc or in a lookup        *)
  ret, lost           (* lost: history, the nodes nothing points to         *)

heap == <<live, mem, lost>>
vars == <<booted, mounted, heap, root, fd_table, dirs, hung, ret>>

ENOENT == -2   EIO == -5    EBADF == -9   EACCES == -13
EINVAL == -22  EMFILE == -24  ENOSYS == -38

Fds == 0 .. MAX_FDS - 1
NoNode == [cluster |-> ROOT, type |-> "dir"]
-----------------------------------------------------------------------------
(* Paths *)

(* vfs_lookup: the first entry of the name, NULL when readdir says there   *)
(* are no more.  A read error counts as an entry, so that the loop never   *)
(* ends -- or, if nothing was read before, looks at an entry nobody wrote. *)
(* A cluster that is no directory's reads as any entries.                  *)
vfs_lookup(dir, name) ==
  IF dir.type # "dir" THEN {NULL}
  ELSE IF dir.cluster \notin DOMAIN Directory THEN {NULL, SPINS} \cup Node
  ELSE LET es   == Directory[dir.cluster]
           hits == {i \in 1 .. Readable[dir.cluster] : es[i].name = name}
       IN IF hits # {}
          THEN LET e == es[CHOOSE i \in hits : \A j \in hits : i <= j]
               IN {[cluster |-> e.cluster, type |-> e.type]}
          ELSE IF Readable[dir.cluster] = Len(es) THEN {NULL}
          ELSE IF Readable[dir.cluster] = 0 THEN {SPINS} \cup Node
          ELSE {SPINS}

(* A walk, one component on: the nodes it allocates, and where it is. *)
WalkOn(w, name) ==
  IF w.at \in {NULL, SPINS} THEN {w}
  ELSE {[nodes |-> IF o \in Node THEN Append(w.nodes, o) ELSE w.nodes, at |-> o]
        : o \in vfs_lookup(w.at, name)}

Walks(path) ==
  LET W[k \in 0 .. Len(path)] ==
        IF k = 0 THEN {[nodes |-> <<>>, at |-> mem[root]]}
        ELSE UNION {WalkOn(w, path[k]) : w \in W[k - 1]}
  IN W[Len(path)]

(* Every node of a walk gets a block of its own; only the last is kept.    *)
Placed(w) ==
  LET n    == Len(w.nodes)
      Free == Slots \ live
  IN IF w.at = SPINS \/ n > Cardinality(Free)
     THEN {[node |-> SPINS, mem |-> mem, live |-> live, lost |-> 0]}
     ELSE IF w.at = NULL
     THEN {[node |-> NULL, mem |-> mem, live |-> live \cup gone, lost |-> n] : gone \in kSubset(n, Free)}
     ELSE UNION {{[node |-> s, mem |-> [mem EXCEPT ![s] = w.at], live |-> live \cup gone \cup {s},
                   lost |-> n - 1] : gone \in kSubset(n - 1, Free \ {s})} : s \in Free}

vfs_resolve_path(path) ==
  IF ~ mounted THEN {[node |-> NULL, mem |-> mem, live |-> live, lost |-> 0]}
  ELSE IF path = <<>> THEN {[node |-> root, mem |-> mem, live |-> live, lost |-> 0]}
  ELSE UNION {Placed(w) : w \in Walks(path)}
-----------------------------------------------------------------------------
(* Calls *)

Ready == booted /\ ~ hung

Hangs(r) ==
  /\ r.node = SPINS /\ hung' = TRUE
  /\ UNCHANGED <<heap, fd_table, dirs, ret>>

(* What a block holds is of no interest once it is free: HeldIsLive.       *)
Scrub(m, freed) == [s \in Slots |-> IF s \in freed THEN NoNode ELSE m[s]]

(* The heap after a lookup, with the blocks of freed given back, and more  *)
(* of them lost.                                                           *)
Heap(r, freed, more) ==
  /\ mem' = Scrub(r.mem, freed)
  /\ live' = r.live \ freed
  /\ lost' = lost + r.lost + more
  /\ UNCHANGED hung

Unused == {fd \in Fds : fd_table[fd].node = NULL}

(* Mutants: the node of a refused descriptor is kept; any free one will do. *)
NoDescriptor_Keeps(r) == Heap(r, {}, 0) /\ ret' = EMFILE /\ UNCHANGED fd_table
NoDescriptor(r) == Heap(r, {r.node}, 0) /\ ret' = EMFILE /\ UNCHANGED fd_table

FirstUnused_Highest == CHOOSE fd \in Unused : \A other \in Unused : fd >= other
FirstUnused == CHOOSE fd \in Unused : \A other \in Unused : fd <= other

(* fat32_open refuses O_WRONLY, and vfs_open then forgets the node. *)
vfs_open(path, flags) ==
  /\ Ready
  /\ \E r \in vfs_resolve_path(path) :
       \/ Hangs(r)
       \/ r.node = NULL /\ Heap(r, {}, 0) /\ ret' = ENOENT /\ UNCHANGED <<fd_table, dirs>>
       \/ /\ r.node \in Slots /\ UNCHANGED dirs
          /\ IF flags = "O_WRONLY"
             THEN Heap(r, {}, IF r.node = root THEN 0 ELSE 1) /\ ret' = EACCES /\ UNCHANGED fd_table
             ELSE IF Unused = {} THEN NoDescriptor(r)
             ELSE /\ fd_table' = [fd_table EXCEPT ![FirstUnused] = [node |-> r.node, offset |-> 0]]
                  /\ ret' = FirstUnused
                  /\ Heap(r, {}, 0)
  /\ UNCHANGED <<booted, mounted, root>>

IsOpen(fd) == fd \in Fds /\ fd_table[fd].node # NULL

BadDescriptor(fd) == ~ IsOpen(fd) /\ ret' = EBADF /\ UNCHANGED fd_table

(* fat32_read has no file size to go by: it returns what is left of the    *)
(* cluster chain, or less when a sector of the FAT cannot be read and the  *)
(* chain is taken to end there, or -EIO when it cannot read a cluster.     *)
fat32_read(node, count, offset) ==
  LET left   == IF offset < Length[node.cluster] THEN Length[node.cluster] - offset ELSE 0
      wanted == IF count < left THEN count ELSE left
  IN  0 .. wanted \union (IF wanted > 0 THEN {EIO} ELSE {})

Advance(fd, n) ==
  IF n > 0 THEN fd_table' = [fd_table EXCEPT ![fd].offset = @ + n] ELSE UNCHANGED fd_table

vfs_read(fd, count) ==
  \/ BadDescriptor(fd)
  \/ /\ IsOpen(fd)
     /\ \E n \in fat32_read(mem[fd_table[fd].node], count, fd_table[fd].offset) :
          ret' = n /\ Advance(fd, n)

(* fat32_write is a stub. *)
vfs_write(fd) ==
  BadDescriptor(fd) \/ (IsOpen(fd) /\ ret' = ENOSYS /\ Advance(fd, ENOSYS))

vfs_lseek(fd, offset, origin) ==
  \/ BadDescriptor(fd)
  \/ /\ IsOpen(fd) /\ origin \in {"SEEK_SET", "SEEK_CUR"}
     /\ LET new == IF origin = "SEEK_SET" THEN offset ELSE fd_table[fd].offset + offset
        IN /\ new <= MaxOffset
           /\ IF new < 0 THEN ret' = EINVAL /\ UNCHANGED fd_table
              ELSE ret' = new /\ fd_table' = [fd_table EXCEPT ![fd].offset = new]
  \/ /\ IsOpen(fd) /\ origin \notin {"SEEK_SET", "SEEK_CUR"}
     /\ ret' = (IF origin = "SEEK_END" THEN ENOSYS ELSE EINVAL) /\ UNCHANGED fd_table

DescriptorCall(fd) ==
  /\ Ready
  /\ \/ \E count \in 0 .. MaxOffset :
          /\ IsOpen(fd) => fd_table[fd].offset + count <= MaxOffset
          /\ vfs_read(fd, count)
     \/ vfs_write(fd)
     \/ \E offset \in -1 .. MaxOffset, origin \in {"SEEK_SET", "SEEK_CUR", "SEEK_END", "other"} :
          vfs_lseek(fd, offset, origin)
  /\ UNCHANGED <<booted, mounted, heap, root, dirs, hung>>
(* Mutant: the table still points to the node. *)
vfs_close_KeepsEntry(fd) ==
  /\ Ready
  /\ \/ BadDescriptor(fd) /\ UNCHANGED <<live, mem>>
     \/ /\ IsOpen(fd)
        /\ live' = live \ {fd_table[fd].node} /\ mem' = Scrub(mem, {fd_table[fd].node})
        /\ ret' = 0 /\ UNCHANGED fd_table
  /\ UNCHANGED <<booted, mounted, lost, root, dirs, hung>>
vfs_close(fd) ==
  /\ Ready
  /\ \/ BadDescriptor(fd) /\ UNCHANGED <<live, mem>>
     \/ /\ IsOpen(fd)
        /\ live' = live \ {fd_table[fd].node} /\ mem' = Scrub(mem, {fd_table[fd].node})
        /\ fd_table' = [fd_table EXCEPT ![fd] = [node |-> NULL, offset |-> 0]]
        /\ ret' = 0
  /\ UNCHANGED <<booted, mounted, lost, root, dirs, hung>>

(* vfs_unlink, vfs_stat (both stubs in fat32.c) and vfs_access: the node   *)
(* is looked up and freed.                                                 *)
vfs_path_call(path, result) ==
  /\ Ready
  /\ \E r \in vfs_resolve_path(path) :
       \/ Hangs(r)
       \/ r.node = NULL /\ Heap(r, {}, 0) /\ ret' = ENOENT /\ UNCHANGED <<fd_table, dirs>>
       \/ r.node \in Slots /\ Heap(r, {r.node}, 0) /\ ret' = result /\ UNCHANGED <<fd_table, dirs>>
  /\ UNCHANGED <<booted, mounted, root>>

vfs_opendir(path, d) ==
  /\ Ready /\ dirs[d].node = NULL
  /\ \E r \in vfs_resolve_path(path) :
       \/ Hangs(r)
       \/ /\ r.node \in Slots /\ r.mem[r.node].type = "dir"
          /\ dirs' = [dirs EXCEPT ![d] = [node |-> r.node, index |-> 0]]
          /\ Heap(r, {}, 0) /\ UNCHANGED <<fd_table, ret>>
       \/ /\ r.node = NULL \/ (r.node \in Slots /\ r.mem[r.node].type # "dir")
          /\ Heap(r, {r.node}, 0) /\ UNCHANGED <<fd_table, dirs, ret>>
  /\ UNCHANGED <<booted, mounted, root>>

(* One more entry, if there is one and it can be read. *)
vfs_readdir(d) ==
  /\ Ready /\ dirs[d].node # NULL
  /\ dirs[d].index < Readable[mem[dirs[d].node].cluster]
  /\ dirs' = [dirs EXCEPT ![d].index = @ + 1]
  /\ UNCHANGED <<booted, mounted, heap, root, fd_table, hung, ret>>

vfs_closedir(d) ==
  /\ Ready /\ dirs[d].node # NULL
  /\ live' = live \ {dirs[d].node} /\ mem' = Scrub(mem, {dirs[d].node})
  /\ dirs' = [dirs EXCEPT ![d] = [node |-> NULL, index |-> 0]]
  /\ UNCHANGED <<booted, mounted, lost, root, fd_table, hung, ret>>
-----------------------------------------------------------------------------
(* root is in the heap like every other node. *)
vfs_init ==
  /\ ~ booted /\ booted' = TRUE
  /\ \E s \in Slots \ live : root' = s /\ live' = live \cup {s} /\ mem' = [mem EXCEPT ![s] = NoNode]
  /\ UNCHANGED <<mounted, fd_table, dirs, hung, ret, lost>>

(* Only done when fs_init finds a FAT32 partition. *)
vfs_mount ==
  /\ Ready /\ ~ mounted /\ mounted' = TRUE
  /\ mem' = [mem EXCEPT ![root] = [@ EXCEPT !.cluster = ROOT]]
  /\ UNCHANGED <<booted, live, root, fd_table, dirs, hung, ret, lost>>

Init ==
  /\ booted = FALSE /\ mounted = FALSE /\ hung = FALSE
  /\ live = {} /\ mem = [s \in Slots |-> NoNode] /\ lost = 0
  /\ root = NULL
  /\ fd_table = [fd \in Fds |-> [node |-> NULL, offset |-> 0]]
  /\ dirs = [d \in Streams |-> [node |-> NULL, index |-> 0]]
  /\ ret = 0

Next ==
  \/ vfs_init \/ vfs_mount
  \/ \E path \in Paths :
       \/ \E flags \in {"O_RDONLY", "O_WRONLY"} : vfs_open(path, flags)
       \/ \E result \in {0, ENOSYS} : vfs_path_call(path, result)
       \/ \E d \in Streams : vfs_opendir(path, d)
  \/ \E fd \in -1 .. MAX_FDS : DescriptorCall(fd) \/ vfs_close(fd)
  \/ \E d \in Streams : vfs_readdir(d) \/ vfs_closedir(d)

Spec == Init /\ [][Next]_vars
-----------------------------------------------------------------------------
(* Properties *)

TypeOK ==
  /\ booted \in BOOLEAN /\ mounted \in BOOLEAN /\ hung \in BOOLEAN
  /\ live \subseteq Slots /\ mem \in [Slots -> Node]
  /\ root \in Slots \cup {NULL}
  /\ fd_table \in [Fds -> [node : Slots \cup {NULL}, offset : 0 .. MaxOffset]]
  /\ dirs \in [Streams -> [node : Slots \cup {NULL}, index : Nat]]
  /\ ret \in Int /\ lost \in Nat

(* Everything that points to a node: the root, the descriptors, the        *)
(* streams.                                                                *)
Holders == {<<"root", 0>>} \cup ({"fd"} \X Fds) \cup ({"dir"} \X Streams)
Held(h) ==
  CASE h[1] = "root" -> root
    [] h[1] = "fd"   -> fd_table[h[2]].node
    [] OTHER         -> dirs[h[2]].node

(* vfs_resolve_path "Handle root": what any call holds on to, root above   *)
(* all, stays allocated while it is held: no kfree in one call takes the   *)
(* node from under another, although nodes have no reference count.        *)
HeldIsLive == TypeOK /\ \A h \in Holders : Held(h) # NULL => Held(h) \in live

(* Nodes are lost in two ways only: the directories on the way of a path,  *)
(* and the node of an open that is refused for its flags.  All other       *)
(* failures, a full table among them ("Free if no FD available"), and all  *)
(* closes give their nodes back.                                           *)
LossesAreKnown ==
  Cardinality(live \ {Held(h) : h \in Holders}) = lost

(* The files a path names, by the directories alone. *)
Entries(d, name) ==
  {[cluster |-> e.cluster, type |-> e.type]
   : e \in {x \in Range(Directory[d.cluster]) : x.name = name}}

Named(path) ==
  LET N[k \in 0 .. Len(path)] ==
        IF k = 0 THEN {NoNode}
        ELSE UNION {Entries(d, path[k]) : d \in {n \in N[k - 1] : n.type = "dir"}}
  IN {n.cluster : n \in N[Len(path)]}

FilesAt == [path \in Paths |-> Named(path)]

(* Descriptors and streams behave as Descriptors promises, although they   *)
(* are pointers into a heap whose blocks are freed and used again: each    *)
(* keeps the file its path named and its own position.                     *)
Table == [fd \in Fds |->
  IF fd_table[fd].node = NULL THEN NULL
  ELSE [file |-> mem[fd_table[fd].node].cluster, offset |-> fd_table[fd].offset]]

Listing == [d \in Streams |->
  IF dirs[d].node = NULL THEN NULL
  ELSE [file |-> mem[dirs[d].node].cluster, index |-> dirs[d].index]]

Descr == INSTANCE Descriptors WITH
  CLOSED <- NULL, Files <- Clusters, table <- Table, streams <- Listing
DescriptorsSpec == Descr!Spec
=============================================================================
