---------------------------- MODULE Descriptors ----------------------------
(***************************************************************************)
(* What the file system layer promises its callers: descriptors and        *)
(* directory streams that are independent of each other, each with the     *)
(* file it was opened on and a position of its own.                        *)
(***************************************************************************)
EXTENDS Integers

CONSTANTS Fds,      (* 0 .. n                                              *)
          Streams,
          Files,    (* what a descriptor or a stream can stand for         *)
          FilesAt,  (* path -> the files it may name; {} if there is none  *)
          CLOSED,
          EBADF, ENOENT, EMFILE, EACCES

VARIABLES table,    (* descriptor -> [file, offset]                        *)
          streams,  (* stream -> [file, index]                             *)
          ret       (* what the last call returned                         *)

vars == <<table, streams, ret>>

Open == {fd \in Fds : table[fd] # CLOSED}

Init ==
  /\ table = [fd \in Fds |-> CLOSED]
  /\ streams = [s \in Streams |-> CLOSED]
  /\ ret = 0

(* The lowest closed descriptor is bound to the start of the file. *)
Opens(p) ==
  \E fd \in Fds \ Open, f \in FilesAt[p] :
    /\ \A lower \in Fds : lower < fd => lower \in Open
    /\ table' = [table EXCEPT ![fd] = [file |-> f, offset |-> 0]]
    /\ ret' = fd

(* An open may only fail for the reason it gives. *)
Refuses(p) ==
  /\ \/ ret' = ENOENT
     \/ ret' = EACCES /\ FilesAt[p] # {}
     \/ ret' = EMFILE /\ Open = Fds /\ FilesAt[p] # {}
  /\ UNCHANGED table

(* Reads and seeks move the position of their own descriptor only; a read  *)
(* by as much as it returns, a seek to the place it returns.               *)
Moves(fd) ==
  /\ fd \in Open /\ ret' >= 0
  /\ \E to \in {table[fd].offset + ret', ret'} :
       table' = [table EXCEPT ![fd].offset = to]

Closes(fd) ==
  /\ fd \in Open
  /\ table' = [table EXCEPT ![fd] = CLOSED]
  /\ ret' = 0

(* Every other failure, and every call on a path, leaves all alone. *)
Leaves == UNCHANGED table /\ (ret' < 0 \/ ret' = 0)

OpensStream(p) ==
  \E s \in Streams, f \in FilesAt[p] :
    /\ streams[s] = CLOSED
    /\ streams' = [streams EXCEPT ![s] = [file |-> f, index |-> 0]]

Lists(s) ==
  /\ streams[s] # CLOSED
  /\ streams' = [streams EXCEPT ![s].index = @ + 1]

ClosesStream(s) ==
  /\ streams[s] # CLOSED
  /\ streams' = [streams EXCEPT ![s] = CLOSED]

Next ==
  \/ /\ \/ \E p \in DOMAIN FilesAt : Opens(p) \/ Refuses(p)
        \/ \E fd \in Fds : Moves(fd) \/ Closes(fd)
        \/ Leaves
     /\ UNCHANGED streams
  \/ /\ \/ \E p \in DOMAIN FilesAt : OpensStream(p)
        \/ \E s \in Streams : Lists(s) \/ ClosesStream(s)
     /\ UNCHANGED <<table, ret>>

Spec == Init /\ [][Next]_vars
=============================================================================
