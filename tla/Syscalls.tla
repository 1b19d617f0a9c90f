------------------------------ MODULE Syscalls ------------------------------
(***************************************************************************)
(* A system call on its way: the wrappers of libc's unistd.c, fcntl.c,     *)
(* mman.c and signal.c, the registers as syscall_arch.h loads them, the    *)
(* gate of syscall_asm.S, the dispatcher of syscall.c and the handlers     *)
(* behind it.                                                              *)
(***************************************************************************)
EXTENDS Integers, Sequences

EPERM  == 1
EBADF  == 9
ENOMEM == 12
EINVAL == 22
ENOSYS == 38

\* Numbers, and how many arguments the dispatcher hands on.
SYS == [exit |-> 1, fork |-> 2, read |-> 3, write |-> 4, open |-> 5, close |-> 6, waitpid |-> 7,
        unlink |-> 12, execve |-> 13, chdir |-> 14, lseek |-> 19, getpid |-> 20, setuid |-> 23,
        access |-> 33, mkdir |-> 39, rmdir |-> 40, dup |-> 41, pipe |-> 42, times |-> 43, brk |-> 45,
        setgid |-> 46, getppid |-> 47, getuid |-> 54, getgid |-> 56, chroot |-> 61, dup2 |-> 63,
        kill |-> 67, getcwd |-> 83, mmap |-> 90, munmap |-> 91, ftruncate |-> 93, fchmod |-> 94,
        stat |-> 99, lstat |-> 100, fstat |-> 101, uname |-> 122, fcntl |-> 125, geteuid |-> 132,
        getegid |-> 133, writev |-> 146, nanosleep |-> 162, gettimeofday |-> 168, sigaction |-> 172,
        mmap2 |-> 192]
Calls == DOMAIN SYS

Arity(c) ==
    CASE c \in {"fork", "getpid", "getppid", "getuid", "getgid", "geteuid", "getegid"} -> 0
      [] c \in {"mmap", "mmap2"} -> 6
      [] c \in {"read", "write", "open", "waitpid", "execve", "lseek", "fcntl", "writev", "sigaction"} -> 3
      [] c \in {"access", "mkdir", "dup2", "kill", "getcwd", "munmap", "ftruncate", "fchmod", "stat",
                "lstat", "fstat", "nanosleep", "gettimeofday"} -> 2
      [] OTHER -> 1

-----------------------------------------------------------------------------
(***************************************************************************)
(* In the kernel.  The dispatcher calls the handler of that number with as *)
(* many of its arguments as the handler has.                               *)
(***************************************************************************)
Known(n) == \E c \in Calls : SYS[c] = n
syscall_dispatch(n, a) ==
    IF Known(n)
    THEN LET c == CHOOSE c \in Calls : SYS[c] = n IN [handler |-> c, args |-> SubSeq(a, 1, Arity(c))]
    ELSE [handler |-> "none", args |-> <<>>]

(***************************************************************************)
(* What a handler may answer.  Those of the file system and of memory go   *)
(* on to other components, whose answers are taken from MayAnswer; mmap    *)
(* and munmap refuse a length of 0 themselves.  fstat answers 0 without    *)
(* doing anything, and the others are not implemented.                     *)
(***************************************************************************)
MayAnswer == {- EBADF, 0, 7}
fs_handlers == {"open", "read", "write", "unlink", "close", "lseek", "access"}
mm_handlers == {"mmap", "munmap", "brk"}
fs_todo == {"chdir", "mkdir", "rmdir", "pipe", "dup", "dup2", "ftruncate", "fchmod", "stat", "lstat"}
process_todo == {"exit", "fork", "waitpid", "execve", "getpid", "getppid", "setuid", "setgid", "getuid",
                 "getgid", "geteuid", "getegid", "kill", "chroot"}
misc_todo == {"times", "uname", "getcwd", "fcntl", "writev", "nanosleep", "gettimeofday", "sigaction"}

Answers(to) ==
    CASE to.handler \in {"none", "mmap2"} \union fs_todo \union process_todo \union misc_todo -> {- ENOSYS}
      [] to.handler = "fstat" -> {0}
      [] to.handler \in {"mmap", "munmap"} /\ to.args[2] = 0 -> {- EINVAL}
      [] OTHER -> MayAnswer

-----------------------------------------------------------------------------
(***************************************************************************)
(* In the library.  __syscallN gives -1 and sets errno when the kernel     *)
(* answers with a negative number, and the wrapper around it does so once  *)
(* more with the -1 that it got: every error becomes EPERM.                *)
(***************************************************************************)
__syscall(r, errno) ==
    IF r < 0 THEN [ret |-> -1, errno |-> - r] ELSE [ret |-> r, errno |-> errno]
Checked(s) == IF s.ret < 0 THEN [ret |-> -1, errno |-> - s.ret] ELSE s

\* getpid and its kin and _exit have no check of their own, others no wrapper.
Unchecked == {"exit", "getpid", "getppid", "getuid", "getgid", "geteuid", "getegid", "setuid",
              "setgid", "chroot", "times", "uname", "nanosleep", "gettimeofday", "mmap2"}
unistd(c, r, errno) == IF c \in Unchecked THEN __syscall(r, errno) ELSE Checked(__syscall(r, errno))
=============================================================================
