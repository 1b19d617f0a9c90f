-------------------------------- MODULE Trap --------------------------------
(***************************************************************************)
(* One system call, register by register: from the wrapper through int 80h *)
(* and syscall_handler of arch/i386/syscall_asm.S to syscall_dispatch, and *)
(* back.                                                                   *)
(***************************************************************************)
EXTENDS Syscalls

VARIABLES
    call,       \* the call and its arguments, as the program made it
    regs,       \* the general registers
    stack,      \* the kernel's stack, its top first
    to,         \* the handler that the dispatcher chose, with its arguments
    answer,     \* what that handler returned
    result,     \* what the wrapper returned, and errno
    pc

vars == <<call, regs, stack, to, answer, result, pc>>

Pushed == <<"edi", "esi", "ebp", "esp", "ebx", "edx", "ecx", "eax">>      \* by pusha, the last on top
Loaded == <<"ebx", "ecx", "edx", "esi", "edi", "ebp">>
Registers == {Pushed[i] : i \in 1 .. 8}
NONE == [handler |-> "none", args |-> <<>>]

\* A call that the caller made itself has its arguments in the registers.
Init ==
    /\ \E c \in Calls, zero \in 0 .. 6 :
         call = [name |-> c, args |-> [i \in 1 .. Arity(c) |-> IF i = zero THEN 0 ELSE 200 + i]]
    /\ regs = [r \in Registers |-> 300] /\ stack = <<>>
    /\ to = NONE /\ answer = 0 /\ result = [ret |-> 0, errno |-> 0]
    /\ pc = "wrapper"

At(here, there) == pc = here /\ pc' = there

syscallN ==
    /\ At("wrapper", "int")
    /\ regs' = [r \in Registers |->
                  IF r = "eax" THEN SYS[call.name]
                  ELSE IF \E i \in DOMAIN call.args : Loaded[i] = r
                  THEN call.args[CHOOSE i \in DOMAIN call.args : Loaded[i] = r]
                  ELSE regs[r]]
    /\ UNCHANGED <<call, stack, to, answer, result>>

Interrupt ==
    /\ At("int", "pusha") /\ stack' = <<"eip">> \o stack
    /\ UNCHANGED <<call, regs, to, answer, result>>

pusha ==
    /\ At("pusha", "push") /\ stack' = [i \in 1 .. 8 |-> regs[Pushed[i]]] \o stack
    /\ UNCHANGED <<call, regs, to, answer, result>>

push ==
    /\ At("push", "call") /\ stack' = [i \in 1 .. 6 |-> regs[Loaded[i]]] \o stack
    /\ UNCHANGED <<call, regs, to, answer, result>>

\* The parameters are n, a1, ... a6 from the top of the stack.
Dispatch ==
    /\ At("call", "popa")
    /\ to' = syscall_dispatch(stack[1], SubSeq(stack, 2, 7))
    /\ \E r \in Answers(to') : answer' = r /\ regs' = [regs EXCEPT !["eax"] = r]
    /\ stack' = SubSeq(stack, 7, Len(stack))
    /\ UNCHANGED <<call, result>>

popa ==
    /\ At("popa", "iret")
    /\ regs' = [r \in Registers |-> stack[CHOOSE i \in 1 .. 8 : Pushed[i] = r]]
    /\ stack' = SubSeq(stack, 9, Len(stack))
    /\ UNCHANGED <<call, to, answer, result>>

Return ==
    /\ At("iret", "done") /\ stack' = Tail(stack)
    /\ result' = unistd(call.name, regs["eax"], result.errno)
    /\ UNCHANGED <<call, regs, to, answer>>

Next == syscallN \/ Interrupt \/ pusha \/ push \/ Dispatch \/ popa \/ Return
Spec == Init /\ [][Next]_vars

-----------------------------------------------------------------------------
(***************************************************************************)
(* The handler named like the wrapper is called with the wrapper's         *)
(* arguments, and what it answers is what the caller gets, an error as -1. *)
(***************************************************************************)
CallReachesHandler ==
    pc = "done" =>
        /\ to.handler = call.name /\ to.args = call.args
        /\ result.ret = IF answer < 0 THEN -1 ELSE answer
=============================================================================
