----------------------------- MODULE ModeSwitch -----------------------------
(***************************************************************************)
(* The 16-bit executer (mod-switcher.asm): the way from the paged kernel   *)
(* to real mode, where it calls a program that uses the BIOS, and back.    *)
(* Interrupts are on during the call and again at the end, so that each    *)
(* of its instructions may be the one before which an interrupt comes.     *)
(***************************************************************************)
EXTENDS Sequences

(* The processor: the interrupt flag, both modes' switches, the tables in  *)
(* use, the sizes of the code and data segments, and the stack; saved is   *)
(* what the routine keeps in its own memory.                               *)
Loaded == [IF |-> FALSE, PE |-> TRUE, PG |-> FALSE, cr3 |-> "none", gdt |-> "loader",
           idt |-> "none", code |-> "32", data |-> "32", stack |-> "loader",
           saved |-> << >>, fault |-> FALSE]

(* Mutant: interrupts are on before the kernel's table is back. *)
Routine_StiFirst ==
    <<"save", "DATA32", "own stack", "cli", "clear PG", "clear cr3", "lgdt", "jmp CODE16",
      "DATA16", "clear PE", "jmp real", "zero segments", "lidt ivt", "sti", "call", "cli",
      "set PE", "jmp CODE32", "DATA32", "cr3", "set PG", "sti", "lidt saved", "saved stack">>
Routine ==
    <<"save", "DATA32", "own stack", "cli", "clear PG", "clear cr3", "lgdt", "jmp CODE16",
      "DATA16", "clear PE", "jmp real", "zero segments", "lidt ivt", "sti", "call", "cli",
      "set PE", "jmp CODE32", "DATA32", "cr3", "set PG", "lidt saved", "sti", "saved stack">>

(* What an instruction needs: selector 0x18 is 16-bit code in the          *)
(* routine's own descriptor table only, real mode is left and entered      *)
(* without paging, and paging wants a directory.                           *)
Allowed(m, i) ==
    CASE i = "jmp CODE16" -> m.PE /\ m.gdt = "switcher"
      [] i = "clear PE"   -> ~m.PG /\ m.code = "16"
      [] i = "jmp CODE32" -> m.PE
      [] i = "set PG"     -> m.PE /\ m.cr3 = "kernel"
      [] i = "jmp real"   -> ~m.PE
      [] OTHER            -> TRUE

Effect(m, i) ==
    CASE i = "save"     -> [m EXCEPT !.saved = <<m.cr3, m.idt, m.stack>>]
      [] i = "DATA32"   -> [m EXCEPT !.data = "32"]
      [] i = "own stack" -> [m EXCEPT !.stack = "RM_STACK_TOP"]
      [] i = "cli"      -> [m EXCEPT !.IF = FALSE]
      [] i = "sti"      -> [m EXCEPT !.IF = TRUE]
      [] i = "clear PG" -> [m EXCEPT !.PG = FALSE]
      [] i = "set PG"   -> [m EXCEPT !.PG = TRUE]
      [] i = "clear cr3" -> [m EXCEPT !.cr3 = "none"]
      [] i = "cr3"      -> [m EXCEPT !.cr3 = m.saved[1]]
      [] i = "lgdt"     -> [m EXCEPT !.gdt = "switcher"]
      [] i = "jmp CODE16" -> [m EXCEPT !.code = "16"]
      [] i = "jmp CODE32" -> [m EXCEPT !.code = "32"]
      [] i = "jmp real" -> [m EXCEPT !.code = "real"]
      [] i = "DATA16"   -> [m EXCEPT !.data = "16"]
      [] i = "zero segments" -> [m EXCEPT !.data = "real"]
      [] i = "clear PE" -> [m EXCEPT !.PE = FALSE]
      [] i = "set PE"   -> [m EXCEPT !.PE = TRUE]
      [] i = "lidt ivt" -> [m EXCEPT !.idt = "ivt"]
      [] i = "lidt saved"  -> [m EXCEPT !.idt = m.saved[2]]
      [] i = "saved stack" -> [m EXCEPT !.stack = m.saved[3]]
      [] OTHER          -> m

Exec(m, i) == IF Allowed(m, i) THEN Effect(m, i) ELSE [m EXCEPT !.fault = TRUE]

(* The processor finds a handler that runs in the mode it is in, and a     *)
(* stack it can use.                                                       *)
Dispatches(m) ==
    \/ m.PE /\ m.PG /\ m.cr3 = "kernel" /\ m.idt = "kernel" /\ m.code = "32" /\ m.data = "32"
       /\ m.gdt \in {"kernel", "switcher"}
    \/ ~m.PE /\ ~m.PG /\ m.idt = "ivt" /\ m.code = "real" /\ m.data = "real"
       /\ m.stack = "RM_STACK_TOP"

(* What the kernel relies on around a call of the routine; the descriptor  *)
(* table is not given back (the instructions for it are commented out).    *)
KernelsView(m) == <<m.PE, m.PG, m.cr3, m.idt, m.code, m.data, m.stack>>
=============================================================================
