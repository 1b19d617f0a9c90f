----------------------------- MODULE Interrupts -----------------------------
(***************************************************************************)
(* Hardware interrupts: the two 8259s as pic_remap sets them up and the    *)
(* dispatch of arch/i386/interrupts/idt.c and idt_asm.S, one port access   *)
(* of a handler at a time, while devices raise and withdraw requests.      *)
(*                                                                         *)
(* All gates are interrupt gates: a handler runs with interrupts off until *)
(* its iret, so there is at most one.                                      *)
(***************************************************************************)
EXTENDS Integers, Sequences, FiniteSetsExt

CONSTANTS Lines,      (* the IRQ lines devices drive                       *)
          Withdrawn,  (* those a device may take back unserved             *)
          MaxRaises   (* bound: requests in a behaviour                    *)

ASSUME InterruptsAssumption ==
  /\ Lines \subseteq 0 .. 15 \ {2}
  /\ Withdrawn \subseteq Lines
  /\ MaxRaises \in Nat

VARIABLES irr,      (* lines requesting, latched                           *)
          isr,      (* in service, of both chips; 2 is the master's cascade *)
          imr,      (* masked                                              *)
          cpu,      (* MAIN, ACK, or the vector being handled               *)
          asked,    (* what the master asked for when the processor saw it *)
          todo,     (* the port accesses the handler still has to do       *)
          raises    (* bound                                               *)

irq_vars == <<irr, isr, imr, cpu, asked, todo, raises>>

Master == 0 .. 7
Slave  == 8 .. 15
Cascade == 2

MAIN == 0   \* the main program runs
ACK  == 1   \* it is about to answer an interrupt

(* A line the chip would pass on: unmasked, and of higher priority than    *)
(* everything in service on the same chip.                                 *)
Eligible(reqs, chip) ==
  {q \in (reqs \cap chip) \ imr : \A s \in isr \cap chip : q < s}

SlaveAsks == Eligible(irr, Slave) # {}

Asking == Eligible(irr \cup (IF SlaveAsks THEN {Cascade} ELSE {}), Master)
-----------------------------------------------------------------------------
(* Devices *)

Raise(q) ==
  /\ raises < MaxRaises /\ q \notin irr
  /\ irr' = irr \cup {q} /\ raises' = raises + 1
  /\ UNCHANGED <<isr, imr, cpu, asked, todo>>

(* Somebody polled the device, or its line fell of itself. *)
Withdraw(q) ==
  /\ q \in irr
  /\ irr' = irr \ {q}
  /\ UNCHANGED <<isr, imr, cpu, asked, todo, raises>>

(* pic_remap's ICW2: IRQ q has vector 32 + q. *)
Vector(q) == 32 + q

(* The processor sees the request; it answers at its next instruction. *)
Interrupted ==
  /\ cpu = MAIN /\ Asking # {}
  /\ cpu' = ACK /\ asked' = Asking
  /\ UNCHANGED <<irr, isr, imr, todo, raises>>

(* The chips choose when the processor answers.  When the request is gone, *)
(* they answer with their lowest line and mark nothing: the master with    *)
(* IRQ 7, or, if the master still has the slave's request latched, the     *)
(* slave with IRQ 15, and then the master does have the cascade in service. *)
Answers ==
  IF Asking # {}
  THEN LET q == Min(Asking)
           s == Min(Eligible(irr, Slave))
       IN {IF q # Cascade THEN [vector |-> Vector(q), service |-> {q}]
           ELSE [vector |-> Vector(s), service |-> {Cascade, s}]}
  ELSE {[vector |-> Vector(7), service |-> {}]}
       \cup {[vector |-> Vector(15), service |-> {q}] : q \in asked \cap {Cascade}}
-----------------------------------------------------------------------------
(* The kernel *)

(* What pic_remap masks: all but the timer, the keyboard, the cascade and  *)
(* the mouse. *)
pic_remap == 0 .. 15 \ {0, 1, Cascade, 12}

(* ide_init unmasks the disk. *)
ide_init_unmask ==
  /\ cpu = MAIN /\ 14 \in imr
  /\ imr' = imr \ {14}
  /\ UNCHANGED <<irr, isr, cpu, asked, todo, raises>>

(* The vectors among 32 .. 47 that idt_init gives a stub of their own; all *)
(* other gates hold isr_default, which passes isr_handler vector -1.       *)
isr_stubs == {32, 33, 44, 46}

(* Mutants: no acknowledgement to the slave, none to the master, none to   *)
(* the slave for the disk.                                                 *)
Eoi_NoSlave(v)  == <<"eoi_master">>
Eoi_NoMaster(v) == IF v >= 40 THEN <<"eoi_slave">> ELSE <<"eoi_master">>
Eoi_NotDisk(v)  == IF v \in 40 .. 45 THEN <<"eoi_slave", "eoi_master">> ELSE <<"eoi_master">>
(* What isr_handler sends when the device's handler is back. *)
Eoi(v) == IF v >= 40 THEN <<"eoi_slave", "eoi_master">> ELSE <<"eoi_master">>

(* The handler of the mouse acknowledges its interrupt itself, too; the    *)
(* other device handlers do not touch the PICs.                            *)
DeviceHandler(v) == IF v = 44 THEN <<"eoi_slave", "eoi_master">> ELSE <<>>

isr_handler(v) == IF v \in isr_stubs THEN DeviceHandler(v) \o Eoi(v) ELSE <<>>

(* The gate clears the interrupt flag and the stub calls isr_handler. *)
Enter(a) ==
  /\ cpu = ACK
  /\ cpu' = a.vector /\ asked' = {}
  /\ isr' = isr \cup a.service
  /\ irr' = irr \ a.service
  /\ todo' = isr_handler(a.vector)
  /\ UNCHANGED <<imr, raises>>

(* An unspecific end of interrupt ends the highest priority in service. *)
Ended(chip) == {q \in isr \cap chip : \A s \in isr \cap chip : q <= s}

SendEoi ==
  /\ todo # <<>>
  /\ isr' = isr \ Ended(IF Head(todo) = "eoi_slave" THEN Slave ELSE Master)
  /\ todo' = Tail(todo)
  /\ UNCHANGED <<irr, imr, cpu, asked, raises>>

Iret ==
  /\ cpu \notin {MAIN, ACK} /\ todo = <<>>
  /\ cpu' = MAIN
  /\ UNCHANGED <<irr, isr, imr, asked, todo, raises>>

IrqInit ==
  /\ irr = {} /\ isr = {} /\ imr = pic_remap
  /\ cpu = MAIN /\ asked = {} /\ todo = <<>> /\ raises = 0

Processor == Interrupted \/ (\E a \in Answers : Enter(a)) \/ SendEoi \/ Iret

IrqNext ==
  \/ \E q \in Lines : Raise(q)
  \/ \E q \in Withdrawn : Withdraw(q)
  \/ Processor
  \/ ide_init_unmask

(* The processor runs and takes interrupts; devices do as they like. *)
IrqSpec == IrqInit /\ [][IrqNext]_irq_vars /\ WF_irq_vars(Processor) /\ WF_irq_vars(ide_init_unmask)
-----------------------------------------------------------------------------
(* Properties *)

Vectors == 32 .. 47

IrqTypeOK ==
  /\ irr \subseteq Lines
  /\ isr \subseteq Lines \cup {Cascade}
  /\ imr \subseteq 0 .. 15
  /\ cpu \in {MAIN, ACK} \cup Vectors
  /\ asked \subseteq Lines \cup {Cascade}
  /\ todo \in Seq({"eoi_slave", "eoi_master"})

(* The bits a vector's handler may clear. *)
Own(v) == {v - 32} \cup (IF v >= 40 THEN {Cascade} ELSE {})

(* When no handler runs nothing is in service: every interrupt taken was   *)
(* acknowledged at each chip that serves it, so that no line is blocked    *)
(* for good.                                                               *)
AllAcknowledged == cpu \in {MAIN, ACK} => isr = {}

(* An acknowledgement ends the interrupt being handled and no other, even  *)
(* though it does not name one and the mouse's is sent twice.              *)
AcknowledgesItsOwn == [][isr \ isr' \subseteq IF cpu \in Vectors THEN Own(cpu) ELSE {}]_irq_vars

(* A request that stays is served, whatever else comes in: the mouse, the  *)
(* disk, the keyboard and the timer do not block each other.               *)
RequestsAreServed == \A q \in Lines : q \in irr ~> q \notin irr
=============================================================================
