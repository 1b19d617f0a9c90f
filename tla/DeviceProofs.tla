---------------------------- MODULE DeviceProofs ----------------------------
(***************************************************************************)
(* Proofs about Interrupts and Ide, the dispatch of interrupts and the     *)
(* driver that sleeps until the drive's comes.                             *)
(***************************************************************************)
EXTENDS Interrupts, Ide, SequenceTheorems, TLAPS

-----------------------------------------------------------------------------
(***************************************************************************)
(* Interrupts, for all lines and any number of requests, as long as no     *)
(* line of the slave is withdrawn: a withdrawn one comes in as IRQ 15,     *)
(* which nothing acknowledges.                                             *)
(*                                                                         *)
(* The argument: what is in service and what the handler still has to do   *)
(* go together (InStep).  A handler starts with exactly its own interrupt  *)
(* in service, and every acknowledgement it has left ends one bit of that  *)
(* or finds its chip idle.  That needs to know that a cascade request seen *)
(* at the master is still there when the processor answers.                *)
(***************************************************************************)
NoSlaveWithdrawn == Withdrawn \subseteq Master

(* The slave's lines that are requested and not masked. *)
Waiting == (irr \cap Slave) \ imr

(* The states a handler of vector v goes through. *)
Phase(v, service, left) ==
  \/ v \in {32, 33, 39, 44, 46} /\ service = {} /\ left = <<>>
  \/ v \in {32, 33} /\ service = {v - 32} /\ left = <<"eoi_master">>
  \/ v = 44 /\ service = {Cascade, 12} /\ left = <<"eoi_slave", "eoi_master", "eoi_slave", "eoi_master">>
  \/ v = 46 /\ service = {Cascade, 14} /\ left = <<"eoi_slave", "eoi_master">>
  \/ v = 44 /\ service = {Cascade} /\ left = <<"eoi_master", "eoi_slave", "eoi_master">>
  \/ v = 44 /\ service = {} /\ left = <<"eoi_slave", "eoi_master">>
  \/ v = 44 /\ service = {} /\ left = <<"eoi_master">>
  \/ v = 46 /\ service = {Cascade} /\ left = <<"eoi_master">>

InStep ==
  /\ cpu \in {MAIN, ACK} => isr = {} /\ todo = <<>>
  /\ cpu \notin {MAIN, ACK} => Phase(cpu, isr, todo)

(* The inductive invariant. *)
IrqInv ==
  /\ irr \subseteq Lines
  /\ pic_remap \ {14} \subseteq imr /\ imr \subseteq pic_remap
  /\ cpu = ACK /\ Cascade \in asked => Waiting # {}
  /\ InStep

-----------------------------------------------------------------------------
(* The sequences of acknowledgements: what the provers know of tuples when  *)
(* their elements are arbitrary.                                           *)
LEMMA Tuples ==
  ASSUME NEW x, NEW y
  PROVE  /\ Head(<<x>>) = x /\ Tail(<<x>>) = <<>> /\ <<>> \o <<x>> = <<x>>
         /\ Head(<<x, y>>) = x /\ Tail(<<x, y>>) = <<y>> /\ <<>> \o <<x, y>> = <<x, y>>
         /\ Head(<<x, y, x>>) = x /\ Tail(<<x, y, x>>) = <<y, x>>
         /\ Head(<<x, y, x, y>>) = x /\ Tail(<<x, y, x, y>>) = <<y, x, y>>
<1>1. Head(<<x>>) = x /\ Head(<<x, y>>) = x
  OBVIOUS
<1>2. Head(<<x, y, x>>) = x /\ Head(<<x, y, x, y>>) = x
  OBVIOUS
<1>3. Tail(<<x>>) = <<>>
  OBVIOUS
<1>4. Tail(<<x, y>>) = <<y>>
  OBVIOUS
<1>5. Tail(<<x, y, x>>) = <<y, x>>
  OBVIOUS
<1>6. Tail(<<x, y, x, y>>) = <<y, x, y>>
  OBVIOUS
<1>7. <<>> \o <<x>> = <<x>>
  OBVIOUS
<1>8. <<>> \o <<x, y>> = <<x, y>>
  OBVIOUS
<1>9. QED
  BY <1>1, <1>2, <1>3, <1>4, <1>5, <1>6, <1>7, <1>8

LEMMA TwicePair ==
  ASSUME NEW x, NEW y
  PROVE  <<x, y>> \o <<x, y>> = <<x, y, x, y>>
<1> DEFINE S == {x, y}
           s == <<x, y>>
           t == s \o s
           u == <<x, y, x, y>>
<1>1. s \in Seq(S) /\ Len(s) = 2 /\ s[1] = x /\ s[2] = y
  OBVIOUS
<1>2. u \in Seq(S) /\ Len(u) = 4 /\ u[1] = x /\ u[2] = y /\ u[3] = x /\ u[4] = y
  OBVIOUS
<1> HIDE DEF S, s, u
<1>3. t \in Seq(S) /\ Len(t) = Len(s) + Len(s)
  BY <1>1, ConcatProperties
<1>4. \A k \in 1 .. Len(s) + Len(s) : t[k] = IF k <= Len(s) THEN s[k] ELSE s[k - Len(s)]
  BY <1>1, ConcatProperties
<1> HIDE DEF t
<1>5. t[1] = s[1] /\ t[2] = s[2] /\ t[3] = s[1] /\ t[4] = s[2]
  BY <1>1, <1>4
<1>6. \A k \in 1 .. 4 : t[k] = u[k]
  BY <1>1, <1>2, <1>5
<1>7. t = u
  BY <1>1, <1>2, <1>3, <1>6
<1>8. QED
  BY <1>7 DEF s, t, u

LEMMA MinOfFew ==
  ASSUME NEW S \in SUBSET {0, 1, 2, 12, 14}, S # {}
  PROVE  Min(S) \in S
<1>1. \E x \in S : \A y \in S : x <= y
  <2>1. CASE 0 \in S
    BY <2>1
  <2>2. CASE 0 \notin S /\ 1 \in S
    BY <2>2
  <2>3. CASE 0 \notin S /\ 1 \notin S /\ 2 \in S
    BY <2>3
  <2>4. CASE 0 \notin S /\ 1 \notin S /\ 2 \notin S /\ 12 \in S
    BY <2>4
  <2>5. CASE S = {14}
    BY <2>5
  <2>6. QED
    BY <2>1, <2>2, <2>3, <2>4, <2>5
<1>2. QED
  BY <1>1 DEF Min

(* With nothing in service, the lines that can be asked for are the ones   *)
(* the code unmasks.                                                       *)
LEMMA WhatCanBeAsked ==
  ASSUME IrqInv, isr = {}
  PROVE  /\ Eligible(irr, Slave) = Waiting
         /\ Waiting \subseteq {12, 14}
         /\ Asking \subseteq {0, 1, 2}
         /\ Cascade \in Asking => Waiting # {}
         /\ Waiting # {} => Cascade \in Asking
<1>1. Eligible(irr, Slave) = Waiting
  BY DEF Eligible, Waiting
<1>2. Lines \subseteq 0 .. 15 \ {2}
  BY InterruptsAssumption
<1>3. Waiting \subseteq {12, 14}
  BY <1>2 DEF IrqInv, Waiting, pic_remap, Slave, Cascade
<1>4. Asking \subseteq {0, 1, 2}
  BY <1>2 DEF IrqInv, Asking, Eligible, pic_remap, Master, Cascade
<1>5. Cascade \in Asking => Waiting # {}
  BY <1>1, <1>2 DEF IrqInv, Asking, Eligible, SlaveAsks, Cascade
<1>6. Waiting # {} => Cascade \in Asking
  <2>1. Cascade \notin imr
    BY DEF IrqInv, pic_remap, Cascade
  <2>2. QED
    BY <1>1, <2>1 DEF Asking, Eligible, SlaveAsks, Cascade, Master
<1>7. QED
  BY <1>1, <1>3, <1>4, <1>5, <1>6

(* What the chips answer with: an interrupt of their own, in service, or a *)
(* spurious IRQ 7.                                                         *)
LEMMA WhatIsAnswered ==
  ASSUME IrqInv, cpu = ACK, NEW a \in Answers
  PROVE  Phase(a.vector, a.service, isr_handler(a.vector))
<1>1. isr = {}
  BY DEF IrqInv, InStep
<1>2. CASE Asking = {}
  <2>1. Cascade \notin asked
    BY <1>1, <1>2, WhatCanBeAsked DEF IrqInv
  <2>2. a = [vector |-> Vector(7), service |-> {}]
    BY <1>2, <2>1 DEF Answers
  <2>3. a.vector = 39 /\ a.service = {}
    BY <2>2 DEF Vector
  <2>4. isr_handler(39) = <<>>
    BY DEF isr_handler, isr_stubs
  <2>5. QED
    BY <2>3, <2>4 DEF Phase
<1>3. CASE Asking # {} /\ Min(Asking) # Cascade
  <2>1. Min(Asking) \in {0, 1}
    BY <1>1, <1>3, WhatCanBeAsked, MinOfFew DEF Cascade
  <2>2. a = [vector |-> Vector(Min(Asking)), service |-> {Min(Asking)}]
    BY <1>3 DEF Answers
  <2>3. a.vector \in {32, 33} /\ a.service = {a.vector - 32}
    BY <2>1, <2>2 DEF Vector
  <2>4. isr_handler(32) = <<"eoi_master">> /\ isr_handler(33) = <<"eoi_master">>
    BY Tuples DEF isr_handler, isr_stubs, DeviceHandler, Eoi
  <2>5. QED
    BY <2>3, <2>4 DEF Phase
<1>4. CASE Asking # {} /\ Min(Asking) = Cascade
  <2> DEFINE s == Min(Eligible(irr, Slave))
  <2>1. Cascade \in Asking
    BY <1>1, <1>4, WhatCanBeAsked, MinOfFew
  <2>2. s \in {12, 14}
    BY <1>1, <2>1, WhatCanBeAsked, MinOfFew
  <2>3. a = [vector |-> Vector(s), service |-> {Cascade, s}]
    BY <1>4 DEF Answers
  <2> HIDE DEF s
  <2>4. a.vector \in {44, 46} /\ a.service = {Cascade, a.vector - 32}
    BY <2>2, <2>3 DEF Vector
  <2>5. isr_handler(44) = <<"eoi_slave", "eoi_master", "eoi_slave", "eoi_master">>
    BY TwicePair DEF isr_handler, isr_stubs, DeviceHandler, Eoi
  <2>6. isr_handler(46) = <<"eoi_slave", "eoi_master">>
    BY Tuples DEF isr_handler, isr_stubs, DeviceHandler, Eoi
  <2>7. QED
    BY <2>4, <2>5, <2>6 DEF Phase
<1>5. QED
  BY <1>2, <1>3, <1>4

(* One acknowledgement takes a handler to its next state, and ends nothing *)
(* but the handler's own interrupt.                                        *)
LEMMA EoiStep ==
  ASSUME IrqInv, SendEoi
  PROVE  Phase(cpu, isr', todo') /\ isr \ isr' \subseteq Own(cpu) /\ cpu \in Vectors
<1> DEFINE m == "eoi_master"
           e == "eoi_slave"
           chip == IF Head(todo) = e THEN Slave ELSE Master
<1>1. todo # <<>> /\ Phase(cpu, isr, todo)
  BY DEF IrqInv, InStep, SendEoi
<1>2. isr' = isr \ Ended(chip) /\ todo' = Tail(todo)
  BY DEF SendEoi
<1>m. /\ Head(<<m>>) = m /\ Tail(<<m>>) = <<>>
      /\ Head(<<m, e, m>>) = m /\ Tail(<<m, e, m>>) = <<e, m>>
  BY Tuples
<1>e. /\ Head(<<e, m>>) = e /\ Tail(<<e, m>>) = <<m>>
      /\ Head(<<e, m, e, m>>) = e /\ Tail(<<e, m, e, m>>) = <<m, e, m>>
  BY Tuples
<1>3. CASE cpu \in {32, 33} /\ isr = {cpu - 32} /\ todo = <<m>>
  <2>1. chip = Master /\ todo' = <<>>
    BY <1>2, <1>3, <1>m
  <2>2. Ended(Master) = {cpu - 32}
    <3>1. CASE cpu = 32 /\ isr = {0}
      BY <3>1 DEF Ended, Master
    <3>2. CASE cpu = 33 /\ isr = {1}
      BY <3>2 DEF Ended, Master
    <3>3. QED
      BY <1>3, <3>1, <3>2
  <2>3. isr' = {}
    BY <1>2, <1>3, <2>1, <2>2
  <2>4. isr \ isr' \subseteq Own(cpu)
    BY <1>3 DEF Own
  <2>5. QED
    BY <1>3, <2>1, <2>3, <2>4 DEF Phase, Vectors
<1>4. CASE \/ cpu = 44 /\ isr = {Cascade, 12} /\ todo = <<e, m, e, m>>
           \/ cpu = 46 /\ isr = {Cascade, 14} /\ todo = <<e, m>>
  <2>1. Head(todo) = e /\ todo' = IF cpu = 44 THEN <<m, e, m>> ELSE <<m>>
    <3>1. CASE cpu = 44
      <4>1. todo = <<e, m, e, m>>
        BY <1>4, <3>1
      <4>2. QED
        BY <1>2, <1>e, <3>1, <4>1
    <3>2. CASE cpu # 44
      <4>1. todo = <<e, m>>
        BY <1>4, <3>2
      <4>2. QED
        BY <1>2, <1>e, <3>2, <4>1
    <3>3. QED
      BY <3>1, <3>2
  <2>2. Ended(Slave) = {cpu - 32}
    BY <1>4 DEF Ended, Slave, Cascade
  <2>3. isr' = {Cascade}
    BY <1>2, <1>4, <2>1, <2>2 DEF Cascade
  <2>4. isr \ isr' \subseteq Own(cpu)
    BY <1>4, <2>3 DEF Own
  <2>5. QED
    BY <1>4, <2>1, <2>3, <2>4 DEF Phase, Vectors
<1>5. CASE isr = {Cascade} /\ \/ cpu = 44 /\ todo = <<m, e, m>>
                              \/ cpu = 46 /\ todo = <<m>>
  <2>1. Head(todo) = m /\ todo' = IF cpu = 44 THEN <<e, m>> ELSE <<>>
    <3>1. CASE cpu = 44
      <4>1. todo = <<m, e, m>>
        BY <1>5, <3>1
      <4>2. QED
        BY <1>2, <1>m, <3>1, <4>1
    <3>2. CASE cpu # 44
      <4>1. todo = <<m>>
        BY <1>5, <3>2
      <4>2. QED
        BY <1>2, <1>m, <3>2, <4>1
    <3>3. QED
      BY <3>1, <3>2
  <2>2. Ended(Master) = {Cascade}
    BY <1>5 DEF Ended, Master, Cascade
  <2>3. isr' = {}
    BY <1>2, <1>5, <2>1, <2>2
  <2>4. isr \ isr' \subseteq Own(cpu)
    BY <1>5 DEF Own
  <2>5. QED
    BY <1>5, <2>1, <2>3, <2>4 DEF Phase, Vectors
<1>6. CASE cpu = 44 /\ isr = {} /\ todo \in {<<e, m>>, <<m>>}
  <2>1. isr' = {}
    BY <1>2, <1>6
  <2>2. todo' \in {<<m>>, <<>>}
    BY <1>2, <1>6, <1>m, <1>e
  <2>3. QED
    BY <1>6, <2>1, <2>2 DEF Phase, Own, Vectors
<1>7. QED
  BY <1>1, <1>3, <1>4, <1>5, <1>6 DEF Phase

LEMMA InitIInv == IrqInit => IrqInv
BY DEF IrqInit, IrqInv, InStep, pic_remap, MAIN, ACK

LEMMA NextIInv == NoSlaveWithdrawn /\ IrqInv /\ [IrqNext]_irq_vars => IrqInv'
<1> SUFFICES ASSUME NoSlaveWithdrawn, IrqInv, [IrqNext]_irq_vars
             PROVE  IrqInv'
  OBVIOUS
<1> USE DEF InStep
<1>1. ASSUME NEW q \in Lines, Raise(q) PROVE IrqInv'
  BY <1>1 DEF IrqInv, Raise, Waiting
<1>2. ASSUME NEW q \in Withdrawn, Withdraw(q) PROVE IrqInv'
  <2>1. q \notin Slave
    BY <1>2 DEF NoSlaveWithdrawn, Master, Slave
  <2>2. QED
    BY <1>2, <2>1 DEF IrqInv, Withdraw, Waiting
<1>3. CASE Interrupted
  <2>1. isr = {} /\ asked' = Asking
    BY <1>3 DEF IrqInv, Interrupted
  <2>2. Cascade \in Asking => Waiting # {}
    BY <2>1, WhatCanBeAsked
  <2>3. QED
    BY <1>3, <2>1, <2>2 DEF IrqInv, Interrupted, Waiting, MAIN, ACK
<1>4. ASSUME NEW a \in Answers, Enter(a) PROVE IrqInv'
  <2>1. Phase(a.vector, a.service, isr_handler(a.vector))
    BY <1>4, WhatIsAnswered DEF Enter
  <2>2. cpu' = a.vector /\ isr' = a.service /\ todo' = isr_handler(a.vector)
    BY <1>4 DEF IrqInv, Enter
  <2>3. cpu' \notin {MAIN, ACK}
    BY <2>1, <2>2 DEF Phase, MAIN, ACK
  <2>4. InStep'
    BY <2>1, <2>2, <2>3
  <2>5. QED
    BY <1>4, <2>3, <2>4 DEF IrqInv, Enter
<1>5. CASE SendEoi
  <2>1. Phase(cpu, isr', todo') /\ cpu' = cpu /\ cpu \in Vectors
    BY <1>5, EoiStep DEF SendEoi
  <2>2. cpu \notin {MAIN, ACK}
    BY <2>1 DEF Vectors, MAIN, ACK
  <2>3. InStep'
    BY <2>1, <2>2
  <2>4. QED
    BY <1>5, <2>2, <2>3 DEF IrqInv, SendEoi
<1>6. CASE Iret
  <2>1. Phase(cpu, isr, todo) /\ todo = <<>>
    BY <1>6 DEF IrqInv, Iret
  <2>2. isr = {}
    BY <2>1 DEF Phase
  <2>3. QED
    BY <1>6, <2>2 DEF IrqInv, Iret, MAIN, ACK
<1>7. CASE ide_init_unmask
  BY <1>7 DEF IrqInv, ide_init_unmask, pic_remap, MAIN, ACK
<1>8. CASE UNCHANGED irq_vars
  BY <1>8 DEF IrqInv, irq_vars, Waiting
<1>9. QED
  BY <1>1, <1>2, <1>3, <1>4, <1>5, <1>6, <1>7, <1>8 DEF IrqNext, Processor

-----------------------------------------------------------------------------
THEOREM InterruptsInvariant == NoSlaveWithdrawn => (IrqSpec => []IrqInv)
<1>1. SUFFICES ASSUME NoSlaveWithdrawn PROVE IrqSpec => []IrqInv
  OBVIOUS
<1>2. IrqInv /\ [IrqNext]_irq_vars => IrqInv'
  BY <1>1, NextIInv
<1>3. QED
  BY <1>2, InitIInv, PTL DEF IrqSpec

(* When no handler runs, nothing is left in service at either chip: no     *)
(* line is blocked for good, however the requests fall (isr_handler of     *)
(* idt.c acknowledges on every path it can be entered by).                 *)
THEOREM EveryInterruptIsAcknowledged == NoSlaveWithdrawn => (IrqSpec => []AllAcknowledged)
<1>1. SUFFICES ASSUME NoSlaveWithdrawn PROVE IrqSpec => []AllAcknowledged
  OBVIOUS
<1>2. IrqInv => AllAcknowledged
  BY DEF IrqInv, InStep, AllAcknowledged
<1>3. IrqSpec => []IrqInv
  BY <1>1, InterruptsInvariant
<1>4. QED
  BY <1>2, <1>3, PTL

(* An acknowledgement ends the interrupt being handled and no other,       *)
(* although isr_mouse sends one and isr_handler another.                   *)
THEOREM OnlyItsOwnIsAcknowledged == NoSlaveWithdrawn => (IrqSpec => AcknowledgesItsOwn)
<1> DEFINE Own1 == isr \ isr' \subseteq IF cpu \in Vectors THEN Own(cpu) ELSE {}
<1>1. SUFFICES ASSUME NoSlaveWithdrawn PROVE IrqSpec => AcknowledgesItsOwn
  OBVIOUS
<1>2. IrqInv /\ [IrqNext]_irq_vars => [Own1]_irq_vars
  <2>1. SUFFICES ASSUME IrqInv, IrqNext PROVE Own1
    OBVIOUS
  <2>2. CASE SendEoi
    BY <2>1, <2>2, EoiStep
  <2>3. CASE ~ SendEoi
    <3>1. isr \subseteq isr'
      BY <2>1, <2>3 DEF IrqNext, Processor, Raise, Withdraw, Interrupted, Enter, Iret, ide_init_unmask
    <3>2. QED
      BY <3>1
  <2>4. QED
    BY <2>2, <2>3
<1>3. IrqSpec => []IrqInv
  BY <1>1, InterruptsInvariant
<1>4. QED
  BY <1>2, <1>3, PTL DEF IrqSpec, AcknowledgesItsOwn

-----------------------------------------------------------------------------
(***************************************************************************)
(* Ide, for every disk, every set of faulty sectors and calls of any       *)
(* length.                                                                 *)
(*                                                                         *)
(* When the driver wakes the drive is done: this needs nothing of the      *)
(* drive.  That a call leaves in the buffer or on the disk what it says    *)
(* needs that no poll gives up on a busy drive (NoTimeouts).  The argument *)
(* is then a table: for each place of the driver what the drive can be     *)
(* doing (Engaged), and how many sectors are done (Moved).                 *)
(***************************************************************************)
NoTimeouts == ~Timeouts

Polling == {"drq", "transfer", "clear", "spin", "check"}
InCall  == {"ready", "command"} \union Polling

(* What a call carries, and that only a call of an attached drive waits.   *)
Carried ==
  /\ lba \in Nat
  /\ DOMAIN buffer = 0 .. MaxCount - 1
  /\ op = "write" => \A k \in 0 .. MaxCount - 1 : buffer[k] = Written(k)
  /\ pc \in InCall => attached /\ i < count
  /\ attached => ~masked
  /\ pc = "check" => op = "write"

(* A driver that waits is woken by the interrupt of what it waits for:     *)
(* none is left from before the flag was cleared.                          *)
Woken == pc = "spin" /\ (ide_irq_fired \/ irq) => ~drive.bsy

Awake == TypeOK /\ Carried /\ Woken /\ AwakeMeansDone

-----------------------------------------------------------------------------
(* The state of the drive, and how it changes.                             *)
Drive == [bsy : BOOLEAN, drq : BOOLEAN, err : BOOLEAN, at : Nat, data : Int,
          cmd : {"none", "read", "write", "store", "identify"}]

(* What TypeOK says of everything else. *)
Rest ==
  /\ DOMAIN disk = Lbas /\ irq \in BOOLEAN /\ masked \in BOOLEAN
  /\ ide_irq_fired \in BOOLEAN /\ attached \in BOOLEAN
  /\ pc \in {"init_identify", "init_drq", "idle", "crash"} \union InCall
  /\ op \in {"read", "write"} /\ result \in {0, -1}
  /\ count \in 0 .. MaxCount /\ i \in 0 .. count

LEMMA TypeParts == TypeOK <=> drive \in Drive /\ Rest
  BY DEF TypeOK, Drive, Rest, InCall, Polling

LEMMA TypePartsNext == TypeOK' <=> drive' \in Drive /\ Rest'
  BY DEF TypeOK, Drive, Rest, InCall, Polling

LEMMA InitAwake == Init => Awake
<1> SUFFICES ASSUME Init PROVE Awake
  OBVIOUS
<1>1. drive \in Drive
  BY DEF Init, Idle, Absent, Drive
<1>2. Rest
  <2>1. DOMAIN disk = Lbas /\ irq \in BOOLEAN /\ masked \in BOOLEAN
        /\ ide_irq_fired \in BOOLEAN /\ attached \in BOOLEAN
    BY DEF Init
  <2>2. pc = "init_identify" /\ op = "read" /\ result = -1 /\ count = 0 /\ i = 0
    BY DEF Init
  <2>3. count \in 0 .. MaxCount /\ i \in 0 .. count
    BY <2>2, IdeAssumption
  <2>4. QED
    BY <2>1, <2>2, <2>3 DEF Rest
<1>3. Carried
  BY IdeAssumption DEF Init, Carried, InCall, Polling
<1>4. Woken /\ AwakeMeansDone
  BY DEF Init, Woken, AwakeMeansDone
<1>5. QED
  BY <1>1, <1>2, <1>3, <1>4, TypeParts DEF Awake

LEMMA DeviceAwake ==
  ASSUME Awake, Device
  PROVE  Awake'
<1>1. /\ drive' \in Drive /\ ~drive'.bsy /\ DOMAIN disk' = Lbas /\ irq' \in BOOLEAN
      /\ UNCHANGED <<masked, ide_irq_fired, attached, pc, op, lba, count, i, buffer, result>>
  <2>1. drive \in Drive /\ DOMAIN disk = Lbas /\ irq \in BOOLEAN
    BY TypeParts DEF Awake, Rest
  <2>2. CASE DriveHasData
    BY <2>1, <2>2 DEF DriveHasData, Silent, call, Drive
  <2>3. CASE DriveAsks
    BY <2>1, <2>3 DEF DriveAsks, Silent, call, Drive
  <2>4. CASE DriveStores
    BY <2>1, <2>4 DEF DriveStores, Silent, call, Drive
  <2>5. CASE DriveFails
    BY <2>1, <2>5 DEF DriveFails, Silent, call, Drive
  <2>6. QED
    BY <2>2, <2>3, <2>4, <2>5 DEF Device
<1>2. Rest'
  BY <1>1, TypeParts DEF Awake, Rest
<1>3. Carried'
  BY <1>1 DEF Awake, Carried
<1>4. QED
  BY <1>1, <1>2, <1>3, TypePartsNext DEF Awake, Woken, AwakeMeansDone

LEMMA HandlerAwake ==
  ASSUME Awake, ide_irq_handler
  PROVE  Awake'
<1> USE DEF Awake, ide_irq_handler, call
<1>1. TypeOK'
  BY TypeParts, TypePartsNext DEF Rest
<1>2. Carried'
  BY DEF Carried
<1>3. QED
  BY <1>1, <1>2 DEF Woken, AwakeMeansDone

LEMMA CallAwake ==
  ASSUME Awake, NEW o \in {"read", "write"}, NEW l \in Lbas, NEW c \in 0 .. MaxCount, Call(o, l, c)
  PROVE  Awake'
<1> USE IdeAssumption DEF Awake, Call, hardware
<1>1. TypeOK'
  <2>1. drive' \in Drive
    BY TypeParts
  <2>2. Rest'
    BY TypeParts DEF Rest, InCall
  <2>3. QED
    BY <2>1, <2>2, TypePartsNext
<1>2. Carried'
  BY DEF Carried, Written, InCall, Polling
<1>3. pc' \in {"crash", "idle", "ready"}
  OBVIOUS
<1>4. QED
  BY <1>1, <1>2, <1>3 DEF Woken, AwakeMeansDone

(* The driver's steps. *)

LEMMA CommandAsks ==
  ASSUME NEW c \in {"read", "write", "identify"}, NEW l \in Nat, Command(c, l)
  PROVE  IF drive.bsy THEN drive' = drive
         ELSE drive' \in Drive /\ drive'.bsy /\ ~drive'.drq /\ ~drive'.err
              /\ drive'.cmd = c /\ drive'.at = l
<1>1. Idle \in Drive /\ ~Idle.drq /\ ~Idle.err
  BY DEF Idle, Drive
<1> DEFINE taken == [Idle EXCEPT !.bsy = TRUE, !.cmd = c, !.at = l]
<1>2. /\ taken \in Drive
      /\ taken.bsy /\ ~taken.drq /\ ~taken.err /\ taken.cmd = c /\ taken.at = l
  BY <1>1 DEF Drive
<1>3. QED
  BY <1>2 DEF Command

LEMMA DriverDrive ==
  ASSUME Awake, Driver
  PROVE  drive' \in Drive
<1>1. drive \in Drive /\ lba \in Nat
  BY TypeParts DEF Awake, Carried
<1>2. ASSUME NEW c \in {"read", "write", "identify"}, NEW l \in Nat, Command(c, l)
      PROVE  drive' \in Drive
  BY <1>1, <1>2, CommandAsks
<1>3. CASE InitIdentify
  BY <1>2, <1>3 DEF InitIdentify
<1>4. CASE SendCommand
  BY <1>1, <1>2, <1>4 DEF SendCommand, Awake, TypeOK
<1>5. CASE InitFinish \/ TransferIn
  BY <1>1, <1>5 DEF InitFinish, TransferIn, Drive
<1>6. CASE TransferOut
  <2>1. i \in 0 .. MaxCount - 1 /\ op = "write"
    BY <1>6, IdeAssumption DEF TransferOut, Awake, TypeOK, Carried, At, InCall, Polling
  <2>2. buffer[i] \in Int
    BY <2>1 DEF Awake, Carried, Written
  <2>3. QED
    BY <1>1, <1>6, <2>2 DEF TransferOut, Drive
<1>7. CASE ide_wait_ready \/ ClearFlag \/ Spin \/ ide_wait_drq \/ CheckWrite
  BY <1>1, <1>7 DEF ide_wait_ready, ClearFlag, Spin, ide_wait_drq, CheckWrite, hardware
<1>8. QED
  BY <1>3, <1>4, <1>5, <1>6, <1>7 DEF Driver

LEMMA DriverRest ==
  ASSUME Awake, Driver
  PROVE  Rest'
<1>1. Rest /\ lba \in Nat /\ (pc \in InCall => i < count)
  BY TypeParts DEF Awake, Carried
<1> USE <1>1 DEF hardware, call, Rest, At
<1>2. CASE InitIdentify
  BY <1>2 DEF InitIdentify
<1>3. CASE InitFinish
  BY <1>3 DEF InitFinish, ReadStatus
<1>4. CASE ide_wait_ready
  BY <1>4 DEF ide_wait_ready, ReadStatus, InCall
<1>5. CASE SendCommand
  BY <1>5 DEF SendCommand, InCall, Polling
<1>6. CASE ClearFlag
  BY <1>6 DEF ClearFlag, InCall, Polling
<1>7. CASE Spin
  BY <1>7 DEF Spin, InCall, Polling
<1>8. CASE ide_wait_drq
  BY <1>8 DEF ide_wait_drq, ReadStatus, Return, InCall, Polling
<1>9. ASSUME NextSector, pc \in InCall, irq' \in BOOLEAN,
             UNCHANGED <<disk, masked, ide_irq_fired, attached, op, count>>
      PROVE  Rest'
  BY <1>9 DEF NextSector, InCall
<1>10. CASE TransferIn
  BY <1>9, <1>10 DEF TransferIn, InCall, Polling
<1>11. CASE TransferOut
  BY <1>11 DEF TransferOut, InCall, Polling
<1>12. CASE CheckWrite
  <2>1. pc \in InCall /\ irq' \in BOOLEAN
    BY <1>12 DEF CheckWrite, ReadStatus, InCall, Polling
  <2>2. CASE drive.err
    BY <1>12, <2>1, <2>2 DEF CheckWrite, Return
  <2>3. CASE ~drive.err
    BY <1>9, <1>12, <2>1, <2>3 DEF CheckWrite
  <2>4. QED
    BY <2>2, <2>3
<1>13. QED
  BY <1>2, <1>3, <1>4, <1>5, <1>6, <1>7, <1>8, <1>10, <1>11, <1>12 DEF Driver

LEMMA DriverType ==
  ASSUME Awake, Driver
  PROVE  TypeOK'
  BY DriverDrive, DriverRest, TypePartsNext

LEMMA DriverCarried ==
  ASSUME Awake, Driver
  PROVE  Carried'
<1> USE DEF Awake, hardware, call, Carried, At, InCall, Polling, TypeOK
<1>1. CASE InitIdentify
  BY <1>1 DEF InitIdentify
<1>2. CASE InitFinish
  BY <1>2 DEF InitFinish
<1>3. CASE ide_wait_ready
  BY <1>3 DEF ide_wait_ready
<1>4. CASE SendCommand
  BY <1>4 DEF SendCommand
<1>5. CASE ClearFlag
  BY <1>5 DEF ClearFlag
<1>6. CASE Spin
  BY <1>6 DEF Spin
<1>7. CASE ide_wait_drq
  BY <1>7 DEF ide_wait_drq, Return
<1>8. CASE TransferIn
  BY <1>8 DEF TransferIn, NextSector
<1>9. CASE TransferOut
  BY <1>9 DEF TransferOut
<1>10. CASE CheckWrite
  <2>1. UNCHANGED <<op, count, buffer, attached, masked>>
    BY <1>10 DEF CheckWrite, Return
  <2>2. \/ pc' = "idle" /\ UNCHANGED lba
        \/ pc' = "idle" /\ lba' = lba + 1
        \/ pc' = "command" /\ lba' = lba + 1 /\ i' < count
    BY <1>10 DEF CheckWrite, NextSector, Return
  <2>3. QED
    BY <2>1, <2>2, <1>10 DEF CheckWrite
<1>11. QED
  BY <1>1, <1>2, <1>3, <1>4, <1>5, <1>6, <1>7, <1>8, <1>9, <1>10 DEF Driver

LEMMA DriverWoken ==
  ASSUME Awake, Driver
  PROVE  (Woken /\ AwakeMeansDone)'
<1> USE DEF Awake, hardware, call, Woken, AwakeMeansDone, At
<1>1. CASE InitIdentify \/ InitFinish \/ ide_wait_ready \/ TransferIn \/ TransferOut
  <2>1. pc' \notin {"spin", "drq", "check"}
    BY <1>1 DEF InitIdentify, InitFinish, ide_wait_ready, TransferIn, TransferOut, NextSector
  <2>2. QED
    BY <2>1
<1>2. CASE SendCommand
  BY <1>2 DEF SendCommand, TypeOK
<1>3. CASE ClearFlag
  BY <1>3 DEF ClearFlag, Running, Carried, InCall, Polling
<1>4. CASE Spin
  BY <1>4 DEF Spin
<1>5. CASE ide_wait_drq
  BY <1>5 DEF ide_wait_drq, Return
<1>6. CASE CheckWrite
  BY <1>6 DEF CheckWrite, NextSector, Return
<1>7. QED
  BY <1>1, <1>2, <1>3, <1>4, <1>5, <1>6 DEF Driver

LEMMA NextAwake == Awake /\ [Next]_vars => Awake'
<1> SUFFICES ASSUME Awake, [Next]_vars PROVE Awake'
  OBVIOUS
<1>1. CASE Driver
  BY <1>1, DriverType, DriverCarried, DriverWoken DEF Awake
<1>2. CASE UNCHANGED vars
  BY <1>2 DEF Awake, TypeOK, Carried, Woken, AwakeMeansDone, vars, hardware, call
<1>3. QED
  BY <1>1, <1>2, DeviceAwake, HandlerAwake, CallAwake DEF Next

-----------------------------------------------------------------------------
(* What a call has moved so far. *)
Copied == op = "read" => \A k \in 0 .. i - 1 : buffer[k] = disk[First + k]

Stored(n) == \A l \in Lbas :
  disk[l] = IF l \in First .. First + n - 1 THEN Written(l - First) ELSE before[l]

(* A sector that is stored counts before the driver has seen it. *)
Settled == pc \in {"clear", "spin", "check"} /\ ~drive.bsy /\ ~drive.err
Moved   == op = "write" /\ pc # "crash" => Stored(IF Settled THEN i + 1 ELSE i)

Outcome ==
  /\ pc \in InCall => result = -1
  /\ pc \in {"init_identify", "init_drq"} => result = -1 /\ count = 0
  /\ pc = "idle" => IF result = 0 THEN i = count ELSE i < count \/ count = 0

(* What the drive can be doing, by the place of the driver. *)
Reading == drive.cmd = "read" /\ (drive.bsy \/ lba \in Lbas)
Asks  == drive.cmd = "write" /\ (IF drive.bsy THEN ~drive.drq ELSE lba \in Lbas)
Storing == drive.bsy /\ drive.cmd = "store" /\ drive.data = Written(i)

Engaged ==
  /\ pc = "init_identify" => drive.cmd = "none"
  /\ pc = "init_drq" => drive.cmd = "none" \/ (drive.cmd = "identify" /\ ~drive.err)
  /\ pc \in {"idle", "crash", "ready"} => ~drive.bsy \/ drive.cmd = "none"
  /\ pc = "command" => ~drive.bsy
  /\ pc \in Polling => drive.at = lba /\ (drive.bsy => ~drive.err)
  /\ pc = "transfer" => ~drive.bsy /\ ~drive.err /\ drive.cmd = op /\ lba \in Lbas
  /\ pc = "drq" /\ op = "write" => drive.err \/ Asks
  /\ pc \in {"drq", "clear", "spin"} /\ op = "read" => drive.err \/ Reading
  /\ pc \in {"clear", "spin", "check"} /\ op = "write" => lba \in Lbas /\ (drive.bsy => Storing)

IInv == Awake /\ Copied /\ Moved /\ Outcome /\ Engaged

-----------------------------------------------------------------------------
LEMMA InitTransfers == Init => IInv
<1> SUFFICES ASSUME Init PROVE IInv
  OBVIOUS
<1>1. Copied /\ Moved /\ Outcome
  BY IdeAssumption DEF Init, Copied, Moved, Outcome, InCall, Polling
<1>2. drive.cmd = "none" /\ pc = "init_identify"
  BY DEF Init, Idle, Absent
<1>3. Engaged
  BY <1>2 DEF Engaged, Polling
<1>4. QED
  BY <1>1, <1>3, InitAwake DEF IInv

(* The drive works for the call, or not at all. *)
LEMMA DeviceTransfers ==
  ASSUME IInv, Device
  PROVE  IInv'
<1>1. drive \in Drive /\ Rest /\ drive.bsy
  BY TypeParts DEF IInv, Awake, Device, DriveHasData, DriveAsks, DriveStores, DriveFails
<1>2. UNCHANGED <<op, lba, count, i, buffer, result, before, pc>>
  BY DEF Device, DriveHasData, DriveAsks, DriveStores, DriveFails, Silent, call
<1>3. Outcome'
  BY <1>2 DEF IInv, Outcome
<1>4. CASE DriveHasData
  <2>1. drive'.at = drive.at /\ drive'.cmd = drive.cmd /\ drive'.err = drive.err /\ ~drive'.bsy
        /\ disk' = disk
    BY <1>1, <1>4 DEF DriveHasData, Drive
  <2>2. \/ pc = "init_drq" /\ drive.cmd = "identify"
        \/ pc \in {"clear", "spin", "drq"} /\ op = "read" /\ Reading /\ lba \in Lbas
    BY <1>1, <1>4 DEF DriveHasData, IInv, Awake, AwakeMeansDone, Carried, Engaged, Rest, InCall, Polling, Reading, Asks, Storing
  <2>3. Engaged'
    BY <1>2, <2>1, <2>2 DEF IInv, Engaged, Polling, Reading
  <2>4. Copied' /\ Moved'
    BY <1>2, <2>1, <2>2 DEF IInv, Copied, Moved, Settled, Stored, First
  <2>5. QED
    BY <1>3, <2>3, <2>4, DeviceAwake DEF IInv
<1>5. CASE DriveAsks
  <2>1. drive'.at = drive.at /\ drive'.cmd = drive.cmd /\ drive'.err = drive.err /\ ~drive'.bsy
        /\ disk' = disk
    BY <1>1, <1>5 DEF DriveAsks, Drive
  <2>2. pc = "drq" /\ op = "write" /\ drive.cmd = "write" /\ lba \in Lbas
    BY <1>1, <1>5 DEF DriveAsks, IInv, Awake, AwakeMeansDone, Carried, Engaged, Rest, InCall, Polling, Reading, Asks, Storing
  <2>3. Engaged'
    BY <1>2, <2>1, <2>2 DEF IInv, Engaged, Polling, Asks
  <2>4. Copied' /\ Moved'
    BY <1>2, <2>1, <2>2 DEF IInv, Copied, Moved, Settled, Stored, First
  <2>5. QED
    BY <1>3, <2>3, <2>4, DeviceAwake DEF IInv
<1>6. CASE DriveStores
  <2>1. drive'.at = drive.at /\ drive'.err = drive.err /\ ~drive'.bsy
    BY <1>1, <1>6 DEF DriveStores, Drive
  <2>2. pc \in {"clear", "spin"} /\ op = "write" /\ Storing /\ ~drive.err
        /\ lba \in Lbas /\ drive.at = lba
    BY <1>1, <1>6 DEF DriveStores, IInv, Awake, AwakeMeansDone, Engaged, Rest, InCall, Polling, Reading, Asks, Storing
  <2>3. Engaged'
    BY <1>2, <2>1, <2>2 DEF IInv, Engaged, Polling
  <2>4. Copied'
    BY <1>2, <2>2 DEF Copied
  <2>5. Settled' /\ Stored(i) /\ disk' = [disk EXCEPT ![lba] = Written(i)]
    BY <1>1, <1>2, <1>6, <2>1, <2>2 DEF DriveStores, Settled, Storing, IInv, Moved
  <2>6. DOMAIN disk = Lbas /\ lba \in Int /\ i \in Nat /\ Lbas \subseteq Int /\ First = lba - i
    BY <1>1, <2>2, IdeAssumption DEF Rest, First
  <2>7. Stored(i + 1)'
    BY <1>2, <2>2, <2>5, <2>6 DEF Stored, First, Written
  <2>8. Moved'
    BY <1>2, <2>5, <2>7 DEF Moved, Stored, First
  <2>9. QED
    BY <1>3, <2>3, <2>4, <2>8, DeviceAwake DEF IInv
<1>7. CASE DriveFails
  <2>1. drive'.at = drive.at /\ drive'.err /\ ~drive'.bsy /\ disk' = disk /\ drive'.cmd = "none"
    BY <1>1, <1>7 DEF DriveFails, Drive
  <2>2. pc \in {"drq", "clear", "spin"}
    BY <1>1, <1>7 DEF DriveFails, IInv, Awake, AwakeMeansDone, Engaged, Rest, InCall, Polling, Reading, Asks, Storing
  <2>3. Engaged'
    BY <1>2, <2>1, <2>2 DEF IInv, Engaged, Polling
  <2>4. Copied' /\ Moved'
    BY <1>1, <1>2, <2>1, <2>2 DEF IInv, Copied, Moved, Settled, Stored, First
  <2>5. QED
    BY <1>3, <2>3, <2>4, DeviceAwake DEF IInv
<1>8. QED
  BY <1>4, <1>5, <1>6, <1>7 DEF Device

LEMMA HandlerTransfers ==
  ASSUME IInv, ide_irq_handler
  PROVE  IInv'
<1>1. UNCHANGED <<drive, disk, pc, op, lba, count, i, buffer, result, before>>
  BY DEF ide_irq_handler, call
<1>2. Copied' /\ Outcome'
  BY <1>1 DEF IInv, Copied, Outcome, First
<1>3. Moved'
  BY <1>1 DEF IInv, Moved, Settled, Stored, First
<1>4. Engaged'
  BY <1>1 DEF IInv, Engaged, Reading, Asks, Storing
<1>5. QED
  BY <1>2, <1>3, <1>4, HandlerAwake DEF IInv

LEMMA CallTransfers ==
  ASSUME IInv, NEW o \in {"read", "write"}, NEW l \in Lbas, NEW c \in 0 .. MaxCount, Call(o, l, c)
  PROVE  IInv'
<1>1. /\ op' = o /\ lba' = l /\ count' = c /\ i' = 0 /\ before' = disk /\ disk' = disk
      /\ drive' = drive /\ result' = -1 /\ pc = "idle"
      /\ pc' = IF ~attached THEN "crash" ELSE IF c = 0 THEN "idle" ELSE "ready"
  BY DEF Call, hardware, At
<1>2. Copied' /\ Outcome'
  BY <1>1 DEF Copied, Outcome, InCall, Polling
<1>3. Stored(0)'
  BY <1>1, IdeAssumption DEF Stored, First
<1>4. Moved'
  BY <1>1, <1>3 DEF Moved, Settled, Stored, First
<1>5. Engaged'
  BY <1>1 DEF IInv, Engaged, Polling
<1>6. QED
  BY <1>2, <1>4, <1>5, CallAwake DEF IInv

-----------------------------------------------------------------------------
(* The driver's steps. *)

(* A step that moves no sector. *)
Waits == UNCHANGED <<disk, op, lba, count, i, buffer, before>>

LEMMA StillMoved ==
  ASSUME IInv, Waits, pc # "crash", Settled' <=> Settled
  PROVE  (Copied /\ Moved)'
<1>1. Copied'
  BY DEF IInv, Waits, Copied, First
<1>2. Moved'
  BY DEF IInv, Waits, Moved, Stored, First
<1>3. QED
  BY <1>1, <1>2

(* A call that returns -1 has not come to its end. *)
LEMMA ReturnFailed ==
  ASSUME IInv, Return(-1), pc \in InCall
  PROVE  Outcome'
  BY DEF IInv, Awake, Carried, Return, Outcome, InCall, Polling

LEMMA InitSteps ==
  ASSUME IInv, InitIdentify \/ InitFinish, NoTimeouts
  PROVE  (Copied /\ Moved /\ Outcome /\ Engaged)'
<1>1. drive \in Drive /\ lba \in Nat
  BY TypeParts DEF IInv, Awake, Carried
<1>2. Waits /\ pc \in {"init_identify", "init_drq"} /\ pc' \in {"init_drq", "idle"} /\ result' = result
  BY DEF InitIdentify, InitFinish, Waits, call, At
<1>3. Copied' /\ Moved'
  BY <1>2, StillMoved DEF Settled
<1>4. CASE InitIdentify
  <2>1. drive'.cmd = "none" \/ (drive'.cmd = "identify" /\ ~drive'.err)
    BY <1>1, <1>4, CommandAsks DEF InitIdentify, At, IInv, Engaged
  <2>2. Engaged' /\ Outcome'
    BY <1>2, <1>4, <2>1 DEF InitIdentify, IInv, Waits, Engaged, Outcome, Polling, InCall
  <2>3. QED
    BY <1>3, <2>2
<1>5. CASE InitFinish
  <2>1. drive'.cmd = "none" \/ ~drive'.bsy
    <3>1. drive.cmd = "none" \/ ~drive.err
      BY <1>5 DEF InitFinish, At, IInv, Engaged
    <3>2. CASE ~drive.err /\ drive.drq
      BY <1>1, <1>5, <3>2 DEF InitFinish, Drive
    <3>3. CASE ~(~drive.err /\ drive.drq)
      BY <1>5, <3>1, <3>3 DEF InitFinish, NoTimeouts
    <3>4. QED
      BY <3>2, <3>3
  <2>2. Engaged' /\ Outcome'
    BY <1>2, <1>5, <2>1 DEF InitFinish, IInv, Waits, Engaged, Outcome, Polling, InCall
  <2>3. QED
    BY <1>3, <2>2
<1>6. QED
  BY <1>4, <1>5

LEMMA CommandSteps ==
  ASSUME IInv, ide_wait_ready \/ SendCommand, NoTimeouts
  PROVE  (Copied /\ Moved /\ Outcome /\ Engaged)'
<1>1. drive \in Drive /\ lba \in Nat /\ op \in {"read", "write"}
  BY TypeParts DEF IInv, Awake, Carried, Rest
<1>2. Waits /\ pc \in {"ready", "command"} /\ result' = result
      /\ pc' \in {"command", "clear", "drq"}
  BY DEF ide_wait_ready, SendCommand, Waits, call, At
<1>3. Outcome'
  BY <1>2 DEF IInv, Outcome, InCall, Polling
<1>4. CASE ide_wait_ready
  <2>1. Copied' /\ Moved'
    BY <1>2, <1>4, StillMoved DEF Settled, ide_wait_ready
  <2>2. Engaged'
    BY <1>4 DEF ide_wait_ready, Engaged, NoTimeouts, Polling
  <2>3. QED
    BY <1>3, <2>1, <2>2
<1>5. CASE SendCommand
  <2>1. /\ drive'.bsy /\ ~drive'.drq /\ ~drive'.err /\ drive'.cmd = op /\ drive'.at = lba
        /\ pc' = IF op = "read" THEN "clear" ELSE "drq"
    BY <1>1, <1>5, CommandAsks DEF SendCommand, At, IInv, Engaged
  <2>2. Copied' /\ Moved'
    BY <1>2, <2>1, StillMoved DEF Settled
  <2>3. Engaged'
    BY <1>1, <1>2, <2>1 DEF Engaged, Polling, Waits, Asks, Reading
  <2>4. QED
    BY <1>3, <2>2, <2>3
<1>6. QED
  BY <1>4, <1>5

LEMMA SleepSteps ==
  ASSUME IInv, ClearFlag \/ Spin
  PROVE  (Copied /\ Moved /\ Outcome /\ Engaged)'
<1>1. op \in {"read", "write"}
  BY TypeParts DEF IInv, Awake, Rest
<1>2. /\ Waits /\ pc \in {"clear", "spin"} /\ result' = result /\ drive' = drive
      /\ pc' = IF pc = "clear" THEN "spin" ELSE IF op = "read" THEN "drq" ELSE "check"
  BY DEF ClearFlag, Spin, Waits, call, hardware, At
<1>3. Outcome'
  BY <1>1, <1>2 DEF IInv, Outcome, InCall, Polling
<1>4. Copied' /\ Moved'
  <2>1. CASE op = "write"
    BY <1>2, <2>1, StillMoved DEF Settled
  <2>2. CASE op = "read"
    BY <1>2, <2>2 DEF IInv, Waits, Copied, Moved, First
  <2>3. QED
    BY <1>1, <2>1, <2>2
<1>5. Engaged'
  BY <1>1, <1>2 DEF IInv, Engaged, Polling, Waits, Asks, Reading, Storing
<1>6. QED
  BY <1>3, <1>4, <1>5

LEMMA PollSteps ==
  ASSUME IInv, ide_wait_drq, NoTimeouts
  PROVE  (Copied /\ Moved /\ Outcome /\ Engaged)'
<1>1. op \in {"read", "write"}
  BY TypeParts DEF IInv, Awake, Rest
<1>2. /\ Waits /\ pc = "drq" /\ drive' = drive /\ pc' \in {"idle", "transfer"}
  BY DEF ide_wait_drq, Waits, call, At, Return
<1>3. Copied' /\ Moved'
  BY <1>2, StillMoved DEF Settled
<1>4. CASE Return(-1)
  <2>1. ~drive.bsy
    BY <1>1, <1>2, <1>4 DEF ide_wait_drq, Return, NoTimeouts, IInv, Engaged, Polling, Awake, AwakeMeansDone
  <2>2. Engaged'
    BY <1>2, <1>4, <2>1 DEF Engaged, Return, Polling
  <2>3. QED
    BY <1>2, <1>3, <1>4, <2>2, ReturnFailed DEF InCall, Polling
<1>5. CASE ~drive.err /\ drive.drq /\ pc' = "transfer" /\ UNCHANGED call
  <2>1. ~drive.bsy /\ drive.cmd = op /\ lba \in Lbas /\ drive.at = lba
    BY <1>1, <1>2, <1>5 DEF IInv, Engaged, Polling, Awake, AwakeMeansDone, Asks, Reading
  <2>2. Engaged'
    BY <1>1, <1>2, <1>5, <2>1 DEF Engaged, Polling, Waits
  <2>3. Outcome'
    BY <1>2, <1>5 DEF IInv, Outcome, InCall, Polling, call
  <2>4. QED
    BY <1>3, <2>2, <2>3
<1>6. QED
  BY <1>4, <1>5 DEF ide_wait_drq

(* A sector is done. *)
LEMMA SectorDone ==
  ASSUME IInv, NextSector, pc \in InCall, ~drive'.bsy, UNCHANGED count
  PROVE  (Outcome /\ Engaged)' /\ First' = First /\ i' = i + 1 /\ pc' \in {"command", "idle"}
<1>1. Rest /\ i < count /\ lba \in Nat
  BY TypeParts DEF IInv, Awake, Carried
<1>2. i' = i + 1 /\ lba' = lba + 1 /\ pc' \in {"command", "idle"}
      /\ (pc' = "idle" => i' = count /\ result' = 0) /\ (pc' = "command" => result' = result)
  BY <1>1 DEF NextSector, Rest
<1>3. Outcome'
  BY <1>2 DEF IInv, Outcome, InCall, Polling
<1>4. Engaged'
  BY <1>2 DEF Engaged, Polling
<1>5. First' = First
  BY <1>1, <1>2 DEF First, Rest
<1>6. QED
  BY <1>2, <1>3, <1>4, <1>5

LEMMA TransferInSteps ==
  ASSUME IInv, TransferIn
  PROVE  (Copied /\ Moved /\ Outcome /\ Engaged)'
<1>1. drive \in Drive /\ Rest /\ i < count /\ lba \in Nat /\ DOMAIN buffer = 0 .. MaxCount - 1
  BY TypeParts DEF IInv, Awake, Carried, TransferIn, At, InCall, Polling
<1>2. pc = "transfer" /\ op = "read" /\ disk' = disk /\ op' = op /\ count' = count /\ NextSector
  BY DEF TransferIn, At
<1>3. buffer' = [buffer EXCEPT ![i] = disk[lba]]
  BY <1>2 DEF TransferIn, IInv, Engaged, Polling
<1>4. ~drive'.bsy
  BY <1>1, <1>2 DEF TransferIn, IInv, Engaged, Drive
<1>5. (Outcome /\ Engaged)' /\ First' = First /\ i' = i + 1
  BY <1>2, <1>4, SectorDone DEF InCall, Polling
<1>6. Copied'
  <2>1. i \in 0 .. MaxCount - 1
    BY <1>1, IdeAssumption DEF Rest
  <2>2. lba = First + i
    BY <1>1 DEF First, Rest
  <2>3. \A k \in 0 .. i - 1 : buffer'[k] = disk'[First + k]
    BY <1>1, <1>2, <1>3, <2>1 DEF IInv, Copied
  <2>4. buffer'[i] = disk'[First + i]
    BY <1>1, <1>2, <1>3, <2>1, <2>2
  <2>5. QED
    BY <1>1, <1>5, <2>3, <2>4 DEF Copied, Rest
<1>7. QED
  BY <1>2, <1>5, <1>6 DEF Moved

LEMMA TransferOutSteps ==
  ASSUME IInv, TransferOut
  PROVE  (Copied /\ Moved /\ Outcome /\ Engaged)'
<1>1. drive \in Drive /\ Rest /\ i < count
  BY TypeParts DEF IInv, Awake, Carried, TransferOut, At, InCall, Polling
<1>2. pc = "transfer" /\ op = "write" /\ Waits /\ result' = result /\ pc' = "clear"
  BY DEF TransferOut, At, Waits, call
<1>3. buffer[i] = Written(i)
  BY <1>1, <1>2, IdeAssumption DEF IInv, Awake, Carried, Rest
<1>4. /\ drive'.bsy /\ drive'.cmd = "store" /\ drive'.data = Written(i) /\ ~drive'.err
      /\ drive'.at = lba /\ lba \in Lbas
  BY <1>1, <1>2, <1>3 DEF TransferOut, IInv, Engaged, Drive, Polling
<1>5. Copied' /\ Moved'
  BY <1>2, <1>4, StillMoved DEF Settled
<1>6. Engaged'
  BY <1>2, <1>4 DEF Engaged, Polling, Waits, Storing
<1>7. Outcome'
  BY <1>2 DEF IInv, Outcome, InCall, Polling
<1>8. QED
  BY <1>5, <1>6, <1>7

LEMMA CheckSteps ==
  ASSUME IInv, CheckWrite
  PROVE  (Copied /\ Moved /\ Outcome /\ Engaged)'
<1>1. Rest /\ op = "write" /\ ~drive.bsy
  BY TypeParts DEF IInv, Awake, Carried, AwakeMeansDone, CheckWrite, At
<1>2. pc = "check" /\ drive' = drive /\ UNCHANGED <<disk, op, count, buffer, before>>
  BY DEF CheckWrite, At, Return
<1>3. CASE drive.err
  <2>1. Return(-1) /\ Waits /\ pc' = "idle"
    BY <1>2, <1>3 DEF CheckWrite, Return, Waits
  <2>2. Copied' /\ Moved'
    BY <1>2, <1>3, <2>1, StillMoved DEF Settled
  <2>3. Engaged'
    BY <1>1, <1>2, <2>1 DEF Engaged, Polling
  <2>4. QED
    BY <1>2, <2>1, <2>2, <2>3, ReturnFailed DEF InCall, Polling
<1>4. CASE ~drive.err
  <2>1. (Outcome /\ Engaged)' /\ First' = First /\ i' = i + 1 /\ pc' \in {"command", "idle"}
    BY <1>1, <1>2, <1>4, SectorDone DEF CheckWrite, InCall, Polling
  <2>2. Stored(i + 1)
    BY <1>1, <1>2, <1>4 DEF IInv, Moved, Settled
  <2>3. Moved'
    BY <1>2, <2>1, <2>2 DEF Moved, Settled, Stored
  <2>4. QED
    BY <1>1, <1>2, <2>1, <2>3 DEF Copied
<1>5. QED
  BY <1>3, <1>4

LEMMA NextTransfers == NoTimeouts /\ IInv /\ [Next]_vars => IInv'
<1> SUFFICES ASSUME NoTimeouts, IInv, [Next]_vars PROVE IInv'
  OBVIOUS
<1>1. Awake'
  BY NextAwake DEF IInv
<1>2. CASE Driver
  BY <1>1, <1>2, InitSteps, CommandSteps, SleepSteps, PollSteps, TransferInSteps, TransferOutSteps, CheckSteps
     DEF Driver, IInv
<1>3. CASE UNCHANGED vars
  <2>1. Waits /\ UNCHANGED <<pc, drive, result>>
    BY <1>3 DEF vars, hardware, call, Waits
  <2>2. Copied' /\ Moved'
    BY <2>1 DEF IInv, Waits, Copied, Moved, Settled, Stored, First
  <2>3. Outcome' /\ Engaged'
    BY <2>1 DEF IInv, Waits, Outcome, Engaged, Reading, Asks, Storing
  <2>4. QED
    BY <1>1, <2>2, <2>3 DEF IInv
<1>4. QED
  BY <1>2, <1>3, DeviceTransfers, HandlerTransfers, CallTransfers DEF Next

-----------------------------------------------------------------------------
(* When the driver goes on after its wait, the drive is done with the      *)
(* sector, however fast or slow it is: no interrupt left from an earlier   *)
(* sector ends the wait for the next (ide_read_sectors clears the flag     *)
(* after the command, not before it).                                      *)
THEOREM AwakeDriverMeansDone == Spec => []AwakeMeansDone
<1>1. Awake => AwakeMeansDone
  BY DEF Awake
<1>2. QED
  BY <1>1, InitAwake, NextAwake, PTL DEF Spec

(* With a drive that answers within the driver's polls, a read that        *)
(* returns 0 has every sector in its place of the buffer, and a write has  *)
(* changed the sectors asked for, from the first on, and no other; all of  *)
(* them exactly when it returns 0.                                         *)
THEOREM IdeTransfersAreRight == NoTimeouts => (Spec => []TransfersAreRight)
<1>0. SUFFICES ASSUME NoTimeouts PROVE Spec => []TransfersAreRight
  OBVIOUS
<1>1. IInv => TransfersAreRight
  <2> SUFFICES ASSUME IInv PROVE TransfersAreRight
    OBVIOUS
  <2>1. TypeOK
    BY DEF IInv, Awake
  <2>2. ReadIsWhole
    BY DEF IInv, Copied, Outcome, ReadIsWhole
  <2>3. ASSUME pc = "idle", op = "write"
        PROVE  /\ (i = count) <=> (result = 0 \/ count = 0)
               /\ Stored(i) /\ i \in 0 .. count
    BY <2>1, <2>3 DEF IInv, Outcome, Moved, Settled, TypeOK
  <2>4. WriteIsAPrefix
    BY <2>3 DEF WriteIsAPrefix, Stored
  <2>5. QED
    BY <2>1, <2>2, <2>4 DEF TransfersAreRight
<1>2. IInv /\ [Next]_vars => IInv'
  BY <1>0, NextTransfers
<1>3. QED
  BY <1>1, <1>2, InitTransfers, PTL DEF Spec
=============================================================================
