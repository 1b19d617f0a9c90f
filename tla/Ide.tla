-------------------------------- MODULE Ide --------------------------------
(***************************************************************************)
(* The ATA disk driver, src/kernel/drivers/ide.c: programmed I/O on one    *)
(* drive, woken by IRQ 14.  A call writes the command, clears the flag     *)
(* ide_irq_fired, spins until the interrupt handler sets it, and moves one *)
(* sector at a time.                                                       *)
(*                                                                         *)
(* The processor takes a pending interrupt before its next instruction     *)
(* (interrupts are on), so no step of the driver is taken while one is     *)
(* pending and unmasked.                                                   *)
(***************************************************************************)
EXTENDS Integers

CONSTANTS Lbas,      (* the sectors of the drive, 0 .. some last           *)
          Faulty,    (* those that may be reported in error                *)
          MaxCount,  (* bound: sectors in a call                           *)
          Present,   (* whether a drive answers                            *)
          Fast,      (* whether it may be done before the driver's next    *)
                     (* instruction                                        *)
          Timeouts   (* whether it may be busy for more than the million   *)
                     (* polls ide_wait_ready and ide_wait_drq spend        *)

ASSUME IdeAssumption ==
  /\ Lbas \subseteq Nat /\ 0 \in Lbas
  /\ Faulty \subseteq Lbas
  /\ MaxCount \in Nat \ {0}
  /\ Present \in BOOLEAN /\ Fast \in BOOLEAN /\ Timeouts \in BOOLEAN

VARIABLES
  drive,                (* its status bits, its command, with sector and data *)
  disk, irq, masked,    (* the medium; IRQ 14 at the PIC                     *)
  ide_irq_fired, attached,             (* attached: ide_dev's pointers are set *)
  pc, op, lba, count, i, buffer, result,  (* the call in progress, or the last *)
  before                (* history: the medium at the call's start         *)

hardware == <<drive, disk, irq, masked>>
call     == <<op, lba, count, i, buffer, result, before>>
vars     == <<hardware, ide_irq_fired, attached, pc, call>>

Idle == [bsy |-> FALSE, drq |-> FALSE, err |-> FALSE, cmd |-> "none", at |-> 0, data |-> 0]

(* A bus with no drive on it floats high: every status bit reads as 1. *)
Absent == [bsy |-> TRUE, drq |-> TRUE, err |-> TRUE, cmd |-> "none", at |-> 0, data |-> 0]

(* What the caller hands to a write as sector k of its buffer. *)
Written(k) == 100 + k

Running == ~ (irq /\ ~ masked)
At(p) == Running /\ pc = p
-----------------------------------------------------------------------------
(* The drive *)

Silent == UNCHANGED <<masked, ide_irq_fired, attached, pc, call>>

(* The interrupts a sleeping driver waits for come when it sleeps, unless  *)
(* the drive is fast.                                                      *)
InTime == Fast \/ pc # "clear"

(* The sector of a read, or the drive's identity, can be fetched. *)
DriveHasData ==
  /\ drive.bsy /\ InTime
  /\ drive.cmd = "identify" \/ (drive.cmd = "read" /\ drive.at \in Lbas)
  /\ drive' = [drive EXCEPT !.bsy = FALSE, !.drq = TRUE]
  /\ irq' = TRUE
  /\ UNCHANGED disk /\ Silent

(* A write command asks for its data, without an interrupt. *)
DriveAsks ==
  /\ drive.bsy /\ drive.cmd = "write" /\ drive.at \in Lbas
  /\ drive' = [drive EXCEPT !.bsy = FALSE, !.drq = TRUE]
  /\ UNCHANGED <<disk, irq>> /\ Silent

(* The data of a write is on the medium. *)
DriveStores ==
  /\ drive.bsy /\ drive.cmd = "store" /\ InTime
  /\ drive' = [drive EXCEPT !.bsy = FALSE, !.cmd = "none"]
  /\ disk' = [disk EXCEPT ![drive.at] = drive.data]
  /\ irq' = TRUE
  /\ Silent

(* A sector that does not exist, or that cannot be read or written. *)
DriveFails ==
  /\ drive.bsy /\ InTime
  /\ \/ drive.cmd \in {"read", "write"} /\ drive.at \notin Lbas
     \/ drive.cmd \in {"read", "store"} /\ drive.at \in Faulty
  /\ drive' = [drive EXCEPT !.bsy = FALSE, !.err = TRUE, !.cmd = "none"]
  /\ irq' = TRUE
  /\ UNCHANGED disk /\ Silent

(* A drive that is busy does not look at the command register. *)
Command(c, l) ==
  drive' = IF drive.bsy THEN drive
           ELSE [Idle EXCEPT !.bsy = TRUE, !.cmd = c, !.at = l]

(* Reading the status register withdraws the interrupt request; a masked   *)
(* request may already be latched.                                         *)
ReadStatus == irq' \in {FALSE, irq}
-----------------------------------------------------------------------------
(* The interrupt handler *)

(* Mutant: only the interrupt is cleared. *)
ide_irq_handler_Quiet ==
  /\ irq /\ ~ masked
  /\ irq' = FALSE
  /\ UNCHANGED <<drive, disk, masked, ide_irq_fired, attached, pc, call>>
ide_irq_handler ==
  /\ irq /\ ~ masked
  /\ ide_irq_fired' = TRUE
  /\ irq' = FALSE
  /\ UNCHANGED <<drive, disk, masked, attached, pc, call>>
-----------------------------------------------------------------------------
(* The calls *)

Return(r) == pc' = "idle" /\ result' = r /\ UNCHANGED <<op, lba, count, i, buffer, before>>

(* ide_read_sectors and ide_write_sectors, reached through ide_dev. *)
Call(o, l, c) ==
  /\ At("idle")
  /\ op' = o /\ lba' = l /\ count' = c /\ i' = 0
  /\ before' = disk
  /\ buffer' = [k \in 0 .. MaxCount - 1 |-> IF o = "write" THEN Written(k) ELSE 0]
  /\ pc' = IF ~ attached THEN "crash" ELSE IF c = 0 THEN "idle" ELSE "ready"
  /\ result' = -1
  /\ UNCHANGED <<hardware, ide_irq_fired, attached>>

(* ide_select_drive: ide_wait_ready gives up silently. *)
ide_wait_ready ==
  /\ At("ready")
  /\ ~ drive.bsy \/ Timeouts
  /\ ReadStatus
  /\ pc' = "command"
  /\ UNCHANGED <<drive, disk, masked, ide_irq_fired, attached, call>>

SendCommand ==
  /\ At("command")
  /\ Command(op, lba)
  /\ pc' = IF op = "read" THEN "clear" ELSE "drq"
  /\ UNCHANGED <<disk, irq, masked, ide_irq_fired, attached, call>>

(* Mutant: the flag keeps what the last sector left. *)
ClearFlag_Never ==
  /\ At("clear")
  /\ pc' = "spin"
  /\ UNCHANGED <<hardware, ide_irq_fired, attached, call>>
ClearFlag ==
  /\ At("clear")
  /\ ide_irq_fired' = FALSE
  /\ pc' = "spin"
  /\ UNCHANGED <<hardware, attached, call>>

Spin ==
  /\ At("spin") /\ ide_irq_fired
  /\ pc' = IF op = "read" THEN "drq" ELSE "check"
  /\ UNCHANGED <<hardware, ide_irq_fired, attached, call>>

(* Each poll reads the status: ERR ends the call, DRQ the polling.  After  *)
(* a million polls with neither it gives up.                               *)
ide_wait_drq ==
  /\ At("drq")
  /\ ReadStatus
  /\ \/ drive.err /\ Return(-1)
     \/ ~ drive.err /\ drive.drq /\ pc' = "transfer" /\ UNCHANGED call
     \/ ~ drive.err /\ ~ drive.drq /\ (Timeouts \/ ~ drive.bsy) /\ Return(-1)
  /\ UNCHANGED <<drive, disk, masked, ide_irq_fired, attached>>

(* The end of the loop body. *)
NextSector ==
  /\ lba' = lba + 1 /\ i' = i + 1
  /\ IF i + 1 < count THEN pc' = "command" /\ UNCHANGED result
     ELSE pc' = "idle" /\ result' = 0

(* insw: the sector goes to its place in the buffer and the drive is idle. *)
TransferIn ==
  /\ At("transfer") /\ op = "read"
  /\ buffer' = [buffer EXCEPT ![i] = IF drive.cmd = "read" THEN disk[drive.at] ELSE -1]
  /\ drive' = [drive EXCEPT !.drq = FALSE, !.cmd = "none"]
  /\ NextSector
  /\ UNCHANGED <<disk, irq, masked, ide_irq_fired, attached, op, count, before>>

(* outsw: the drive has the data and starts to store it. *)
TransferOut ==
  /\ At("transfer") /\ op = "write"
  /\ drive' = [drive EXCEPT !.drq = FALSE, !.bsy = TRUE, !.cmd = "store", !.data = buffer[i]]
  /\ pc' = "clear"
  /\ UNCHANGED <<disk, irq, masked, ide_irq_fired, attached, call>>

(* Mutant: the status is read but not looked at. *)
CheckWrite_Blind ==
  /\ At("check")
  /\ ReadStatus
  /\ NextSector /\ UNCHANGED <<op, count, buffer, before>>
  /\ UNCHANGED <<drive, disk, masked, ide_irq_fired, attached>>
CheckWrite ==
  /\ At("check")
  /\ ReadStatus
  /\ IF drive.err THEN Return(-1)
     ELSE NextSector /\ UNCHANGED <<op, count, buffer, before>>
  /\ UNCHANGED <<drive, disk, masked, ide_irq_fired, attached>>
-----------------------------------------------------------------------------
(* ide_init: reset, ide_wait_ready twice, IDENTIFY polled with IRQ 14      *)
(* masked, then the unmasking and the two pointers of ide_dev.             *)

InitIdentify ==
  /\ At("init_identify")
  /\ ~ drive.bsy \/ Timeouts \/ ~ Present
  /\ Command("identify", 0)
  /\ pc' = "init_drq"
  /\ UNCHANGED <<disk, irq, masked, ide_irq_fired, attached, call>>

(* On failure -1 is returned before the pointers are set; kernel_init logs *)
(* it and goes on.                                                         *)
InitFinish ==
  /\ At("init_drq")
  /\ ReadStatus
  /\ \/ /\ ~ drive.err /\ drive.drq
        /\ drive' = [drive EXCEPT !.drq = FALSE, !.cmd = "none"]
        /\ masked' = FALSE /\ attached' = TRUE
     \/ /\ drive.err \/ (~ drive.drq /\ (Timeouts \/ ~ drive.bsy))
        /\ UNCHANGED <<drive, masked, attached>>
  /\ pc' = "idle"
  /\ UNCHANGED <<disk, ide_irq_fired, call>>

Init ==
  /\ drive = IF Present THEN Idle ELSE Absent
  /\ disk = [l \in Lbas |-> l]
  /\ irq = FALSE /\ masked = TRUE
  /\ ide_irq_fired = FALSE /\ attached = FALSE
  /\ pc = "init_identify"
  /\ op = "read" /\ lba = 0 /\ count = 0 /\ i = 0 /\ result = -1
  /\ buffer = [k \in 0 .. MaxCount - 1 |-> 0]
  /\ before = disk

Device == DriveHasData \/ DriveAsks \/ DriveStores \/ DriveFails

Driver ==
  \/ InitIdentify \/ InitFinish
  \/ ide_wait_ready \/ SendCommand \/ ClearFlag \/ Spin
  \/ ide_wait_drq \/ TransferIn \/ TransferOut \/ CheckWrite

Next ==
  \/ Device
  \/ ide_irq_handler
  \/ Driver
  \/ \E o \in {"read", "write"}, l \in Lbas, c \in 0 .. MaxCount : Call(o, l, c)

(* The drive finishes what it does, interrupts are taken, the driver runs; *)
(* calls are the caller's choice.                                          *)
Spec == /\ Init /\ [][Next]_vars
        /\ WF_vars(Device) /\ WF_vars(ide_irq_handler) /\ WF_vars(Driver)
-----------------------------------------------------------------------------
(* Properties *)

TypeOK ==
  /\ drive \in [bsy : BOOLEAN, drq : BOOLEAN, err : BOOLEAN, at : Nat, data : Int,
                cmd : {"none", "read", "write", "store", "identify"}]
  /\ DOMAIN disk = Lbas /\ irq \in BOOLEAN /\ masked \in BOOLEAN
  /\ ide_irq_fired \in BOOLEAN /\ attached \in BOOLEAN
  /\ pc \in {"init_identify", "init_drq", "idle", "crash", "ready", "command", "clear",
             "spin", "drq", "transfer", "check"}
  /\ op \in {"read", "write"} /\ result \in {0, -1}
  /\ count \in 0 .. MaxCount /\ i \in 0 .. count

First == lba - i

(* A read that returns 0 filled the whole buffer with the sectors asked    *)
(* for, each in its place, although every sector is a command of its own.  *)
ReadIsWhole ==
  pc = "idle" /\ op = "read" /\ result = 0 =>
    \A k \in 0 .. count - 1 : buffer[k] = disk[First + k]

(* A write changes no sector but those asked for, first to last: one that  *)
(* returns 0 wrote them all, one that fails a proper prefix of them.       *)
WriteIsAPrefix ==
  pc = "idle" /\ op = "write" =>
    \E k \in 0 .. count :
      /\ (k = count) <=> (result = 0 \/ count = 0)
      /\ \A l \in Lbas :
           disk[l] = IF l \in First .. First + k - 1 THEN Written(l - First) ELSE before[l]

(* A call of the driver leaves in the buffer, or on the disk, what it says. *)
TransfersAreRight == TypeOK /\ ReadIsWhole /\ WriteIsAPrefix

(* When the driver wakes, the drive is done with this sector: no interrupt *)
(* left over from an earlier one ends the wait.                            *)
AwakeMeansDone ==
  pc = "check" \/ (pc = "drq" /\ op = "read") => ~ drive.bsy

(* ide_read_sectors "interrupt-driven": with a drive that answers every    *)
(* command, every call returns.                                            *)
CallsEnd == pc \notin {"idle", "crash"} ~> pc \in {"idle", "crash"}

=============================================================================
