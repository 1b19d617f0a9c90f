-------------------------------- MODULE Boot --------------------------------
(***************************************************************************)
(* From _start to halt: kernel_init's components in their order, with the  *)
(* parts that wait for one another: the interrupt table and the PICs, the  *)
(* disk that fs_init reads, and the video driver, whose every call of the  *)
(* BIOS goes through real mode with interrupts on.  Before the machine     *)
(* halts the video driver may be used some more, as the rest of a kernel   *)
(* would.                                                                  *)
(*                                                                         *)
(* The program is a list of steps; one that calls a function puts the      *)
(* function's steps in front of what follows.                              *)
(***************************************************************************)
EXTENDS ModeSwitch, Video, FiniteSets, SequencesExt

CONSTANTS
    Buses,          \* values of the bus number, an uint8_t
    BootMode,       \* the mode kernel_init sets
    target_mode,    \* the one vbe_set_mode2 sets, whatever it is asked for
    Fonts,          \* their width and height
    Pictures,       \* width and height of a background
    Lines,          \* bound: interrupts that come in real mode
    MaxCalls        \* bound: calls of the video driver after kernel_init

ASSUME BootAssumption ==
    /\ Buses \in Nat \ {0} /\ MaxCalls \in Nat
    /\ Lines \subseteq {0, 1} /\ IsFiniteSet(Modes)
    /\ {BootMode, target_mode} \subseteq Modes /\ "text" \notin Modes /\ "unset" \notin Modes
    /\ \A font \in Fonts : {font.width, font.height} \subseteq Nat \ {0}
    /\ Pictures \subseteq Nat \X Nat

VARIABLES
    todo,       \* the program: steps that are still to do
    pc,         \* next instruction of the executer's routine, 0 when it is not running
    cpu,
    bios,       \* the call under way, and what it left in ax
    bus,        \* number of the bus pci_find_device is at
    unmasked, served,   \* the PICs: lines open, and lines with an interrupt in service
    disk,       \* the drive, and the driver's flag and functions
    mounted,    \* whether fs_init found a file system
    mod,        \* whether the executer is at 0x1000
    card,       \* the mode the graphics card is in
    mode_info,  \* the mode that the block at 0x9200 describes
    t,          \* the text cursor of vbe.c
    framebuffer,  \* _mbi->flags, bit 12
    faults,     \* history: what the machine turned out to lack
    drawn,      \* history: whether the last writes to the screen fell into the frame
    settled,    \* history: since vbe_set_mode succeeded nothing else has set a mode
    fitted,     \* history: the font was loaded since, with the cursor on the screen
    calls

vars == <<todo, pc, cpu, bios, bus, unmasked, served, disk, mounted, mod, card, mode_info,
          t, framebuffer, faults, drawn, settled, fitted, calls>>
machine == <<cpu, pc>>
pic     == <<unmasked, served>>
screen  == <<card, mode_info, t, drawn, settled, fitted>>

Do(op, arg)  == [op |-> op, arg |-> arg]
Steps(names) == [i \in DOMAIN names |-> Do(names[i], "")]

Functions == {"4F00", "4F01", "4F01 0xA000", "4F02", "0003", "0F03"}
Success   == Do("if 004F", "")      \* or the function returns here
Returned  == <<Do("return", "")>>

read_sectors(place) == <<Do("command", place), Do("clear", place), Do("wait", place)>>
fs_init == read_sectors("mbr") \o read_sectors("boot") \o Returned

vbe_init == <<Do("4F00", "")>>
vbe_set_mode(m) == <<Do("4F02", m), Success, Do("4F01", m), Success, Do("framebuffer", "")>> \o Returned
vbe_set_mode2 ==
    <<Do("4F01 0xA000", target_mode), Do("4F02", target_mode), Success, Do("4F01 0xA000", target_mode)>>
    \o Returned
vbe_get_mode_info(m) == <<Do("4F01 0xA000", m)>>
vbe_set_text_mode == <<Do("0003", ""), Do("0F03", "")>>
vbe_list_supported_modes ==
    vbe_set_text_mode \o <<Do("4F00", ""), Success>>
    \o LET list == SetToSeq(Modes) IN [i \in DOMAIN list |-> Do("4F01", list[i])] \o Returned

init_drivers == Steps(<<"serial_init", "timer_init", "pci_find_device", "ide_init", "keyboard_init">>)
                \o vbe_init
kernel_init ==
    Steps(<<"vga_clear", "logger_init", "init_paging_stage2", "init_heap", "enable_fpu",
            "load_multiboot_mods", "idt_init">>)
    \o init_drivers \o Steps(<<"vfs_init">>) \o fs_init
    \o Steps(<<"init_process", "test_filesystem">>)
    \o vbe_set_mode(BootMode) \o Steps(<<"draw_background">>)
_start == Steps(<<"set PG", "init_paging_stage1", "init_gdt">>) \o kernel_init \o Steps(<<"halt">>)

(* Steps whose effect is in the other modules, or that have none here.     *)
Elsewhere == {"init_paging_stage1", "vga_clear", "logger_init", "init_paging_stage2", "init_heap",
              "enable_fpu", "serial_init", "timer_init", "keyboard_init", "vfs_init",
              "init_process", "return"}

-----------------------------------------------------------------------------
Step == Head(todo)
At(op) == todo # << >> /\ pc = 0 /\ Step.op = op
Then(more) == todo' = more \o Tail(todo)

(* The function that is running returns: its steps up to the end go.       *)
Return == LET n == SelectInSeq(todo, LAMBDA s : s.op = "return")
          IN  todo' = SubSeq(todo, n + 1, Len(todo))

(* Nothing is where the program jumps to. *)
Lose == todo' = <<Do("lost", "")>>

Plain ==
    /\ todo # << >> /\ pc = 0 /\ Step.op \in Elsewhere /\ Then(<< >>)
    /\ UNCHANGED <<machine, pic, screen, bios, bus, disk, mounted, mod, framebuffer, faults, calls>>

(* boot.S and init_gdt, and the interrupt table with its sti at the end.   *)
Processor ==
    /\ \/ /\ At("set PG") /\ UNCHANGED unmasked
          /\ cpu' = [cpu EXCEPT !.PG = TRUE, !.cr3 = "kernel"]
       \/ /\ At("init_gdt") /\ UNCHANGED unmasked
          /\ cpu' = [cpu EXCEPT !.gdt = "kernel", !.stack = "kernel"]
       \/ /\ At("idt_init")
          /\ cpu' = [cpu EXCEPT !.idt = "kernel", !.IF = TRUE] /\ unmasked' = {0, 1}
    /\ Then(<< >>)
    /\ UNCHANGED <<pc, served, screen, bios, bus, disk, mounted, mod, framebuffer, faults, calls>>

(* The executer's module is copied to 0x1000.  When there is none          *)
(* get_multiboot_mod_by_name returns anything: what that points to is      *)
(* copied, or it cannot be read and the exception is the end.              *)
load_multiboot_mods ==
    /\ At("load_multiboot_mods")
    /\ \/ mod' = TRUE /\ Then(<< >>) /\ UNCHANGED faults
       \/ mod' = FALSE /\ faults' = faults \union {"executer"} /\ (Then(<< >>) \/ Lose)
    /\ UNCHANGED <<machine, pic, screen, bios, bus, disk, mounted, framebuffer, calls>>

(* The bus number has as many values as there are buses, so that the loop  *)
(* over all of them has no end.  When it returns its variables are gone.   *)
pci_find_device ==
    /\ At("pci_find_device")
    /\ \/ /\ bus.at = bus.controller /\ Then(<< >>) /\ bus' = [at |-> 0, controller |-> 0]
       \/ /\ bus.at # bus.controller /\ UNCHANGED todo
          /\ bus' = [bus EXCEPT !.at = (bus.at + 1) % Buses]
    /\ UNCHANGED <<machine, pic, screen, bios, disk, mounted, mod, framebuffer, faults, calls>>

(* The disk is on the second PIC; for priority its line is the first's 2. *)
(* Mutant: the line of the disk stays masked.                             *)
Open_Not(line) == unmasked
Open(line) == unmasked \union {line}

ide_init ==
    /\ At("ide_init") /\ Then(<< >>)
    /\ \/ unmasked' = Open(14) /\ disk' = [disk EXCEPT !.functions = TRUE] /\ UNCHANGED faults
       \/ faults' = faults \union {"disk"} /\ UNCHANGED <<unmasked, disk>>
    /\ UNCHANGED <<machine, served, screen, bios, bus, mounted, mod, framebuffer, calls>>

-----------------------------------------------------------------------------
(* The disk: a command, the flag cleared, and the wait for the interrupt   *)
(* to set it.                                                              *)
Command ==
    /\ At("command")
    /\ IF disk.functions
       THEN Then(<< >>) /\ disk' = [disk EXCEPT !.busy = TRUE]
       ELSE Lose /\ UNCHANGED disk
    /\ UNCHANGED <<machine, pic, screen, bios, bus, mounted, mod, framebuffer, faults, calls>>

(* When the command's interrupt was taken before, nothing sets it again.   *)
ClearFlag ==
    /\ At("clear") /\ Then(<< >>)
    /\ disk' = [disk EXCEPT !.irq_fired = FALSE]
    /\ faults' = IF disk.busy \/ disk.INTRQ THEN faults ELSE faults \union {"answer"}
    /\ UNCHANGED <<machine, pic, screen, bios, bus, mounted, mod, framebuffer, calls>>

(* The sector is what was looked for, or it is not and the function gives  *)
(* up.  Or it cannot be read: mbr_parse, fat32_init and the loop of        *)
(* test_filesystem give up then too, but vfs_lookup takes the error for an *)
(* entry and reads on, now as later.                                       *)
Wait ==
    /\ At("wait") /\ disk.irq_fired
    /\ \/ /\ Step.arg # "unreadable" /\ Then(<< >>)
          /\ mounted' = (mounted \/ Step.arg = "boot") /\ UNCHANGED faults
       \/ /\ Step.arg # "unreadable" /\ Return /\ UNCHANGED <<mounted, faults>>
       \/ /\ Step.arg \in {"root", "usr", "unreadable"}
          /\ todo' = read_sectors("unreadable") \o Tail(todo)
          /\ faults' = faults \union {"directory"} /\ UNCHANGED mounted
    /\ UNCHANGED <<machine, pic, screen, bios, bus, disk, mod, framebuffer, calls>>

(* opendir of /usr/lib, and the entries of the directory. *)
test_filesystem ==
    /\ At("test_filesystem")
    /\ Then(IF mounted
            THEN read_sectors("root") \o read_sectors("usr") \o read_sectors("lib") \o Returned
            ELSE << >>)
    /\ UNCHANGED <<machine, pic, screen, bios, bus, disk, mounted, mod, framebuffer, faults, calls>>

DiskAnswers ==
    /\ disk.busy /\ disk' = [disk EXCEPT !.busy = FALSE, !.INTRQ = TRUE]
    /\ UNCHANGED <<todo, machine, pic, screen, bios, bus, mounted, mod, framebuffer, faults, calls>>

(* An interrupt that nothing holds back.  The kernel's handler takes it    *)
(* and tells the PICs.  In real mode its vector is none of the BIOS's      *)
(* handlers, and nobody does.                                              *)
Passes(line) == cpu.IF /\ line \in unmasked /\ \A s \in served : line < s
DiskInterrupt ==
    /\ Passes(14) /\ cpu.PE /\ disk.INTRQ
    /\ disk' = [disk EXCEPT !.INTRQ = FALSE, !.irq_fired = TRUE]
    /\ UNCHANGED <<todo, machine, pic, screen, bios, bus, mounted, mod, framebuffer, faults, calls>>
RealModeInterrupt(line) ==
    /\ Passes(line) /\ ~cpu.PE /\ served' = served \union {line}
    /\ UNCHANGED <<todo, machine, unmasked, disk, screen, bios, bus, mounted, mod, framebuffer, faults, calls>>

-----------------------------------------------------------------------------
(* vbe_bios_call: the registers and the program are stored, and the        *)
(* executer is called where it should be.                                  *)
vbe_bios_call ==
    /\ todo # << >> /\ pc = 0 /\ Step.op \in Functions
    /\ IF mod THEN pc' = 1 /\ UNCHANGED todo ELSE Lose /\ UNCHANGED pc
    /\ UNCHANGED <<cpu, pic, screen, bios, bus, disk, mounted, mod, framebuffer, faults, calls>>

(* The BIOS, which may refuse. *)
Call ==
    /\ \/ /\ bios' = "004F"
          /\ card' = CASE Step.op = "4F02" -> Step.arg [] Step.op = "0003" -> "text" [] OTHER -> card
          /\ mode_info' = IF Step.op = "4F01" THEN Step.arg ELSE mode_info
       \/ bios' = "failed" /\ UNCHANGED <<card, mode_info>>
    /\ IF Step.op \in {"4F02", "0003", "4F01"} THEN settled' = FALSE /\ fitted' = FALSE /\ drawn' = TRUE
       ELSE UNCHANGED <<settled, fitted, drawn>>

Instruction ==
    /\ pc > 0
    /\ cpu' = Exec(cpu, Routine[pc])
    /\ IF Routine[pc] = "call" THEN Call ELSE UNCHANGED <<bios, card, mode_info, settled, fitted, drawn>>
    /\ IF pc < Len(Routine) THEN pc' = pc + 1 /\ UNCHANGED todo ELSE pc' = 0 /\ Then(<< >>)
    /\ UNCHANGED <<pic, t, bus, disk, mounted, mod, framebuffer, faults, calls>>

Check ==
    /\ At("if 004F") /\ IF bios = "004F" THEN Then(<< >>) ELSE Return
    /\ UNCHANGED <<machine, pic, screen, bios, bus, disk, mounted, mod, framebuffer, faults, calls>>

(* The end of vbe_set_mode, where it returns 0 if there is a framebuffer.  *)
ModeIsSet ==
    /\ At("framebuffer") /\ Then(<< >>)
    /\ settled' = framebuffer /\ drawn' = TRUE /\ fitted' = FALSE
    /\ UNCHANGED <<machine, pic, card, mode_info, t, bios, bus, disk, mounted, mod, framebuffer, faults, calls>>

-----------------------------------------------------------------------------
(* What the block at 0x9200 says; before the first success it is whatever  *)
(* the memory holds.                                                       *)
Described == IF mode_info \in Modes THEN {Mode[mode_info]} ELSE {Mode[m] : m \in Modes}

Write(writes) == drawn' = (settled => Inside(writes, card)) /\ UNCHANGED <<card, mode_info, settled, fitted>>

draw_background ==
    /\ At("draw_background")
    /\ \/ Then(<< >>) /\ UNCHANGED <<screen, faults>>     \* not a picture
       \/ Lose /\ faults' = faults \union {"picture"} /\ UNCHANGED screen
       \/ /\ Then(<< >>) /\ UNCHANGED <<t, faults>>
          /\ \E p \in Pictures, i \in Described : Write(display_image(i, p[1], p[2]))
    /\ UNCHANGED <<machine, pic, bios, bus, disk, mounted, mod, framebuffer, calls>>

Halt ==
    /\ At("halt") /\ Then(<< >>) /\ cpu' = [cpu EXCEPT !.IF = FALSE]
    /\ UNCHANGED <<pc, pic, screen, bios, bus, disk, mounted, mod, framebuffer, faults, calls>>

Program ==
    \/ Plain \/ Processor \/ load_multiboot_mods \/ pci_find_device \/ ide_init
    \/ Command \/ ClearFlag \/ Wait \/ test_filesystem \/ vbe_bios_call \/ Instruction \/ Check \/ ModeIsSet
    \/ draw_background \/ Halt

(* The video driver's other users.  Its calls that do not go to the BIOS   *)
(* are one step.                                                           *)
Use(steps) ==
    /\ At("halt") /\ calls < MaxCalls /\ calls' = calls + 1
    /\ todo' = steps \o todo
    /\ UNCHANGED <<machine, pic, screen, bios, bus, disk, mounted, mod, framebuffer, faults>>
ModeCall ==
    \/ \E m \in Modes : Use(vbe_set_mode(m)) \/ Use(vbe_get_mode_info(m))
    \/ Use(vbe_set_mode2)
    \/ Use(vbe_list_supported_modes)
    \/ Use(vbe_set_text_mode)       \* also vbe_clear_screen without a framebuffer

Draw(i) ==
    \/ framebuffer /\ Write(vbe_clear_screen(i)) /\ UNCHANGED t
    \/ \E x \in 0 .. i.width, y \in 0 .. i.height : Write(vbe_draw_pixel(i, x, y)) /\ UNCHANGED t
    \/ \E font \in Fonts :
         LET new == vbe_load_font(t, i, font)
         IN  /\ t' = new
             /\ fitted' = (settled /\ i.bpp >= 24 /\ t.col < new.max_col /\ t.row \in 0 .. new.max_row - 1)
             /\ UNCHANGED <<card, mode_info, drawn, settled>>
    \/ \E c \in {"glyph", "missing", "newline", "return"} :
         LET put == vbe_putchar(t, i, c)
         IN  /\ t' = put.at
             /\ drawn' = (fitted => Inside(put.writes, card))
             /\ UNCHANGED <<card, mode_info, settled, fitted>>
DrawCall ==
    /\ At("halt") /\ MaxCalls > 0 /\ \E i \in Described : Draw(i)
    /\ UNCHANGED <<todo, machine, pic, bios, bus, disk, mounted, mod, framebuffer, faults, calls>>

Init ==
    /\ todo = _start /\ pc = 0 /\ cpu = Loaded /\ bios = "none"
    /\ \E where \in 0 .. Buses : bus = [at |-> 0, controller |-> where]
    /\ faults = IF bus.controller = Buses THEN {"controller"} ELSE {}
    /\ unmasked = {} /\ served = {}
    /\ disk = [busy |-> FALSE, INTRQ |-> FALSE, irq_fired |-> FALSE, functions |-> FALSE]
    /\ mounted = FALSE /\ mod = FALSE /\ framebuffer \in BOOLEAN
    /\ card = "text" /\ mode_info = "unset"
    /\ t = [font |-> [width |-> 0, height |-> 0], col |-> 0, row |-> 0, max_col |-> 0, max_row |-> 0]
    /\ drawn = TRUE /\ settled = FALSE /\ fitted = FALSE /\ calls = 0

Next == Program \/ DiskAnswers \/ DiskInterrupt \/ (\E line \in Lines : RealModeInterrupt(line))
        \/ ModeCall \/ DrawCall

(* The processor goes on, the disk answers, and an interrupt that stays    *)
(* possible is taken.                                                      *)
Spec == Init /\ [][Next]_vars /\ WF_vars(Program) /\ WF_vars(DiskAnswers) /\ WF_vars(DiskInterrupt)
-----------------------------------------------------------------------------
(* Whenever an interrupt can come, the processor's modes, tables, segments *)
(* and stack fit together, and no instruction of the routine meets a state *)
(* in which it fails; between two calls of the BIOS everything but the     *)
(* descriptor table is again the kernel's.                                 *)
MachineIsConsistent ==
    /\ cpu.IF => Dispatches(cpu)
    /\ ~cpu.fault
    /\ (pc = 0 /\ unmasked # {}) => KernelsView(cpu) = <<TRUE, TRUE, "kernel", "kernel", "32", "32", "kernel">>

(* After vbe_set_mode succeeded, and as long as nothing else sets a mode   *)
(* or lists the modes, the description is that of the mode the card is in, *)
(* and pixels, cleared screens and characters stay in its frame, the       *)
(* latter if the font was loaded since, into a mode of three bytes or more *)
(* and with the cursor on the new screen.                                  *)
DrawnInFrame == settled => mode_info = card /\ drawn

(* read_bmp, wherever draw_background will meet it, takes exactly the      *)
(* uncompressed bitmaps of 24 or 32 bits, with an info header of 40 bytes  *)
(* or more, whose data are in the buffer, and finds each pixel of the      *)
(* picture, also when it begins with the top row; if the header says how   *)
(* long the data are, no pixel is beyond the buffer.  Only a header whose  *)
(* sizes wrap is left out.                                                 *)
PictureIsRight ==
    todo = _start =>
      \A f \in Bitmaps : FitsWord(f) =>
        /\ BmpError(f) = 0 <=> f.size >= 54 /\ Uncompressed(f) /\ f.data_offset + f.image_size =< f.size
        /\ BmpError(f) = 0 => IsPictureOf(read_bmp(f), f)

(* Whatever fails, kernel_init goes on and the kernel halts in the end,    *)
(* but for a machine without an IDE controller, where pci_find_device      *)
(* never returns, one without a disk or without one of the modules, where  *)
(* the kernel follows a pointer to nothing, a bad sector in a directory,   *)
(* which vfs_lookup reads for ever, a drive that answers before the driver *)
(* has cleared the flag it then waits for, and an interrupt in real mode   *)
(* before fs_init waits for the disk's.                                    *)
BootEnds == <>(todo = << >>) \/ <>(faults # {}) \/ <>(At("wait") /\ served # {})
=============================================================================
