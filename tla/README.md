# The os1 kernel in TLA+

A TLA+ development kept beside the os1 kernel (a 32-bit x86 hobby operating
system: `src/src/kernel`, `src/src/libc`). The modules are translated from the
C and assembly sources; TLC checks them on small instances and TLAPS proves
theorems about them for every value of their constants. Paths below are from
the root of the repository's checkout (`src/`).

## The system and its components

The kernel is one program with one flow of control (`kernel_main`, in
`src/src/kernel/main.c`) and the interrupt handlers that pre-empt it. There is no
scheduler that runs and no user mode: the "processes" are a table that
`init_process` fills in. What makes the code hard is therefore
(1) an interrupt between any two instructions of the main flow, (2) devices
that answer when they like, (3) pointer structures in a heap that never
returns NULL, and (4) long sequences of file-system calls over shared nodes.

| component | source | state | operations | what must hold |
|---|---|---|---|---|
| kernel heap | `kernel/utils/kmem.c` | header list inside one static array | `init_heap`, `kmalloc`, `kfree` | the list tiles the array, nothing is shared or lost, the search ends |
| interrupt dispatch, PICs | `kernel/arch/i386/interrupts/idt.c`, `idt_asm.S` | request and in-service bits of two 8259s, IF | `pic_remap`, `isr_handler`, `isr_default` | every interrupt taken is acknowledged at each chip that serves it |
| keyboard | `kernel/drivers/keyboard.c`, `isrs/keyboard.c` | ring of events, head, tail, modifiers | the IRQ 1 handler puts, `keyboard_get_event` takes, `keyboard_clear_buffer` | no event invented, doubled or reordered |
| key map | `keycode_to_ascii` in `kernel/drivers/keyboard.c` | none | a key and its modifiers to a character | each printable character is on one key; no table is read past its end |
| text console, line editor | `kernel/drivers/vga.c`, `libc/stdio/scanf.c`, `printf.c`, `puts.c` | the screen, its cursor; the line's buffer | `vga_put_char`, scrolling; `read_input`, `getchar` | cursor on the screen; screen and buffer show the same line |
| ATA disk | `kernel/drivers/ide.c` | `ide_irq_fired`, the drive's registers | read and write sectors, the IRQ 14 handler | a call ends, its data is whole |
| VFS | `kernel/fs/vfs.c`, `kernel/fs/syscalls.c` | `fd_table`, `root`, nodes in the heap | open, close, read, write, lseek, unlink, stat, access, opendir, readdir, closedir, mount | a node in use is allocated; descriptors are independent |
| FAT32, partition table | `kernel/fs/fat32.c`, `kernel/fs/mbr.c` | BPB, buffers, long-name state | mount, readdir, read, cluster chain | every file listed once under its name; reads return what they say |
| paging | `kernel/arch/i386/paging.c`, `boot.S` | page directory, pool of page tables, bitmap of physical pages | `init_paging_stage1`, `_stage2`, `map_phys_to_virt` | the kernel stays mapped while its tables are rebuilt; a call changes one page |
| mouse, text cursor | `kernel/drivers/mouse.c`, `cursor.c`, `isrs/mouse.c` | packet cycle, position, saved cell | packet assembly in the IRQ 12 handler, clamping; show, hide, move, shape | the pointer on the screen; the text under the cursor comes back |
| video, background | `kernel/drivers/vbe.c`, `utils/bmp.c` | mode, its description at 0x9200, text cursor, font | mode setting, drawing, reading a bitmap | writes inside the frame of the mode the card is in |
| 16-bit executer | `src/modules/16bit-executer/mod-switcher.asm`, `drivers/vbe_asm.S` | CR0, CR3, GDT, IDT, stack, IF | run a real-mode routine and come back | the state comes back |
| system calls | `kernel/syscall.c`, `arch/i386/syscall_asm.S`, `libc/syscall/*.c`, `libc/unistd.c` | `errno` | dispatch, conversion of results | a result or error arrives unchanged |
| streams | `libc/stdio/{init,buffer,fopen,fclose,fprintf,fscanf}.c` | FILE buffers, flags | buffered write, flush, open, close | every byte is written once, in order |
| timer, serial, PCI, log | `drivers/timer.c`, `serial.c`, `pci.c`, `utils/klog.c` | a tick counter, port settings | `serial_printf`, `klog`, `pci_find_device` | the text that goes out; the search ends |
| processes | `arch/i386/process.c`, `binfmt/elf.c` | process table | `init_process` | - |
| boot, processor | `main.c`, `a20.c`, `gdt.c`, `cpu/*.c`, exception handlers | hardware registers | `_start`, `kernel_init`, `init_drivers` | a failed component does not stop the boot |
| not built | `arch/i386/mconio.c`, `tty.c`, `vga.c`, `fs/fs.c`, `fs/tmpfs.c`, `libc/stdio/{putc,getc,fgets}.c` | - | - | - |
| conversions | `libc/string/snprintf.c`, `libc/stdio/{buffer,sprintf,scanf,printf}.c` | none | formatting, parsing, colour codes | the text the C standard wants |
| strings, unicode | `libc/string/*.c`, `kernel/fs/unicode.c` | none | copying, comparing; UTF-16 to ASCII, without a caller | - |

How they interact: `kernel_init` starts the console, paging, the heap, the
interrupt tables (interrupts are on before any driver has registered its
handler), the drivers, the VFS and the file system; `test_filesystem` then reads
through VFS, FAT32 and the disk driver, which waits for IRQ 14; after that the
video mode is switched, the background is drawn and `kernel_main` halts. Only
the modules of the boot loader and VFS nodes are allocated from the heap;
interrupt handlers never allocate, never write to the screen and never call the
file system. The keyboard's ring, `ide_irq_fired` and the tick counter are what
handlers and main flow share. The line editor polls the keyboard's ring and
writes to the screen.

## Modules and what they stand for

| module | models | state and actions |
|---|---|---|
| `Allocator` | what the heap promises | regions handed out; `Malloc`, `Free` |
| `Heap` (`MCHeap`) | `kmem.c` | the array in cells of 16 bytes, with what each cell reads as when taken for a header; `kmalloc` one loop iteration per step, `kfree`, payload writes by the owners. History: what is held, and which pointers were freed. |
| `HeapProofs` | - | theorems about `Heap` |
| `EventQueue` | what the ring promises | a bounded queue; `Put`, `Take`, `Clear` |
| `Keyboard` (`MCKeyboard`) | `keyboard.c`, `isrs/keyboard.c` | the IRQ 1 handler in one step (interrupts are off); `keyboard_get_event` and `keyboard_clear_buffer` one memory access per step, in any order within a call, as the variables are not `volatile` and the compiler may reorder them. Scancode set 1 of a dozen keys, with extended and Pause codes. |
| `InputProofs` | - | theorems about `Keyboard` and about `Console` |
| `Interrupts` | `idt.c`, `idt_asm.S` | the 8259 pair (external), the gate, each acknowledgement a step; devices raise and withdraw requests at any moment |
| `Ide` | `ide.c` | the driver between its port accesses, the drive (external) that is busy, ready, faulty or absent, the handler of IRQ 14 |
| `DeviceProofs` | - | theorems about `Interrupts` and about `Ide` |
| `Descriptors` | what the VFS promises | independent descriptors and streams with positions |
| `Vfs` (`MCVfs`) | `vfs.c` | `fd_table`, `root`, directory streams, nodes as heap blocks that are freed and used again; one action per call |
| `VfsProofs` | - | theorems about `Vfs` |
| `Fat32` (`MCFat32`) | `fat32.c`, `mbr.c`, `fs_init` | the directory walk one entry per step with its long-name state, `fat32_read` one cluster per step; every read of a sector may fail |
| `FileProofs` | - | theorems about `Fat32` and about `Streams` |
| `AddressSpace` | what the page tables promise | a translation that changes at one page per call |
| `Paging` (`MCPaging`) | `paging.c`, `boot.S` | page directory, pool of tables, bitmap; the two stages of the start and `map_phys_to_virt` |
| `PagingProofs` | - | theorems about `Paging` |
| `Console` (`MCConsole`) | `vga.c`, `scanf.c`, `printf.c`, `puts.c` | the cells and the cursor, scrolling; `read_input`, and one action for what `getchar` does with a key |
| `Formats` (`MCFormats`) | `snprintf.c`, `buffer.c`, `sprintf.c`, `scanf.c`, `printf.c`, `serial.c`, `klog.c` | no state: the conversions as functions of a format in its parts and of the arguments. `MCFormats` states what they should give, from the C standard and the repository's own tests. |
| `Keymap` | `keyboard.c` | no state: `keycode_to_ascii`; a lookup behind the end of a table is any byte |
| `Pipe` | what the streams promise | for each stream its mode, what it was given, how much of that was handed over and what the kernel took; `Open`, `Transfer`, `Close` |
| `Streams` (`MCStreams`) | `buffer.c`, `fopen.c`, `fclose.c`, `init.c`, `puts.c` | each FILE with its buffer, flags and descriptor; `vfprintf` piece by piece and `write_buffer` write by write, each system call with any outcome (all, some, an error). `MCStreams` states the conversions' properties, too, and has them evaluated in its initial state. |
| `Syscalls` | `libc/unistd.c` and its kin, `syscall_arch.h`, `kernel/syscall.c` | no state: numbers, dispatch, what handlers answer, what wrappers make of it |
| `Trap` | `syscall_asm.S` and the way through it | registers and the kernel's stack; one action for each group of instructions |
| `Pointer` (`MCPointer`) | `mouse.c`, `cursor.c`, `isrs/mouse.c` | mouse, cursor, the cells of the text screen; the IRQ 12 handler in one step, calls of the main program one access per step |
| `PointerProofs` | - | theorems about `Pointer` |
| `ModeSwitch` | `mod-switcher.asm` | no variables: the processor's state as a record, the routine as a sequence of instructions, and what each needs and does |
| `Video` | `vbe.c`, `bmp.c` | no variables: which bytes of the frame each drawing function writes, `read_bmp` |
| `Boot` (`MCBoot`) | `boot.S`, `main.c`, `process.c`, `pci.c`, `vbe.c` | the program as a list of steps that are left to do, the processor, the PICs, the disk, the card; one action for each kind of step, the routine of `ModeSwitch` one instruction per step, then calls of the video driver |
| `BootProofs` | - | theorems about `Boot` |

The modules are composed where the code shares state. `Ide` contains the line
IRQ 14 with its mask, and the processor that takes the interrupt before its next
instruction. `Boot` runs the steps of the whole kernel over `ModeSwitch` and
`Video`, with its own small picture of the disk and the PICs. What `vfprintf` puts
into a stream is a sequence of literals and conversions, whose texts `Formats`
computes. `Vfs` takes the outcome of a file system lookup from what
`Fat32` shows it to be (an entry, the end, an error), and `Console` takes the
keys in the order `Keyboard` delivers them. `Interrupts` is what makes "the
handler is one step" true in `Keyboard` and `Ide`.

## Runs

| run | asks | instance | states |
|---|---|---|---|
| `heap_core` | do `kmalloc` and `kfree` keep the block list, and does it implement `Allocator`? | 7 cells; requests of 0, 16, 17 and 112 bytes | 73,110 |
| `kbd_ring` | do events come out whole and in order, and does the ring implement `EventQueue`? | ring of 3 slots, 4 key movements | 209,302 |
| `irq_served` | is every interrupt acknowledged, at the right chip, and every request served? | IRQ 0, 1, 12, 14; 5 requests | 1,639 |
| `ide_slow` | is data whole and does every call end? | 3 sectors, one faulty, calls of up to 2 and past the end | 5,470 |
| `vfs_calls` | are nodes in use allocated, and are descriptors independent? | 2 descriptors, 1 stream, 5 blocks | 25,690 |
| `fat_list` | is every file listed once, and do reads return what they say? | directories of up to 3 items of 5 kinds, sectors of 2 entries, clusters of 2 sectors, one failing read | 138,493 |
| `line_edit` | does the screen show what the buffer holds? | screen of 4 by 3, tab 2, lines of up to 6 characters, 2 outputs, 7 keys | 1,977,518 |
| `paging_map` | does the kernel stay mapped, and is the layout right? | tables of 4 entries, directory of 13, pool of 11 tables, module ends 0, 8, 12 | 2,664 |
| `streams` | which bytes of a stream go out, in which order, and does a stream implement `Pipe`; are the conversions what the standard says? | 2 files, buffers of 3, pieces of up to 4, 3 calls; the conversions over several thousand formats and arguments, once, in the initial state | 871,726 |
| `pointer` | is the text under the cursor kept, is the pointer on the screen last set? | text screen of 3 by 2, the mouse's too, or of 2 by 2 or 5 by 3, coordinates of 3 bits, 6 bytes of the mouse, 2 calls, 1 write | 2,165,179 |
| `boot` | do the processor's modes fit together, does drawing stay in the frame, does the boot end? | 2 buses, the timer's interrupt in real mode, 1 call of the video driver that sets a mode and any number that draw; every bitmap up to 4 by 3, with info headers of 39 and 40 bytes, in words of 100 values | 1,744,664 |
| `syscall_gate` | does a system call reach its handler? violated | every call, one argument 0 or none | - |

Why the bounds are enough:

- `heap_core`: 7 cells hold three blocks with a header each, so that a block can
  be merged with neither, either or both neighbours, and split or not; 16 and 17
  are the two sides of a rounding and 112 asks for more than there is.
- `kbd_ring`: with 3 slots two events fill the ring, the third is dropped, and
  indices wrap; four movements let a handler come in before, between and after
  the accesses of a call, with a modifier pressed and released around a key.
- `irq_served`: one line of each chip with and without second acknowledgement,
  and the two highest lines of the master; five requests let each line come
  again while another is in service.
- `ide_slow`: a call of two sectors is the shortest in which one fails after
  another was done.
- `vfs_calls`: two descriptors fill the table; a path of two components loses a
  node with every lookup, so five blocks run out and are used again.
- `fat_list`: with two entries to a sector and two sectors to a cluster, three
  items with long names end before, at and after each of these ends.
- `line_edit`: rows of 4 and lines of 6 make a line wrap, scroll the screen and
  come back over the end of a row; a tab of 2 has both widths.
- `paging_map`: the pool leaves 2, 1 or no table for later mappings, as the
  modules' end is near, at or past the end of a table.
- `streams`: a buffer of 3 is filled exactly, overrun once and overrun twice by
  texts of up to 4, with the newline in each place; three calls open, write
  and close, and the descriptor of a closed file is used again. The functions
  have no state, so a sample around each boundary (0, signs, the widths, the
  last place of the buffer) takes the place of a bound.
- `pointer`: six bytes are two packets, or one and a misaligned one; two calls
  show the cursor and then do each other thing to it, and a write comes before,
  between or after. A screen of 5 by 3 is larger than the text screen in both
  directions, so that the cursor leaves the text memory, and its last column,
  4, is not a coordinate of 3 bits: it wraps, as one beyond 32767 does in
  the 16 bits of `vga_put_char_at`.
- `boot`: two buses show the number wrap; the timer is the highest line, so what
  it blocks is everything, and lower lines add nothing; one later call of a
  function that sets a mode follows the one of `kernel_init`, so every order
  of two is seen.

What the violated run shows is a finding in `PROJECT.json`. The handler that
`syscall.c:108` has in a comment,
`r->eax = syscall_dispatch(r->eax, r->ebx, ..., r->ebp)`, was replaced by
`syscall_asm.S`, which pushes six registers without `eax` (from line 11 on), so
that the dispatcher takes the first argument for the number, and whose `popa`
puts the caller's `eax` over the result.

## Where the code falls short

Four of these show as violated properties when one constant of a run is
changed; the runs keep to the instances on which the properties hold.

- `ide_slow` with `Fast = TRUE`: `CallsEnd` fails. `ide_irq_fired` is cleared
  after the command was sent, so the interrupt of a drive that answers at
  once is forgotten and the call waits for ever. With `Timeouts = TRUE` the
  driver gives a command to a drive that is still busy (`ide_wait_ready` gives
  up silently).
- `irq_served` with `Withdrawn = {14}`: `RequestsAreServed` fails. The slave then
  answers with IRQ 15, which has the default handler, and nobody acknowledges
  it at the master, where it blocks lines 2 to 7.
- `vfs_calls` with `Paths <- RootPaths`: `HeldIsLive` fails. A call on `/` frees the
  shared root node when it gives it back.
- `fat_list` with `Contents <- LabelContents`: `ListingIsRight` fails. `readdir`
  counts its way from the start; a volume label counts when it is passed over
  but not when it is reached, so that the file behind it is listed twice.

The rest is in the models as the code has it, and the properties say around it
what does hold.

- Heap: `align_size` wraps for requests next to 2^32 (the proofs assume none).
- Keyboard: both shift keys share one bit, Caps Lock toggles on every repeat, and
  Pause is read as Control and Num Lock. The keys of `kbd_ring` leave these cases
  out: `ModifiersAreMeant` does not hold with two shift keys struck. An event
  that arrives during `keyboard_clear_buffer` may be dropped.
- Key map: Shift with the space bar, a key of the keypad or an arrow reads past
  the end of its table.
- Disk: after a failed `ide_init` the drive's function pointers stay NULL, and
  `fs_init` calls through them.
- VFS: a lookup of a path with several components, and a refused open, lose
  nodes (`LossesAreKnown` says these are the only ones). A directory that
  cannot be read makes `vfs_lookup` spin.
- FAT32: the copy in `fat32_read` is inside a comment: the buffer it returns is
  filled by nobody. An unreadable FAT sector ends a chain like its last
  cluster. An empty file has cluster 0, and a read of it returns a cluster's
  worth of bytes. With more than eight sectors to a cluster `cluster_buffer` is too
  short.
- Paging: `phys_page_already_mapped` sees only the first page of each word of its
  bitmap; `map_phys_to_virt` does not flush the translation cache.
- Line editor: backspace on an empty line stores a `\b`, and one on a TAB leaves
  the screen and the buffer out of step.
- Conversions: 0.999 with two places prints as 0.100 (`buffer.c:196`); numbers are
  padded with zeros before their sign or `0x`; `snprintf` takes a negative width
  given as `*` for a huge one (`snprintf.c:26`); `kscanf`'s `%d` takes a lone `-` for
  0. The repository's serial tests 19, 29, 36 and 39 expect what the code does
  not print (`TestsPassButFour`), and so do the comments at
  `basic_tests.c:91-98`.
- Streams: what a short write did not take is lost, in `fflush` as in `fclose`,
  and an unbuffered short write is not noticed; `fclose` leaves the stream open
  when its write fails; `vfprintf` cuts literal text after 1023 characters and
  returns 0 or -1 instead of a count. `errno` is always `EPERM`, as the wrappers
  convert a result twice.
- Mouse: a byte that is lost or invented shifts every packet that follows until
  a first byte lacks bit 3. A packet in the middle of a cursor call, or text
  written under a visible cursor, leaves wrong cells behind
  (`CursorIsTransparent` says which). A size of the screen has a lower bound and
  no upper one (`mouse.c:91`, `126`; `mouse.h:27` speaks of pixels or characters),
  though the cursor is drawn in the text memory: with a size beyond 80 by 25 it
  saves and writes cells behind that memory, and with one beyond 32768 in
  front of it, too. A timeout is reported as success.
  `kernel_init` starts no mouse.
- Mode switching: in real mode interrupts are on while the PICs still give
  vectors from 32, so a tick there is never acknowledged; the wait for the disk
  in `fs_init` then has no end. The descriptor table is not given back.
- Video: `vbe_list_supported_modes` overwrites the description that all drawing
  uses (`vbe.c:561`); `vbe_get_mode_info` has the BIOS write its answer at 0xA000
  and copies to its caller the description at 0x9200, of the mode last set or
  listed; drawing after a failed `vbe_set_mode` goes by whatever is at
  0x9200; `vbe_set_mode2` ignores its arguments; the text cursor survives a
  change of font or mode, its row becomes -1 without a font, and characters
  take three bytes to a pixel in every mode.
- Bitmap: a header that says `image_size` is 0 passes the check of the size, and so
  may one whose sizes wrap (`FitsWord`).
- Boot: without an IDE controller `pci_find_device` counts an `uint8_t` to 256 for
  ever (`pci.c:14`); without the executer's module `get_multiboot_mod_by_name`
  returns garbage (`process.c:382-397`) and the first BIOS call jumps to it. A
  drive that answers a command before `ide_irq_fired` is cleared (`ide.c:66`) hangs
  `fs_init` or `test_filesystem`, as above.
- Timer: the port and the value of two `outb` are swapped (`timer.c:21`), so the
  timer keeps its 18.2 Hz.

## Fairness

Safety needs none. `kmalloc`'s scan, the disk driver, `fs_init`, `readdir`,
`read`, the steps of a stream's call (`Streams`) and the program of `Boot` are weakly fair because the kernel runs on when it is not interrupted for
ever, which a bounded number of requests cannot do. Handlers are fair because
the processor takes a pending interrupt before its next instruction
(interrupts are on, and the line is unmasked; in `Boot` the disk's interrupt is
fair only as far as nothing of higher priority is in service). `keyboard_get_event` is
fair because `getchar` calls it in a loop. The drive answers a command it has
accepted (`Device` in `Ide`), which is what ATA drives promise; a drive that
may stay busy longer than the driver's polls is the constant `Timeouts`. Devices
need not raise anything, nobody need call the heap or the VFS, and
no output or key is assumed.

## What is proved

`HeapProofs`, for every heap size, word and set of requests (assumptions:
`HeapAssumption`, and `RequestsFitWord`, that no request is so close to the end of
the word that rounding wraps; without it `align_size` wraps to 0 and a caller
gets less than asked for). The property callers rely on, that the blocks held
are disjoint and large enough, is not inductive: whether `kfree` may merge
depends on what its header's `next` and `prev` say. `IInv` adds that the headers
tile the array in the order of the list (`Tiling`), that no two neighbours are
free (`Coalesced`), that what is held is exactly the used blocks (`HeldIsUsed`),
that the header of a freed pointer reads as free until its cell is handed out
again (`DoubleFreeIsSeen`) and lies in no used block whose owner could overwrite
it (`FreedIsUnused`), and that what the scan has
passed over was too small (`PassedOver`). From it: `HeapStaysTiled`,
`HeldPointersAreGood`, `DoubleFreesAreSeen`, `GivingUpIsJustified`,
`NothingIsLost`, `KmallocIsFirstFit`, `HeldBlocksAreStable`, and the refinement
`HeapImplementsAllocator`.

`DeviceProofs` on `Interrupts`, for all sets of lines and any number of requests, as long
as no line of the slave is withdrawn (`NoSlaveWithdrawn`; that this is needed
TLC shows with `Withdrawn = {14}`): `EveryInterruptIsAcknowledged` and
`OnlyItsOwnIsAcknowledged`. An unspecific acknowledgement ends whatever has the
highest priority in service, so the proof must know what that is: `InStep`
lists, for each vector, which bits are in service with which acknowledgements
left, including the mouse's handler that acknowledges twice. That a handler
starts in one of these states needs that the cascade seen by the processor is
still requested when it answers, the third part of the invariant.

`PointerProofs`, for every size of the text screen and any sizes asked of the
mouse's, larger ones included, every speed, set of bytes and any number of
packets and calls: `PointerStaysOnScreen`, that whenever no call is under way the
position is on the screen of the size last set, and the cursor in that screen's
memory or in the text's (where `cursor_init` puts it). It does not say that the
cursor is in the text memory: with a larger size it is not.
`CursorStaysInText` says what is missing: if no size asked for is larger than the
text screen, it is there at every step. The property is not inductive: in the middle of
a call the width, the height and the two coordinates are new and old in turn, the
position and the cursor may be off the new screen, and a packet that comes then
is scaled and clamped with what is set so far. `Stage` names, for each rest of
the call, the measures already in place, the coordinate that is within them and
whether the cursor is, and `TypeOK` that whatever else holds, the position is
within a width and a height that were asked for. The proof has one lemma for
each step of a call, one for the packet and one for the start of a call; the
arithmetic of the clamp is in lemmas of their own.
`TextShowsThroughCursor` is `CursorIsTransparent`: between two calls every cell
shows what was written to it, and the one under a shown cursor what was written
in the cursor's colours or shape, but for the cells named as spoilt. The property
says nothing of the middle of a call, so `SheetInv` adds, for each stage of a call
that no packet interrupted, where the text is bare, where the face lies and what
the cursor keeps (`Exact`), and for one that was interrupted, that a cell nothing
has changed since the call began is still shown or kept (`Safe`): this is why the
cells changed by either party and the one the cursor stands on at the end are all
that may be spoilt. `PointerAssumption` asks nothing of the sizes but that they
are integers; that positions are exact is the model's: the code keeps them as
`float`, which has 24 bits, and rounds fractions of a cell. The memory behind and
in front of the text is taken for memory like it, of which nobody else writes.

`InputProofs` on `Keyboard`, for every size of the ring, all keys and any typing:
`RingImplementsQueue` and `RingKeepsTheLog` without any assumption about the keys,
as what is put into the ring does not matter to it. The difficulty is the call
that is under way when the handler comes in: `RingInv` says, for each set of
accesses that are done, what the values read are worth now (a head read before
the handler put an event is still a place of the log, a tail read is still the
end of some part of it). `EventsAreThoseStruck` and `ModifiersAreThoseMeant` hold
for keys that are `Orderly`: no Pause, at most one of the two Shift keys, no lock
key that repeats. Without each of these the driver itself is wrong (see
above), so the assumption is the weakest that the code allows. Their invariant
maps each byte on the wire to the stroke it belongs to and each event to the
stroke it stands for (`Decoded`), and says that the modifiers at each stroke
follow from those after the stroke before it (`Chained`): that Caps Lock is on
after an odd number of presses is a statement about the parity of a set, proved
by adding one element at a time.

`InputProofs` on `Console`, for every size of the screen and of its tabulators,
any output, keys and corrections: `LineStaysOnScreen`, that the screen shows what
the buffer holds. The property speaks of the places of the characters, which a
recursive function gives; `LineAt` says of a function that it is this one, what is
seen at each place, that the screen is blank from the cursor to the farthest place
the line came to, and one more thing: a line whose beginning was scrolled off the
screen has a TAB on it. Without that the property is not inductive. A backspace
with the cursor in the corner does nothing on the screen but takes a character
from the buffer, so the cursor must never come back to the corner; it cannot,
because a TAB that is taken back ends what the property says, and without one
the line would have to be longer than the buffer (`FewPlaces`). This needs
`INPUT_BUFFER_SIZE =< (screenheight - 1) * screenwidth + 2`, which `ConsoleAssumption`
says and TLC shows to be exact: with two rows of four columns a buffer of 6
keeps the property and one of 7 violates it. The code has 256 of 1922. Steps
are of three kinds: what is put at a place (`Stays`), what is put at the end of the
screen and moves everything up a row (`Moves`), and what is taken back
(`CharacterTaken`); the rest is division, which tells the cells of a row from
those of the next (`RowOrder`, `CellOf`), and that tabulators are in the same
columns of every row (`SameColumn`, as `tabsize` divides `screenwidth`).

`DeviceProofs` on `Ide`, for every disk and any sequence of calls: `AwakeDriverMeansDone`, that
whoever goes on after an interrupt has a drive that is done, needs nothing of
the drive; `IdeTransfersAreRight` needs a drive that is not busy for longer than
the driver polls (`NoTimeouts`; TLC shows the failure with `Timeouts = TRUE`). The
invariant follows a transfer sector by sector (`Copied`, `Moved`), and says what an
interrupt flag that is set, or an interrupt on its way, tells about the drive
(`Awake`, `Engaged`): at most one is outstanding, and it is the current command's.

`VfsProofs`, for every table, heap, disk and set of paths except the root's
(`NoRootPath`: a call on `/` frees the root node, as above): `HeldNodesAreLive`,
`NodesAreUnshared`, `LossesAreTheKnown` and the refinement
`VfsImplementsDescriptors`. `HeldIsLive` is not inductive: a node that two
descriptors shared would be freed by the first close. `Accounted` says that
what is held is allocated, by one holder each, and counts the rest; that a
lookup returns a node nobody holds yet follows from the heap, and that the walk
of a path, a recursive function, exists and ends in a node of its own is shown
by induction on its length. The refinement needs a disk on which a lookup
reads nothing that is not there (`SoundDisk`), because `vfs_lookup` follows an
entry nobody wrote when the first one of a directory is unreadable.

`FileProofs` on `Fat32`, for clusters and files of every size, any offset and count, any
directory and any number of sectors that cannot be read:
`ReadsReturnWhatTheChainHolds`. The result is a sum over a walk that the
property does not see, so `FatInv` says where the walk is: while clusters are
skipped, the place asked for is the beginning of the walk's cluster and the rest
of the offset; then what was read ends where the walk's cluster begins, unless it
is all that was asked for (`Skipped`, `Copied`). The one product in it, the place
at which a cluster begins, is kept in a definition of its own (`Base`).

`ListingsAreRight` is the second theorem about `Fat32`: for every directory in which no
file stands behind a label (`LabelsLast`; only a root has a label, and with a file
behind it the property fails, as above), with any names, any number of deleted,
orphaned and foreign entries between the files, sectors, clusters and `lfn_buffer`
of any size, and any reads that fail, `ListingIsRight`. What a listing shows so far
does not say what the next call will find, so `ListInv` says where the walk is: at
the i-th entry of the k-th item, with the files of the items before it counted in
`current_index` (`AtEntry`), and with `lfn_buffer` holding the parts passed of that
item's name, in the order they are read in, or nothing once they were too many
(`Taken`). A call that comes to a file it has not counted is then at the next file
expected, and a name left by an orphan has another file's checksum. Where an item's
entries lie, how many files there are before it and how long the first parts of its name
are together are all sums of sizes: `SumsAre` and `WhichIs` say what a sum
is and that each place belongs to one item, and `NextEntry` that the three
counters of the walk, which wrap around at sectors and clusters, count the places
one by one.

`FileProofs` on `Streams`, for every size of a stream's buffer and of `vfprintf`'s, all
texts and formats, any files and calls and any answers of the kernel: the
refinement `StreamsImplementPipe`, `NoLineStaysBehind` (`LinesAreOut`) and
`DescriptorsAreKept` (`DescriptorsAreStreams`). None of them is inductive. What
`Pipe` promises is about what was given and what was handed over, and says
nothing of the buffer in between: `Waits` says that it holds the rest of what was
given, place by place. A newline may wait in the middle of `write_buffer`, but
only in the stream that is being flushed (`Lines`), and a descriptor without a
stream exists between the two system calls of `fopen` (`Descriptors`); the lowest
free descriptor, which `open` returns, exists because the open ones are finitely
many. `CallOK` says what each stage of a call may rely on: that a `fclose` which
gets to close the descriptor has an empty buffer, that text is copied into the
buffer only of a stream that has one. That the pieces `vfprintf` hands to
`write_buffer` are texts, for every format, is an induction over the format and
within each item.

`PagingProofs`, for every size of tables, directory and pool, every end of the RAM,
of the kernel and of its modules, and any calls of `map_phys_to_virt`:
`MemoryStaysMapped` and the refinement `PagingImplementsAddressSpace`. The
assumptions (`PagingAssumption`) are those of the code: the addresses in its text
lie in the order it takes for granted, kernel and modules fit below the high
half, and the pool has the tables that the boot code takes without asking (with
the numbers of the code at most 395 of 1280). What holds at a
stage does not follow from what held before it, only from the whole of what the loops
have written: `Stage` is the content of each directory entry (`Dir`) and of each
entry of each table (`Holds`) in closed form, and one lemma for each loop turns a
stage into the next; the loop's indices, which count pages over several tables,
are taken apart by division (`FilledAt`). After the start `Unshared` is enough: two
directory entries have one table only when one is the low half's and the other
its image, and every table in use is before the pool's next. A table that is
taken from the pool with its old content, or twice, would break it.

`BootProofs`, for every set of modes of the card, any number of buses, any faults
of the disk, answers of the BIOS and use of the video driver:
first `MachineStaysConsistent`. `MachineIsConsistent` asks that tables, segments, stack and
modes fit together wherever an interrupt may come, and that no instruction of the
executer needs what the machine is not. The invariant makes the state of the machine
a function of where it is: `Here` says what each register is before each of the
24 instructions of the routine, `Early` what it is before each of the ten steps
that come before interrupts are on. The program itself grows at its front: a call
puts its steps before those that are left, so the invariant also says that
beyond the ten first steps there are only late ones (`LateSteps`), which set no table of
the processor. Only the routine does, and it gives back what it saved.

`DrawingStaysInFrame` is the second theorem about `Boot`. That `vbe_set_mode` takes
a mode for set says nothing by itself; what counts is that the four steps before
it, two calls of the BIOS and two looks at the answer, were those of the same
mode and said yes. `SetFirst` therefore says of the last step of the function,
wherever it is among what is left to do, that the four are in front of it, or,
as far as they are gone, that the card and the block at 0x9200 are what they made
them (`Known`); nothing that is put in front of the program, and no early return,
cuts a function in two (`Whole`). The rest is arithmetic: a pixel, a glyph and a
scrolled row end before the frame does (`PixelIn`, `GlyphIn`, `ScrolledIn`), and a
cursor that is on the screen stays there (`Fits`). `VideoAssumption` restricts the
modes to those of 16, 24 and 32 bits, which the driver calls supported
(`vbe.c:578`), with rows that hold their pixels; nothing keeps a caller of
`vbe_set_mode` from another, and in one of 8 bits `vbe_clear_screen`, which takes
two bytes for a pixel then, would write behind the frame.

The third, `PicturesAreRight`, is about `read_bmp` for every width, height and size
of a file: it takes a file if and only if it is a picture of a kind it knows
whose data are in the buffer, and finds each pixel. That a row and its padding
are the whole words the format wants is a lemma (`RowIsStride`), that no pixel is
behind the end another (`PixelBelow`). Sums and products are of 32 bits in the
code and wrap at `Word` in the model; `FitsWord`, a part of the property, leaves out
the headers with which they do. A picture of a kind it knows has an info header of
40 bytes or more, 24 or 32 bits and no compression.

Every theorem about the values of a recursive function is proved by induction
over positions, for which the two lemmas `Inductive` and `Induct` are enough: a set
that has 0, and with each number the next, has all of them.

Only model-checked: everything that must happen eventually (`KmallocEnds`,
`QueuedIsTaken`, `RequestsAreServed`, `CallsEnd`, `CallsReturn`, `BootEnds`), because the
prover does not reach liveness under fairness; the conversions of `Formats`
(`SnprintfIsStandard` and the four others of `MCStreams`), which are operators that
call themselves, in modules the prover cannot load; and `EveryCharacterHasAKey`, which has
no constants: TLC evaluates all of it.

## Not modelled

Each component of the inventory without a module is in `PROJECT.json` with its
reason: detection of the processor and handlers that print and halt, code that
is commented out, stubbed with `-ENOSYS` or not built, the unicode functions that
nothing calls (one refuses a text that just fits, the other lets it be
one place too long), sample programs for a user mode the kernel does not enter,
tests and scripts. Inside the modelled components: colours of pixels and the glyph
table of a font (which is an `uint8_t` for up to 512 glyphs), `vbe_fill_rect` and
`vbe_get_current_mode` (which have no caller), the mouse's buttons and settings, 64-bit arguments of
conversions, a width given as `*`, the plain string functions, what is in a
sector beyond its identity, timing, and the translation cache. Reading from a
stream, `fprintf` and `fscanf` have no code that is built. Switching and
loading of processes and the memory manager behind `mmap` are commented out.

## Plan

What is left, in this order:

1. A composition of `Ide` and `Interrupts`, in which the drive's line is withdrawn
   by the very poll that reads the status register; it would take the place of
   `irq_served` and of `Boot`'s picture of both.
2. `Formats` with recursive functions in place of operators that call themselves, so
   that what a conversion writes can be proved by the induction used for sums
   and walks, for every number and width.
