# SukiOS in TLA+

SukiOS is a small 64-bit x86 kernel for one processor: it boots through
Multiboot2, runs programs loaded from a FAT32 disk in ring 3 under a timer-driven
round-robin scheduler, and drives a PS/2 keyboard, an IDE disk and a text terminal.
This directory models the parts of it that keep state, checks them with TLC on small
instances, and proves the central invariants of eight of its modules with TLAPS. Paths below are
relative to the repository. `PROJECT.json` lists every part, run, mutant, hazard, finding and
theorem, and maps each definition to the lines it models.

## 1. The system and its parts

| part | state | operations | what makes it correct |
|---|---|---|---|
| frame allocator, `EarlyKernel/pmm.c` | bitmap, two counters | `pmm_init`, `pmm_alloc_page`, `pmm_free_page` | a frame has one owner; counters agree with the bitmap |
| heap, `InitKernel/heap.c` | headers, footers and free list inside the heap memory | `heap_init`, `kmalloc`, `kfree`, `krealloc`, `kcalloc` | blocks never overlap; the list is exactly the free blocks; payloads stay |
| page tables, `InitKernel/vmm.c` | the tables, the MMIO cursor | `vmm_init`, `vmm_map_page`, `vmm_alloc_map`, `vmm_map_mmio` | no frame is two tables; a mapping, once made, stays |
| program loader, `Userland/elf64.c`, `proc.c` | the pages of a program | `elf64_load`, `proc_create_from_elf` | a program has frames of its own and keeps its contents |
| scheduler, `InitKernel/proc.c`, `proc_switch.asm` | linked ready queue, process blocks, saved frames | create, `schedule`, `scheduler_start`, exit, execve | nobody lost, nobody twice; a thread resumes where it was |
| interrupts and system calls, `EarlyKernel/idt.c`, `idt_stubs.asm`, `BasicDrivers/apic_timer.c` | stack of TSS.rsp0, interrupt in service | entry and return stubs, IRQ dispatch, `int 0x80` | every interrupt ends with its EOI; a call returns to its caller |
| keyboard, `BasicDrivers/keyboard.c` | decoder state, modifiers, repeat, ring buffer, `led_cache` | interrupt, timer callback, two readers, light commands | each key press gives its character once, in order |
| FAT32, `BasicDrivers/fat32.c` | cached table, directory, open files | open, read, write, seek, close, create, delete, flush | chains disjoint and complete; accesses stay in the file |
| VFS, `InitKernel/vfs.c`, `VFSAdapters/fat32_vfs.c` | descriptor table | open, read, write, close, create, delete | a descriptor reads its file in order |
| IDE disk, `BasicDrivers/ide.c` | selected drive; the drive's registers and cache | `ide_init`, `ide_read_sector`, `ide_write_sector` | the sector asked for; a write that succeeded stays |
| terminal and serial port, `EarlyKernel/tty.c`, `uart.c` | screen cells, row, column | `tty_init`, `tty_putchar`, `uart_putchar` | the screen shows the end of the text |
| shell, `app/ishell/main.c` | line buffer, the call being prepared | line editor, `help`, `ls`, `cat`, `echo`, `exec`, `exit`, any other word | the command gets what was typed; every line is answered |
| interrupt set-up, `InitKernel/acpi.c`, `apic.c`, `EarlyKernel/pic.c`, `keyboard_init`, `keyboard_reenable_irq`, `apic_timer_init`, ordered by `InitKernel/main.c` | 8259s, local APIC and its timer, IO APIC entries, 8042 configuration, `irq_handlers` | one register or port access after the other | only what has a handler arrives; answers go to who waits for them; boot ends |

The parts interact by plain calls and shared variables. The heap and the page tables
take frames from the frame allocator; a process is created by the loader, which maps
pages, and is then put in the ready queue; `execve` opens, reads and closes a file
through the VFS, which reads sectors through the IDE driver; the shell writes each
character and reads each key by a system call; the timer interrupt calls `schedule` and
the key repeat. There are no
messages and no locks except `cli`/`sti` around the heap. The hard behaviours come
from that:

- interrupts stay on in system calls, in `scheduler_start` and in the polling
  reader, so handlers run between any two of their stores;
- all processes share one page table and one kernel entry stack;
- the driver and the device run side by side: answers to commands, scan codes and
  interrupts arrive in any order;
- frames, heap, clusters, descriptors and the ring buffer run out half-way through an
  operation;
- disk writes fail or power fails between two of them.

### Not modelled

- Boot code (`boot.asm`, `kernel_main`, segment and gate tables): one sequence of mode
  changes and constant tables with no choice in it. Only the page tables it leaves are
  modelled (`BootMem` of `AddressSpace`), with what its first loop does: it stores 1024
  entries into a table of 512 (boot.asm:147) and so fills PDPTE_B, of which line 165 repairs
  the kernel's entry and not the one for MMIO.
- PCI: the enumeration is printed and kept nowhere, so nothing can depend on it.
- RTC: it keeps no state. Its registers are read one after the other (rtc.c:56), so a time
  stamp may be torn. `Files` keeps of a stamp only whether it is as the volume came or of
  this run.
- `uname`, which prints a text and exits; in `Sched` a program makes any system call at
  any time.
- Operations without a caller: `vmm_unmap_page`, `vmm_change_flags`, `vmm_get_phys`,
  `pic_send_eoi`.
- Printing: number formats, colours, the hardware cursor, `heap_dump`, `fat32_list_root`.
- Below the grain of the models: page tables filled by two contexts at once (vmm.c:109, a
  call is one step in `Vmm`); a section with interrupts off that ends inside `kmalloc`
  (heap.c:27); `heap_allocated_bytes`, a statistic (heap.c:266); the file and node leaked
  when descriptors run out (vfs.c:189); a handle kept open over a delete (fat32.c:265).

## 2. The modules

| module | models | with |
|---|---|---|
| `Pmm`, `MCPmm`, `PmmProofs` | frame allocator | |
| `HeapRegion` | the size of the heap region | extended by the next two |
| `HeapSpec` | what the heap promises: extents that never overlap | |
| `Heap`, `MCHeap`, `HeapProofs` | `heap.c` word by word | implements `HeapSpec` |
| `Processes` | the process blocks and their states | extended by the next two |
| `ReadyFifo` | what the scheduler promises: a queue | |
| `ProcQueue` | `enqueue`, `dequeue`, `schedule` on the linked list, as functions | |
| `ReadyQueue`, `ReadyQueueProofs` | that list under calls that do not overlap | implements `ReadyFifo` |
| `Sched`, `SchedProofs` | scheduler, stubs, timer, system calls, stacks and frames | extends `ProcQueue` |
| `Vmm` | four-level tables in memory, as functions on the machine | |
| `AddressSpace` | the callers of `Vmm`: boot, heap, MMIO, programs | extends `Vmm` |
| `Keyboard`, `MCKeyboard`, `KeyboardProofs` | driver, 8042, keyboard, user, readers | |
| `Fat32` | the driver as functions on the volume | |
| `Files`, `MCFiles` | descriptors, adapter, failing disk, power cuts | extends `Fat32` |
| `Ide`, `MCIde`, `IdeProofs` | `ide.c`, the drive, power cuts | |
| `Tty` | terminal and serial port, a store at a time | |
| `Shell`, `MCShell`, `ShellProofs` | the shell, its user and another writer | extends `Tty` |
| `Acpi` | the search of the firmware's tables, as functions | |
| `Apic` | what `pic.c` and `apic.c` write, and what the chips make of it, as functions | extends `Acpi` |
| `Boot`, `MCBoot`, `BootProofs` | interrupt set-up in `init_kernel`, with timer, 8042, keyboard and the IRQ1 handler | extends `Apic` |

Notes on how state and actions correspond to the code:

- **Pmm.** The bitmap is the set of used pages. `pmm_init` takes one step per memory
  map entry, then the reservation of the kernel. `owned` is what callers hold; they
  take the answer 0 as "no frame". Frees may be repeated.
- **Heap.** Memory is an array of words; header (four words) and footer (two) are
  stored in it, so a wrong store corrupts the model as it would the kernel. `kmalloc`
  and `kfree` hold the lock and are one step; `krealloc` takes the lock twice and is
  two. `FooterHoldsFlag`, chosen initially, is FALSE for the code as it is. TRUE is the
  footer that the comment at heap.c:75 describes; it makes the merging code, which no
  call can reach otherwise, run. `gaps` remembers the pages that a failed `expand_to`
  left mapped without a block; `Seen`, the walk over the headers that the properties
  use, steps over them.
- **ReadyQueue, Sched.** `ReadyQueue` checks the list alone. In `Sched` code with
  interrupts on takes a step per store to a shared variable and the timer interrupt is
  one step between any two. Saved contexts lie at places (the boot stack, the shared
  entry stack, a process's own stack) and are overwritten when a place is reused.
- **Vmm, AddressSpace.** A page table is the contents of a frame, and the kernel
  reaches a frame by translating its identity address through the tables it is just
  changing, as `vmm.c` does. Two entries stand for the used part of each upper table
  and `W` for the 512 of a page table. A call is one step. `Stray` is the frame that the
  entry for MMIO in PDPTE_B names after boot (0x3FF000): `get_pd` takes it for the page
  directory although nobody allocated or cleared it. It starts with zeros or with an entry
  that names some frame (`Leftovers`; `zeroed` remembers which), and the allocator may hand
  it out. `Spared` says that neither has done harm: it started with zeros and is nobody's.
- **Keyboard.** The interrupt handler takes a step per access to the data port, the
  readers one per access to shared state. The tables hold the rows that the keys of the
  runs reach. The 8042 and the keyboard are external and modelled by what the driver
  relies on. `setup`, chosen initially from `Setups`, says which keys are typed, how
  often, whether IRQ1 arrives and whether the reader polls.
- **Fat32, Files.** Sizes count sectors; of the data only which sectors are read and
  written is kept. An entry lies in one sector; its write may fail before that sector or,
  for a later sector of the cluster, after it. The table is written sector by sector up to
  the first error. An operation is one step when it completes; a power cut may stop it after
  any sector, and the volume is mounted again. `saved` is the last table written to its end,
  `torn` that a mount found another one: the callers then stop, as the driver would follow
  a chain to cluster 0. Callers do not delete a file that is open.
  `world`, chosen initially from `Worlds`, says which operations callers use, how many
  files they hold open and whether the disk may fail and the machine stop.
- **Ide.** A caller takes a step per port written and per data word; the two polling loops
  are steps that wait. The drive is external: it works on a command beside the processor,
  may fail it, keeps written sectors in a cache until a flush and loses the cache with the
  power. Contents carry the write they come from, so a mixture is visible. `Setup` says
  which drives there are, what may fail, whether BSY shows late and whether callers overlap.
- **Tty, Shell.** `tty_putchar` takes a step per store to the cell, the column and the row.
  `rows` keeps the text without a limit, as what the screen is compared with. `buf` keeps
  what earlier lines left in it. A command word, an option or a message is one symbol, so a
  buffer of a few cells is enough; `Find`, `Split` and `EchoText` are the loops of the
  program over the buffer.
- **Acpi, Apic, Boot.** A function of the boot is the sequence of its accesses to the
  hardware (`keyboard_init`, `apic_timer_init`, ...), the thread takes a step per access, and
  the IRQ1 handler, the devices and the user run between any two. An early return leaves
  the sequence. A byte is the set of its one bits, so a scan code can be taken for a
  configuration. A machine (`Setup`) is its tables, the pin IRQ1 is wired to, what the
  firmware left in the IO APIC and the 8042, and bounds on keys and time-outs.
  On a machine with a shell on its disk (`setup.shell`) the shell is in the ready queue when
  `keyboard_reenable_irq` runs (main.c:236): a tick then gives it the processor
  (`cpu.mode = "away"`), its EOI is lost as in `Sched`, and the thread goes on only when the
  shell exits (`Resume`). Meanwhile the shell may poll the 8042 (`Poll`).
  `robbed` and `stray` are history: handler or shell took an answer the thread waits for, or
  a register was reached through a NULL base.

## 3. What the runs check

Passing runs:

| run | bounds | shows |
|---|---|---|
| `pmm` | 5 pages, maps of up to 2 entries, every alignment and overlap | one owner per frame, counters exact, under double frees |
| `heap` | 32 words, 2 pages, 2 callers, 0 to 2 frames, blocks of half a page, a page and a page and a half | with both footers, and with a gap where the largest block does not fit: blocks tile the heap, the free list is exact, payloads are kept, and `HeapSpec` is implemented, so blocks stay apart and a call touches nobody else's |
| `ready_queue` | 4 processes | `tail` ends the linked list, and the list implements `ReadyFifo`, which is proved to lose nobody, to always have somebody to run and to keep an exit final |
| `sched` | 3 processes, all calls, failing allocation | the boot thread stays resumable, a system call returns to its caller |
| `address_space` | 17 frames, 8 entries per page table, programs above RAM; every content of `Stray` in `Leftovers` | as long as `Stray` is spared: no frame is two tables; the heap's pages are its own; mappings stay; programs stay |
| `keyboard` | by interrupt: 3 keys, 4 events, 3 ticks; by polling without IRQ1: 4 keys, 3 events; CapsLock with interrupt and poll: 3 events; ring of 3 | characters are right, in order, once; the ring is a queue; repeats end; light commands inside the handler always end; everything typed is read |
| `files` | 2 files, 4 clusters of 2 sectors, both layouts; two readers with power cuts, one caller that fills the volume, two writers with power cuts; failing disk; a table of two sectors | chains disjoint and ended unless a mount found a half-written table, clusters accounted for, accesses stay in the file, reads in order, reading changes nothing on the disk but the time |
| `ide` | 16 sectors, 2 words each, 3 calls; drives that refuse commands, fail while writing or show BSY late, every pair of ATA, ATAPI and no drive; power cuts | a read returns its sector, a reported write survives and touches nothing else, every call returns |
| `shell` | screen of 2 rows of 6, lines up to 5 cells with 6 keys and up to 12 cells behind a command, 3 arguments, 3 characters of another process | the screen shows the text, the parser gets the line, `exec` its words, an edited line is what is shown, every line is answered |
| `boot` | 11 machines: tables in both places, moved, short, wrong or absent, no local APIC, nothing mappable; IO APIC of 3 pins; up to 2 keys and 3 time-outs or RESENDs; timer words of 64, PIT words of 8 counts | only IRQ1 is routed, polled answers are kept, the configuration is the firmware's, IRQ1 is on in the end, boot stops only if the byte waited for was taken by another or a tick gave the processor away, later bytes are taken until an EOI is lost |

Why the bounds are enough for these questions: each is the smallest in which the
resource in question wraps, fills or is shared. Five pages hold a reserved, a free,
two owned and an unavailable page; the heap holds four blocks, so a block has a free
neighbour on both sides; four processes give a queue with a first, middle and last
element; the largest request of the heap needs a page more than is left, so
`expand_to` fails after its first page; a ring of three holds two characters and wraps within four events; frames run
out inside every multi-level mapping; two clusters per file and four on the volume
make chains grow, the volume fill up and freed clusters be reused. Sector numbers of the
`ide` run differ in every address register, and three calls are a write, a second one to
the same or another sector and a read; a line of the shell fills the buffer, wraps, scrolls
and is followed by a shorter one; a boot has a key for each place where a scan code can be
taken for an answer and enough RESENDs to use up PS2_RETRIES.
`CHECK_DEADLOCK FALSE` is set where the environment is bounded (events typed, processes
created, calls made), where a volume that is full or was mounted with a half-written table leaves nothing to do,
and where a boot may wait for ever, which `StopsOnlyRobbedOrPreempted` is about.

The modules state more properties than the configurations list. They hold as well when
added to the configuration of the run, and are kept there because proofs use them or
because they help to read the module: `TypeOK` of the module of every run; `ExcessConstant` of `Pmm`;
`NoOverlap`, `OthersUndisturbed` and `FlaggedFootersFree` (no block is leaked once the
footer holds the flag) of `Heap`; `NobodyLost`, `IdleTakesOver` and `ZombiesStay` of
`ReadyQueue`; `FollowsKeyboard` of `Keyboard`; `SelectsAtaDrive` and `BootEnds` of `Ide`;
`NoSuchFileTrue` and `EchoQuiet` of `Shell`; `LegacyQuiet`, `LapicWhereMapped` and
`HandlersReady` of `Boot`.

### Where the code differs

Two runs show a disagreement between the code and what a comment or document of the
repository says (quoted under "findings"):

| run | the code |
|---|---|
| `heap_free` | `set_footer` drops the allocated bit, so `kfree` frees nothing |
| `sched_eoi` | a timer interrupt that switches never sends its EOI |

The same modules show more of them. They have no run of their own; the property named
fails when the configuration of a run is changed as said:

| property | with | the code |
|---|---|---|
| `ExecveReplaces` | `sched`, as it is | `execve` marks its caller ZOMBIE, makes the new process current (idt.c:302) and returns to the caller all the same; ishell/main.c:262 says "不会返回到这里" (does not return here) |
| `SizeCoversChain` | `files`, `Worlds <- MCWritingOnly` | `fat32_write` takes the size from an offset within a cluster (fat32.c:234); after a write across clusters the size recorded is too small |
| `FrameResumed` | `sched`, `Calls = {"other"}`, `StackAllocs = {TRUE}` | `scheduler_start` (proc.c:165) switches away without saving a frame; the next switch to idle resumes none |
| `ExitIsFinal` | `sched`, `Calls = {"exit"}` | a timer interrupt in `scheduler_start` after `dequeue` has read the head (proc.c:107) lets the exited first process run again |
| `DecodesTyped` | `keyboard`, a setup with `irq` and `polling` | `keyboard_getchar_blocking` (keyboard.c:1097) and the interrupt handler decode the same byte |
| `DecodesTyped` | `keyboard`, a setup with the key `KpMul` | keypad `*` and `/` give no character, though the comment at keyboard.c:569 says so |
| `RepeatStops` | `keyboard`, a setup with the key `PrtSc` | the decoder takes three of PrintScreen's four bytes for the key (keyboard.c:705); the fourth leaves a key repeating that nobody holds |
| `FreeListExact` | `heap`, 48 words in pages of 8, `Requests = {1, 10, 18}`, `Frames = {6}`, `Footers = {TRUE}` | were the footers as heap.c:75 describes them, `merge_next` (heap.c:106), which looks at no magic number, would take the zeroes of a gap for a free block, set `free_list_head` to NULL in unlinking it and lose the other free blocks |
| `LightsFollow` | `keyboard`, as it is | after a lost answer `led_cache` (keyboard.c:519) is wrong and the lights stay wrong |
| `ProgramIntact` | `address_space`, a segment over RAM | `clear_page` (vmm.c:27) clears the program mapped at the frame's identity address |
| `ProgramHasFrames` | `address_space`, a segment of adjacent pages | after a split the other pages of a program count as mapped and get no frames of their own (elf64.c:79) |
| `TablesTaken` | `address_space`, as it is | after boot the page directory for MMIO is a frame that nobody allocated or cleared (boot.asm:147, vmm.c:61); vmm.c:10 says that the pages of tables are cleared |
| `WindowsStay` | `address_space`, as it is | that frame is handed out and cleared, or its first contents are taken for a table: a device window mapped by `vmm_map_mmio` disappears (vmm.h:145) |
| `OwnSectors` | `files`, a world with `readPast` | reading at the end of a file that fills its last cluster reads the next cluster on the disk (fat32.c:180) |
| `ChainsSound` | `files`, as it is | power fails between the sector of the table with a link and the one with the end mark (fat32.c:299 with 15): the chain of a file ends in a free cluster |
| `ReadersKeepTime` | `files`, as it is | closing a file that was only read stores the time and date of now as those of the last write (fat32.c:268) |
| `ErrorsReported` | `ide`, as it is | `ide_wait_ready` (ide.c:13) looks at DRDY, not at ERR: a write or flush that the drive reports as failed is reported as done |
| `WriteSurvives` | `ide`, `[Refusing EXCEPT !.lag = TRUE, !.faults = {}]` | a drive that shows BSY late is taken for ready (ide.c:117, 119): the write is reported before it is done |
| `ReadsAsked` | `ide`, `[Slow EXCEPT !.faults = {"read"}, !.calls = 4]` | with such a drive the status of the command before is taken for that of this one (ide.c:21) |
| `ReadsAsked`, `OthersKept`, `CallReturns` | `ide`, two callers and `overlap` | the address registers and the data of two callers mix (ide.c:79) |
| `ReadsAsked` | `ide`, a sector number of `Capacity` or more | the number wraps (ide.c:28) |
| `BootEnds` of `Ide` | `ide`, `Machine("floating", "floating")` | without a controller BSY never goes and `ide_init` waits for ever (ide.c:12) |
| `EchoPrints` | `shell`, a session that types `echo` and two words | `echo` prints its first word only and ends no line (ishell/main.c:165); src/README.md:648 shows `echo hello world` printing both |
| `BareCommandRuns` | `shell`, a session that types `x` with `/x` on the disk | a bare word is not tried with a slash (ishell/main.c:306), though help says "[cmd] - Run application" |
| `ScreenShowsText` | `shell`, `[Shared EXCEPT !.overlap = TRUE]` | two processes inside `tty_putchar` overwrite each other's cell or skip one (tty.c:94) |
| `ClockOn` | `boot`, machine `Typist` | a scan code is taken for the configuration (keyboard.c:1068) and turns the keyboard's clock off |
| `BootEnds` of `Boot` | `boot`, machine `Shelled` | after main.c:236 a tick gives the processor to the shell; its EOI is lost and no tick brings the boot thread back before the shell exits (apic_timer.c:131) |
| `BootEnds` of `Boot` | `boot`, machine `Usual` | the handler takes the configuration byte and boot waits (keyboard.c:1067) until a key is pressed |
| `TickRate` | `boot`, machine `Usual` | the current count is read after it was cleared (apic_timer.c:107), so the tick does not depend on the bus; src/README.md:452 says 100 Hz |
| `NoStrayAccess` | `boot`, machines `NoIoapic`, `NoPointer`, `NoLapic`, `Unmapped` | registers are written through a NULL base (apic.c:38, 63) |
| `BytesTaken` | `boot`, an override with flags 15 and an active low line | active low and level (3 in the firmware's encoding) are compared with 2 and 4 (apic.c:105, 109) and never set |
| `OnlyKeyboardRouted` | `boot`, two IO APICs, or more overrides than `ACPI_MAX_ISA_OVERRIDES` | the last IO APIC counts and `gsi_base` is not used (acpi.c:163); overrides beyond the table are dropped |

So the passing runs say what holds beside these: `address_space` has its programs above
RAM and its properties speak of states in which `Stray` is spared, the chains in `files` are
those of volumes not mounted with a half-written table, letters in `keyboard` come by the interrupt or the poll, the callers in `files` ask for no
more than `vfs_get_size` says, those of `ide` come one after the other, and writers to
the terminal do not overlap inside `tty_putchar`. `EditedLineShown` compares a line in
which a backspace was typed in the row of the cursor only: the terminal does not go back
over the start of a row (tty.c:85), so the shell's line and the rows above drift apart
when a wrapped line is shortened.

**Fairness** is assumed in four specifications, and only of steps that the processor or a
device takes by itself:

- `Keyboard`: the 8042 delivers the next byte, a latched interrupt is taken, a handler that
  can go on does, and the reader is scheduled again (the round-robin promise of
  `ReadyFifo`).
- `Ide`: the drive finishes what it works on, and a caller whose loop can end goes on.
- `Shell`: the shell and a writer inside `tty_putchar` are scheduled, and the serial port
  sends. The user is not fair: he may stop typing.
- `Boot`: the thread goes on where it does not wait and as long as it has the processor, the
  clocks count, bytes on their way arrive, pending interrupts are taken and the handler runs.
  Key presses, time-outs, ticks and what the shell does, its exit above all, are not fair.

All other specifications are safety only.

## 4. What is proved

For every value of the constants, checked by TLAPS. The assumptions are the named ASSUMEs
of the modules (sizes are positive, sets are what the module says they are made of), which
TLC evaluates on every run; where a theorem needs more, it is a hypothesis in its statement.

| module | theorems | of the properties in section 3 |
|---|---|---|
| `PmmProofs` | `TypeCorrect`, `FramesPartitioned`, `CountersAgree` | `TypeOK`, `Partition`, `Accounting` |
| `HeapProofs` | `HeapIsTiled`, `FreeListIsExact`, `PayloadStaysIntact`, `HeapTyped`, `HeapNeverOverlaps`, `KernelHeapIsSound` | `Tiled`, `FreeListExact`, `PayloadIntact`, `TypeOK`, `NoOverlap` |
| | `KernelHeapKeepsPromise`, `HeapKeepsPromise`, `CallersUndisturbed` | `ImplementsPromise`, `OthersUndisturbed` |
| | `BlocksNeverOverlap`, `OthersKeepTheirBlocks` | those of `HeapSpec` itself |
| `ReadyQueueProofs` | `TailIsLast`, `ListIsFifo`, `ListLosesNobody`, `ZombiesStayOff` | `TailEndsList`, `ImplementsFifo`, `NobodyLost`, `IdleTakesOver`, `ZombiesStay` |
| | `ReadyNeverLost`, `EmptyMeansIdle`, `ExitIsFinal` | those of `ReadyFifo` itself |
| `SchedProofs` | `BootThreadKept`, `CallsReturn`, `TypeCorrect` | `MainResumable`, `SyscallReturnsToCaller`, `TypeOK` |
| `KeyboardProofs` | `BufferIsQueue`, `TypedIsDecoded`, `RepeatEnds`, `KeyboardFollowed`, `TypeCorrect` | `RingIsQueue`, `DecodesTyped`, `RepeatStops`, `FollowsKeyboard`, `TypeOK` |
| `IdeProofs` | `SuccessIsDurable`, `ReadIsOfSectorAsked`, `OtherSectorsKept` | `WriteSurvives`, `ReadsAsked`, `OthersKept` |
| `ShellProofs` | `ScreenIsRight`, `LineReachesParser`, `LineIsOnScreen` | `ScreenShowsText`, `LineIsTyped`, `EditedLineShown` |
| `BootProofs` | `AnswersAreKept`, `ConfigIsKept`, `OnlyIrq1Routed`, `Irq1IsEnabled` | `AnswersKept`, `ConfigKept`, `OnlyKeyboardRouted`, `Irq1Enabled` |

The arguments:

- **Pmm.** `Partition` is not inductive: while `pmm_init` runs, the free pages are those
  of the entries seen so far, and the counters are only bounded by them. `IInv` adds
  these facts (`Booting`, `FreeCount`, `UsedCount`); cardinality lemmas carry the
  counters through each set or cleared bit.
- **HeapSpec.** `AnyInv` says that all extents are inside the mapped part and pairwise
  disjoint; splitting (`AnyRest`), growing and merging preserve it. The two theorems are
  about any variables that obey `HeapSpec`; `HeapProofs` declares three for them.
- **Heap.** For every region, page and request size, any callers and any number of frames.
  None of the properties is inductive: a header says nothing of the block before it, and
  the list nothing of the blocks that are not on it. `Inv` says that there are blocks (a
  function `size` from addresses to sizes, a set `busy`) that describe all of memory
  (`Shape`): they and the gaps lie side by side from `heap_start` to the end of the mapped
  pages (`Layout`), headers and footers are theirs (`Tags`), the links are those of a
  sequence that has each free block once (`Offers`, `Links`), words never written are zero
  (`Blank`); and that each caller holds a busy block of its own with its tag in it
  (`Callers`), two while it is inside `krealloc`. Each function of `heap.c` has a lemma that
  says which blocks it leaves (`Unlink`, `Push`, `Carve` for the split, `Take`, `Expand`,
  `Kmallocs`, `MergePrev`, `MergeNext`, `Kfrees`), and `Move` sums up what an operation may do
  to `size` and `busy`: map pages, give out one block, take one back. The lemmas about
  `ChainAt` and `WalkAt` show that following the list and walking the headers visit exactly
  these blocks (by the least counterexample, as induction over data is not available), so
  `seen` is `busy` and its complement, and a step of `HeapSpec` is read off `Move`
  (`MovePromised`).
  The theorems hold of the code as it is without a condition (`KernelHeapIsSound`,
  `KernelHeapKeepsPromise`); there `kfree` returns early every time, so that blocks are
  only ever split and added. With the footers of heap.c:75 they have the hypothesis
  `Intact`: no gap. The proof of `MergeNext` is where it is needed, and looking for a way
  around it showed that there is none (the row `FreeListExact` in section 3).
- **ReadyFifo.** `Sound` adds that no process is twice in the queue, position by
  position, and that idle, when it does not run, is in the queue. It is stated of values,
  so that the same lemmas serve any variables that obey `ReadyFifo` and the linked list.
- **ReadyQueue.** For any finite set of processes. The sequence the list stands for is
  found by a walk along the `next` pointers, a recursive function. `IsChain` says place by
  place what a list that holds a sequence looks like; `WalkFindsChain` shows that the walk
  finds that sequence (the induction is an argument with the least counterexample, as
  the prover cannot use an induction rule), `EnqueueChain` and `DequeueChain` what the two
  functions make of it. The refinement of `ReadyFifo` follows step by step, and with it the
  properties of the queue hold of the list.
- **Sched.** For any finite set of processes, any system calls and failing allocations.
  `MainResumable` speaks of one frame; it is inductive only together with where every
  context is and which locals are set there (`CpuKnown`), what every saved frame holds
  (`Known`), that the frame at the top of the entry stack belongs to the thread that is in
  the kernel (`TopMatches`), and the order of the boot (`BootPhase`, `MainWaits`). It rests on
  what the run `sched_eoi` shows: after the tick that takes the boot thread away its EOI is
  never sent and no second tick comes, so idle stays first in the list until an exit takes
  it from there. A kernel with that EOI repaired would need this proof anew.
- **Keyboard.** For every ring size, key table and user. `Holds` relates the ring to a
  queue slot by slot, with a character stored and not yet counted in `head` while the
  polling reader is between its two stores. `BufferIsQueue` has the hypothesis `OneWriter`:
  the polling reader is not used, or neither IRQ1 nor key repeat pushes beside it. Where
  both push, characters are decoded twice (section 3). `TypeCorrect` needs no hypothesis.
  For the decoder, `Stream` is the bytes that the keyboard sent and the driver has not
  decoded, wherever they are (on the wire, in the 8042, in a variable of the polling
  reader). `Leads` and `Reaches` say that a sequence of bytes takes the driver through a run
  of states, given as a function, to a last one, and `DecodeInv` that `Stream` takes it to
  where the keyboard is: Shift as held, no sequence begun, a repeated key that is held, and
  the characters typed (`Caught`). A press or release extends the run (`Reaches` to the end, then the bytes of the
  key), a byte decoded shortens it at the front. The hypothesis `OneDecoder` leaves out
  what section 3 shows to fail or to be timing: interrupt and poll together, and Caps Lock,
  whose light command may swallow a scan code. `TypedIsDecoded` also leaves out the keypad
  star and `RepeatEnds` PrintScreen, whose properties fail (section 3).
- **Ide.** For every sector size and register width, any callers and calls. The hypothesis
  `Machines`: calls come one after the other, sector numbers fit in the registers, and a
  drive shows BSY at once (a late one may be read from if nothing fails); section 3 shows
  the property failing without each of these. `IInv` says for each place of
  `ide_read_sector` and `ide_write_sector` what is in the address registers, in the drive's
  buffer and in its cache, and that what is in the cache and not on the medium is the write
  under way or one not reported as done. `Quotient` and `DigitsName` show that the four
  pieces of a number give the number back.
- **Tty, Shell.** For every size of screen and buffer and any keys. `ScreenShowsText` says
  nothing inside `tty_putchar`; `Screen` says for each of its places which text is on the
  screen and what is still to be done to make it the new one (`Drawing`), one lemma per
  place. `Editor` says that the line defined by the keys is in front of `idx` in `buf` and
  has no terminator in it; the terminator that `Parse` stores is then the first. `Echoed`
  says that the text ends in the prompt and the line, counted back from the cursor over
  full rows (`Ends`), once what is in `out` is written. `ScreenIsRight` and
  `LineIsOnScreen` have the hypothesis `NoOverlap`: no process enters `tty_putchar` while
  another is inside it. `LineReachesParser` has none.
- **Boot.** For every machine in `Setups`: any number of pins, keys and time-outs, any
  contents of the 8042 and the IO APICs at power-on. `FirmwareAssumption` says that, where
  the MADT names an IO APIC, what `apic.c` and `acpi.c` read there of IRQ1 is the keyboard's
  wire; machines with a second IO APIC or too many overrides are not of that kind (section
  3). The tables themselves, and what the functions of `Acpi` compute of them, stay opaque.
  `AnswersKept` and `OnlyKeyboardRouted` look at one moment; `IInv` says for each place of
  the scripts what holds there: until `keyboard_init` opens the entry, the vector of IRQ1 is
  in no entry and not pending, and its handler does not run (`NoEarlyIrq`, `Routed`); what
  the drivers know of the IO APIC is what the MADT says (`FromMadt`); the entries are masked
  as far as the loop of `ioapic_init` has come (`Masked`); `keyboard_reenable_irq` opens the
  entry before it asks for the configuration, and what it writes last has IRQ1 and
  translation on (`KeyboardOn`); and as long as nothing timed out, the only byte on its way
  when the configuration is read is the answer, as the port's clock is off and the buffer
  was emptied (`Dialogue`). The scripts are sequences joined of others; `InitScript` and
  the lemmas after it say what is at each place.

Stating `EditedLineShown` for every screen showed its first form to be false: it allowed for
a line as long as a row, which a prompt that starts behind other output does not keep in one
row. It now counts back from the cursor, and says more of lines without a backspace.

Only model-checked, and why:

- `Heap` with flagged footers and gaps together: the invariants are false there in larger
  heaps, and the run `heap` only shows that two pages are too few for it.
- `AddressSpace`, `Files`: what they build is computed by folds over entries, pages and
  chains, and a property of the result for every input is an induction over data.
- `ExecGetsWords`, `NoSuchFileTrue`, `EchoQuiet` of `Shell`: they compare with what the
  recursive functions `Words`, `Split` and `EchoText` compute over a whole line.
- `DecodesTyped` and `RepeatStops` of `Keyboard` with Caps Lock typed: whether a scan code is
  swallowed depends on when the answers to the light command come.
- Liveness under fairness, out of the prover's reach: `HandlerReturns`, `TypedIsRead`,
  `CallReturns`, `BootEnds` (of `Ide`), `LineAnswered`, `StopsOnlyRobbedOrPreempted`
  and `BytesTaken`.

## 5. Plan

1. Done: frame allocator, heap, scheduler, system calls, page tables and loader,
   keyboard, files, with the proofs above.
2. Done: the IDE driver, the terminal and the shell, and the interrupt set-up at boot.
3. Done: proofs that `ReadyQueue` implements `ReadyFifo` and `Heap` implements `HeapSpec`,
   and of `Sched`, `Keyboard`, `Ide`, `Tty`, `Shell` and `Boot` as in section 4. Next: `TablesApart`
   of `AddressSpace` and `ChainsApart` of `Files` with the folds put as invariants of their
   steps, `TypeOK` of `Shell`.
4. Files in finer grain: directory iteration, two handles writing the same file, a root
   directory of several clusters, what the driver does on a volume with a half-written
   table, on the drive of `Ide`.
5. Page tables in finer grain: `vmm_map_page` interrupted between reading and filling an
   entry.
6. The RTC's torn read with the values of the FAT time stamps.
