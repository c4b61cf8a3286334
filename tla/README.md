# longOS: TLA+ models, checks and proofs

longOS is a small x86-64 hobby kernel: a boot sector and a long-mode entry in
assembly, and a freestanding C++ kernel (compiled with `-O0`, no library) with a
page-frame allocator, four-level paging, a heap, cooperative tasks, interrupt
handlers, ATA disk access, a virtual file system with a USTAR reader, ACPI and
PCI discovery, and text and graphics output. This directory holds TLA+ models of
the parts that keep state, the TLC runs that check them, and the theorems TLAPS
proves about them. Every definition is translated from the code; `PROJECT.json`
lists, for each definition, the file and lines it stands for.

Contents: 1 inventory, 2 modules and code, 3 runs, 4 fairness, 5 proofs,
6 where code and text disagree, 7 what is not modelled, 8 plan.

## 1. Inventory

| Component | State it keeps | Operations | Interacts with | What is hard | What makes it correct |
|---|---|---|---|---|---|
| Boot (`mbr.asm`, `boot.asm`, `extended_boot.asm`) | sectors read, memory map, A20 gate, boot page tables | read the image, ask for memory, open A20, enter long mode | BIOS, drive, keyboard controller; leaves the map at `MEMORY_MAP` and tables at `_end_all` for the kernel | sizes and counts that are cut off; a scan code that comes instead of the controller's answer | all of the kernel is read; the map is counted rightly; long mode has A20 and its tables |
| Frame allocator (`memory.cpp`, `bitmap.cpp`) | bitmap, search hint, three byte counters | convert the firmware map, request, lock, free, reserve, unreserve pages | called by paging, heap, tasks | a hint that must not skip pages, wrapping counters, exhaustion, plural operations that fail in the middle | no page has two holders; protected pages have none; nothing is lost |
| Paging (`memory.cpp`, `ptm_t`) | page-table pages, CR3, the TLB | map, unmap, look up | frames from the allocator; heap, tasks and ACPI map pages | a table is written through itself; entries cached by the TLB; a fault in the middle of `map` | the tables stay a tree; only the page asked for changes |
| Heap (`heap.cpp`) | list of segments in mapped memory | malloc, calloc, free, split, expand, combine | paging and frames for growth; used by tasks, ACPI, VFS, disk | headers inside the memory they describe; links on both sides | blocks never overlap; no byte is lost; free neighbours are merged |
| Tasks (`task.cpp`, `task.asm`) | ring of processes, the current one, `in_kernel`, the creation flag | fork, yield, quit, switch | frames and paging for stacks; the interrupt flag; the fault handlers end a task | a task that is switched away or killed in the middle of `fork` | one task runs; killed tasks stay dead; everybody gets a turn |
| Interrupts (`idt.cpp`, `idt.asm`) | IDT, the masks and priorities of the controllers, `nested_errors`, `main_keyboard_handler` | set up; keyboard, timer, page fault, double fault, mouse | calls `quit`; the keyboard and timer handlers | a handler runs between any two instructions, and while the tables are still being set up | no interrupt without a gate; none stays in service |
| Timer (`timer.cpp`) | tick counter, divisor | tick, sleep, set frequency | disk time-outs, the menu, `main`, ACPI | waiting for a counter that an interrupt advances; an argument in a register that it changes | every sleep ends, and lasts as long as asked |
| Disk (`disk.cpp`) | `disk_errors`, the type of each device | detect, reset, read, write | the drive answers over ports; the VFS holds the devices | time-outs racing late answers, retries, errors that are never forgotten | what is read is what is stored; every operation ends |
| VFS and USTAR (`vfs.cpp`, `ustar.cpp`) | tree of nodes, mounts | find or create a node, add a device, mount | heap, disk | nodes copied by value, through address 0 | the tree stays a tree; devices are found by name |
| VGA select menu (`kernel.cpp`) | selection, confirmation, `main_keyboard_handler` | keyboard handlers and menu loop | keyboard and timer interrupts | handler and loop share variables | index in range; no lost wake-up |
| Text output (`vga.cpp`) | cursor, text memory, mode | print, scroll, clear, modes, colours | everything prints | the boundary of the last line | what is printed stays and is on the screen |
| Graphics (`vga_graphics.cpp`, `vga_font.cpp`) | a buffer in low memory with marks for rows and columns | fill, lines, rectangles, characters, `write_screen` | the menu draws, `desktop()` draws | marks that are missing or forgotten; integer lines | what is drawn is what `write_screen` shows |
| ACPI (`acpi.cpp`) | table pointers, S5 values | find tables, enable, shut down | paging (maps tables), timer, ports | polling with a bound; a counter shared by two loops; several tables with one signature | enabling ends and is reported rightly |
| PCI, CMOS, serial, sound, mouse, GDT | device registers only | port input and output | devices | protocols with the device | |

How they fit together: the boot code reads the first 128 sectors of the kernel
and enters `main` (`kernel.cpp`), which sets up interrupts and the timer, reads the
rest of the kernel from disk, converts the memory map, builds the page tables,
starts tasks and heap, finds ACPI, installs the VFS with the drives that were
found, and then forks tasks. There is
one processor. Tasks switch only inside `yield` and `quit`; the only other
concurrency is an interrupt handler (keyboard, timer) that returns, a fault
handler that does not, and the devices.

`PROJECT.json` lists 40 hazards at their lines, each with the properties that
would catch it going wrong, or a note why none does (pages that the memory map does not
describe, a flag whose owner was killed, the last sector of a write, drives that never
answer, kernels longer than is read).

## 2. Modules and code

**FrameAllocator** (`memory.cpp`, `bitmap.cpp`). `bitmap`, `page_bitmap_index` and
the three counters are the code's; counters wrap at `Word`. Each operation of
`memory.h` that changes them is an action, the plural ones one action per page
(`work` holds the calls under way, `WorkStep` does a page). `ConvertPage` and
`ConvertPageByIndex` are the iterations of `convert_mmap_to_bmp`; `LockBootPages`
is its end. A halt (`cli; for (;;)`) sets `halted`. `owners` counts the callers
that hold a page. `Init` leaves the bits that `memset` does not clear arbitrary.
`KernelNext` is what the kernel calls, `Next` adds the rest of `memory.h`
(`OtherCall`) and notes in `called` that it was used. A call of
`free_page` returns when the bit is set, as in the code, so the boot's old page
tables stay taken.
The bitmap is in memory that is given out: `memory_map.bytes` is what is stored at
`_mmap` (memory.h:94, link.ld:69), which is 0, and not the address `_mmap`. `ByteOf`
says where the byte of a bit lies, and three actions write such bytes: `ClearTable`
(the caller of `request_page` zeroes its frame), `HolderWrites` (it fills it) and
`NullWrites` (the VFS copies a node to address 0, the heap writes through a null
`prev`). `clobbered` are the pages whose bit such a write has changed. Properties of
bits are about the other pages; that the rest is false of the code, too, is
`FrameBoot`. `BitmapApart` assumes that the bitmap ends below the kernel and what
the boot left, as it does with up to 896 MB; above that the bitmap's own `memset` and
`set` would write into them.

**Heap** (`heap.cpp`) keeps the headers as a function from address to fields; a
header that `combine_forward` swallows leaves its domain. `Malloc`,
`TakeSegment`, `ExpandHeap` and `OutOfFrames` are the parts of `malloc`; `Free` is
one action with both combines. `split` writes `prev` of the successor without a
test for `NULL`, which hits address 16 when the last segment is split
(`nullWritten`): that is the unused `next` field of the node that the VFS keeps at
address 0, and 64 bits of the frame bitmap (`NullWrites` of FrameAllocator). The heap
itself does not read it. **Arena** is what a caller relies on.

**Tasks** (`task.cpp`, `task.asm`, handlers of `idt.cpp`). `state`, `next`, `current`,
`in_kernel`, `creating`, `nested_errors` are the code's variables; `interrupts` and
`flags` are the processor's flag and the copies on the stacks. `SwitchTask` is
`switch_task` with `_task_switch`; `Fork`, `WaitForCreation`, `BeginCreate`,
`EndCreate` are `_create_task`, cut where it may yield or fault; `KillTask` is a
page, protection or stack fault in a task and `quit`, `StopMachine` one in `main_proc`;
`DoubleFault`, which stops the machine whoever runs, comes of any exception without
a gate (a division by zero, for one). What a task computes
is open. **Scheduler** is the round robin that it implements.

**PageTables** (`ptm_t::map`, `init_paging`, the callers of `map`). `mem` is what the
table frames hold; a frame that was never cleared holds `Dirt`. `map` is one
action per level (`Descend`, `NewTable`, `SetLeaf`), and a table or entry that the
tables in use do not map is a `PageFault`. `Unmap` changes nothing but a local copy
of the entry, as the code does. `tlb` may cache any entry the processor
may have read. `Addresses` assumes what `kernel.cpp` and the linker fix: frames and
pages are pages of the address space, and the heap lies behind all of them (1 << 44,
kernel.cpp:312). `LowFrames` assumes that among the pages mapped to themselves there
are frames for the tables that map these; with less memory `init_paging` would write
to a table it cannot reach. `free` are the frames `request_page` still returns: those
not locked at boot, and none is added later, as nothing is freed (6). The module
takes from FrameAllocator that each is returned once (`OneOwner`), so it is about runs in
which no bit that still matters was overwritten, and it leaves out that a table in the
bitmap's frames may be changed by `set`. **AddressSpace** is the function from pages to frames
that changes only at the page asked for.

**Disk** (`disk.cpp`) with the drive and the timer. `pc` is the place in `init_disk`,
`read_disk` or `write_disk`; the retries by recursion go back to `"command"`. Each
read of the status register is a step of its own. The drive (`Answers`, `Fails`,
`Taken`, `Given`) is external and follows ATA: it answers when it likes, fails, and
may ignore a command that comes while it is busy or still offers data.

**Vfs** (`vfs.cpp`, `init_disk` of `kernel.cpp`). `vfs.node` has the nodes by address;
node 0 is the copy that `vfs_get_tree_node` writes to `*out`, as every caller passes
a null pointer there, and it shares entry and children with the original.
`vfs_mount` writes the mount into that copy.

**VgaSelect** (`VGASELECT` in `kernel.cpp`). `run()` and `init()` go statement by
statement; `Key` and `Tick` are the interrupts, possible between any two steps,
also between a test and the `hlt` that follows it. `secret_kh` runs `init()` within
the interrupt, so in one step. The namespace is compiled in, but called only
with `RUN_VGASELECT`, which `defines.h` comments out.

**Boot** (`mbr.asm`, `boot.asm`, `extended_boot.asm`). `place` is where the processor
is, by the labels of the source, and `said` the message it stops with. `reads` has
what was read from which sector to which address, after the computation of
cylinder, head and sector; `Digits` is the octal conversion digit by digit, with the
overflow of its register, and `Converted` its result.
`detect_memory` is one call of the BIOS, which stores entries and ends the map as
it likes. `a20_kbc`, `Take`, `Key` and `Reset` are the code and the keyboard controller
byte by byte: a scan code that is read in place of the output port and written
back may reset the machine, and everything starts again.

**Interrupts** (`idt.cpp`, `idt.asm`, `timer.cpp`). The statements of `init_idt` and
`init_timer` that matter to the controllers are operators that `StartUp` puts in
the order of `main`. Handlers run with interrupts off, so `Interrupt(l)` is a whole
handler, in one step between any two of the code: it checks for a gate, finishes
with the highest priority in service, counts a tick, and leaves `Cut` in `edi`, as
the stubs save neither `rdi` nor `rsi`. Only here, at `PIT::sleep`, is that modelled;
in the other modules arguments arrive.

**Acpi** (`acpi.cpp`). `fw` is what the machine has: signatures, checksums, tables and
the region each is in, the ports, what S5 reads as. `enable_acpi` and `Poll` keep the
code's one counter for both loops; `root_table` is the RSDT, whose page is mapped
before it is read, or the XSDT, whose page is not; `shutdown` calls `enable_acpi` again, and
`caller` is where it returns to. Every sleep goes through `Interrupts`.

**StartUp** composes the three: `main` from the entry to `init_acpi`, `ReadRest` for
the second read of the kernel, and the hardware at any moment. What `main` does in
between is in the modules above.

**Screen** (`vga.cpp`, `vga_graphics.cpp`, `write_letter` of `vga_font.cpp`). `cells` is the
text memory with the one cell behind it where a full screen writes; `gone` is
history and keeps the lines that scrolled away. `mem` is the memory from 0x34000:
pixels, then a mark for each row and column, then what a character below the last
row runs into. `write_screen` copies plane by plane what is marked. `Line` is
`draw_line` in integers. **Terminal** is the roll of paper a reader sees.

`MC...` modules only define the instances below.

## 3. Runs

| Run | Instance | What it shows |
|---|---|---|
| Frames | 10 pages of two bytes, three regions, one with an end inside a page, a hole; the bitmap in frame 0; addresses inside, odd and outside, counts 0 and 2; one write of others into the bitmap | `TypeOK`, `OneOwner`, `Conservation`, `ProtectedNeverGranted` for every order of every call until memory is exhausted; `HintSound`, `HaltOnlyWhenFull`, `AccountingExact` while the calls are the kernel's |
| FrameBoot | 20 pages, four regions, the bitmap in frames 0 and 1; two writes | violated: see 6 |
| HeapLists | one page of 16, growing to address 160; requests 3, 6, 14 | `TypeOK`, `ListOK`, `NoAdjacentFree`, `MallocReturns`, and the heap implements `Arena` |
| TaskSwitch | `main_proc` and three tasks | `TypeOK`, `OneRunning`, `RingOK` (the search of `switch_task` ends, too), `InterruptsOn`, `ExitIsFinal`, `FaultsContained`, `ForkReturns`, and the tasks implement `Scheduler` with its turns |
| PagingKernel | tables of 4 entries, 256 pages, 16 mapped to themselves, four frames behind them | `TreeOK` (with the types), `TablesAccessible` (faults only behind the identity-mapped pages), `TlbCoherent`, and `map` implements `AddressSpace`, faults and exhaustion included |
| DiskRetry | three sectors, a first read of two, then two operations; two answers that are too slow; drive kinds PATA, PATAPI, SATAPI, none | `OpRight` for reads and writes, `TypeRight` (with the types), `OpEnds` (detection, too) |
| VfsDevices | three drives of three types, three paths, an archive with a file named like a drive, two calls after `init_disk` | `ForestOK` (with the types), `DevicesFound`, `DrivesNamed` |
| VgaMenu | three modes, a sleep of two ticks, any keys without bound | `MenuTypeOK` (the index into the modes), `OneDraws`, `WaitsEnd` |
| VgaRevoke | as VgaMenu | violated: see 6 |
| StartUp | a kernel of 143 sectors, at most three regions, twelve machines, one key for the controller, two polls each | `ReadyForMain`, `AllHandled`, `AcpiReported`, `StartEnds` |
| SleepCut | as StartUp | violated: see 6 |
| Screen | text modes 2x2 and 1x3, pictures of 2x2 pixels with one line of text, two planes, black and white | `BufferShown`, `LinesRight`, and text implements `Terminal` |

Why the bounds are enough. *Frames*: the bitmap is cut into bytes and the memory
ends inside one; every kind of region border occurs (inside a page, on a page, a
hole), and memory runs out. Bits are overwritten in the first pages, held or not, with
clear and with set bits, before and after the page of the bit is given out. In *Frames*
one write (`MaxWrites`) is enough, as a property that it does harm to is about the pages
it leaves alone, and any calls can follow it, in any number.
*Heap*: five headers fit, so every operation has a
neighbour on each side that is free, taken or missing, and expansion happens with
a last segment that is free or taken. *Tasks*: with three a task can be linked
between two others, be killed between two others, and be the second to wait for
`task_creation_in_progress`. *Paging*: 16 identity pages use one table of each
level and four of the last, the heap needs a new table at each level and then
tables that exist, and memory ends behind the identity-mapped pages. *Disk*: two
sectors make a first, a middle and a last; two operations make leftovers of one
meet the next; the error counter reaches its limit of six. `fails` is capped only
where nothing depends on it any more. *VFS*: two calls make one meet what the
other left; a mount and an added device meet at one path. *Menu*: nothing is
bounded but the ticks of the sleep.
*StartUp*: 143 sectors is the most the two reads bring; the machines are a good
one and one for each thing that may be wrong, with one and two control blocks;
one key is enough to be taken for the controller's answer, and the counts of polls
are reached and not reached. Times are scaled down in their order (10 ms, `Cut`,
`5 * Second`). *Screen*: each text mode has a first, a middle or a last line and a
column at each end; two lines scroll away, so that one is copied twice; a
character may be drawn inside and below the picture; lines of `LinesRight` have
every direction with coordinates up to `Far`.

Deadlock is not checked where the system really stops: the kernel halts in the
allocator, in a fault, in the boot code or after six disk errors, callers have no more to ask within
the bounds, or `run()` returns.

Each property was seen to fail under a plausible mutation of the code's
definition (`PROJECT.json`, "mutants").

## 4. Fairness

- *Heap*: weak fairness of what `malloc` does next, as nothing can interrupt it.
- *Tasks*: weak fairness of `yield` and of the steps of `fork`: cooperative tasks are
  assumed to reach their next yield. `desktop()` ends in `for (;;)` and does not:
  while it runs no other task does, and `ForkReturns` says nothing then.
- *Disk*: the driver goes on, the timer ticks, and a drive that is busy answers or
  fails eventually. Answers that come after the time-out are limited by `MaxSlow`:
  time-outs are not counted, so a drive that is always too slow is retried for ever.
- *VgaSelect*: `run()` goes on (unless in `hlt`) and the timer ticks. No key is fair.
- *StartUp*: the processor runs, the timer ticks, its interrupt is taken when the
  controller and the flag let it, and the keyboard controller takes the bytes it
  is given. Nothing else: the firmware need not enable ACPI, and no key has to
  come. The BIOS answers within the step that asks it.
- *Screen*, *FrameAllocator*, *PageTables* and *Vfs* promise nothing that needs fairness.

## 5. Proofs

TLAPS proves, for all values of the constants that meet the modules' named
assumptions:

- **FrameAllocatorProofs** from `Mapped`, `Sizes`, `Calls`: `TypeCorrect`,
  `NoDoubleGrant`, `ProtectedStayProtected`, `MemoryConserved` for `Spec` (every call
  in any order); from `KernelFits` and `Cached` as well, `HintNeverSkips`,
  `StopsOnlyWhenFull` and `CountersExact`, as long as the calls are the kernel's
  (`~called`).
  Each speaks of the pages outside `clobbered`, for any number of writes into the
  bitmap's frames, wherever the bitmap lies: a write changes bits of other pages, and the
  theorems say that it does no harm to the pages whose bits it left as they were.
  `OneOwner` is not inductive: that a held page keeps its bit (`HeldIsLocked`) holds
  only because the run of pages that `request_pages` found is still clear when it
  locks it (`GrantSound`), and protected pages are safe before their turn in
  `convert_mmap_to_bmp` only because nobody asks earlier (`ReservedLocked`) or their
  lock is still in `work` (`BootLocked`). `FrameInv` joins these. `HintSound` needs
  that the kernel frees no page behind the hint's back and that its plural calls
  stay inside memory (`WorkInside`), joined in `KernelInv`.
  `CountersExact` has two hypotheses, and the code needs both: memory is whole pages
  (a locked last page that is not all there is subtracted from `free_mem` whole), and
  `memset` clears every bit of a page that exists. `AccountInv` adds that pages the
  boot still has to free are locked (`FreeLocked`), as `free_page` of a clear page
  would set its bit and move its bytes the wrong way.
- **HeapProofs** from `HeapSizes`: `HeapTypeCorrect` and `ListStaysOK`. `HeapOK` (links
  on both sides, and tiling) is shown to be kept by each helper on its own
  (`CombineForwardOK`, `SplitOK`, `AppendOK`, `SetFreeOK`), and `HeapInv` carries it
  through the actions; after a halt in the middle of an expansion the list is
  that of an earlier end, hence its `\E end`.
  `FreeNeighboursMerged`: `MergeInv` adds to `HeapInv` that no
  header and its successor are both free (`Apart`). `ForwardApart` and
  `BackwardApart` say what each combine does to that: a segment that was freed may
  break it on either side, and only both merges together restore it;
  `SplitShape` and `AppendApart` do the same for `split` and for a new last segment.
  `HeapImplementsArena` is all of the refinement, as `Arena` has no
  fairness. `BlockFacts` and `SameBlocks` say which blocks a list shows; each action
  is then a step of the Arena (`MallocIsRequest`, `TakeIsGrant`, `FreeIsRelease`,
  `ExpandIsGrow`, `OutIsGrow`).
- **TasksProofs** from `MainIsNoTask`: `TasksTyped`, `OneTaskRuns`, `InterruptsComeBack`,
  `KilledStayDead`, `TaskFaultsContained` (page, protection and stack faults; a double
  fault stops the machine whoever runs), `RingUnbroken`, and
  `TasksImplementScheduler` (the initial
  states and every step; the Scheduler's fairness is left to TLC). `TaskInv` adds
  to the properties: `in_kernel` is right and `nested_errors` is back at 0
  (`KernelOK`), saved flags of tasks that may be resumed have interrupts on
  (`FlagsOK`), a task under creation belongs to one creator and has not run
  (`ChildOK`). `SwitchStates` and `SwitchFlags` say what `switch_task` does whatever
  its search finds. `RingInv` adds for the ring that at most one creator is past
  the wait (`CreateOK`), as two that link a task at once would lose one, and that
  some enumeration of the tasks without gaps or repetitions follows `next`
  (`Linked`), which gives the walk of `RingOK` its last step.
- **PageTablesProofs** from `PagingSizes`, `Addresses`, `LowFrames`: `TablesFormATree`,
  `TablesStayInReach`, `CachedIsMapped`, and `MapsOnePage`, all of the refinement.
  `Tree` says, level by level, that no frame is a table twice or at two levels;
  `LinkedOnce` makes a write to one entry a change of one page. `PagingInv` adds that no
  table is a free frame (`TablesOwned`) or mapped as heap (`HeapOwned`), that the `map`
  under way stands at the table its page leads to (`OpFits`), and that pages show
  themselves or nothing outside the heap (`Mapped`). Before the first load of `cr3`
  every table lies among the identity-mapped pages because those
  frames are given out first and are enough: `Booting` counts the blocks that still
  lack a table against the low frames left, from `LowFrames`.
- **DiskProofs** from `DiskSizes`: `OperationsAreRight`, and `TypesAreRight` for any kinds
  but SATA (see 6). `DriveFits` lists how drive and driver can stand to each
  other (`InStep`): a read with `i` sectors taken, a write with `i` given, one that
  nobody listens to any more (`Quiet`), or the data of an IDENTIFY that nobody fetched
  (`Stale`); in each, the sectors before `i` are where they belong. `Seen` is what the last
  status that was read still says about a drive that went on since.
- **KernelProofs**, on what `kernel.cpp` relies on, is about the VFS and about the menu.
  From `VfsSizes` and `VfsNames` (names and paths are finite sequences, and no name is given
  to two drives, as `init_disk` counts the letters up): `ForestAlways`, `DevicesAlwaysFound`
  and `DrivesAlwaysNamed`, for any drives, paths and archives and any number of calls.
  `ForestOK` is not inductive. `Pointers` has that nodes point to nodes made later only, so
  no chain comes back; `Apart` that no two pointers go to the same node, which is why the
  write to the last node of one list is no write to another; `Labels` that every node has
  one path, so a node is reached by no other name (`LeadsApart`). None is asked of the
  copy at address 0, except that what it points to exists and that its count is not 0
  when it has a list (`ChildInserted` appends through it and keeps all of them).
  `Children` is a walk: `ChildrenList` shows
  that it returns the one sequence that follows `next` to its end, from which
  `ListFacts` and `GetChildFacts` say what a caller sees. `Grows` is what every call
  does to the tree (lists get longer at the end, entries and what the nodes refer to stay),
  hence the first node of a name stays the first (`GrowsKeeps`) and a path leads where it
  led (`KeepsReaches`). On that rest `TreeNodeFound` for `vfs_get_tree_node`, `TarMounted`
  and `DeviceStored`. `Held` then says where each device is, and `Named` that the names given
  so far are the first ones, as many as there are drives of that kind.
  From `MenuSizes`: `MenuTyped` and `OneDrawsAlways`. `OneDraws` is not inductive:
  `Guarded` adds that `can_c` stays clear from the moment the secret is drawn until its
  handler has given the screen back, so `run()` is then in a wait it cannot leave.
- **StartUpProofs** from `BootSizes`, `CutIsTime`, `AcpiTimes`: `InterruptsHandled`,
  `AcpiEnabled`, `ReadyWhenCalled`, whatever the BIOS, the firmware and the keys do.
  `StartInv` joins
  what the order of `main` gives (`GatesReady`: interrupts stay off until the vectors
  are moved, and a line without a gate stays masked), that the controller resets
  the machine only before interrupts are on (`ResetEarly`), and that a loop that
  ended before the last poll has seen its bit (`PollsRight`). `ReadyWhenCalled` is for
  kernels of up to 143 sectors and maps of up to 256 entries, the limits of section
  6: `HandOver` carries what was read, converted and counted (`ImageRead`,
  `RegionsFollow`, `GateOpen`) over every restart to the call of `main`.
- **ScreenProofs** from `ScreenSizes`: `LinesAlwaysRight` for lines of any length,
  `BufferAlwaysShown`, and `TextIsPaper`, all of the refinement of text.
  `draw_line` is a loop: `HistoryExists` gives the sequence of its points, `ErrFollows` what the error term is after `t` steps, and from that
  every point is within half a pixel of the true line (`CourseNear`) and in the box of
  its ends (`LineInBox`). For the buffer, `PictureInv` has that a pixel whose colour
  differs from the screen has both its row and its column marked (`Led`) while drawing goes
  on, and that the cursor is at most behind the last cell (`CursorIn`);
  `WriteLeads` and `FontLeads` are about pixels inside and about characters below
  the last row, `WriteScreenShows` about the copy. For text, `TextInv` has that whole
  lines have scrolled away, so that columns on the paper are those of the screen
  (`SameColumn`); `CursorMoves` is the scroll, cell by cell, and `CursorFeeds`,
  `PutWrites`, `ColoursPaint` and `ClearsAreBlank` are the steps of the paper.

Induction over an operator is out of the prover's reach. Where a proof needs one (the
ring, the segments, the points of a line, the digits of a size), it takes the least
element of a set of numbers instead, or a function that the recursion defines.

Only model-checked: liveness (`MallocReturns`, `ForkReturns`, the Scheduler's
turns, `OpEnds`, `WaitsEnd`, `StartEnds`), which is out of the prover's reach.
Every safety invariant and refinement that a passing run checks has its theorem.

## 6. Where code and text disagree

Shown by runs that expect a violation:

- Enter between `retry = false` and `ok = false` in `init()` revokes the next choice
  without a key (VgaRevoke).
- The bitmap of frames lies at physical 0, in frames that are given out
  (memory.cpp:71 takes the address from what is stored at `_mmap`). `free` has no value
  for page 0 (memory.cpp:77); if it happens to be true, page 0 is the first page
  returned and becomes the pml4, whose `memset` unlocks the first 128 MB: the pages of
  the kernel, the old tables and the memory map are handed out next (FrameBoot).
- The stubs of the timer and the keyboard do not save `rdi` and `rsi`, which their
  handlers use: an interrupt between the load of an argument and its store in
  `PIT::sleep` turns five seconds into 160 ms (SleepCut). Any call of the kernel
  with arguments may lose them in the same way.

Observed while modelling, without a run of their own. In the models these are as in
the code, and the properties above hold with them.

Boot and start-up:

- `boot.asm` compares the size with `jle` as a signed byte, and its conversion
  gives the same size for every header: 128 sectors are read at first and 15
  after that. A kernel of more than 143 sectors is cut off, and "Finished loading
  kernel.bin" is printed all the same.
- `mbr.asm` loads the address of its message into `bx`, while `print` reads `si`.
- With a BIOS that says it has no A20 functions the machine stops without a try
  of the other ways.
- The last region is not counted when the BIOS reports it together with the end
  of the map; more than 255 regions wrap the byte that counts them. A table of
  ACPI in a region that is not counted ends in a page fault.
- `setup_identity_paging` relies on memory that is zero at power-on
  (extended_boot.asm:314).
- The loop of `check_rsdp` never runs, so any signature passes; the last one found
  is used. A control block that is not there reads as all ones, which is taken for
  "already enabled" (its test is of bit 13, where SCI_EN is bit 0).
- `enable_acpi` reports a failure when a bit comes up at the last poll, and its two
  loops share one counter.

Screen:

- After a full screen and behind its last line a character is lost: it gets a line
  and no ink.
- In graphics mode scrolling moves the cursor and not the picture. A character
  below the last row is drawn over the marks; with the real layout it would reach
  past 0x80000. `main` as it is does not get there.
- `draw_rect` is one pixel larger than `fill_rect` of the same arguments.
- `set_mode` leaves `g` as it was, so text would be drawn after a return to a text
  mode; nobody returns.

Memory, tasks, disk, VFS:

- The first page of a region behind a hole of the map keeps the `free` of the page
  before it (memory.cpp:62, 81): of a region that is printed as "Reserved" the
  first page is handed out, and so are the pages of a hole that follows usable memory.
- If page 0 is not returned, page 1 is, and becomes the pml4. It has the bits of the
  pages from 128 MB to 256 MB, so the pml4's entries are bits and those bits are entries:
  requests that get so far would write into the pml4. The models have the first half
  (`HolderWrites`).
- Exceptions without a gate (idt.cpp:43) become a double fault, which stops the
  machine although only one task is at fault.
- The XSDT is read without a look whether its page is mapped (acpi.cpp:39), the RSDT
  is mapped first (acpi.cpp:29).
- `unlock_old_page_tables` frees nothing: `free_page` returns when the bit is set
  (its test is `lock_page`'s), and `"Lock old PTs"` is never undone.
- `ptm_t::unmap` clears a local copy of the entry; the page stays mapped.
- `get_pd` and `get_pt` use a frame number as an address (memory.cpp:431).
- `g_PTM` points to `pm`, a local of `init_paging` (kernel.cpp:59).
- `vfs_mount` sets the mount in a copy of the node; the files are not in the tree
  for later calls.
- The devices get 0x1f6 and 0x176, the drive select registers, as `dev_ctl`
  (kernel.cpp:104), and the boot drive is a second copy of the device that the VFS
  holds (kernel.cpp:127).
- `_task_switch` does not save `r12` to `r15` (task.asm:5); the code is compiled
  without optimisation and does not use them.
- In the menu `sel` is read before `ok` (kernel.cpp:239): a move and Enter in between
  select the mode that was shown before.

- When memory does not end with a whole page and that page is locked, all of it is
  taken from `free_mem`, which may wrap below 0: `AccountingExact` holds only for
  whole pages, and the BIOS reports such ends.
- A page that a region of the firmware enters or leaves in its middle counts as
  what its first byte is; a hole that no entry describes is handed out.
- `request_pages` may miss a run of free pages that starts after a shorter one;
  its exhaustion is reported by the halt of `lock_page`.
- Only the first 2 MiB are mapped to themselves: `map` faults for a table behind
  them (`TablesAccessible` says that it does so for no other reason).
- `init_disk` waits without end on a floating bus, where the busy bit reads as
  set, and for a failed IDENTIFY; the SATA signature is tested only after every
  signature but zero has returned, so `TypeRight` would fail for SATA drives. These kinds are in the module
  (`"floating"`, `"faulty"`, `"SATA"`) and not in the run.
- A read of one sector right after `init_disk` may take the IDENTIFY data for its
  own; the kernel reads more sectors, and recovers by a time-out.
- `disk_errors` is never reset: the sixth error since boot stops the machine.
- A task killed inside `_create_task` leaves `task_creation_in_progress` set and
  every later `fork` yields for ever: `ForkReturns` excludes it as `Orphaned`.

## 7. Not modelled

- PCI: a scan of configuration space that prints; CMOS: port input and
  conversions. The only calls of both are commented out in `main`.
- USTAR: the walk over headers and octal sizes, a pure computation on an archive
  that the build makes with one file. `Vfs` models mounting from what it lists.
- Serial port, debug output, sound, mouse: port input and output of one device
  each. GDT, `io`, `asm`, `convert`: constants, single instructions, conversions.
- Within modelled components: printing everywhere but in `Screen`; the number
  formats of `printf`; `draw_circle` and `draw_ellipse` (only `test_graphics` calls
  them); `clear_line` and `gprintc` (nobody does); the tables of registers and font
  pixels; `set_mode`'s message for an unknown mode; `get_pdp`, `get_pd`, `get_pt`,
  `get_page` of `ptm_t` and what uses only them (they dereference a frame number as
  an address); two drives on one channel; the fields of `fs_node_t`, which nothing
  reads; the divisor of the timer; the inside of AML.
- `shutdown` and the menu are modelled although the default build does not reach
  them: they are compiled in, and `defines.h` or a caller turns them on.

## 8. Plan

What everything else rests on came first (frames, heap, tasks), then page tables,
disk, VFS and the menu, then the way to `main` and the screen, then the proofs.
Left:

1. `Ustar` and `Cmos` as pure algorithms: headers and octal sizes against a reference
   reader, two readings of the clock against its update flag.
2. The interrupt stubs composed with every module whose calls pass arguments: what
   each handler would read if `rdi` and `rsi` were lost.
