# A TLA+ verification of MinimalistOS

MinimalistOS is a 32-bit x86 kernel in C: a process table with a round-robin
scheduler driven by the timer, interrupt-driven keyboard input, a system call
layer, a page and a heap allocator, a device registry, a simulated network stack,
message passing, several small filesystems, a program loader, security, power and
monitoring services and a shell. This directory models the parts of it that carry
state and control, checks them with TLC on small instances and proves the most
important results with TLAPS for every value of the constants.

`PROJECT.json` lists the components, the runs, the hazards, and the source lines
behind every definition ("map").

## 1. Inventory

| part | state it keeps | operations | hard behaviour |
|---|---|---|---|
| process table, scheduler (`kernel/process.c`) | slot states, `next_pid`, `current_process`, saved contexts | `process_create`, `process_exit`, `schedule` from tick, yield and exit | the timer interrupts `process_create` between its steps; slots are reused; starvation |
| interrupts, timer (`kernel/idt.c`, `kernel/kmain.c`, `drivers/timer.c`) | gates, handlers, masks, interrupt flag | boot, remap, register, dispatch | order of initialisation; a byte whose interrupt was forgotten |
| keyboard (`drivers/keyboard.c`) | ring of characters, modifier flags | IRQ1 handler, `keyboard_getchar` | the handler interrupts the reader; two readers; full ring |
| network stack (`kernel/network.c`) | ring of packets, interface | init, send, receive, set address | full and empty ring look alike; widths of the arguments |
| message passing (`kernel/ipc.c`) | queue with head, tail, count | send, receive by sender | removal from the middle, indices out of step |
| heap (`kernel/memory.c`) | `heap_pos` | `kmalloc`, `kmalloc_aligned`, `kcalloc` | rounding and 32-bit sums at the limit; mixes of the allocators |
| RAM filesystem (`fs/ramfs.c`) | file table and contents, both on the heap | mount, create, open, read, write | the second allocation fails after the first; clamping at the end of a slot |
| enhanced filesystem (`fs/filesystem_enhanced.c`) | block bitmap, file table, data | create, delete, open, read, write | blocks of files that grow; deletion shifts the table |
| VFS (`fs/vfs_simple.c`) | descriptors | open, close, seek, read, write | descriptor reuse |
| physical pages (`kernel/memory.c`) | bitmap, counter | `alloc_page`, `free_page` | double use, leaks, exactness of the counter |
| device registry (`kernel/device.c`) | linked list of `device_t`, one per page | register, unregister, find, forward I/O | unlinking from a list whose nodes are reused pages |
| block and character devices (`drivers/`) | one page, a current block; a ring of bytes | open, read, write, ioctl | bounds larger than the page behind them; wrap-around |
| program loader (`kernel/program_loader.c`) | a bump allocator | load, execute, clean up | failure in the middle; memory given back in the wrong order |
| shell (`kernel/shell.c`), console (`drivers/vga.c`) | line buffer; cursor and screen | line editing, commands; put, scroll | limits of line and row; the timer writes into the screen |
| mouse (`drivers/mouse.c`) | packet, position | IRQ12 handler | lost bytes shift the packet boundaries |
| security (`kernel/security.c`) | context, users, access control list | users, passwords, permissions, context | regaining privilege; tables at their limits |
| power (`kernel/power.c`) | state, settings and their copies, battery | state changes, events, periodic update | settings kept twice; orders of events |
| monitor, log (`kernel/monitor.c`, `kernel/log.c`) | ring of entries, timers; log level | log, dump, start and end timers; format | unsigned index arithmetic; truncation in a conversion |
| system calls (`kernel/syscall.c`), user mode (`kernel/usermode.c`) | dispatch table; TSS | about 30 calls; `create_user_process` | argument conversion; allocation fails half way |

Interaction: `kmain` initialises everything with interrupts off and enters the
shell with interrupts on. From then on the timer handler calls `schedule` on every
tick and the keyboard handler fills the ring that the shell and `sys_read` empty.
The RAM filesystem lives on the heap, devices and user processes live in physical
pages, the program loader creates processes, and the shell, the timer's digit and the
mouse draw on one screen.

Facts about the repository that bound what the models say. `idt_init` installs
gates 0 to 47 only, so system calls are modelled from their handlers, as they would
run once gate 0x80 is there. `ipc.c`, `block_device.c`, `char_device.c`, `mouse.c` and
`filesystem_enhanced.c` are in the tree but not in the Makefile's source lists, and
nothing calls `program_execute` or the `*_init` of the mouse, the device registry, IPC,
the network, security and the monitor (`minimal.c` only declares some of them): these
components are modelled as they would run once initialised. Security is also modelled as
it is without that, with the zeroed tables of the static data. The Makefile builds
`kernel/context_switch.asm`, which is empty;
`schedule`'s call is therefore taken at its contract (save the CPU in one context,
continue with the other), not at the instructions of `context_switch.s`.

## 2. Modules

| module | models | abstract specification |
|---|---|---|
| `Scheduler` | process table, scheduler, timer tick, yield, exit | – |
| `Loader` (extends `Scheduler`) | the program loader | – |
| `Interrupts` | boot order, PIC, gates and handlers, keyboard controller | – |
| `Kernel` (extends `Loader`, `Interrupts`) | the running kernel: boot, interrupts, scheduling and loading together | – |
| `NetworkQueue` | the packet ring | `BoundedFifo` |
| `Keyboard` | keyboard handler and `keyboard_getchar` | `BoundedFifo` |
| `Ipc` | the message queue | – |
| `DeviceIO` | device calls, character and block devices | `ByteStream` |
| `Heap` | the bump allocators | – |
| `RamFs` (extends `Heap`) | the RAM filesystem, on the heap it shares with others | `FileStore` |
| `FileSystem` | the block filesystem | `AppendStore` |
| `Vfs` | descriptors of `vfs_simple.c` | – |
| `Devices` | pages, device list, block device's page, user processes' pages | `DeviceList` |
| `Vga` | the screen, as operators on a record | – |
| `Console` (extends `Vga`) | shell and screen, with the timer's digit | – |
| `Mouse` (extends `Console`) | the mouse driver, drawing its pointer on the shell's screen | – |
| `Security`, `Power`, `Monitor`, `Format` | the services of those names; `Format` is `log.c` | – |
| `MCScheduler`, `MCKernel`, `MCRamFs` | constants for TLC | |
| `MCQueues`, `MCStorage`, `MCServices` | several components in one run | |
| `SchedulerProofs`, `KernelProofs`, `NetworkQueueProofs`, `QueueProofs`, `StorageProofs`, `FormatProofs`, `ServicesProofs` | theorems | |
| `Induction` | lemmas on numbers and sequences used by several of them | |

Composition. `Kernel` composes components that interact: the timer's line drives
`schedule`, and the loader, on the kernel thread, is interrupted between any two of
its steps, those of `process_create` included. `RamFs` extends the heap it allocates
from, `Console` the screen, and `Mouse` the console, with whose text it shares cells and
cursor. `MCQueues`, `MCStorage` and `MCServices` put several components into one run to
share the work of a run, not to study an interaction: the four of `MCQueues`, the three of
`MCStorage` and the six of `MCServices` (shell and mouse being one, "screen") have no variable
of the code in common, and a step of one is taken while the others rest in their initial states.
Nothing is concluded about how they affect each other.

`Scheduler`. `state`, `next_pid`, `current_process` are the variables of
`process.c`; `context[p]` is the thread saved in slot p and `cpu` the one that
runs. Threads are numbered as `context_init` makes them, so that a thread in two
places, a lost one and one that runs after its exit are all visible. `schedule` is
one step because its callers run behind interrupt gates. `process_create` runs with
interrupts on and is four steps (scan and test of `next_pid`, store of `next_pid`, READY,
context), with the progress of each thread in `creating`; there is no uninterrupted
variant. The scan itself is one step: a slot that a process frees by exiting behind the scan is
not missed in the model, where the code would take a later one. `Creators` are the threads that
call it: the kernel thread in the kernel as it is, any thread in `scheduler_preempt` and
`scheduler_claim`. `exited` and `born` are history.

The window of an interrupted creation is part of the properties. `Unfinished(p)` says that
slot p is READY and its context not written. A tick in that window dispatches whatever the slot
held: nothing (a fresh slot: the CPU is lost, `~Alive`, and the system stops) or the context of
the exited thread that had the slot before, which then runs on. The invariants say that
this is the only way to lose the CPU or to come back from `process_exit`, and
that no other thread is harmed by it.

`Loader`. A region of program memory is a set of units. `load` is the progress of
`program_execute`: each allocation, each failure after the first one and the final
reset are steps. All sums of sizes and addresses are those of `uint32_t`, modulo
`ProgramWord`: `program_alloc_memory`'s test, the size `p_vaddr + p_memsz` of a segment, the
comparison in `program_free_memory`. `load.wrapped` remembers that a size in the file made one of
them wrap. The file it reads is taken at its contract; how much of a segment is
read (`p_filesz`) and what the program does with its memory are not modelled. The entry
point of a file is assumed not to be 0, for which `process_create` would skip the context.

`Interrupts`. `kmain` is the sequence of the calls that touch the interrupt path. The
PIC latches edges and forgets them when it is initialised; the keyboard controller
holds one byte and raises no edge while it is full. These two are external. The handshake of
`keyboard_init` over the command byte is a step of its own (`command_byte`): a key typed
meanwhile is taken for that byte and leaves the real one in the controller.

`NetworkQueue` keeps the ring with head, tail and count as the code does; a packet
is its addresses, its type after the conversion to eight bits, its length and a
payload. The bytes past the length, which a receiver cannot interpret, are blanked
when a packet is compared with the abstract queue.

`Keyboard` abstracts scancodes to the kinds the handler tells apart and a character
to a key and a glyph. `keyboard_getchar` takes three steps when the shell calls it
and one when `sys_read` does. With `Preempt = FALSE` `sys_read` runs only when the
shell is outside of it. Both shift keys drive the one flag `shift_pressed`, so a shift that is
still held counts as released after the other one is.

`Ipc` follows the code's indices exactly; a message carries the number of its send.

`DeviceIO`. A call finds its device by name and forwards to it. The character device
is its ring; of the block device the selected block, and in `block_moved` how many bytes the
last transfer went over. The test of `block_read` and `block_write` adds in a `uint32_t` and
compares with the size the device claims, not with its one page: a transfer of several blocks
leaves the page, and one whose sum wraps is not cut at all. The model shows both; no
property claims that transfers stay in the page, because they do not.

`Heap` does its sums modulo `WORD`; `allocs` records what callers were promised.
`RamFs` splits `ramfs_init` at its two allocations; `smashed` is set when a copy
leaves the slot of its file or there is no contents area, after which the model says
nothing more. A buffer is copies of one byte. `RamKept` is what `strncpy` keeps of a
name: the lookup compares the whole name with the stored, cut one, so a long name can be
created again and again and is never found. `FileStore` is therefore a store of files by
number, with names that may repeat.

`FileSystem` is a record of the bitmap, the files in table order and the data, so that
`fs_init`, which creates files itself, is written with the operators of `fs_create`
and `fs_write`. Files are of any number of blocks and names are cut (`FsKept`) as in `RamFs`.
`given` and `spilled` are history: the blocks `alloc_block` handed out for each file, and
whether a write has ever stored data outside those of its own file, as `fs_write` does when the
block it was given is not the next one. `MaxFileSize` only bounds the model; it stands for sizes
whose sums stay below 2^32. The descriptors are those `fs_create` and `fs_open` return; the
functions would accept negative ones, which no caller passes.

`Vfs` keeps `in_use` and `offset`; `seen` is what a descriptor has
read since it was opened. Offsets and the sum in `fs_read` are taken modulo `VfsWord`;
`VfsAssumption` says that no count is so large that this sum wraps, which holds for all callers
and not for every argument of `sys_read`.

`Devices` keeps the pointers of the device list (`device[p].next`), so that
registration and removal are pointer operations on reused pages. `held`, `user` and
`block_data` say who else uses pages.

`Console`. A screen is its cells and a cursor, characters are printable or one of the
kinds `vga_putchar` treats specially. `plain` says that the line so far was typed with
printable characters only: others are stored in the line and not shown. `marks` is history:
what interrupts have drawn since the prompt.

`Mouse` takes any byte at any time, and draws on the screen of `Console` through
`vga_print_at`, which moves the text cursor and puts it back. The driver saves nothing: it
overwrites text with its X and leaves a blank when it moves on, and when the text scrolls, the X
scrolls with it and stays behind. Its handler strikes between any two calls of the shell
into `vga.c`, not inside one.

`Security` keeps the tables as sequences in the code's order, permissions as sets. Names,
passwords and resources are stored cut (`NameKept`, `PasswordKept`, `ResourceKept`) and
compared whole. Its initial states are the zeroed tables and those of `security_init`.

`Power` keeps settings and statistics apart, as the
code does. `Monitor` keeps the ring with its index and count; all its times come from
`timestamp_counter`, which only logging advances. `LogEntry` computes the index as
`monitor_get_log_entry` does, with a difference that wraps at `MonitorWord` before the remainder
is taken; that is right because the ring's size divides 2^32, which is assumed of the
constants. Time stamps and uptime stay below the bounds `MaxStamp` and `MaxUptime`; their own
wrap at 2^32 is not modelled. `Log` is what a caller of `monitor_get_log_entry` reads one after the
other. `monitor_dump_logs` is not modelled: it formats each entry with a stub `snprintf`
(`monitor.c:149`) that copies the format string as it is, and so prints no entry at all.
`Format` runs the loop of `vsnprintf`
one iteration per step, with `itoa` on integers of `WordSize`.

Definitions named `Op_what_is_wrong` are mutants: plausible slips in the code of
`Op`, used by nothing in the specifications, with which each property was shown to
be able to fail (PROJECT.json "mutants").

## 3. Runs

| run | constants | shows |
|---|---|---|
| `kernel` | 3 slots, 5 threads, 12 units of program memory, at most 2 segments of sizes 1, 7 and 31 with sums modulo 32; the timer strikes inside `process_create` too; 168 000 states | no interrupt arrives before its handler is up and the keyboard never wedges; used slots stay in reach of the loops over `next_pid`, in the middle of a creation too; only the slot of an unfinished creation lacks a context, and only there an exited thread can run on; no other thread is lost; every READY process runs eventually unless the CPU is lost; a load keeps its regions apart unless a size wraps |
| `scheduler_preempt` | 3 slots, 3 threads, any thread creates and is interrupted anywhere, NULL entry points, everybody may exit; 20 000 states | one RUNNING slot, the current one; no thread in two places |
| `scheduler_claim` (violation) | 4 slots | two interrupted creators claim one slot |
| `scheduler_context` (violation) | 3 slots | a tick between READY and the context loses the CPU |
| `queues` | rings of 3, packet lengths 0, 1514, 1515, two shift keys and caps lock, 5 messages, character transfers of up to 2 bytes, block transfers within a block, beyond the page and around the word; 328 000 states | packet ring and key ring are bounded FIFOs, the character device a byte stream; the message queue's tail drifts by one slot per receive and still nothing unsent is delivered |
| `keyboard_two_readers` (violation) | ring of 4 | a reader that interrupts another takes its character |
| `ipc_duplicate` (violation) | 3 slots | a message is delivered twice |
| `storage` | heap of 18 bytes, 4 allocations, 2 files of 2 bytes; 7 blocks of 2 bytes, files of up to two blocks; names longer than their fields; 2 descriptors, offsets modulo 8; 83 000 states | allocations inside the heap and disjoint; RAM files implement `FileStore`; block files keep apart and implement `AppendStore` until a write leaves the blocks of its file; reused descriptors read from the start |
| `ramfs_boot` (violation) | the sizes of the code in KB | mounting fails and leaves a table that passes for a filesystem |
| `files_overlap` (violation) | as `storage` | a growing file is written into the next file's block |
| `services` | 5 pages, 2 names; screen of 2 rows of 3 with prompt, a line of 1 character, digit and pointer; mouse bytes 1, 128, 255; 2 accounts, 3 permissions, names longer than their fields; log of 4 entries with an index modulo 8, 2 timers; lines of 4 bytes, 8-bit integers; 2 000 000 states | one user per page, exact counter, the registry implements `DeviceList`; the screen shows the line that will be executed, but for what interrupts drew; the pointer disturbs no other cell; keys of the security tables are unique, cut names aside, and privilege only drops; settings and copies agree; the log delivers the latest entries; no time is counted twice; a log line is the meaning of its format, cut |
| `console_wrap` (violation) | lines longer than a row | the line is overwritten instead of wrapped |

Why the bounds are enough. Every ring and table is filled, emptied and wrapped
around. Three slots let the kernel, a live process and a slot that is being reused exist at
once; five threads reuse slots several times. Program memory holds a header table, two small
segments or one large one, and a stack only after some of the loads, so every failure of the
loader happens, and a segment of 31 units wraps its own sum or the allocator's. Three slots
of the IPC queue hold a message before, at and after the one that
is removed. Four free pages hold a list with a middle and both ends while a page
changes hands. The heap's sizes straddle its end and the rounding. Seven blocks leave room
for growth into the next block with and without a neighbour. Two rows scroll, and
the digit of the timer and the pointer fall into the line. The mouse bytes are both signs, the
smallest, and first bytes with and without bit 3. Timer names are empty, shorter and
longer than their field. The formats are every conversion with room and without, with
numbers on both sides of the sign bit. The sizes that occur only in theorems are
unbounded.

Deadlock is not checked where the system may stop: after the CPU is lost
(`kernel`, `scheduler_preempt`), and where a bound on sends, allocations or time stamps is
used up (`queues`, `storage`, `services`).

Fairness, all of it in `KernelSpec`. `kmain` runs on (weak fairness of its steps). The
PIT is programmed for periodic interrupts (`timer_init`), IRQ0 is unmasked, `irq_handler`
acknowledges before it calls the handler, and `context_init` gives every context the
interrupt flag: weak fairness of the tick and of its handling. The keyboard's line has a
lower priority than the timer's, so its handling is enabled again and again rather than
continuously; a tick is handled long before the next one arrives, which justifies strong
fairness of `keyboard_irq`. Once the CPU is lost no handler runs; both liveness properties
allow for that and for nothing else. Nothing is assumed of yields, exits, programs or keys.

## 4. Proofs

Every theorem holds for all values of the constants that satisfy the named assumptions
of the modules. What a theorem needs beyond these is a hypothesis of its own; each of
them is listed below with what goes wrong without it.

| module | results |
|---|---|
| `SchedulerProofs` | types, `RunningIsCurrent`, `OneHomePerThread` for any creators; with the kernel thread as the only one `ExitNeverReturns`, `LiveThreadsKept`, `UsedSlotsBelowNextPid`, `ReadyHasContext`, all with creation interrupted anywhere |
| `KernelProofs` | the kernel implements the scheduler, which carries its results over; `IrqsAreExpected`, `LoadKeepsApart` |
| `NetworkQueueProofs` | types, `TailFollowsHead`, refinement of `BoundedFifo` |
| `QueueProofs` | `FetchFindsChar`, the keyboard's refinement of `BoundedFifo`; `TailDrifts`, `NoPhantomMessage`; the character device's refinement of `ByteStream`; `QueuesTypeOK` |
| `StorageProofs` | types of the heap, `InsideHeap`, `AllocationsDisjoint`; the kernel with a RAM filesystem implements the heap; `FilesStayInSlots`, refinement of `FileStore`; `OnlySpillsOverlap`, refinement of `AppendStore`; `ReadsDeliverSample`; `StorageTypeOK` |
| `FormatProofs` | `itoa` gives numerals (`ItoaSigned`); the length of a log line; `LineIsCutMeaning` |
| `ServicesProofs` | `OneUserPerPage`, `UsedPagesExact`, refinement of `DeviceList`; types of shell and mouse on one screen, `LineShown`, `PointerSparesText`; `KeysUnique`, `PrivilegeOnlyDrops`; `StatsMirror`; `LogKeepsLatest`, `TimersAccount`; `ServicesTypeOK` of the services of the run |
| `Induction` | induction over the numbers as statements about sets; what appending to a sequence and taking an item out of it do |

*Scheduler.* `RunningIsCurrent` and `OneHomePerThread` hold whoever creates processes and are
proved together as `Safe`, with the type invariant and `BornBound` (no context and no
CPU holds a thread that is not born yet, so a new number is new). The other results need
`KernelCreates`, which is the kernel as it is: its only call of `process_create` is the one of
`program_execute` on the kernel thread, with an entry point, and the shell never exits (run
`scheduler_claim` shows what a second creator does). Creation stays interruptible. Their invariant
`Orderly` adds that slot 0 holds the kernel thread and is READY or RUNNING, that the current slot
is RUNNING between steps, that the kernel thread's creation, if it is under way, has a free slot
before the claim and a used one after it with `next_pid` above it (`CreationInOrder`), and that a
READY slot other than the unfinished one holds a live thread. While a dispatched
unfinished slot runs a stale thread, that thread can be switched away from and back to: this is
why the window stays open until the kernel thread runs again and writes the context, which replaces
the stale thread. The key lemma is `ScanFindsKernel`: the attempts of `schedule` reach slot 0,
so an exiting process always finds somebody to switch to.

*Kernel.* `BootInv` says for each step of `kmain` which gates and handlers are there and
which lines are unmasked. `LoaderInv` says that, unless a sum has wrapped in this load, the
regions taken so far, the header table included, are disjoint and lie below the allocator's mark
(`Intact`), and that the mark is inside program memory in any case; `program_free_memory` of the
header table takes the mark back only if the table is the last region, which is the step
that could put two regions on top of each other.

*Rings.* The arithmetic modulo the size of a ring is done once per ring in lemmas about
numbers (`RingStep`, `RingItems` and their like); the refinements show that an insertion
appends to, and a removal takes the head of, the sequence that starts at the read index.
For the keyboard, whose reader is interrupted by the writer, `KeyFifoInv` adds that the
reader, once it has seen a character, finds that one at the read pointer (`ShellSeesChar`):
the handler only writes a slot that is not pending. Hypothesis `~Preempt`: one reader at a
time (run `keyboard_two_readers`). `IpcInv` explains why drifting indices deliver no
phantom: sends equal messages waiting plus messages delivered, so every slot that can be
searched was written at some time. Of the block device only the types are proved.

*Heap and files.* `AllocationsDisjoint` is not inductive: the invariant adds that every
allocation ends at or below `heap_pos` and that `heap_pos` passes the end of the heap by at
most three bytes. Hypothesis `Modest`: sizes, products and alignments leave room below
`WORD`. `RamInv` adds to `FilesStayInSlots` that what no write has
reached is zero and that there are no files before mounting, which is what
the refinement of `FileStore` needs when a file is extended or created in a used slot.
Hypothesis `CountsFit`: the sum of offset and count does not wrap; with a count close to
2^32 at an offset above 0 the test in `ramfs_write` passes and the copy leaves the slot.
`NoFileIsNoFile` says that the value for "no file" is not a file. For the block
filesystem, `FsInv` says: either some write has spilled, or the blocks given to
different files are disjoint, marked, and contain what the file occupies (`FsApart`). It is carried
through the operators of creation, growth and deletion, and `fs_init` is a composition of
these. Deletion frees the blocks from the start of the file on, which is right exactly because
nothing has spilled; this is why `given` has to be remembered. There is no bound on the size
of files in these theorems other than `MaxFileSize`, an arbitrary number. `VfsInv` says
that a descriptor that only read has not passed the end of the text.

*Pages and devices.* `DevicesInv` says that there is a sequence of distinct pages that
`device_list` and the `next` pointers run through, and that the reserved pages, this chain,
the block device's page, `held` and `user` partition the bitmap. `ListedIsChain` identifies
the walk along the pointers, a recursive function, with the chain by induction;
registration prepends a page to the chain and removal takes one out of it, from which both
the accounting and the refinement of `DeviceList` follow.

*Console and mouse.* `LineInv`: while the line was typed with printable characters, it
stands behind the prompt and before the cursor, a cell differing only by one of `marks`. Printing a
string is a recursive function, shown by induction to put the string into the row. Hypothesis
`[]RowFits`: no line reaches the last column of its row. In a full row the next character, a
deletion included, is handled on the column the cursor was reset to (run `console_wrap`).
`PointerSparesText` needs that drawing a single character, in the last cell of the screen too,
does not scroll, and that `vga_print_at` restores the cursor; its invariant `ScreenInv` is the
types of both components.

*Other services.* `SecurityInv` says of names and entries that they are unique unless they are
what a longer one is cut to, and of root's accounts that they are active (`RootActive`); nothing is
assumed of what is cut. `TimerInv` has that slots with names come first,
so that a start of a running timer meets its own slot before a free one, and that what
was counted was counted before the running interval started. `LogInv` gives the time stamp
of every place of the ring, which determines the order of the entries; that the wrapped difference has
the right remainder rests on `MonitorAssumption`, the ring's size dividing the word; that the CPU usage is a
percentage at every uptime is a lemma on the quotient (`UsageIsPercentage`). `PowerInv` is the type
and the mirror.

*Log lines.* `LineIsCutMeaning` compares two computations. The code divides, stores digits
lowest first and reverses them, and writes what fits of one conversion after the other; the
meaning of a format is defined by the places of its numbers and from the end of the format
backwards. Both contain recursive functions, so each is first shown to exist. For `itoa`
the function `Low`, given by the places of the number, is shown to satisfy the equation of the
loop, and the equation to have one solution (`LowLoopUnique`, by induction over the absolute
value); this rests on dividing by a power of the base being dividing that many times
(`DivideTwice`) and on truncated division of negative numbers (`TruncatedDivision`). Powers are a
recursive function of their own because the provers do not know `^`. `Rest` is built up from
the end of the format (`RestExists`). The invariant of the loop is `FormatInv` and `CutInv`:
there is an argument for every conversion still to come (`Enough`), and the whole meaning
is the buffer followed by the rest, or the buffer is full and a beginning of it (`CutAt`). Each
kind of iteration writes a text, as far as it fits, that is what the format means there
(`IterationWrites`), and such a step keeps the invariant (`CutStep`). `FormatAssumption` says
that callers pass an argument for every conversion and that no character of a format is the
terminating zero; nothing bounds the sizes. The premise `Unambiguous` of `LineIsCutMeaning` is
needed where an unsigned conversion meets a word with the sign bit set (section 5).

*The services of the run.* `ServicesComponents` relates the steps of the run to the specifications
of its components; `ServicesTypeOK` is then the conjunction of the types proved one by one. As one
component runs while the others rest, this says nothing about them running at once.

Only model-checked:

- `ReadyEventuallyRuns` and `KeyEventuallyRead`, liveness under fairness, which the prover
  does not handle;
- the violation runs, which are single behaviours.

The induction theorems of the library take an operator as a parameter, which the provers
cannot instantiate. `Induction` states the same for sets, from the least element of
a set of numbers; a recursive function is then reasoned about by a set of the numbers at
which it does what it should.

## 5. What the checks found

The seven violation runs are explained in PROJECT.json "findings". Also met while
modelling, and visible in the actions, in the constants of the runs or in the
assumptions of the proofs:

- when every process may exit (`MayExit = AllSlots`), the last one to do so returns
  from `process_exit`;
- an interrupted `process_create` can lose the CPU or resume a thread that has exited in the
  slot it is reusing (run `scheduler_context` and the premise `Unfinished` of the kernel's
  properties); if that thread exits once more, the new context is written into a ZOMBIE slot and
  the program never runs; with a second creator the test and the store of `next_pid` could also lower it,
  which would hide a live slot from `schedule`;
- `syscall_init` registers a handler for vector 0x80, for which there is no gate;
- a segment whose `p_vaddr + p_memsz`, or whose end in program memory, passes 2^32 is accepted and
  laid over other regions (`load.wrapped`);
- `program_execute` resets program memory while the program it started runs, so the
  next load is put on top of it; the entry point is not relocated to where the segment
  was put; and `vfs_simple.c` reads at most 16 bytes of a file, fewer than an ELF header;
- `network_send_packet` takes the type as `uint8_t`, so ARP (0x0806) arrives as 6, the
  number of TCP;
- releasing one shift key clears `shift_pressed` while the other is held;
- after `kmalloc_aligned` the next `kmalloc` result need not be a multiple of 4, and
  requests near 2^32 wrap and succeed;
- `create_user_process` asks for 1024 of 768 free pages: it always fails and keeps all
  of them;
- a block transfer longer than a block can leave the device's one page, and one whose sum passes
  2^32 is not cut at all;
- the first write to a file of `filesystem_enhanced.c` marks a block beyond the one the
  file has, which deletion does not give back; deletion renumbers the descriptors of
  later files;
- both filesystems, the user table and the access control list store a name cut to its field and
  compare it whole: a name that is too long can be added again and again and is not found;
- the byte after a carriage return from the serial port is dropped whatever it is;
  control and accented characters are stored in the line but not shown;
- the mouse pointer overwrites the text below it and leaves a blank, and an X that the text has
  scrolled away stays on the screen;
- `security_authenticate_user` reports success also where it does not change the context: its
  comment "Set security context to authenticated user" (`security.c:247`) is true only while the
  context is root's. For the same reason `kernel/security_test.c:71-74`, which calls
  `security_set_context(ROOT_UID, ROOT_UID)` as user 1000 and prints "Context switched back to
  root!" without looking at the result, does not switch back: `PrivilegeOnlyDrops` holds of the code
  and the message of the test is wrong. (Its authentication of `testuser` has dropped root
  already, so that its switch to user 1000 is refused too and the message is not reached.) Once dropped, root can not be regained
  by any call;
- nothing calls `security_init`: in the kernel as built there are no accounts and no
  permissions, and the zeroed context is root's;
- `monitor_dump_logs` prints the same literal format string for every entry, through the stub
  `snprintf` (`monitor.c:149`);
- `BATTERY_LOW` while sleeping raises the frequency from 100 to 500 MHz; the battery
  discharges by being asked for its status;
- a timer name longer than 31 characters is never found again; the slot of an empty name
  is taken by the next timer;
- `%u` and `%x` go through the signed `itoa` and print values of 2^31 and more wrongly; a width
  such as `%04x` (`pci.c:58`) is copied literally.

## 6. Not modelled

- Page tables: `map_page` takes an absent directory entry as a table at address 0 ("for
  simplicity, we assume it exists", `memory.c:95`). Its one caller in the kernel has no
  caller; a property would restate the assignments.
- `sys_read` waiting for a key with interrupts off: there is no gate through which a
  process could get there. `timer_wait`: nothing calls it.
- The instructions of `context_switch.s`, which is not built.
- `vfs.c`, disabled by the preprocessor; `keyboard_intl.c`, which nothing calls.
- Port I/O of the NE2000, PCI and serial drivers, boot code, colours, the test programs.
