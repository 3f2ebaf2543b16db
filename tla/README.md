# Orbit OS: specifications and proofs

TLA+ models of the Orbit OS kernel, the TLC configurations that check them, and
proofs checked by TLAPS. File names and line numbers refer to the repository.

## 1. The system

Orbit OS is a small kernel for one 32-bit x86 processor. `kernel_main`
(`kernel/kernel.c`) initialises everything with interrupts off, creates one
background thread, enables interrupts and becomes the shell. From then on the
only concurrency is that of interrupts: the timer, which switches between the
two threads, and the keyboard, which feeds the shell.

| Component | State | Operations | Hard parts | What makes it correct |
|---|---|---|---|---|
| Keyboard (`drivers/keyboard.c`) | ring buffer, two indices, shift flag | `keyboard_callback` (IRQ 1), `keyboard_haskey`, `keyboard_getchar` | the handler interrupts the reader between any two accesses; `hlt` after the test | a bounded FIFO; no lost wake-up; shift follows the keys |
| Processes (`process/`) | PCBs in a circular list, `current_process`, stacks, TSS | `process_initialize`, `process_create_thread`, `process_schedule`, `switch_task`, `enter_user_mode`, `thread_exit` | a switch happens inside a handler, on two stacks | a suspended thread resumes with its whole context; the processor goes round |
| Interrupts (`kernel/interrupts.s`, `kernel/isr.c`, `drivers/pic.c`) | handler table, in-service bits of the 8259A pair | the stubs, `isr_handler`, `irq_handler`, `pic_send_eoi` | end of interrupt before the handler; slave lines; spurious requests; nesting | no line stays blocked; no nesting; balanced frames |
| Timer (`drivers/pit.c`) | `tick` (uint32_t) | `pit_callback` | wrap of the counter, merged ticks | the scheduler is called once a slice |
| Physical memory (`memory/pmm.c`) | bitmap, two counters | `pmm_initialize`, `pmm_alloc_block`, `pmm_free_block`, statistics | unaligned maps, modules, the bitmap's own place, rounding | a block has one owner and is usable RAM; counters agree with the bitmap |
| Virtual memory (`memory/vmm.c`) | page directory and tables | `vmm_map_page`, `vmm_initialize` | tables come from the PMM and must be mapped themselves; out of memory | what is mapped stays mapped as asked |
| Terminal (`drivers/terminal.c`) | row, column, colour, screen | `terminal_putchar`, scroll, clear | two writers: the shell, and system calls that interrupt it | the cursor stays on the screen |
| System calls (`kernel/syscall.c`) | none | `int 0x80`, `sys_write` | runs in ring 0 over an interrupted shell | returns to its caller |
| Shell (`shell/shell.c`) | `cmd_buffer`, `cmd_length` | line editor, commands | backspace against the screen, the full buffer | the line shown is the line executed |
| VFS and initrd (`fs/`), `mkfs.py` | node table, mount, image | mount, `readdir`, `finddir`, `read` | bounds, shared entry, bad images, truncated names | `read` returns the file's bytes |
| RTC (`drivers/rtc.c`) | none (CMOS registers) | `rtc_get_time` | the clock updates between two reads; 12-hour format | one point in time |
| PCI, E1000 (`drivers/pci.c`, `drivers/e1000.c`) | found flag, register base, MAC | scan, BAR, mapping | skipped functions; found before mapped | both scans find the same devices |
| Boot (`boot/boot.s`, `kernel/kernel.c`) | none | the order of initialisation | failures of each part | what is used was initialised |
| GDT, IDT (`kernel/gdt.c`, `kernel/idt.c`) | descriptor tables | written once | none | none beyond the gates' types |
| Dashboard, tests (`dashboard/`, `*.py`, `test.sh`) | build tree, log file, test runs | build, test | requests that run at once on the same files | a recorded run is the run of one build |

Who touches whom: the timer's handler calls `process_schedule`, which calls
`tss_set_stack` and `switch_task`; the stub under it belongs to the thread that
was interrupted, and the stub it returns to belongs to the next one. The shell
calls `keyboard_getchar`, whose `hlt` is ended by any interrupt. `process`, `vmm`
and through it `e1000` take blocks from `pmm`. Shell, system calls and drivers
share the terminal.

At this commit `drivers/terminal.c` does not compile, because `terminal.h` and
`vga.h` both define `enum vga_color`. The models are of the code as written.

## 2. Modules

A definition has the name it has in the code where there is one. A parenthesised
comment "(Without ...)" in front of a definition marks a *faulty variant*: the
operator after it, with one plausible mistake. No specification uses it; it is
there to show that a property fails when the code has that mistake.

### `Keyboard` over `KeyQueue` (abstract)

The handler runs with interrupts off, so an interrupt is one action
(`KeyInterrupt`, by key: `ShiftDown`, `ShiftUp`, `KeyDown`, `KeyUp`; and
`TimerInterrupt`, which only ends a `hlt`). The reader's accesses are one action
each: `CallGetchar`, `Poll` (line 93), `Halt` (94), `LoadChar` (97),
`AdvanceTail` (98-99). `pc` says which comes next. `held` is the environment's
state, the shift keys that are down; a break code of a shift key comes only
after its make code. The prefix 0xE0 of an extended key is to the code the break code
of a key that is no shift key, and so is a `KeyUp`; the faked shift codes some
keyboards put around an extended key are not modelled.

`KeyQueue` has what is typed, the state of shift, a queue and the last character
delivered. Its `Press` takes a key, and queues the character the key gives with
the present state of shift unless the queue is full. `typed`, a history variable
of `Keyboard`, turns over a bit of the key at every press, so a press is always
visible: the driver cannot drop a key, or queue another character, and pass
that off as a stutter. The refinement mapping takes the slots from `buffer_tail`
to `buffer_head` as the queue.

### `Multitask` over `RoundRobin` (abstract)

A thread's stack is two slots, each holding what one piece of code pushes: the
interrupt frame (hardware frame, error code, `pusha`, `ds`), the frame of
`switch_task`, the frame `process_create_thread` builds, or the user function's
frame (which lies on the kernel stack). `cpu` has the place in the code (`loc`),
privilege level, interrupt flag, data segment, whose values the general
registers hold (`regs`), and the stack pointer (`on`, `sp`). Page directories
are left out: all PCBs hold the same CR3.

| Action | Code |
|---|---|
| `RaiseIrq`, `Deliver`, `DeliverSpurious` | the 8259A pair and the processor (external), with the pushes of the stub |
| `irq_handler` | `isr.c:137-139`, the end of interrupt |
| `pit_callback`, `OtherIrqHandler` | `isr.c:141-144` and the handler it calls |
| `isr_handler` | `isr.c:128-135`, system calls and exceptions |
| `process_schedule` | `process.c:89-101` with `tss_set_stack` and `switch_task` |
| `ReturnFromInterrupt` | the pops, `sti`, `iret` |
| `process_initialize`, `process_create_thread`, `EnableInterrupts` | the end of `kernel_main` |
| `EnterThread` | the `ret` into the entry point, and `enter_user_mode` |
| `Halt`, `UserStep`, `UserTrap` | the shell's or `thread_exit`'s `hlt`; ring 3 |

`RoundRobin` gives every thread a context only it can change and hands the
processor round. The mapping computes the context of a thread that is suspended
from the frames on its stack, and of the one in a handler from the frame the
stub will pop. A handler or a switch that loses or mixes up any part of a
context is therefore a step `RoundRobin` does not have.

The boot thread's `kernel_stack` (`esp + 4096`, beyond the boot stack) is `NULL`:
no interrupt may ever use it, and `TypeOK` would fail if one did.

### `Pmm` over `BlockPool` (abstract)

`pmm_initialize` is one action (nothing runs beside it); its loops are sets of
addresses, of which start and length keep the lower 32 bits (`Visited`,
`LenLow`). A length in the last block below 2^32 is one the loop's counter never
reaches: then the kernel stays there (`LoopEnds`, `Endless`). `BootInfo` is the set of boot informations: total memory, modules,
memory map. The bitmap has an address, so `BitsIn(b)` are the bits whose byte
lies in block `b`, and `Write(b)`, the holder of a block writing to it, sets
those bits to anything. The bits `memset` does not reach keep any value.
`pmm_free_block` has no caller at this commit; it is modelled as its interface
allows it, with a block that is held or was already given back.

`Usable` is independent of the algorithm: whole blocks of an available region
that touch neither kernel, modules nor any byte of the bitmap. The code protects
the modules by the end of the last one in the list. `ImplementsBlockPool` is
checked with lists whose last module ends last; what happens to others is
`NothingTakenIsGivenOut` in `TakenBlocks.cfg`.

### `Terminal` over `Screen` (reference)

Every store of `terminal_putchar` is a step, for each of two writers: the shell,
and `isr_handler` (a system call or an exception) of another thread, which may
stop the shell anywhere and runs to its end (`EnterIsr` .. `ReturnFromIsr`). The
compiler, with the flags of the `Makefile`, loads row and column once for each
character but stores them in the order of the code, also the row that is one
behind the last line; `reg` and the steps `Load`, `Put`, `SetColumn`, `SetRow`,
`terminal_scroll`, `SetLastRow`, `Erase` and the four cursor commands follow that.
`expected` is what `Screen`, a terminal that takes one whole character after the
other, shows of the text written so far. `intruded` remembers that the second writer came in the middle of one of the
shell's characters, until the shell clears the screen. At this commit the user
function makes no system call, so what the second writer does is what
`docs/syscalls.md` offers. Colours are left out.

### `Shell` over `Screen`

The line editor, the command buffer as a C string, and the dispatch of commands.
A key is one step: nothing the shell touches is shared (`Terminal` covers the
second writer). The terminal is `Screen`, which `Terminal` implements as long as
nobody prints in the middle of a character. Commands are told apart by their line: those that clear, those that
print something another part of the kernel says (`Report`), echo, all others.
`line` and `submitted` are what the user edited and sent.

### `Boot` over `Vmm` over `Pmm`, with `Pci`

`Vmm` extends `Pmm`: the page directory and its tables are the contents
(`tables`) of blocks that `pmm_alloc_block` gave. `Translation` is the
processor's walk through them. The code reaches every block at its physical
address, so once paging is on `Reached` decides between success and a page
fault. `asked` records what `vmm_map_page` was last asked for each page, and
`trouble` what went wrong: a mapping silently not made (`vmm.c:25`), after which
the boot goes on with the page missing, an access
through a null pointer, which nobody notices, and a page fault.

| Operation | Code |
|---|---|
| `vmm_map_page` (`InOldTable`, `InNewTable`) | `vmm.c:18-32` |
| `AllocateDirectory`, `vmm_enable_paging` | `vmm.c:34-49` |
| `pci_enumerate`, `pci_find_device` | `pci.c:37-73, 96-122`, as functions of what is in the slots: the functions each of the scans reads (`Listed`, `Searched`), and what its loops meet of a set of places, in their order (`InOrder`, `First`) |

`Boot` is `kernel_main`. `Order` is the sequence of its calls, with the parts of
`vmm_initialize`, `e1000_initialize` and `process_create_thread` that can fail on
their own; `at` is the next one, and `i` the page of a loop. One action is one
call, or one turn of a loop that maps pages. Interrupts are off, so nothing
interleaves. An exception in this phase returns to the instruction that raised
it, so with a page fault the boot stays where it is (`Stopped`). After `sti` only
`lspci` remains; what interrupts do is `Multitask`.

### `Initrd`

From the directory `mkfs.py` is given to the screen. `file_headers` and `Memory`
are the image, placed at the address the boot loader chose; `initrd_initialize`
builds the nodes; `fs_readdir`, `fs_finddir` and `initrd_read` are the operations
behind `fs.c`; `List` and `Hello` are `kernel_main`, `ls` (`Entry`,
`EndOfDirectory`) and `cat` (`Chunk`, `EndOfFile`) the shell. Names and texts are
sequences of bytes, because cutting a name, reading in chunks and the NUL that
ends what is printed are what the properties are about; `Byte` is the set of
bytes, with one for each message printed in the place of a text. `text` is what a command
has printed. A module that is no image leaves an empty file system mounted. A
`hello.txt` that is longer than `kernel_main`'s buffer overruns the stack: the
kernel may go on, or do anything, of which nothing more is said (`Overrun`).

### `Rtc`

`rtc_get_time` with one action for each access to the clock
(`get_update_in_progress_flag`, `get_rtc_register`, `Return`, which reads register
B) and for the comparison of two passes (`Compare`). The clock is external: an
update sets the flag (`UpdateBegins`) and steps one register after the other
(`Step`), so that a pass can fall into the middle of a carry. `start` is the clock
when the last pass began. Registers count through chosen values, shown in the
format register B announces.

## 3. Runs

| Run | Expect | Instance | States | Shows |
|---|---|---|---|---|
| `Keyboard.cfg` | pass | 4 slots, 2 shift keys, 3 keys | 368,904 | six properties below |
| `Multitask.cfg` | pass | 3 threads, slice 3, counter mod 8, lines 0, 1, 14 | 2,936 | eight properties below |
| `UserMemory.cfg` | violation | 2 threads | | the first interrupt overwrites user variables |
| `KernelThread.cfg` | violation | 2 threads, one returns | | it is never preempted, and its `hlt` stops the machine |
| `Pmm.cfg` | pass | 32 blocks of 4 bytes, seven maps | 7,571 | three properties below |
| `TakenBlocks.cfg` | violation | one map, two modules | | a block that is given out holds bytes of a module and of the bitmap |
| `Terminal.cfg` | pass | two writers, 2 lines of 2 cells | 528,230 | three properties below |
| `Shell.cfg` | pass | buffer of 4, 3 lines of 3 cells | 28,035 | three properties below |
| `Boot.cfg` | pass | 10 memories, 50 machines and a wrong magic number | 16,046 | five properties below |
| `Initrd.cfg` | pass | directories of up to 3 entries out of 6, with and without image | 8,456 | four properties below |
| `Rtc.cfg` | pass | six clocks of 4 registers | 254,824 | three properties below |
| `RtcHours.cfg` | violation | one 12-hour clock | | noon is returned as midnight, or midnight as noon |

Properties of the passing runs, beside one `TypeOK` per module (which counts):

- `LoadedCharIsOldest`: interrupts between the read and the release of a slot
  leave that slot alone. `OnlyTypedCharsWait`: the reader never gets an unfilled
  slot. `ShiftDoesNotStick`. `ImplementsKeyQueue`: every press queues the character
  of its key unless the buffer is full, and characters come out once each, in
  order. `WaitingCharIsTaken`: no character waits for ever, in spite of the window between test and `hlt`.
- `RunQueueIsRing`, `OneThreadOnProcessor`, `RingThreeCanBeInterrupted`,
  `NoLineBlocked`, `ImplementsRoundRobin`, `EveryThreadRuns`. `SlicesAreEven`: no
  thread runs longer than a slice, and a slice is shorter only when the tick
  counter wraps in it.
- `ImplementsBlockPool`; `CounterFollowsBitmap`: operations never change the
  counter's distance from the bitmap, also when a block is freed twice.
- `ScreenShowsText`: screen and cursor are those of `Screen`, with a second writer
  between characters, and again after `clear` if it came within one.
  `CursorComesBack`: with two writers the row is off the screen during a scroll
  only. `BufferIsLine`: the buffer is the edited line, and the string executed is
  the line sent, whatever longer line was in the buffer before. `LineIsShown`:
  prompt, buffer and blank cells are what the screen shows up to and behind the
  cursor, over line ends and scrolls.

- `TranslationIsAsked`: the page tables say of every page what was last asked for
  it, frame and rights; once memory has run out a page may be missing, but it is
  never translated in another way. `InterruptsAreServed`: when
  interrupts come on, every vector has its gate and the served ones their
  handler. `ScansAgree`: the two scans of the bus, of which one skips functions only
  where function 0 answers and the other one everywhere, see what is there. `BootSucceeds`: the shell is reached with
  nothing lost whenever `Enough` blocks are free below the end of the identity
  map; `Enough` counts what the boot takes, and with one block less the boot of
  the instance fails.
- `FilesAreListed`, `FilesAreShown`: `ls` and `cat` show the names and the bytes of
  the directory the image was made from, as far as names were kept whole and
  unique. `ReadStaysInFile`: for every offset and size whose end is a `uint32_t`
  `read` returns that part of the file.
- `DateIsOnePointInTime`: two equal passes mean one moment of the clock, even with
  updates between any two accesses. `Answers`: the loop ends when three passes
  fit between two updates.

Bounds. Four slots reach empty, full and wrapped buffers in every position of
the reader. Three threads tell first, last and middle of the run queue apart;
`SLICE` 3 and `TICKS` 8 make the counter wrap inside a slice, as 50 and 2^32 do;
lines 0, 1 and 14 are the timer, a line of lower priority on the master, and a
line of the slave. The counter `since` is a history variable, bounded because
the scheduler resets it. Four bytes per block and four bits per bitmap byte let
regions, modules and the bitmap begin and end inside a block and the number of
blocks be a multiple of the bits of a byte or not. A screen of two lines scrolls
with every second line end, and every column of two is the first or the last;
`BYTE` is less than the number of cells, as 256 is less than 2000.
`ROW_BOUND` cuts off the second writer two lines behind the screen; a further
line is like the second. In `Shell` prompt and longest line are longer than a
screen line, and fit the screen (`ShellAssumption`), as 7 + 255 characters do.

`Pmm` has memory above 4 GiB of less than 2^32 bytes, of more, and of a length the
loop never reaches.

`Boot` has 64 blocks of 4 bytes and tables of 8 entries; the identity map of 20
pages ends inside its third table. The three register pages lie right behind it
in the same table, so that pages of different rights share it, or across two
other tables. Its ten memories succeed, just succeed, run out of blocks at
different points (also so that pages are lost and the kernel goes on to enable
interrupts), have a module behind the kernel or behind the identity map, and
one has a map that is never got through. Its buses are all pairs of five kinds of
slots: empty, single-function (the adapter or another device), multi-function
with the adapter as its last function, and one whose function 0 is missing.
`Initrd` has names of 3 bytes, 2 nodes and chunks of 2, so that names are cut and
collide, a third file is not mounted, files are longer than a chunk, and the file
in the place of `hello.txt` fits `kernel_main`'s buffer or does not; W is 24, and
the image fits. `Rtc` has registers that count over both sides of every case
of the conversion and carry into each other; an update may come after two
accesses, fewer than a pass has, or after 15, which is three passes.

Fairness. `Keyboard`: the timer interrupt recurs (the PIT is programmed once as
a rate generator, `pit.c:29-39`) and the reader gets the processor
(`EveryThreadRuns` of `Multitask`). Nobody has to type. `Multitask`: the
processor executes, which includes taking requests the controllers put through,
and the timer line is raised again and again. Weak fairness of the disjunction
is enough: in every state at most one of handler, thread step and real request
can go on, except where a thread competes with a spurious interrupt, which is
not fair. No device but the timer has to do anything. `Boot`: the processor goes
on; nothing else moves while interrupts are off. `Rtc`: an update ends, and the
shell that has called goes on; no clock has to update. The safety properties,
and the abstract specifications, need no fairness.

`CHECK_DEADLOCK FALSE` stands only in `KernelThread.cfg`, whose point is that the
machine stops.

## 4. Proofs

All proofs are for every value of the constants that satisfies the `ASSUME` of
the module, which TLC evaluates on the instances. Recursive functions
(what a text makes of a screen, how an image is put together) are proved about by
induction over numbers.

`KeyboardProofs`. `TypeOK` is not enough for the reader: between `Poll` and
`AdvanceTail` it relies on what it has seen. `IInv` adds that the buffer is
non-empty from `load` to `advance` and that `c` is still the character at the
tail (`ReaderInv`), and that every slot between tail and head is filled
(`SlotsFilled`). The handler can preserve this because it only writes at the
head, and refuses when the next head would be the tail. From `IInv` follow
`TypeCorrect`, `LoadedCharCorrect` and `WaitingCharsCorrect`. `QueueImplemented`
shows by `SequenceTheorems` that pushing appends to, and advancing takes the
head of, the sequence the mapping builds; that the handler finds the next head at
the tail exactly when the sequence has all the characters it may have
(`FullIsCapacity`), so that a press that leaves the buffer alone is one the
abstract queue drops too; every other step is a stutter.
`ShiftCorrect` is inductive by itself.

`MultitaskProofs`. The properties are about contexts scattered over frames, so
`IInv` says where each one is: in `cpu` when a thread runs (`CpuInv`), in slot 1
of the running thread's stack during a handler (`HoldsContext`), and for every
other thread below the saved stack pointer of its PCB (`Suspended`, either the
frame made at creation or an interrupt frame under a switch frame). `TssInv`,
`BootInv` and `PicInv` tie the TSS, the boot phase and the in-service bits to it.
There is one lemma per action. From `IInv` follow `TypeCorrect` (so at most two
frames are ever on a stack), `RunQueueCorrect`, `LinesCorrect`,
`ProcessorCorrect` and `RingThreeCorrect`. `SlicesCorrect` has an invariant of its
own on top, `SliceInv`: the ticks since the last call of the scheduler are `tick`
modulo the slice. It survives a wrap of `tick`, which need not be a multiple of
the slice, because the wrap itself calls the scheduler; and it needs
`ScheduledLoc`, that a switch never lands in front of the scheduler again, which
is a fact about the frames `IInv` describes.

The last part proves `Spec => ImplementsRoundRobin` (`RoundRobinImplemented`) from
the same `IInv`. The context of a thread as the mapping computes it has only two values: the one
it is created with (`Birth`) while the thread is `Fresh`, and the one it runs in
(`Started`) from its first instruction on (`ContextsKnown`). So a step is
abstractly visible only if it creates a thread, lets a fresh one execute, or
moves `current_process`; three lemmas show these to be `RoundRobin`'s `Create`,
`Run` and `Preempt`, and all other steps stutter.

`TerminalProofs`. The row may be off the screen, and copies of it are in the
writers' registers, so `IInv` says of every copy that may still be stored that
it is on the screen or was loaded while the shell scrolls (`CopyInv`), and that
somebody scrolls when the row is off (`RowInv`). From it follow `TypeCorrect`,
for which lemmas show that `Screen` stays inside its cells, and `CursorCorrect`.
`TextCorrect` needs to know how far a writer has come with its character:
`TextInv` says, for every place in `terminal_putchar`, `terminal_scroll` and
`terminal_clear`, that what is still to be done makes the expected screen, row and
column of the present ones (in the middle of a scroll, the lines above the
counter are already those of the scrolled screen). It claims this only until a
second writer comes in within a character. That the two cursor registers hold the
number of the cell needs `VGA_WIDTH * VGA_HEIGHT <= BYTE * BYTE`, which 2000 and
65536 satisfy.

`ShellProofs`. `BufferIsLine` needs that no NUL is among the first `cmd_length`
bytes, so that the one `Enter` stores is the first (`CStringOfLine`). `line`
takes no character beyond `CMD_BUFFER_SIZE - 1`, so `BufferCorrect` also says
that a full buffer is not written past. `LineShown` and `TypeCorrect` follow what
texts make of the screen. A text is written by a recursive function over its
characters; what it shows is found by induction over its length, and
`NatIsInductive` gets this induction from the well-foundedness of `<` with a set in
the place of the predicate. `ScreenInv` says that the cells before the cursor end
in prompt and buffer (`Displays`) and those behind it are blank: a character
and a backspace change the last of them, across the end of a screen line too; a
scroll takes away cells before the prompt only, because prompt and buffer fit the
screen; and every text a command prints ends its line (`EndsLine`), so that the
next prompt begins a new one. The assumptions that the texts end so, and that
newline and backspace differ, are those of `shell.c:24-193`.

`PmmProofs`. `TypeOK` is inductive by itself; it needs that the decrements of
`pmm_initialize` are finitely many. `CounterCorrect` and `OneHolder` hold under
`[]BitmapIsProtected`, and only so: in the trace of `TakenBlocks.cfg` a holder
may change the bitmap by writing to its block. `HeldInv` adds that only blocks below
`pmm_max_blocks` are held, so the bit that changes is one the counter counts.

`NothingTaken` and `BlockPoolImplemented` replace that premise by one about the
boot information alone, `Regular`: the last module ends last, an available region
is below the memory given out, or beyond the last block searched, or starts with
a whole block and reaches that far, and the bitmap's area does not end at the
start of a block with bits behind it. All maps of `Pmm.cfg` are regular but the
three with memory above 4 GiB, which only the run covers; the map of
`TakenBlocks.cfg` is not. The lemmas on `Cleared` work out which bits the
passes of `pmm_initialize` leave clear; with them `PoolInv` says that blocks on
offer and blocks held are usable and distinct, and each operation is one of
`BlockPool`'s or a stutter.

`BootProofs`. `InterruptsServed` rests on `ServedInv`: which handlers are
registered follows from `at`. `TranslationCorrect` rests on `BootInv`. Every
table lies in a block whose bit is set, so no later call gets that block
(`TablesInv`); no two entries of the directory name the same table, and none names
the directory (`DirectoryInv`); so a step writes one entry of one table, and what
was asked for other pages is still there (`AskedInv`). Rights need the order of
the boot: a directory entry has those of the first page mapped through it, and
the pages of the identity map, which ask for the most, come first (`Rights`).
A page whose table could not be allocated has no translation, and still none when
another page's call allocates that table, which begins empty; the lemmas on
`vmm_map_page` show that the translation of every other page stays what it was.
`ScansCorrect` is about every bus: what answers at a place a scan skips is nothing
or the same device once more, for each scan's own reason to skip it
(`ScansReadReal`); `BusInv` ties what the boot has found to that, and that the
adapter found is the first one is the least number among those met (`FirstIsOne`,
by well-foundedness). `BootTypeCorrect` puts the types of the processor, of the
memory (through the lemmas of `PmmProofs`, which cover the calls into it) and of
the scan's result together (`TypeInv`); that the list of devices is a sequence of
places needs induction over the loops of `pci_enumerate` (`InOrderType`).

`InitrdProofs`. Image, files and what is printed are put together by
concatenation, so the proofs rest on inductions (again with a set for the
predicate): `FlattenAppend` (one more text comes behind the others),
`FilesAreEntries` (what `mkfs.py` keeps of a directory are entries of it) and
`DataInside` (the data of file k lie in the data of all files where its header
says). With `NodePlace`, that offsets do not wrap because the image fits, `ReadPart`
follows: a read gives the part of the file that was asked for, and no byte
behind its end. The invariants: `TreeInv`, the nodes are those of the first files,
once a module is mounted; `ScalarInv`, what `cat` has read and what is left are the
whole file; `ListInv`, what is listed so far is the listing up to the index;
`ShownInv`, what is shown so far is the file up to the offset, if it has no NUL.
The last is what makes the chunks add up: a chunk begins where the one before
ended (`ConcatAdjacentSubSeq`). That `cat` opens the right file is
`FindableFacts`: the name of a file that was not cut, and that no other name was cut
to, is found at that file's node only.`TypeCorrect` says of
`cat`'s buffer that it keeps a byte for the NUL; nothing is assumed or proved of
`kernel_main`'s, which the run overruns with a file that is too long. Assumed is that the
image fits in memory where it was loaded (`InitrdAssumption`).

`RtcProofs`. `PassInv`: every register read is some number of its register as the
clock shows it, not necessarily one of the same moment. That is enough for
`TypeCorrect`, which bounds the fields of the date also for passes torn by an
update. `ConversionCorrect` is about the operators: registers that show one moment
convert to the date it means. `DateCorrect` is the property itself, under the
hypothesis `SecondsOutlastTwoPasses`: the seconds do not come round while two
passes are made. The hypothesis is needed (a clock that updates at every access
can show the same torn numbers twice) and holds by a wide margin: the seconds of
the real clock take a minute, two passes microseconds. The argument: the position
of the seconds counts the clock's steps, so `Paced` bounds how far it moves in
a number of accesses, and it determines what is shown there (`SecondsDiffer`). Two
passes with the same seconds therefore began at the same position (`PassesAgree`).
If it is not position 1, no carry was on its way at the beginning of the first
pass, and, as the seconds did not move in between, it shows one moment
(`WaitInv`). If it is position 1, the carry may still be moving in the first pass,
but it is over before the second begins, or the flag would have delayed it, and
no other comes before the seconds have gone round; so the second pass shows one
moment (`ReadInv`).

Model-checked only: the liveness properties `WaitingCharIsTaken`,
`EveryThreadRuns`, `BootSucceeds` and `Answers`. Liveness under fairness is outside
what the prover handles. Every safety property of the passing runs is proved;
`CounterFollowsBitmap`, `ImplementsBlockPool` and `DateIsOnePointInTime` under the
hypotheses named above, and without them only for the instances of the runs.

## 5. What disagrees with the documentation

Shown by a run:

1. Ring 3 runs on the kernel stack that interrupts use (`user.s:27`,
   `docs/process.md:16`). With the present `user_mode_function` the damage is to
   its loop variable.
2. A thread that stays in ring 0 is not preempted (`process.c:63`,
   `docs/process.md:3`): it is entered by `ret` inside the timer's handler and
   nothing sets IF. One that returns stops the machine in the `hlt` of
   `thread_exit` (`process.c:46` against the comment at `process.c:60`).
3. The bitmap's last byte can lie in a block that is given out (`pmm.c:47`
   against the comment at `pmm.c:50`). In the trace of `TakenBlocks.cfg` it is block
   10, which also shows the next point.
4. A module is protected only if the last one of the list does not end lower: the
   bitmap is put at the end of that one (`pmm.c:36` against the comment at
   `pmm.c:32`, `docs/filesystem.md:17`). Boot loaders usually list modules in
   the order of their addresses, but nothing promises it.
5. `hello.txt` is read whole into a buffer of 256 bytes, whatever its length
   (`kernel.c:110`, `docs/filesystem.md:8, 26`): `Initrd.cfg` reaches `Overrun`.
6. Twelve o'clock in 12-hour mode is converted like the hours after it
   (`rtc.c:71`, `docs/drivers.md:11`).

Read off the code:

7. One flag for two shift keys: shift is lost when one of two is released
   (`keyboard.c:53`, `docs/keyboard.md:11`).
8. The slice in which `tick` wraps is shorter, 46 ticks (`pit.c:12`,
   `docs/process.md:22`); `SlicesAreEven` allows this.
9. Free memory includes blocks that can never be allocated (`pmm.c:24`,
   `docs/memory.md:6`).
10. Text a system call writes while the shell scrolls goes below the screen
   (`terminal.c:88`, `docs/syscalls.md:17`); `CursorComesBack` says it is only then.
11. A line has at most 255 characters, not 256 (`shell.c:212`, `docs/shell.md:8`);
   `BufferIsLine` is stated for 255.
12. The identity map has 16 MiB, not 8 (`vmm.c:43`, `docs/memory.md:14`).

## 6. What is left

Worth adding:

1. `System`: `Keyboard` and `Multitask` composed, to replace the fairness
   `Keyboard` assumes of its reader.
2. `BlockPoolImplemented` for maps with memory above 4 GiB, which are not
   `Regular`: there the loop comes to blocks below 4 GiB a second time.

Not modelled:

- Descriptor encodings (`gdt.c`, `idt.c`), the address encoding of `pci.c`, the
  divisor of `pit.c` and the set-up of COM1: written once, without behaviour.
- `io.h`; `itoa`, which only formats what is printed; colours.
- The values system calls return in EAX. `fs_open`, `fs_close` and `fs_write`
  call pointers that are never set, and have no caller.
- The status bits `pci_enable_bus_mastering` writes back with the command
  register, and registers of the adapter that overlap with the identity map.
- Shift codes a keyboard may fake around extended keys.
- The dashboard, the build files and the test scripts: tools around the kernel.
