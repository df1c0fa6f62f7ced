# Verification of the 1s1x repository

TLA+ models, TLC configurations and TLAPS proofs for the programs of this
repository: the NEMU instruction-set simulator, the AbstractMachine (AM)
run-time it executes guests with, the NPC hardware exercises and the C
exercises that accompany them. File names below are relative to the
repository's root.

## 1. Inventory

### NEMU (`nemu/`)

| part | state it keeps | operations | talks to |
|---|---|---|---|
| run control (`src/cpu/cpu-exec.c`, `src/monitor/sdb/sdb.c`, `src/engine/interpreter/hostcall.c`, `src/utils/state.c`) | `nemu_state`, the instruction budget, batch mode | `c`, `q`, other commands; `cpu_exec`, `execute`, `exec_once`; `set_nemu_state`, `invalid_inst`; the exit status | DiffTest after each instruction, the device loop after that |
| DiffTest (`src/cpu/difftest/dut.c`) | `is_skip_ref`, `skip_dut_nr_inst`, the reference simulator behind `dlopen` | `difftest_step`, `difftest_skip_ref`, `difftest_skip_dut` | writes `nemu_state`; is told by device accesses and traps to skip |
| device loop (`src/device/device.c`) | time of the last poll, SDL's event queue | `device_update`, `sdl_clear_event_queue` | sets `NEMU_QUIT`, calls `send_key` |
| keyboard (`src/device/keyboard.c`) | `key_queue`, `key_f`, `key_r`, the data port | `send_key`, `key_enqueue`, `key_dequeue` | reads `nemu_state`; an overflow aborts the process |
| physical address map (`src/memory/paddr.c`, `src/device/io/mmio.c`, `map.c`) | `maps`, `nr_map`, `p_space` | `new_space`, `add_mmio_map`, `paddr_read`, `paddr_write` | calls the devices' handlers and `difftest_skip_ref` |
| SD card (`src/device/sdcard.c`) | the position in the image, the direction, the EXT_CSD transfer in progress, the argument and data registers | `sdcard_handle_cmd`, reads and writes of SDDATA | the image file; the Linux driver |
| the card's Linux driver (`resource/sdcard/nemu.c`) | the request, command and data in progress, `use_sbc`, `data_complete`, a mutex | `nemu_request`, `nemu_send_command`, PIO, `nemu_finish_*` | the card's registers; the MMC core |
| port I/O, timer, serial, VGA, audio, disk, alarm | registers | one handler per device | the address map |
| ISA interpreters, MMU | registers, CSRs | `isa_exec_once`; five instructions per ISA, MMU and interrupt stubs | the address map, run control |
| debugger expressions, watchpoints | a free list | stubs | run control |
| QEMU as reference (`tools/qemu-diff`) | a GDB connection to QEMU, the command in progress | `difftest_memcpy`, `difftest_regcpy`, `difftest_exec`; `gdb_send`, `gdb_recv` | DiffTest; the GDB stub of QEMU |
| other references (`kvm-diff`, `spike-diff`) | a kernel interface; a third-party simulator | the five `difftest_*` entry points | DiffTest |

What is hard: which of DiffTest's four branches an instruction meets when
skipped instructions and packed instructions mix; window events that arrive
between any two instructions and are noticed later; the order in which verdicts
(trap, mismatch, closed window) overwrite each other; a key queue at its limit;
modular arithmetic in the address map; a card whose data port changes its meaning
in the middle of a transfer; packets that are corrupted and sent again.

What makes it correct: the reference stays in step with NEMU; DiffTest neither
lets a wrong instruction pass nor raises an alarm over a right one; a verdict is
final and reaches the exit status; a closed window ends the run; keys are read
once and in order; every address has one owner and every device its own
registers; a block read from the card is what was last written to it; a call to
the reference is carried out once.

### AbstractMachine (`abstract-machine/`)

| part | state it keeps | operations | talks to |
|---|---|---|---|
| `native` address spaces (`am/src/native/vme.c`) | per address space a list of `PageMap` nodes and a hash table, shared by all CPUs; per CPU `vm_head` and the host's mappings | `protect`, `map`, `__am_switch`, `ucontext` | `platform.c` (mmap, munmap), `cte.c` |
| `native` contexts (`cte.c`) | `thiscpu->ev`, `ksp`, contexts on kernel stacks, signal masks | `sig_handler`, `setup_stack`, `irq_handle`, `iret`, `kcontext`, `yield` | signals of the host, address spaces, the kernel's handler |
| `native` processors (`mpe.c`) | pipe, CPU number | `mpe_init`, `atomic_xchg` | fork |
| `native` input, audio (`ioe/`) | key queue under a mutex; bytes in a pipe | event thread, `__am_input_keybrd`; audio callback, play | SDL threads |
| `x86-qemu` (`am/src/x86/qemu`) | page tables, IDT, `ap_ready` | `map`, `__am_irq_handle`, `mpe_init` | hardware |
| `spike` (`am/src/riscv/spike`) | `tohost`, `fromhost`, a spin lock | `htif_syscall`, console | the host |
| NEMU, NPC, LoongArch, MIPS AMs, klib | none: stubs in this commit | | |

What is hard: each `native` CPU is a forked process, so nodes and flags are
shared while mappings are not; signals arrive anywhere; contexts move between
CPUs. What makes it correct: a context always runs in its own address space and
on its own kernel stack, switches end, no event is attributed to the wrong
context, user code is preempted, every CPU starts.

### The rest

`npc/playground` holds a Chisel GCD unit with a decoupled interface;
`c_practice/` a ring buffer (`p44`), linked lists with three sorts (`p32_33`,
`p42`), two address databases in a file (`p17.c`, `p17_2.c`), toy CPU simulators (`prepro`) and small
exercises; `misc_items/` Verilog counters, a PS/2 keyboard and a small CPU.
Build tools (`tools/kconfig`, `fixdep`, scripts) and vendored code (`bstrlib`,
`libgcc`, capstone headers) are not part of the system's logic.

PROJECT.json lists every part under `components`, modelled or not with the
reason, and under `hazards` what in this code is hard to test, line by line.

## 2. Modules

| module | models | built on |
|---|---|---|
| `NemuState` | `nemu_state` and the exit status | |
| `DiffTest` | `dut.c` | `NemuState` |
| `KeyFifo` | abstract: the bounded FIFO the keyboard promises, and which window events enter it | |
| `KeyQueue` | `keyboard.c` | `NemuState` |
| `NemuRun` | the emulator: commands, execution loop, traps, DiffTest, device loop, keyboard, user and clock; its window events and keyboard implement `KeyFifo` | `DiffTest`, `KeyQueue` |
| `MCNemuRun` | values of `Budgets` for TLC | `NemuRun` |
| `NemuRunProofs` | proofs about `NemuRun` | `NemuRun` |
| `IoMap` | the physical address map | |
| `NativeVme`, `NativeVmeProofs` | address spaces of the `native` AM, and proofs about them | |
| `NativeCte`, `NativeCteProofs` | signals, kernel stacks, context switches and start of the processors of the `native` AM, and proofs about them | |
| `BlockStore` | abstract: blocks of words that are written and read | |
| `SdCard` | `sdcard.c` | |
| `SdHost` | the Linux driver and the MMC core that calls it; implements `BlockStore`, which is also proved | `SdCard` |
| `DeviceProofs` | proofs about the address map and about the SD card with its driver | `IoMap`, `SdHost` |
| `RefMachine` | abstract: a machine that carries out each call of DiffTest once | |
| `GdbRemote`, `GdbRemoteProofs` | `protocol.c`, `gdb-host.c`, `diff-test.c` and the GDB stub; implements `RefMachine`, which is also proved | |
| `ByteFifo`, `RingBuffer`, `RingBufferProofs` | abstract bounded byte FIFO; the ring buffer that implements it, and the proof that it does | |
| `ValueLists` | abstract: sequences of values, calls on them, and what each has done when it returns | |
| `LinkedList`, `MCLinkedList`, `LinkedListProofs` | `p32_list.c` on a heap of nodes, assignment by assignment; implements `ValueLists`, which is also proved | |
| `AddressBook` | abstract: numbered rows, and what a command cut short may do | |
| `RecordFile`, `MCRecordFile`, `RecordFileProofs` | `p17.c` and `p17_2.c`, cell by cell; implements `AddressBook`, which is also proved | |

Definitions carry the names of the functions they model where there is one. A
definition whose comment begins with "Mutant:" is a plausible bug in the
definition after it. It is not part of any specification; replacing the
definition by it must make the property named in PROJECT.json fail.

### NemuRun and its parts

The emulator is one thread. `loc` says where it stands: at the prompt, at the
head of `execute`'s loop, before `trace_and_difftest`, before and inside
`device_update`, after `execute`. A step is the code between two such places,
because only there a window event (`WindowEvent`) or the passing of 1/TIMER_HZ
(`Tick`) can make a difference. Instructions are classified by what they do to
the rest of the system: an ordinary one, right or wrong (`ExecPlain`); the first
of a pack that the reference executes in one step (`ExecPacked`); a device
access (`ExecMmio`, `ExecReadKey`); a trap (`ExecTrap`); an invalid opcode
(`invalid_inst`); an access outside memory (`ExecOutOfBound`). Every device
access and trap calls `difftest_skip_ref`, as `find_mapid_by_addr` and
`set_nemu_state` do.

DiffTest's registers are abstracted to `lead`, how many instructions the
reference is ahead, and `agree`, whether the other registers are equal; that is
all a comparison can tell. `HookWritten` chooses between a written
`isa_difftest_checkregs` and the stub of this commit, which always answers
"different" (then every compared instruction aborts the run).
A wrong instruction inside a pack is not compared: the code says so itself
(`dut.c:41-44`), and `wrong` records only instructions outside packs.

`alive` turns FALSE when an `Assert` or `panic` aborts the process. The history
variables `verdict`, `wrong` and `overrun` are read by properties only.

`KeysInOrder` follows a key from the window to the guest. `KeyFifo` has the window's
events as a variable: a key that is taken from them while the state is `NEMU_RUNNING`
must enter the queue or, if that is full, stop the emulator, and one that is taken in
any other state must not enter it. To drop the first or to queue the second would be a
step `KeyFifo` does not have.

### IoMap

Devices are registered one at a time (`init_device` takes a device's
`new_space` and `add_mmio_map` together), then the guest accesses physical
addresses. An access is the range of bytes it touches; register contents and
callbacks are left out. Addresses are modulo `W`, so that a region whose end
wraps around is modelled. The assumption that the pool is not larger than main
memory is the code's configuration: 32 MB of pool, 128 MB of memory by default.

### NativeVme

A `PageMap` node is named by its page; `next`, `frame`, `is_mapped` are its
fields, `hash` the pages the hash table knows. `host[cpu]` is what the CPU's
process has mapped. `__am_switch` is a step per list element, so that CPUs
interleave inside it. Two constants say how a kernel uses the interface: `Remaps`
allows `map` for a page that has a node already, `SharedSpaces` allows two CPUs
in one address space. `vme.c` handles the first on purpose and the second is
nowhere excluded. `made` remembers which CPU called `protect`: the hash table of
`hcreate_r` is on that process's private heap, so `map` on another CPU reads
memory that is not the table. The model takes it as a condition on the kernel
that pages are mapped on the CPU that made the address space.

### RingBuffer

`call` records the last call, its amount and its answer, so that the refinement
also says which calls may fail. `CopiedIn` and `CopiedOut` are the `memcpy`
calls with their two halves. The initial contents are arbitrary, as `malloc`
leaves them.

### NativeCte

`exec[cpu]` is what a CPU's process executes: whose code, where (user code, the
kernel with the AM in it, a shared library under them), with which signal mask, and
where in `irq_handle`. A trap is one step of `sig_handler` with `setup_stack`; the
context it saves goes on `stack[t]`, the contexts on task t's kernel stack,
outermost first. `Below` is the arithmetic of the stack pointer: a trap from user
space starts at the top of the stack `thiscpu->ksp` points to, so whatever was there
is overwritten; one from the kernel goes below what is there. `irq_handle`,
`user_handler`, `am_switch` and `iret` are the way back: another CPU may act between
any two of them. `vm_head`, `ksp` and `ev` are the fields of `thiscpu`.

A kernel is any that keeps to what the interface asks of it, and the comment at the
head of the module says what that is: it may return from a trap to any task no other
CPU holds. A CPU holds the task it left until its next trap, because it is still on
that task's stack until the magic call has been handled. `MaxNest` bounds how many
traps of one task are nested.

### SdCard and SdHost

A word of the card's image is one of a few values. The card keeps `pos`, where the
next `fread` or `fwrite` happens, `write_cmd`, and `read_ext_csd` with `addr`, the
words read since the command. A file position outside the image is allowed: a read
at the end of the file leaves SDDATA as it was, a write extends the image.

A step of the driver is a register it writes, a word it moves, or a function of
`nemu_finish_*`; `pc` names the function that runs. The MMC core (`Submit`) is
external: it first identifies the card, then asks for blocks, and may ask again as
soon as `mmc_request_done` has run, while the first call of `nemu_request` still holds
the mutex. Its scatter lists may be too short by any number of words in `ShortBy`, for
the EXT_CSD too (`ScatterLists`), and its block sizes wrong. The segments of a scatter
list are whole words: `nemu_transfer_block_pio` skips any other with an error
(`nemu.c:126-129`), after which the words that follow land where those of the skipped
segment belong. That path is not modelled.

The refinement to `BlockStore` forgets commands and registers: words are put and got
in order, and a request ends when all of its words have been moved or with an error.

### RefMachine and GdbRemote

`toStub` and `toClient` are the two directions of the connection, sequences of
acknowledgements and packets. The line may spoil a packet that is under way
(`LineSpoils`, at most `MaxNoise` times) or break (`QemuExits`); it does not lose
bytes, TCP does not. The stub is QEMU's as the client sees it: it acknowledges,
carries out what it receives with a correct checksum, and keeps its last answer to
send it again. `todo` is what is left of a call: `gdb_memcpy_to_qemu` cuts a copy
into pieces of `Mtu` bytes (`MaxCopy` bounds the length of a copy), `difftest_regcpy` reads the registers before it writes
them, `difftest_exec` sends one step after another.

A copy may be empty, in which case one piece of no bytes is sent, and may run out of
QEMU's memory (`Dests` are the addresses copies are made to). QEMU then answers an
error and may have done a part of the piece (`StubWrites`). `ok` is the `ok` of
`gdb_memcpy_to_qemu`, and when it is false at the end `difftest_memcpy`'s assertion
ends the process (`AssertFails`, `diff-test.c:34`). An empty copy may be answered
either way. In `RefMachine` a copy that does not fit never returns.

### LinkedList

The nodes are a function whose domain is the allocated ones, so that a use of a
freed node is an error of the evaluation. A call is a step of the caller (`Calls`),
which puts the function and its arguments into `asked`; the return takes them out. A
function without a loop is one step in between; of the others (`List_destroy` and the three sorts) every round of a loop is a step, and
a property holds between any two rounds. `call` is the running function with its
arguments and variables: a stack of frames in the case of `__List_sort`, which calls
itself (`SortLeft`, `SortRight`, `SortReturns`).

The merge sorts pass `ListNode **`: a pointer to a local variable, to `list->first`
or `last`, or to the `next` field of a node, which the merge itself changes. Such a
pointer is a cell, `<<"local", d>>`, `<<"first", x>>`, `<<"last", x>>` or
`<<"next", n>>`; `Read` and `Write` keep the aliasing, and `local` holds the
variables whose address is taken. `order` (the nodes of each list as the calls have
arranged them) and `was` (the values of a list when the running call began) are
history variables.

In `ValueLists` the running call is the variable `op`, which is `asked`. A sort that
returned with the values as it found them, a `List_push` that added nothing and a
`List_pop` that took the first value would all be returns it does not allow; a pop or
shift of an empty list returns and changes nothing.

`List_connect` needs a non-empty second list unless the first one is empty
(`Connectable`): with an empty one `list_b->first` is dereferenced although it is NULL,
and the assertion of the function does not ask for it. The model takes it as a
condition on the caller. Lengths and steps are natural numbers;
the `int` of the code would overflow only with more than 2^30 nodes.

### RecordFile

`program` says which of the two programs is used, for ever. A process loads, checks,
changes its `buffer`, opens the file for writing and writes it cell by cell; `Crash`
may end it anywhere, also standing for a failed `fwrite`. An int is one cell, a char
is one cell, so a crash may fall inside a name. `before` is the file the process
found. Seen from `AddressBook` the book changes when the process ends.

The two programs promise different things. `p17_2.c` truncates the file, so a crash
may lose the book but what loads is right. `p17.c` writes in place and never loses
another record, but the record being set may come out with a text nobody entered:
after a delete that was cut short the old name is still in the file, and a set cut
short behind it makes the row valid again. Its `c` command truncates the file before
it looks at its other argument (`Refuse`).

`delete_address` of `p17_2.c` checks no row number. Row -1 lies in front of row 0; when
fields have two characters its `valid` is `max_row`, and the delete leaves a book
without rows, and when they have none it is `max_data`, which is zero already
(`Deletes`, `ValidAt`). Sizes of zero are modelled too: without rows nothing can be
set, and with fields of no characters `strncpy` is given the length -1 and the process
dies before it opens the file. Left out is what writes outside the buffer (row numbers
past the rows, or further below zero; negative sizes), and row -1 with fields of one
character, where the write covers halves of two header fields.

## 3. Runs

| run | question | bounds, and why they suffice | result |
|---|---|---|---|
| `nemu_run` | do DiffTest, run control, device loop and keyboard keep their promises together, and does closing the window end the run of a guest that runs for ever? | packs of 2 and 3 instructions announced exactly or loosely (a pack of 3 has a middle); 3 window events (enough to fill a queue of length 3, and to follow a close by others); 2 keys, 2 exit codes; the budget unlimited, or 2 | passes, 342,260 states |
| `native_vme` | is each CPU's view its address space, do lists stay lists, do switches end? | 2 CPUs, 2 spaces, 3 pages (a list with a middle), 1 frame | passes, 235,249 states |
| `native_vme_remap` | the same with remapping | 1 CPU, 2 spaces, 2 pages | `SwitchCompletes` is violated |
| `native_vme_shared` | does a switch unmap what it says when two CPUs share a space? | 2 CPUs, 2 spaces, 1 page | `MunmapsAll` is violated |
| `io_map` | has every address one owner, every device its own registers? | 16 addresses, 8 of them memory; regions of 1 to 6 bytes at 10 addresses, so that they touch, overlap, end at, enclose an end of, or wrap around; a table of 2; 4 pages of 2 bytes | passes |
| `io_map_misaligned` | does an access stay in its device? | the smallest pages and accesses of 2 bytes | `InDevice` is violated |
| `ring_buffer` | is the ring buffer a FIFO? | length 3, amounts 0 to 4 (one more than fits), two byte values | passes |
| `sd_host` | do reads through driver and card see what was written, and is every request answered? | blocks of 3 words (a word of the EXT_CSD that is neither its first nor its last), 3 blocks of which the image holds 2 (so that its end is crossed), requests of 2 blocks (a single block takes a command the card does not know), 2 values; scatter lists that are full or 2 words short, so that they end inside a block and leave more than one word unread | passes, 268,008 states |
| `gdb_remote` | is each call to the reference carried out exactly once, or does the process end? | 3 addresses, copies of 0 to 3 bytes in pieces of 2 to the first and the last address (copies that are empty, fit, fill a piece, cross it, and run out of memory inside a piece or lie outside it with a whole one), runs of up to 2 instructions, 2 spoiled packets (a command and its answer, or one of them twice) | passes, 642,793 states |
| `native_cte` | do tasks keep their stack, address space and event on the way through traps, and is user code preempted? | 2 CPUs, 1 user task that moves between them besides the `main` of each, 2 nested traps | passes, 516,014 states |
| `list` | does every call do to the sequences what it is called for, do the sorts return with the values in order, and are the links whole between their rounds? | 5 nodes in 2 lists, 3 values: for the sort from bottom to top this is three rounds, with a run that is short or left over, for the recursive one halves of different length three deep; nodes and lists are interchangeable (symmetry). The walk of `p_mid` to a run other than the first takes its loop only with 7 nodes: that is left to the proof | passes, 128,235 states |
| `record_file` | what can a crash leave, and does a process that returns 0 do its command? | `p17.c`: 2 rows and 2 cells a text; `p17_2.c`: databases of 2 rows with 2 cells a text and of 1 row with 3, so that neither file is a prefix of the other, one without rows and one with fields of no cells; texts of 1 and 2 letters, of which the longer does not fit a field of 2 | passes, 80,626 states |

`CHECK_DEADLOCK FALSE` is set where the program may stop: the emulator exits or
aborts, no page or space is left to map, the table is full, QEMU or its client has
exited. In the runs of `sd_host`, `native_cte` and `list` a deadlock would be an
error, and TLC looks for one.

A second user task in `native_cte`, or a kernel task, gives more than four million
states; the theorems of `NativeCteProofs` hold for any number of either.

Fairness. `QuitServed` assumes weak fairness of the emulator's steps (the host
schedules its thread) and of the clock (`gettimeofday` advances); nothing is
assumed about the user or the guest. `SwitchCompletes` assumes that a CPU inside
`__am_switch` keeps running, which its host process does. `RequestAnswered` assumes
that the driver's thread runs, and nothing about the core. `CallEnds` assumes that the
client and QEMU run; the line spoils a bounded number of packets, and without the
bound no call need ever end. `Preempted` assumes that the virtual timer, which ticks
while the process runs, reaches a CPU that stays unmasked; `AllCpusEnter` that the
forked processes run.

What the violations show is in PROJECT.json under `findings`, with the lines of
the code: a page mapped twice makes the list cyclic; `is_mapped` is shared
although mappings are not; the bound check of a device access looks only at its
first byte.

## 4. Proofs

TLC looks at the instances above. The following holds for every value of the
constants, under the named assumptions of the modules.

`NemuRunProofs`. The safety properties are not inductive: `LockStep` says
nothing between an instruction and its comparison. `AtCheck` fills that gap: an
excused instruction is about to be copied, any other is one ahead of a reference
in step, or inside a pack that still has instructions left. `StateAt` says which
`nemu_state` is possible at each place of the loop, and `LastInst` that an
instruction started after the window was closed is the last. Together with
`TypeOK` they are the inductive invariant `IInv` (`Invariance`). From it follow
`LockStep`, `VerdictKept`, `WrongNeverPasses`, `QuitIsPrompt`, and with one more
look at a step the action properties `NoFalseAlarm` and `EndedForGood`.
`KeysInOrder` is a refinement: `EnqueueIsPut` and `DequeueIsGet` show that the
array and its indices follow `KeyFifo`, for every length of the array, `ProcessStops`
covers the overflow and `PollIsDelivery` that a key taken from the window's events
while the guest runs is put into the queue, and no other.

`DeviceProofs`, the address map. `OneDevice` and `OwnSpace` are almost inductive; `Taken` (a
device's registers lie below `p_space`) and `Paged` (`p_space` is at a page
boundary before the last page) are added. `PageBelow` and `AlignUp` are the
arithmetic behind `new_space`; `WordWraps` says that a region's end either is
what it should be or comes out below its start. `NoneBehindPmem` is worth the
proof: `add_mmio_map` compares only the two ends of a region with main memory,
and that is enough because a region's registers come from a pool that is not
larger than main memory. `InPool` holds because `new_space` asserts `<` and not
`<=`, which keeps the last page free.

`AlignedInDevice` rests on `MultiplesApart`: of two multiples of the access's length
the larger is larger by at least that length, so that an aligned access cannot begin
inside a device whose end is aligned and reach beyond it.

`RingBufferProofs`. `RingTypeOK` is inductive as it stands. For the refinement
`HeldAsCells` describes the sequence the two indices denote cell by cell, and
`CopiedOutIsPrefix`, `CopiedInAppends` and `ReadDropsPrefix` compare it with what the
two halves of a `memcpy` move, with a case for each side of the wrap-around.

`NativeVmeProofs`. The lists are described from their end: `Order(a)[1]` is the last
node and `Order(a)[nr_page[a]]` the head, so that `map`, which puts its node in front,
only extends the description (`Listed`). `VmeInv` adds where each CPU is. One outside
`__am_switch` has exactly its list mapped, with the frames of its space; one inside
has handled exactly the nodes before its place (`IdleInv`, `UnmapInv`, `MapInv`), and
at the end of the first loop nothing is mapped. `IsolationHolds` assumes what
`Isolation` needs and the code does not ensure: no page is mapped twice and no space
is used by two CPUs (`~Remaps`, `~SharedSpaces`); the two violated runs show what
happens otherwise. `ListHoldsTableHolds` needs only the first, and finitely many pages. That the list visits
every page is a statement about a recursive function; in place of an induction, which
the provers cannot do, the proof looks at the least number where it would fail
(`LeastNumber`).

`NativeCteProofs`. That a context is saved on its task's own stack needs `ksp` to be
that task's, which needs the contexts of tasks that are not running to hold the right
values, which needs the CPUs to hold different tasks. `CteInv` says all of it:
`ExecsInv` (kernel code runs on its task's stack, user code below no trap, `irq_handle`
with interrupts disabled, and `hand` counts the contexts on the stack), `HeldInv` (no
two CPUs hold the same task, and each holds what it executes and what it has chosen),
`StacksInv` (the i-th context on a stack is its task's, below i - 1 traps, and
`irq_handle` has completed all but the last with the task's space and stack),
`ParkedInv` (a task no CPU executes has a context, and its pointer is the innermost)
and `SpacesInv`. `EventIsCurrent` is part of it. Any number of processors, tasks and nested traps is covered.

`DeviceProofs`, the SD card. Card and driver each count the words of a transfer: the card by the
position in the image, or by the address in EXT_CSD, the driver by what is left of
its scatter list. `SdInv` says for each function of the driver which of `mrq`, `cmd`
and `data` are set (`HostInv`), what the core still waits for (`CoreInv`), and where
the card is relative to the request (`ProgressInv`, from `NoneMoved` through
`SomeMoved` to `AllMoved`); `NoWarning` is part of it. `RequestFacts` is the
arithmetic of requests: whatever `Requests` contains has whole blocks inside the card.
The refinement has one lemma for each step of `BlockStore` (`WriteIsPut`,
`ReadIsGet`, `AnswerIsFinishOrFail`, `RefuseIsFail`); every other step of driver and
card leaves `StoreMem`, `StoreMoved`, `StoreGot` and `StoreIdent` alone.

`GdbRemoteProofs`. Packets carry no number, so a packet sent again is recognised only
by what both ends have done since. A command passes through six phases, from
`ReadyToSend` over `CommandSent`, `CommandRefused`, `CommandTaken` and
`CommandAnswered` to `ReplyRefused`; each says what is on the line and whether QEMU
has obeyed (`Obeyed(0)`, `Obeyed(1)`). `IsRest` says that `todo` is the end of the
call's commands, `ReadIsFresh` that the registers a `to_ref` copy changes are still
those of QEMU, and `OkIsTrue` that `ok` means
that every piece answered so far lies in memory. From `GdbInv` follow `InSync` and the refinement. The assumptions are
that memory is an interval of addresses and that a value exists.

`RecordFileProofs`. A process knows when it starts what it will write: `Meant` says
that the buffer is a whole database, that read as a book it is what the command makes
of the book in the file found, and that outside the command's row it has the cells of
that file. `BookInv` adds what the file looks like half way: `Mixed`, the cells written
so far followed by the old ones (`p17` in place), or `Cut`, the cells written so far
alone. `CutShortAnew` is why a file cut short never loads: its header, if it is there
at all, says how many cells it should have, and `p17` knows it without a header.
`CutShortInPlace` is why only one record can be torn: the cells outside the row are
equal before and after. Most of the proof is about the layout: rows of the same length
do not overlap (`RowsApart`, `PlacesApart`), `Put` changes the cells it is given and no
other, and the text of a field depends only on its cells before the first NUL
(`TextIs`, `TextSame`), which has to be inside the field for it to be read at all.
`RecordTypeCorrect` and `BookImplements` follow, and `ExitDoesIt` adds what the
refinement leaves open, that a process that is not cut short does its command
(`ExitDoes`). `WithoutRowsFacts` is the delete of row -1. The assumptions are that `p17` has at least one row and cell in a field, and
that texts contain no NUL.

`LinkedListProofs`. `ListTypeOK` says nothing about where a sort is, so it is far from
inductive. `IInv` is `Base` (the heap and the lists no function works on are whole:
`OrderOK`, `Linked`, `EndsOf`, and no two lists share a node) with one disjunct for
each function that takes several steps:

- `DestroyOK`: the nodes freed are just those before the predecessor of `cur`.
- `BubbleOK`: the last `curi` values are in place, and among the first `curj` of a pass
  none is larger than the one at `j`.
- `SortOK`: the frames on the stack stand for nested segments of the list, given by
  three witnesses `lo`, `hi` and `k` (where `p_mid` is). `left` and `right` of a frame
  are cells that hold the ends of its segment; the cell of a second half is the `next`
  link of the node before it. An outer frame waits for its first half or, that one in
  order, for its second (`Frames`, `Nested`).
- `BottomUpOK`: `l`, `p_mid` and `r` are at the places that `step`, `i` and the loop
  counters say, the runs already merged are ordered in lengths of `2 * step` and the
  others in lengths of `step` (`Runs`).

`MergeAt`, which both sorts use, is the invariant of `__List_merge`: the segment is a
part before `l` whose values are in their final places, the rest of the first half, and
from `m` the rest of the second, both in order (`InMerge`). `Moving` is the core:
taking `m` out and putting it in front of `l` with the assignments of the code, which go through `left` and `right`
while these alias the links being changed, is `Rotated` on the sequence of nodes, and
`left` and `right` hold the ends of the rotated segment. `TopChanges`, `FramePushed` and
`FramePopped` say how the stack follows a step of the innermost frame, a call and a
return: a merge changes cells that outer frames hold too, and what these frames say
stays true because they share the end of the segment, not a fixed node.

From `Invariance` follow `ListTypeCorrect` and `ListsAreSequences`: while a call runs its
list shows the values it had at the beginning and `asked` stays, so every round is a
stutter, and the return, which clears `asked`, is the `Return` of `ValueLists`, where
`Effect` says what the function has to have done. `SameValues` is kept through every round with an
explicit permutation, and a sorted list at the return comes from the segment (or the
run) that has become the whole list. `NULL` is not a node and values are integers; the
number of lists, nodes and values is arbitrary, also infinite. What is not proved is
that the sorts end.

Refinements. Six abstract specifications say what a component promises, and the
detailed one is shown to implement it: `KeyQueue` in `NemuRun` implements `KeyFifo`,
`RingBuffer` `ByteFifo`, `SdHost` `BlockStore`, `GdbRemote` `RefMachine`, `RecordFile`
`AddressBook` and `LinkedList` `ValueLists`. All six are checked and proved.

Model-checked only:

- the liveness properties `QuitServed`, `SwitchCompletes`, `RequestAnswered`,
  `CallEnds`, `Preempted` and `AllCpusEnter`: fairness and ENABLED are out of the
  prover's reach;
- the properties that the three runs expecting a violation refute.

## 5. Not modelled

- The port I/O table (`port-io.c`) is the table of `mmio.c` without its overlap
  check, and is compiled for x86 guests only. Serial is pure output; the handlers of
  audio, VGA and disk, the ISA interpreters, the MMU, the debugger's expressions and
  watchpoints, the NEMU and NPC AMs and klib are stubs in this commit: there is no
  behaviour yet to model. The latch of the RTC has no driver that reads it.
- `alarm.c` runs its handlers in a signal handler, and the only one calls an empty
  stub.
- `kvm-diff` and `spike-diff` hand every call to the kernel or to a third-party
  simulator.
- The native AM's input and audio threads, `x86-qemu` (page tables, start of the
  application processors) and Spike's HTIF mailbox have the hazards of their kind;
  they are the next to model.
- `npc/playground` and `misc_items` are hardware descriptions; the GCD unit comes
  from a template.
- Much of the repository is vendored or generated: Linux's kconfig (ten thousand
  lines), `bstrlib`, `libgcc`, decoder tables. It is not this project's program.

## 6. Plan

Done in this order, most important behaviour first: run control with DiffTest, the
device loop and the keyboard, and the proofs about them; native address spaces; the
address map and its proofs; the ring buffer; the SD card with its driver; the
reference behind a GDB connection; native contexts, signals and processors; the
lists; the record files.

Then the proofs about the ring buffer, address spaces, contexts, the SD card, the
GDB connection, the record files and the lists: every safety property of a passing run
is a theorem.

Next:

1. Models: `NativeIo` (key queue and byte count between threads), `Htif` (the mailbox
   under its spin lock), the start of x86 processors, the RTC's latch.
