# Verification of ex86

ex86 is an emulator of an 8086/80186/80386 PC: a host program in C
(`src/src/`) that interprets one guest instruction after another, emulates the
devices of the board, and runs a BIOS written for it (`src/bios/`) inside the
guest. This directory holds TLA+ models of the parts of it where order,
failure and staleness matter, the TLC configurations that check them on small
instances, and TLAPS proofs of the properties that matter most.

## The system

| Part | Source | State it keeps | Operations | What makes it correct |
|---|---|---|---|---|
| 386 main loop | `mainloop32.c`, `ExInst86.c:35-212` | `fault`, `current_*` snapshot, `nExecInsts` | one instruction per turn, then trap or device interrupt; `SETJMP`/`LONGJMP` back to the head on a fault | every fault is delivered once, from the state before the instruction; no interrupt is lost; no handler on a torn stack |
| 8086/186 main loop | `mainloop16.c` | the same without faults | timer interrupts only, double Ctrl+C opens a monitor | ticks are served when count, mask and IF allow it, and only then |
| Address translation | `mem.c` | TLB (`tlb[SETS][NASOC]`), page tables in guest memory | lookup, walk, refresh, flush on CR3 | never shows a mapping the guest has flushed; A and D bits recorded; exact fault codes |
| Instruction fetch | `mem.c`, `mainloop32.c:34-253`, `decode.c` | fetch cache, prefixes | fetches of a byte, word and doubleword, across pages | an instruction means what its bytes say, whatever faults on the way |
| Segmentation | `descriptor.c`, `decode.c` | descriptor caches, LDTR, TR, TSSs | loads of data, stack and code segments, gates, task switch | a cache belongs to its register; each task gets back what it left |
| Instructions | `ExInst86.c`, `ExInst186.c`, `ExInst386.c`, `ALUop.c`, `decode.c` | registers and flags | about 200 opcodes | results and flags; restart after a fault |
| Interrupt controllers | `dev_PIC.c` | ICW/OCW sequences | port writes and reads | initialisation sequence, mask |
| Timer | `dev_timer.c`, `env_unix.c` | three counters, latch state, `timerflag` | port writes and reads, SIGALRM | 16-bit values survive byte-wise access |
| Serial port | `dev_UART.c` | one-byte receive buffer | port access, polling of the host | no byte lost or duplicated |
| Floppy controller | `dev_FDC.c`, `dev_DMAC.c` | command and result FIFO, `irq`, DMA channel | commands through ports | command and result phases stay in step with the guest |
| Clock | `dev_CMOS.c` | index | port access | |
| Emulator interface | `src/emu_interface.c`, `bios/src/emu_interface.c` | parameters of a host call | guest-to-host calls through a port | |
| Host | `env_unix.c`, `terminal.c`, `logfile.c`, `misc.c` | `intflag`, `timerflag` | signals, files, terminal | |
| BIOS keyboard | `bios/src/int16h.c` | ring buffer in the BIOS data area | INT 9 side inserts, INT 16h removes | FIFO, nothing lost while there is room |
| BIOS time | `bios/src/timer.c`, `int1ah.c` | tick count and its offset | INT 8, INT 1Ah | the count follows the clock |
| BIOS disk | `bios/src/int13h.c` | the call in progress | INT 13h | transfers inside the disk, whole or reported |
| BIOS video | `bios/src/int10h.c`, `mem.c:399-455` | pages, cursors, displayed page; the terminal | INT 10h, stores into the display | the pages are what the guest wrote, the terminal shows the displayed one |
| BIOS serial, system | `int14h.c`, `int15h.c`, `bios.c`, `basicio.c` | | service calls | |

How they interact. The main loop calls an instruction's function; the function
reaches memory through `getPhysFromLinear` and ports through `io.c`, which
calls the device. A fault anywhere below sets a bit of `reg.fault` and
long-jumps to the head of the loop. Devices do not call back: the loop asks
each one after every instruction whether it wants an interrupt. The host's
signals set two flags (`intflag`, `timerflag`) at any moment. The BIOS is guest
code: it reaches the devices through ports and the host through the emulator
interface's port.

What is hard. Signals interleave with everything. A fault can end an
instruction, or the entry of an interrupt handler, half way, and everything
done by then stays except ESP. The TLB is a cache of tables the guest edits.
Device dialogues are byte-wise sequences that a guest may interrupt. The list
of hazards, each at its line, is in `PROJECT.json`.

## Modules

| Module | Models | Checked or proved by |
|---|---|---|
| `PageTables` | page directories and tables in guest memory, rights, A and D bits, fault codes, CR3 and CR0.PG | |
| `Paging` | abstract MMU: a walk, or an entry not yet flushed | refined by `TLB` |
| `TLB` | `getPhysFromLinear` with its set-associative cache, `flushTLB`, loads of CR3 and CR0 | `TLB.cfg`, `TLBProofs` |
| `Fetch` | `fetchCodeData...`, the fetch cache, `prefixCheck`, `decode_mod_rm` and the constants, the restart of a fetch; beside it the meaning of an instruction's bytes | `Fetch.cfg` |
| `ContextStacks` | abstract kernel: each task is a stack of interrupted contexts | refined by `Protected` |
| `Segments` | `loadSegmentDescriptor` and `updateSegReg`: registers with their descriptor caches | through `Protected` |
| `Protected` | interrupts, IRET, task switches by JMP, CALL and IRET, LTR, LLDT, CLTS, and a guest kernel around them | `Protected.cfg`, `ProtectedLink.cfg`, `ProtectedProofs` |
| `IntDelivery` | `mainloop32.c`, `enterINT32` with its failures, the signal handlers, the requests of the devices | `IntFaults.cfg`, `Machine.cfg`, `MachineProofs` |
| `PIC`, `Timer` | the dialogues of `dev_PIC.c` and `dev_timer.c` | through `Loop16` |
| `Loop16` | `mainloop16.c` over the two devices, with a guest that programs them, and the monitor | `Machine.cfg`, `MachineProofs` |
| `Machine` | `main`'s choice between the two loops | `Machine.cfg` |
| `Restart` | instructions as sequences of accesses, with page faults between them | `Restart.cfg`, `RestartFaulty.cfg`, `RestartProofs` |
| `ALU` | `ALUop.c`: sums, differences, logic and shifts with their flags, at any width | through `Routines` |
| `Instructions` | the handlers of arithmetic instructions, one action each | through `Routines` |
| `Routines` | idioms of guest programs, run by these handlers, and what they should compute | `Routines.cfg`, `RoutinesSigned.cfg`, `RoutinesProofs` |
| `KeyQueue` | abstract bounded queue of keys with ESC pairs | refined by `Keyboard` |
| `KeyBuffer`, `Keyboard` | the ring of `int16h.c`, the escape sequences, INT 16h, the poll of the port | `Bios.cfg`, `KeyboardProofs` |
| `Clock` | the counters of `timer.c` and INT 1Ah | `Bios.cfg`, `BiosProofs` |
| `Display` | abstract text display: pages of cells with a cursor each | refined by `Video` |
| `Console` | the display's memory and what `mem.c` prints of each store | through `Video` |
| `Video` | INT 10h: `int10h.c` with the buffers of the pages | `Bios.cfg`, `BiosProofs` |
| `Bios` | keyboard and clock in one timer interrupt; video beside them | `Bios.cfg`, `BiosProofs` |
| `CHS` | cylinder, head and sector; the step to the next sector | |
| `SectorDisk` | abstract disk: places that keep what was stored last | refined by `Disk` |
| `Images` | image files, the sector commands of the emulator interface | |
| `Int13` | INT 13h, AH = 02h, 03h, 42h, one sector at a time | |
| `Floppy` | registers and commands of `dev_FDC.c`, channel 2 of `dev_DMAC.c` | |
| `FloppyDriver` | external: a guest's floppy driver that keeps to the protocol of the 82078 | |
| `Disk` | BIOS calls and driver on the same images | `Disk.cfg`, `DiskProofs` |

The modules with the prefix `MC` give the constants their values. A definition
whose comment begins with "Mutant" is a plausible bug in the definition below
it; replacing one by the other must break a property.

### State and actions beside the code

**TLB.** `pd`, `pt`, `cr3` and `paging` (CR0.PG) are the guest's,
`tlb[set][way]` the array of `mem.c:81-95`, `seen` a history of what each page
mapped to since the last flush, `res` what the last access returned or faulted
with. One access is one action (`AccessHit`, `AccessNoTable`, `AccessWalk`):
the lookup of lines 97-105, the walk of 107-159 with its faults, the update of
A and D, the refresh of 166-190. `GuestPTE` and `GuestPDE` are the guest's
stores to its tables, `MovCR3` the load that flushes, `MovCR0` the switch of
paging, which does not.

**Fetch.** `code` is memory, one byte per linear address; `cache` is
`fetchCache` with `fetchCacheBase`. A fetch is the sequence of its bytes, each
with whether its page was there, so that one operator serves the fetch and its
fault. `Front` is the head of `mainloop32_inner` (219-253): the first word, the
test for three zeros, the prefixes one at a time; `Shape` is what the
instruction's function fetches and makes of it. There is one opcode of each
shape: ADD and MOV with a mod r/m byte, ADD with a byte constant, MOV with a
constant and with an address, a short JMP, STOSB, NOP and IRET. `insn` is the
instruction as decoded (registers of the address, displacement, segment,
constant, REP), never its effect, except for `Store`, by which a program
changes its own code. `Meaning` is the reference: Intel's encoding read from
memory without cache and pages.

**Segments, gates and tasks.** `reg` holds each segment register with its
descriptor cache, `tss[t]` and `link[t]` the TSSs, `busy` the type of their
descriptors, `stack[t]` the words the CPU pushed on a task's kernel stack.
`EnterINT` is `enterINT32` with its cases (`InnerStack` from user mode,
`SaveVmSegments` from virtual 8086 mode), `exIRET` the return with `IretToVM`,
`IretOuter` and `IretSame`; `SwitchByJMP`, `SwitchByCALL` and `SwitchByIRET`
put `unloadTaskRegister`, `loadTaskRegister` and `loadTaskState` in the order of
the code. The guest
is a kernel like Linux 2.0, because the order in which it uses these
instructions decides what can go wrong.

**386 main loop.** `pc` names the places of `mainloop32.c` where control can be:
`top` after `SETJMP`, `head` at the while condition, `exec` before the
instruction, `irq` after it. `Top` dispatches a pending fault (181-204) and may
fault again while it enters the handler; `Exec` is an instruction, chosen by the
guest (`Plain`, `InOut`, `SoftInt`, `Faulting`, ...); `Irq` is the chain of
lines 290-340: trap, timer, FDC, UART. `Sigint` and `Sigalrm` are the signal
handlers of `env_unix.c:36-49` and may come between any two steps. Entering a
handler is `Enter`, and `EntryFaults` its failure at one of five stages: `gate`
(IDT), `code` (after EFLAGS was changed), `tss` (after the CPL was lowered),
`stack` (after SS was loaded) and `push` (after ESP was moved). `Faulting` is an
instruction that faults with part of it done, by its `kind`: any may have moved
ESP; a `load` has stored the selector of SS (`decode.c:490-492`); a `return` has
changed the flags and, on its way out, CPL and SS (`ExInst86.c:2767-2793`);
`far`, a gate or a task switch, may have left anything. What was changed stays
when the handler is entered (`Recovered`), ESP apart. `started` is the CPU as
the instruction found it; `kind` and `failed` (an entry has faulted since) are
history. ADC's carry is not in this CPU, `restart_faulty` is about it.

**8086 main loop.** `at` names the places of `mainloop16.c`, `monitor`
included; the records `pic` and `timer` are the registers of the two devices.
A guest's `dialogue` is the list of port accesses it still has to make, with
interrupts disabled, as drivers do. `unseen` is `intflag - prev_eflag`, `recent`
whether the last SIGINT is less than a second old.

**Restart.** An instruction is the list of its loads, stores and register
changes in the order of the C statements; `Execute` runs it until it ends or a
page is not there, `Handle` puts ESP back and repairs that page, as a guest's
handler does, possibly taking another page away. Of a repeated string
instruction the list is one iteration, which is gone through until CX is 0 or a
comparison ends it. `m.in` and `m.out` are a device's bytes.

**Arithmetic.** `ALUOPAdd`, `ALUOPSub3` and so on are the functions of
`ALUop.c` as operators of value and flags; C's unsigned 32-bit arithmetic is
`% 2^Host` with a small `Host`. Each `ex...` action is a handler of
`ExInst86.c`, `ExInst186.c` or `ExInst386.c`: it reads its operands, calls the
ALU, writes back what the code writes back and advances `ip`. The routines hand
values and flags from instruction to instruction as programs do, which is where
a wrong flag shows. `Word` and `Double` are the widths up to which routines on
two and on four registers run on every operand; where they are as large as
`Host`, the theorems are about every operand of every width.

**BIOS.** `ring` is the ring buffer with its two indices, `wire` what waits at
the serial port, `reading` the loop of INT 16h AH = 00h (interrupts disabled).
`updateKeyInput` is the set of results one call may have, since how much of an
escape sequence is there in time depends on the line. `raw`, `offset`, `tick`
and `rollOver` are the four variables of `timer.c`; `int_timer_default_handler`
counts and polls in one action, as the interrupt handler does. `screen` holds
the displayed page, the pages' cursors and buffers, the display's memory, the
cursors in the BIOS data area and, for the terminal, what was last printed at
each place; each function of INT 10h is an operator on it, in the order in which
the C code stores, because each store prints.

**Disks.** `call` is the INT 13h call in progress with the sector `counter`;
`MoveSector` is one OUT to the emulator interface, `MoveInterrupted` the same
OUT ended by a page fault on the buffer after (part of) the transfer. `fdc` and
`dma` are the fields of `struct periFDC` and of DMA channel 2; `WriteFifo`,
`ReadFifo`, `WriteDor`, `WriteDsr` are the port accesses of `dev_FDC.c`.
`drv` is the driver outside the repository: it sends packets byte by byte and
may reset the controller after any byte.

## What the runs check

| Run | Question | Bounds, and why they are enough |
|---|---|---|
| `tlb` | do accesses end as the tables say, error code included; is the cache coherent and an MMU; are D bits recorded; do faults leave nothing behind | two instances in one run: one page with every mix of page and directory rights, of read and write, user and supervisor, and paging switched off and on at any time (rights do not depend on other pages); and three pages in two ways (one is evicted) under two directories on one table, two forms of a page before a flush |
| `fetch` | is an instruction decoded to what its bytes mean, wherever pages end and whatever faults; is no page blamed without need | two pages that come and go, a third and the handler's that stay; pages of 8 bytes and 64K of 16, so that instructions lie at every offset to either; each of the 256 mod r/m bytes with both address sizes; one byte of the program is rewritten |
| `protected` | is a task, seen from inside, a stack of contexts; do caches belong to registers; do busy marks name the tasks that run or wait | two tasks, one in virtual 8086 mode; six kinds of kernel, which differ in what they do beside interrupts and JMP; one handler inside another |
| `protected_link` | *violation*: does the back link of a called task name its caller | |
| `int_faults` | is every fault delivered once, whatever fails on the way; does only SIGINT end the run; are the requests of timer and FDC kept; is no handler run on a torn stack; what of a torn instruction and of failed entries does a fault's handler see; when is a completed instruction named again | two kinds of fault, all five stages of an entry, all kinds of instruction, rings 0 and 3; timer and FDC without UART, whose interrupts enter handlers as the others do |
| `machine` | that the timer is served whatever the UART asks for; in the 8086 loop, that PIC and timer hold what the guest programmed and ticks come exactly then, and that Ctrl+C twice opens the monitor | the 386's tables resident; bytes of two values; two SIGINTs before the loop looks; the UART polled every second instruction instead of every 201st, and a tx interrupt after every second instead of every 16th |
| `restart` | are page faults invisible to the interrupted instruction | 18 instructions, counts of 0, 2 and 3, four pages with every combination of rights, two faults per instruction: one at each half of a straddling operand |
| `restart_faulty` | *violation*: the same for ADC to memory | |
| `routines` | do the idioms compute what they should | 25 routines; every operand at widths 3 and 5 (sums of four registers: at 3), boundary values at 8 and at 15, the host's width |
| `routines_signed` | *violation*: signed comparison with the least number | |
| `bios` | are keys delivered once and in order, does a read end, does the clock run on from its setting, are the pages of the display what was written to them and does the terminal show them | a ring of three items turns several times; days of seven interrupts, with the rounding of the code; two pages of three rows and two columns (a row above, in and below a window), programs of up to seven calls; the cell is read back (AH = 08h) after pages were selected, erased, drawn and stored to |
| `disk` | do calls and READs move exactly what they say, do BIOS and FDC see one disk, do controller and driver stay in step | three images (one ends inside a track, one read-only, one with another geometry), two sectors per call, one packet byte at a time; BIOS calls before the driver starts (`Mixed` FALSE) keep it at 1.3 million states |

The largest run has 2.8 million distinct states (`int_faults`), the others
between 120 000 and 1.3 million (`disk`). Bounds have names: `MaxSeen` (forms of a page between
flushes), `MaxFaults` (faults of one instruction), `MaxWords` (room on a kernel
stack), `MaxUnseen` and `MaxFrames` (SIGINTs, handlers), `MaxTyped` and
`MaxWritten` (keys), `length` of a video program, `MaxWrites` (sectors written),
`Mixed`.

`CHECK_DEADLOCK FALSE` is set where the modelled program ends: a main loop at
`exit`, a task at a fault that nothing handles, a program that is not code any
more, an instruction or a routine when it is done. The TLB, BIOS and disks are
checked for deadlock.

### Fairness

`FairSpec` of `IntDelivery` and `Spec16` of `Loop16` are weak fairness of the
loop: the host process runs; `MachineSpec` says so of the loop that `main` has
chosen. Nothing is owed by the signals, the devices or the guest; `TimerServed`
and `TickServed16` therefore assume in their own statements that the guest
comes back, again and again, to an instruction end with interrupts enabled and
the timer armed. `BiosSpec` has weak fairness of one iteration of the loop of a
blocking read: the guest executes it. The user owes no key. The other
specifications are safety only.

## What is proved

All theorems hold for every value of the constants that satisfies the
assumptions named in the modules, and rest on nothing else.

* **TLB** (`TLBProofs`): `IInv` is the type invariant with `WayDiscipline`,
  `Coherent` and `SeenNow`, the bookkeeping that what a page maps to now has
  been seen. Coherence alone is not inductive: a refresh overwrites the way it
  finds first, so two live ways of one page would leave a stale one behind.
  From it follow `WaysDisciplined`, `CacheCoherent`, `TLBImplementsPaging` (a
  step simulation: a hit is a use of an entry not yet flushed),
  `TranslationExact`, `WritesRecorded` and `FaultsLeaveNoTrace`, for every number
  of ways, pages, tables and address spaces, and across switches of paging.
* **Tasks** (`ProtectedProofs`): `OneBusyHolds`, for every set of tasks and
  guests. The invariant `MarksInv` adds which tasks wait for one they called
  and which a refused JMP has left marked; without them the marks of a return
  by IRET could not be told from those of a jump.
  `CachesAgreeHolds`: `CachesInv` is the property with TR's and LDTR's caches,
  the TSSs (none asks for virtual 8086 mode) and the start, when only the GDT
  may be used; it rests on lemmas that say of each helper, from `updateSegReg`
  to `exIRET` and the switches, which registers it leaves as they were. LDT
  selectors are assumed to be no TSSs.
  `ImplementsContextStacksHolds` is a step simulation and rests on both, for
  what a switch saves and loads, and on `StackInv`: every EIP on a task's kernel
  stack heads a frame that lies where an interrupt puts it, those of user and
  virtual 8086 mode at the bottom and nowhere else; ESP of the running task and
  those of the TSSs are the ends of their stacks; outside virtual 8086 mode the
  data segments are null, the kernel's or the LDT's. Then the frames on a stack
  are exactly the contexts that wait there (`Shapes`), an interrupt adds one
  (`InterruptImplements`), a return finds it whole and on top
  (`IretImplements`), and a switch moves none (`TaskSwitchImplements`). That
  `Frames` depends only on what lies below a depth is an induction on the depth;
  it is done over the set of depths where the claim fails, which has no least
  member.
* **386 main loop** (`MachineProofs`): the invariant is `TypeOK`, `OneFault` and
  `NonePending` (past the head of the loop no fault with a handler is pending).
  `FaultIsPreciseHolds` and `RestartSafeHolds` hold for every set of stages that
  fault and every guest. They add to the invariant what is known of the CPU while
  a fault is pending (`Snapshot`): how far it is from `started`, by the kind of
  the instruction and whether an entry has failed since; that a completed
  instruction is followed by a pending fault only through such an entry; and
  that an instruction begins with `started` equal to the CPU. A chain of entries
  that fault, each from where the last one stopped, has to keep it.
  `StopsOnlyOnRequestHolds` assumes a guest that does not make ex86 stop; without
  that the code does otherwise. `StackNotTornHolds` needs nothing, the shadow of
  a load of SS covers every request.
* **8086 main loop** (`MachineProofs`): `ProgrammedHolds`. `Inv16` says how far
  the guest's dialogue has come (`Stage`: one form for each dialogue, with the
  accesses that are left and what the registers hold by then) and that it is
  left in peace (`Undisturbed`): as long as accesses are left neither the running
  code nor any frame a handler returns to has interrupts enabled. Without the
  frames the return from a trap handler, which may come between two accesses,
  could let the timer in, whose EOI ends a dialogue. The arithmetic of the halves
  (`Halves`, `SecondHalfWritten`) holds for bytes of every size, of whose bitwise
  or, the constant `ByteOr`, no more is assumed than that 0 adds nothing.
* **Restart** (`RestartProofs`): `DisciplineSuffices` reduces the claim about
  runs to one about the text of an instruction (`Disciplined`): what the steps
  before an access write they do not read before they have written it again, they
  do not both read and write memory, neither speak to a device nor end the
  instruction; ESP, and for INC CF, are put back; and an iteration of a repeated
  one takes one off CX and leaves ESP alone. The invariant `Resumable` says that
  from wherever the instruction stands, run on pages that are all there, it comes
  to the end of the undisturbed run. Its core is `PrefixRepeats`: the second
  execution carries along the first one's trace, each register either agreeing
  with it or still to be written, each cell agreeing or holding what the first
  execution left (`Redone`), and so arrives at the access that faulted in the
  same machine. `Resume` does this for the iteration that was broken off and
  counts that enough iterations are left (`LoopStops`). `SoundTransparent`
  applies it: the eighteen instructions of the run are disciplined, one lemma
  each. The theorem is for them; of the four that are not, the run
  `restart_faulty` shows one.
* **Keyboard** (`KeyboardProofs`): the ring stays in bounds, is never full and
  empty at once for every size of at least three, keeps the promise of a peek,
  and with the port refines `KeyQueue`. `TypingIsKeptHolds`: `TypingInv` is the
  property in a form that is inductive, with the half of a pair that is still
  kept back (`Paired`), and with the fact that what waits at the port was typed.
  `PairedDelivers` is its core: what a read takes off the front of the ring is
  what the pairing of all the ring holds delivers first.
* **Clock** (`BiosProofs`): for days of every length whose ticks fit a day, one
  correction by a day is enough, the tick is the epoch plus the ticks of the
  day's interrupts, and the midnight flag is exact. `BiosKeyboard` carries the
  keyboard's theorems over to the composition.
* **Video** (`BiosProofs`), for screens of every size, any number of pages and
  every window, also those that lie partly or wholly off the screen.
  `TerminalInStepHolds`: the invariant `VideoInv` is the property with the types
  and with the fact that a guest that selects no page sees page 0, which is what
  ties the terminal's cursor, kept for page 0 only, to the cursor shown. The
  work is in what the functions do, said exactly: one store keeps the terminal
  in step (`ConsoleEffect`, by the byte and the half of a cell that is stored),
  a loop over cells or rows has the effect of its turns one after the other
  (`LoopExists`: there is the function of its states; `LoopInduction`: what
  passes from each turn to the next holds after the last), and so for rows
  (`RowFilled`, `RowCopied`), windows (`RowsFilled`, `RowsUpMove`,
  `RowsDownMove`: a row that is read has not been written) and runs around the
  bottom of the screen (`CellsWritten`). Each is stated of page and display
  memory at once: what agreed before agrees after.
  `DisplayImplemented` is a step simulation from those statements, for the page's
  buffer and the display's memory side by side: each call is the same abstract
  function of both, whatever the memory holds, so that AH = 08h needs no
  condition; a guest's store changes at most two adjacent cells of it
  (`StoreMaps`), and AH = FFh copies a run of the page's (`ShowMaps`). The window
  that the code clips is the part of the abstract one that is on the screen,
  more lines than the screen has move all of them (`SheetRaised`, `SheetLowered`),
  and the cells filled are those less than n ahead of the cursor modulo the
  screen (`AheadOf`).
* **Disks** (`DiskProofs`), for every geometry, content of the images, list of
  calls and driver that keeps to the protocol. `DriverInv` says which packet
  bytes are in the FIFO, which results are due and which reset bits are set in
  each phase of the driver. `InStep` is not inductive without it: that the last
  byte of a packet, and no other, executes the command needs the first byte in
  `fifo[0]` and the lengths of the two tables to agree. `InStepHolds` and
  `IrqExactHolds` follow. A chain of lemmas about cylinders, heads and sectors
  (`PositionExact`, `Numbering`, `Ranking`) shows that the numbering of
  `int13h.c` and the position of `dev_FDC.c` are one and the same count, without
  gaps, and monotonic in the order in which a call visits its places. With it
  `DiskInv`, which adds that a call under way has moved what lies in front of
  its place and nothing else, gives `CallExactHolds`; `ReadInv`, which ties the
  buffer to the packet from its first byte to the last result, gives
  `ReadDeliversHolds`; and both give `ImplementsDiskOfSectors`, a step
  simulation: a sector that is moved is a fetch or a store of `SectorDisk`, and
  every other step leaves the disk alone.

* **Arithmetic** (`RoutinesProofs`), for every width from 2 to the host's and all
  operands. One lemma per ALU function says what it computes in integers, value
  and flags (`AddExact`, `AdcExact`, `SubExact`, `SbbExact`): the bit that
  `BitOf` reads is the carry, the comparisons find what wrapped around at the
  host's width, and the overflow bit is that the signed result is out of range.
  `Distribute` carries digits to numbers of double width. For `Comparisons` the
  invariant says that the flags are those of the CMP until the last jump, and
  `ConditionsExact` what each condition then says of the integers. For `Sums` it
  says, before each instruction of a routine, which digits are done and that CF
  is the carry or borrow between them, through INC and DEC; for the decimal
  routines, that AF is the carry between the nibbles (`DAAExact`, `DASExact`,
  `AASDigit`). For `Products`: a product of two signed numbers never comes near
  the ends of the double width, so that its upper bits tell whether it fits
  (`MulExact`, `ImulExact`); C's division truncates (`Truncation`), there is only
  one truncated quotient (`QuotientIs`), and a number of single width has one of
  single width but for the least number by -1 (`QuotientFits`). Hence a product
  divided by one factor is the other, and a fault means that there is no
  quotient. For `Shifts` the provers are led through the turns of `Shifted` one
  by one (`ShiftedIs`, from the existence of the function, `TurnsExist`): each
  turn doubles or halves (`TurnLeft`, `TurnRight`) and n of them scale by 2^n
  (`ShlTurns`, `ShrTurns`, `SarTurns`), or take back, from the last to the first,
  what the turns to the other side did (`RolBack`, `RclBack`). `ScaleLeft` and
  `ScaleRight` put the two halves together; they hold for a double shift and for
  the shift of one bit through CF alike. For `Programs` each routine has a loop
  invariant that says how much of the result the registers hold: in the long
  division, ax holds the bits still to be divided above those of the quotient,
  and the dividend without the former is quotient times divisor plus remainder
  (`Part`, `PartShift`, `PartOne`); in the product by shifting and adding, dx
  plus ax times bx is, up to multiples of 2^w, always the whole product (`Owed`);
  in the repeated sum the upper digit never runs over (`SumOfOneMore`); the
  rotation that seeks the highest one has only met zeros (`Unmet`) until it
  stops (`Met`). Logic works on sets of bits: a number is the sum of its bits
  (`NumberOf`, `BitsOf`), so that AND with a mask, OR and XOR with all ones or
  none are what the branchless routines need (`Masks`). These routines are proved
  at the width of the loops, `Word`, which is any width from 2 to the host's, and
  for a `CountMask` that covers every bit of the host's width, as 31 does 32.
  `PowersOfTwo`, which the module `ALU` assumes, is arithmetic: the provers know
  nothing of `^` but its values at numerals.

Only model-checked: liveness (`SigintStops`, `TimerServed`, `TickServed16`,
`MonitorOpens`, `ReadEnds`), which the prover does not reach, and `Fetch`, whose
prefixes are a recursion.

## What the code does otherwise

Three disagreements are kept as runs that TLC must find violated
(`PROJECT.json`, `findings`): CMP with the least number, ADC to memory that
faults at its store, and the back link of a called task, which is written into
the TSS of the caller. Others met while modelling, which the models follow or
leave out:

* **Fetch.** Three zero bytes end ex86. The word at an instruction's start, and
  with 16-bit addresses the word behind a mod r/m byte, are fetched also where
  the instruction has no use for them, so that an absent page up to two bytes
  behind it faults. A size prefix that comes twice counts as none. Each prefix
  moves EIP or IP by the operand size so far, which goes wrong where a prefixed
  16-bit instruction spans the end of 64K. A short JMP with an operand size
  prefix in a 32-bit segment goes forward by a displacement of 16 bits without
  sign. If the first byte of an instruction is the last of its page, it may be
  what memory held one instruction earlier. `FetchExact` names these exceptions.
* **Tasks.** A far JMP or CALL that is refused after the target was marked
  leaves it busy; a later JMP to it stops ex86 ("Unhandled fault"). A CALL to a
  busy TSS ends as an unknown instruction. IRET with NT takes a link to a TSS
  that is not busy. A switch to a task with VM set leaves CPL 0. A fault in the
  middle of a switch leaves the new task half loaded. A far return to an outer
  ring leaves SS:ESP on the inner stack.
* **Interrupts.** An entry that faults after a completed instruction makes the
  fault's frame name that instruction, which is then executed again;
  `RestartSafe` says that this is the only way to it. Only ESP is put back after
  a fault (`ExInst86.c:176`). EFLAGS stays as an entry that faults
  left it (73), and so do CPL and SS: a second entry then believes itself in ring 0
  already, and its handler runs on the ESP of the user. A load of a segment
  register that faults has stored the selector (`decode.c:490`), and an IRET to
  ring 3 whose SS faults has changed EFLAGS, CS and CPL. `FaultIsPrecise` says
  exactly this much and no more. A bit of
  `FAULTNUM_UNKNOWN` set during an entry is never looked at
  (`mainloop32.c:219`, 342).
* **PIC and timer.** ICW1 does not clear the mask; an EOI inside the dialogue
  of the ICWs ends it. The latch command is stored as the timer's mode; reads
  and writes share one flip-flop; nothing counts; a count of 0 turns the timer
  off instead of meaning 65536, and a count of 1 gives no host interval. Two
  SIGINTs within one instruction of the 8086 loop count as one Ctrl+C.
* **Restart.** Instructions that a fault at the wrong place changes, besides
  ADC and SBB: nested ENTER, ADD and the like on a word across two pages, REP
  INS.
* **Arithmetic.** The borrow of a 32-bit SBB is lost when operand and borrow
  wrap; SUB leaves an AF that makes DAS wrong; IDIV of the least number by -1
  ends the host process.
* **Keyboard and clock.** A NUL character is a key whose code is 0, which a
  guest that polls with AH = 01h takes for no key; ten bytes are the room for an
  escape sequence, without a test. A day has 1572479 ticks as `timer.c:126`
  counts them and 1573032 elsewhere; setting the clock does not clear the
  midnight flag.
* **Video.** AH = 05h does not copy the page to the display's memory; the
  terminal's cursor follows page 0 only. AH = 08h reads the display's memory at
  the cursor of the page asked for, which after AH = 05h is another page's cell,
  after AH = FEh an old one and after a store what was stored: `Display` has the
  memory beside the pages and reads it. AH = 09h and 0Eh ignore pages that are not displayed, AH = 0Ah
  writes the attribute too, and AH = FEh erases the page's buffer alone. At the
  start the display holds spaces and the buffers zeros. A store of a
  doubleword, or of a word at an odd address, into the display prints the first
  cell only; a word store at 44Fh misplaces the cursor.
* **Disks.** INT 13h AH = 08h puts the cylinder into CL instead of CH
  (`int13h.c:251`). A call that fails in the middle does not tell how far it
  came. The controller drops the data of WRITE and raises no interrupt for it;
  READ reads drive A whatever the packet names, and reports success to an
  address behind the memory; RECALIBRATE leaves the cylinder; an unknown command
  is never complete, and only a reset ends it; the motor bits drop results.
  `readHostFile` and `writeHostFile` open the buffer instead of the file
  (`env_unix.c:306`, `325`).

## What is not modelled

* Of segmentation: call gates, far CALL and RETF between rings, IRET inside
  virtual 8086 mode, expand-down and limit checks, and faults in the middle of
  an entry or a switch (`IntDelivery` has those of an entry, by stages).
* Of fetching: the tables of opcodes beyond one of each shape, the limit of CS,
  the debug registers, the test for a jump to itself with interrupts disabled,
  the A20 mask; `mainloop16.c` has a prefix loop of its own, with nothing that
  can fault.
* Of instructions: the shift counts of the 8086 and 80186, which
  `ExInst86.c:1612` does not mask (`CountMask` is that of a 386), PF, bit tests
  and scans, XLAT, conversions, the moves, and the values of effective addresses.
* Of the disk calls: AH = 42h reads a sector into the BIOS's own buffer and then
  copies it; `Int13` moves it in one step, of which a fault in the copy is the
  half that `MoveInterrupted` has.
* Of the main loop: the handler's ring is always 0 and its code segment readable;
  the registers beside SS and ESP.
* CMOS, UART registers beside what the main loop sees, video registers: an index
  and a byte each. Host date and time, memory size, host files and the log.
* The start of the BIOS, INT 14h and INT 15h, and the functions that only
  return registers; formatting, terminal control and the command line.
* What a write behind the ten bytes of an escape sequence destroys.

## Plan

1. *Done*: translation, fetching, segments and tasks, both main loops with
   their devices, restart, arithmetic, BIOS keyboard, clock and display, disks;
   the inductive invariants of translation, main loop, busy marks, descriptor
   caches, kernel stacks, keyboard, clock, screen, floppy controller and disk
   calls; the restart of instructions; sums and comparisons; the refinements of
   `Paging`, `ContextStacks`, `KeyQueue`, `Display` and
   `SectorDisk`.
2. Models: call gates and returns to outer rings in `Protected`; a fault at each
   access of a task switch, composed with the stages of `IntDelivery`; the
   UART's registers.
