# O2Emu: specifications and proofs

TLA+ models of the SGI O2 emulator in this repository, the TLC runs that check
them on small instances, and TLAPS proofs of what holds for every instance.

## The system

O2Emu is one process and one thread. A Qt timer in the main window calls the
CPU core's `tick` with a batch of cycles; the core fetches and stores through
the bus, the bus forwards to memory and devices, and everything returns before
the next batch. There are no locks and no messages. What is hard is inside:
a superscalar pipeline that keeps a dozen tables consistent, interrupt state
that software changes in any order, device registers with side effects on
reads and byte writes, and a user interface that builds and tears down the
machine between batches.

| component | state | operations | what makes it correct |
|---|---|---|---|
| R10000 core (`cpu/mips_r10000.cpp`), the default CPU | fetch ring, issue array, reorder ring, rename map, free list, unit table, pending flush, CP0 | `tick` with its stages, `reset`, `set_cp0_reg` | one owner per physical register, program order, a bounded ring, precise flushes |
| Free list (in the same file) | a list threaded through `phys_gpr_arch_map_` | `allocate_phys_gpr`, `free_phys_gpr` | a register comes out once until it is given back |
| R5000 core (`cpu/mips_r5000.cpp`) | pc, next pc, branch flag, CP0, cycle counter | `tick`, `step`, `reset`, MTC0, ERET, `exception`, `check_interrupts` | interrupts only when enabled, correct return, no lost timer |
| CPU factory, adapters (`cpu/cpu_factory.cpp`), CP0 class (`cpu/cp0.cpp`) | cached copies; STATUS, CAUSE, EPC, ERROREPC of a view | forwarding; raise, clear, exception, ERET, tick | a write through `state()` or `cp0()` reaches the core (it does not); a pending line stays until it is cleared |
| Bus (`system/bus.cpp`) | the table of attached ranges | attach, decode, read and write of four widths | an address has one owner, the innermost window |
| Memory (`memory/memory.cpp`) | words of RAM | allocate, read, write | RAM reads back what was written (for sizes that are powers of two) |
| CRIME (`memory/crime.cpp`), MRE, address space | interrupt status and mask, timers, DMA | register writes, `tick` | no interrupt lost; the adapters have an object behind them (they do not) |
| MACE and its parts (`devices/mace/`) | interrupt registers, rings, DMA channels | register writes of three widths, `tick` | clearing one interrupt clears that one, samples are played once |
| UART, PS/2, RTC (`devices/`) | queues, status registers, command state | register reads and writes, host input | no byte lost, interrupt until served, no key stuck |
| SCSI (`devices/scsicontroller.cpp`) | sequencer and interrupt registers, attached media | reset, register access, attach, detach | interrupts until served |
| PROM (`firmware/`) | image, sections, ROM | load, map, preload, execute, reset | the ROM shows the image loaded last, the CPU starts in it |
| Timer, interrupt controller (`system/`) | compare, mask, lines and handlers | tick, raise, process | no line lost; not wired to any machine |
| Display controller (`graphics/gbe_framebuffer.cpp`) and its widget | registers, the surface derived from them | register writes of four widths, paint | surface and registers agree, two pixels never share a cell |
| Geometry processor, display engine, frame buffer, ICE (`graphics/`) | a command ring and stacks; switches and modes; buffers and store; interrupts | registers, commands, modes, swap, drawing | flags tell the ring, switches kept twice agree, drawing stays inside, scan-out changes at the swap |
| Main window (`gui/mainwindow.cpp`) | the machine's parts, running flag | start, pause, stop, reset, save, load, settings | no use of a part that is gone, settings survive errors |
| Network, logging, CLI, what the widgets draw | pixels, sockets | I/O | see *Not modelled* |

Interaction: the loop calls the core; the core calls the bus; the bus calls
devices; devices keep interrupt lines as status bits that nothing polls (the
cores see only their own timer). The host acts between two calls of `tick`.

## Modules

| module | what it is |
|---|---|
| `RegisterStack` | abstract: what renaming relies on, a stack of registers nobody holds |
| `FreeList` | the threaded free list; implements `RegisterStack` |
| `FreeListProofs` | its proofs |
| `R10000` | the pipeline |
| `MCR10000` | programs for it: the words its memory holds |
| `R10000Proofs` | its proofs |
| `InterruptGate` | abstract: when an interrupt may be delivered |
| `R5000` | the in-order core; implements `InterruptGate` |
| `MCR5000` | the STATUS values its software writes |
| `R5000Proofs` | its proofs |
| `Machine` | the main window: the machine's life cycle, settings, state files |
| `MCMachine` | the symmetry of its identities |
| `MachineProofs` | its proofs |
| `InterruptLatch` | abstract: an interrupt stays until the software names it |
| `InputStream` | abstract: bytes come out in the order they went in, whole groups together |
| `CommandQueue` | abstract: a bounded queue with two flags that tell its state |
| `Registers` | words as sets of bits, and what an access to a part of one does |
| `UART`, `PS2` | the ports the host feeds; each implements `InputStream` |
| `MACE`, `MACEISA`, `MACEAudio`, `MACEEthernet` | the I/O controller; each implements `InterruptLatch` |
| `CRIME`, `CP0`, `ICE`, `SCSI`, `RTC`, `Timer`, `Interrupts` | the other holders of interrupts; each implements `InterruptLatch` |
| `Display` | the display controller and what the widget shows of it |
| `Microprocessor` | the geometry processor; implements `CommandQueue` |
| `VideoModes`, `DisplayEngine`, `Framebuffer` | the table of modes, and the two engines that hold it |
| `Devices`, `MCDevices` | all devices side by side; the one that moves |
| `Bus`, `Memory`, `PROM` | decoding, RAM, firmware |
| `Board`, `MCBoard` | the machine's memory map, composed of these; its probes and files |
| `PortProofs`, `DevicesProofs`, `GraphicsProofs`, `BoardProofs` | proofs about them |

### FreeList

`freeHead` is `free_phys_gpr_head_`, `archMap` is `phys_gpr_arch_map_`; the
auxiliary `chain` is the sequence the links should spell. `Allocate`,
`AllocateNone` and `Free` are the two functions, with the range check of
`free_phys_gpr`. `Free` is offered only registers that are out: this is the
obligation of the caller, and `R10000!HeldOnce` is where it is met. The
floating-point list is the same code and is not modelled twice.

### R10000

Every turn of a stage's loop is a step; `stage` is the loop `tick` is in, in
the order of the source (flush, commit, writeback, execute, issue, decode,
fetch, interrupts), and `turn` and `scan` are the loop counters. A memory word
is an instruction (destination field, sources, unit) or the bus-error word; it
is chosen when it is fetched, so a run covers every program over its words.

Kept from the source, because properties depend on them: fetch errors are
appended to the ring without a check for room; renaming happens before the
check and is not undone by a stall; a unit is marked busy with slot -1;
`writeback_stage` looks at every slot, in the window or not; the flush visits
`rob_count_` entries, which may be more than the ring has; the old register of
a committed instruction is never freed; `check_interrupts` runs last.

When the free list is empty the code uses index -1 of `phys_gpr_valid_`. That
byte is the last of `phys_fpr_`, which no stage writes to: it reads as not
valid, and a write of `false` changes nothing.

Register values are left out (no stage calls an executor), and the branch
predictor, which is trained at commit: `predicted_taken` stays false,
`actually_taken` is never written, and so no branch is found mispredicted.
`HostActs` adds `reset` and `set_cp0_reg` between cycles; without it COUNT and
COMPARE are both 0 and the timer line is up from the first cycle. `set_cp0_reg`
is public, and no front end calls it today: `FlushTargetKept`, which needs a
pending flush and an interrupt that is let through, is about what it permits.

### R5000

`Tick(n)` begins a batch, `Fetch`, one of the instruction actions, and
`TakeInterrupt` or `NoInterrupt` are the three parts of `step`, `UpdateCount`
is the end of `tick`. An instruction is what it does to control state:
`Plain` stands for everything that falls through. Addresses are words modulo
`AddrSize`, COUNT is modulo `CountSize`; `cycles_` is kept modulo twice that,
which is all COUNT depends on. `resume` and `delivered` are auxiliary.

`InterruptGate` looks at the gate once after each instruction and delivers
exactly when it is open and something waits. The mapping: open is IE and not
EXL and not ERL, waiting is TI and its mask bit. ERET leaves EXL set in this
core, so after an interrupt the gate opens again only when software writes
STATUS; the gate permits that.

### Machine

A pointer is the identity of the machine whose part it was made for: `part`
holds the window's pointers, `link` the widgets'. `running` is `running_`,
`ticking` is whether the timer is active, `loaded` is the loader's flag; `hw`
is the machine, `cfg` the settings, `file` the state file. `stale` and the
field `of` of a file are auxiliary.

Each slot of the window is one action, with `initializeEmulator` and `onStop`
inside those that call them. A handler is atomic: while a dialog of its is open
only the emulation loop can run, and a handler uses nothing it read before the
dialog that the loop changes. `onStop` clears most pointers (`Cleared`) and
leaves the standalone engines (`Kept`); the widgets keep theirs.
A widget that reads through a pointer to a part that is gone has undefined
behaviour: `MayCrash` lets the process die or the read go unnoticed.

`Restored` leaves the core where reset has put it, because `onLoadState` reads
the registers into the copy that the adapter's `state()` hands out. `Save` may
cut the file short, because no write is checked. An image path that is no file
is not attached, though it stays in the settings when it came from the command
line. `setRamSize`, `setCpuType` and `setPromPath` are called before the first
start only, and are part of `Init`. Whether a PROM loads is a choice made at
each build, so changing its path while nothing runs needs no action.

### Devices

A device is called and returns; between two calls its state is its registers.
Each module has an action for every register access that has an effect, with
the widths the code tells apart, and leaves out registers that only hold what was written. A
word is the set of its bits that are set, with two bytes' worth of bits
(`Registers`): a byte write to a word register is a read, a merge and a write
of the whole word, as in the code, which is what makes clearing registers hard.

`InterruptLatch` is what each of ten modules promises: an interrupt that was
raised is there until an access names it. `named` is an auxiliary variable in
each device, the interrupts named by the last access; it is computed from the
access and never from its effect, and where the code stores a status register
as it is written, the access names the bits of its lane. The core of MACE
keeps less: its clear register remembers what was written, so a byte write
acknowledges the other bytes' old bits again. `MACEHoldsInterrupts` says what
is left: an interrupt goes away only if its device lowers it, or if software
has acknowledged that very interrupt at some time since a reset.

`UART` keeps the receive queue and its flags as they are: reading takes a
character and clears data-ready even if more are queued, and what is queued is
announced again by the next character only. `PS2` has the controller, both
queues, and the widget that turns the host's keys, moves and grabs into bytes;
`down` and `guestDown` are what the host holds and what the guest was told.
`StuckOnlyUnsent` relates the two: the guest takes a released key for pressed
only when the release came without the grab or with the keyboard disabled, and
so was not sent.

`MACEAudio` starts a transfer by handing all samples to the host, and a tick
does so again while the pointer is short of the end; `PlayedOnce` says that
a buffer is handed over once until software aims the pointer or the end anew. `CRIME` has one of two timers and one of eight
channels, which are alike. `CP0` is the class the adapters hand out; what is
written there does not reach a core. `Timer` and `Interrupts` are whole,
although no machine is built with them; `process` calls handlers that may call
the controller, so its loop is taken call by call.

`Display` keeps the registers as the fields `update_derived_params` takes out
of them, with the surface derived at the writes that derive it. `Microprocessor`
has the ring, the status word and the matrix stack. These three engines and
the geometry processor are built by the front ends and connected to nothing.

`Framebuffer` scales sizes down to a few pixels, tiles of side 1 and 2, and
words (`u32`) of `WordSize` values, which wrap where the code's do; only
`ensure_storage` counts in `u64`. A setter sizes the store for the geometry it
leaves, a size register is stored and no more (`raw`). The drawing operations
change nothing that the model keeps, so they are operators: the run of bytes
each touches, from its guard and its arithmetic, and whether the check against
the store passes, which looks at the end of the run as a word. `clear_rect`
has its own cut at the picture's right edge, and the entry of the directory
that a tile's operations use is its number, which the code does not check.

`Devices` conjoins them: no device calls another in the machine as it is built.

### Board

`Bus` inserts a device somewhere between the lower and the higher bases, which
is what the sort at the end of `attach_device` comes to when the table was in
order before, whichever way it breaks ties. `FindDevice` is the loop of
`find_device`, a recursive function with the best match after each turn.
`Memory` masks an address with the size less one: an address is the set of its
bits that are set, and the mask an intersection. `PROM` has files that
are missing, short or whole with headers that are rejected or accepted.
`Board` attaches the devices in the order and at the addresses of
`initializeEmulator`, then loads, starts and resets the PROM, and lets the
software write words through any segment. Addresses count 32-bit words.
`crashed` records an access that goes through a null reference. Reads of
devices change device state in their own modules, not here.

## Runs

| run | bounds | what it shows |
|---|---|---|
| `FreeList` | 2 architectural and 5 renamable registers | every order of up to five registers out: threading, and refinement of `RegisterStack` |
| `R10000Host` | ring 4, fetch 2, issue 1, width 2, 4 renamable registers, dependent instructions and fetch errors, host acts | types, `HeldOnce`, `MapAgreesWithRob`, `LostOnlyWhenFull`, `FlushTargetKept` |
| `R10000Wired` | ring 5, fetch 2, issue 1, width 2, three units, mixed words, fairness | `RobBound`, `InOrder`, `WorkAccounted`, `StaleIssueIsFlushed`, `OverflowRecovers` |
| `R10000Exhausts` | as Wired | violated: a rename without a register |
| `R10000Retires` | as Wired, a program of no-ops | violated: nothing commits |
| `R5000Core` | 5 addresses, COUNT of 3 values, batches of up to 3 | types, refinement of `InterruptGate`, `EretResumes`, `TimerRecurs` |
| `R5000Branch` | as Core | violated: the delay slot is skipped |
| `Machine` | 3 identities, 1 CPU type, 2 memory sizes, 1 target, an image on disk and one that is not | types, `OneMachine`, `WidgetsFollowProm`, `ConfigApplied`, `LoadRestores` |
| `MachineNoProm` | as Machine | violated: the machine runs without a PROM |
| `Devices` | 2 characters, 2 keys, queues up to 4, 3 samples, counters to 3, 1 to 6 pixels a side, 3 tiles, a ring of 4, words of 10 values and a directory of 3 entries | types, two input streams, ten interrupt latches and MACE's, `PlayedOnce`, the command queue, and the graphics engines' `PixelsDistinct`, `SwitchesAgree`, `ModesHonest`, `DrawingLands`, `ScanoutChangesAtSwap` |
| `Board` | the real wiring; 15 addresses, 5 memory sizes, 5 PROM files | types, `DecodesInnermost`, `RamReads`, `RomIsImage`, `RomAnswers` |
| `BoardCrime` | as Board | violated: the first access to CRIME's window stops the emulator |

Why the bounds are enough. The ring has to overflow, to wrap and to be visited
twice by a flush: with a ring of 4 or 5, a fetch queue of 2 and 2 fetches a
cycle it holds up to 9 entries, and `RobBound` is tight there (with
`FetchSize + Width - 1` in it the run fails). The free list runs empty, the
issue queue is full after one instruction and stalls decode, and dependent
instructions meet slots that have been overwritten. For the R5000, three
values of COUNT and batches of three let COUNT step over its last value, which
`Reachable` excludes and the run would otherwise refute; four STATUS values
open the gate and close it in each of its three ways. The unit table has two
integer units and at most one other, because `allocate_fu` treats the others
alike. A machine needs three identities: its own, one the widgets remember and
a new one, so one is always unused; identities are only compared, so permuting
them is a symmetry. One CPU type is enough there, because type and memory size
are treated alike except where load compares sizes; deadlock is not checked,
because a process that crashed stops. In `Devices`
one device moves in each behaviour (`MCSpec`), chosen at the start: no device
sees another, so what holds of each alone holds of all together, and every
behaviour of `MCSpec` is one of `DevicesSpec`. Its queues are long enough for
a key with its prefix, a packet and a reply to wait together and for the limit
to refuse one; the command ring is filled to its last place and wraps; the
store is short of one tile and has one to spare. The frame buffer moves in
three ways, chosen at the start: the buffers with their swap, or the geometry
with the registers of the lines, or with those of the tiles. The first shares
only the reset with the others; writes of both kinds of register in one
behaviour are left to the proof. Words of 10 values hold the lines of every
picture at either depth and the tiles of some; size registers are also written
with the largest word. There are pictures with one entry and with four tiles
for three entries, runs that are dropped after a register write, and runs that
wrap. `Board`
uses the real map, with probes at both ends of the windows that overlap, two
words that share a cell when the memory is 24 MB, aliases of RAM and ROM, and
a PROM that is reloaded. Deadlock is not checked in `Devices` and `Board`: a
machine nobody touches, or one that crashed, stops.
No run uses a state constraint; `turn`, `scan` and the program counter
are bounded by the guards (the pc by the flush that follows a full ring).

Fairness. `FairSpec` is weak fairness of the core's own steps: the main
window's timer calls `tick` again and again while the machine runs, and `tick`
is a plain loop. The host is not assumed to do anything. `TimerRecurs` assumes
that the host stops resetting and that software leaves COMPARE more than a
batch away from the wrap of COUNT.

## Findings

1. `R10000Exhausts`: `decode_stage` renames before it finds the ring full and
   does not undo it; each stalled cycle loses a register until there is none,
   where the source says "Should not happen with 128 registers".
   `StallLosesRegister` and `LostNeverFound` prove it for every size and
   program: such a cycle takes a free register, and only a reset brings it back.
2. `R10000Retires`: no unit learns the slot it works for, so no instruction
   ever completes. `NothingRetires` proves it for every size and program.
3. `R5000Branch`: after a taken branch the target is fetched instead of the
   delay slot, and then once more.
4. `MachineNoProm`: when the PROM does not load, `initializeEmulator` returns
   with a complete core and the timer off; `onStart` then takes that core for a
   paused machine and runs it without a PROM, with the widgets still on the
   machine before. `docs/prom.md` says that the PROM is the first code the
   emulator must execute.
5. `BoardCrime`: the adapters of CRIME and the render engine are made of
   `Memory::crime()` and `mre()`, which dereference pointers that no code
   fills; the first access to either window goes through a null reference.
   `docs/architecture.md` lists CRIME at its address, and `docs/prom.md` has
   the PROM read its revision.

## Proofs

| theorem | statement |
|---|---|
| `FreeListProofs!FreeListSound`, `FreeListTypeCorrect` | `Spec => [](TypeOK /\ Threaded)`, `Spec => []TypeOK` |
| `FreeListProofs!FreeListImplementsStack` | `Spec => ImplementsStack` |
| `R10000Proofs!TypeCorrect` | `Spec => []TypeOK` |
| `R10000Proofs!RegistersHeldOnce` | `Spec => []HeldOnce` |
| `R10000Proofs!NothingRetires` | `Spec => []~retired` |
| `R10000Proofs!OverflowBounded` | `Spec => []RobBound` |
| `R10000Proofs!ProgramOrder` | `Spec => []InOrder` |
| `R10000Proofs!RenamingAgrees` | `Spec => []MapAgreesWithRob` |
| `R10000Proofs!WorkIsAccounted` | `Spec => []WorkAccounted` |
| `R10000Proofs!TargetKept` | `Spec => FlushTargetKept` |
| `R10000Proofs!StaleIssueFlushed` | `Spec => StaleIssueIsFlushed` |
| `R10000Proofs!LossNeedsFullRing` | `Spec => LostOnlyWhenFull` |
| `R10000Proofs!LostNeverFound`, `StallLosesRegister` | `Spec => LostForGood`, `Spec => StallLoses` |
| `R5000Proofs!TypeCorrect` | `Spec => []TypeOK` |
| `R5000Proofs!InterruptReturns` | `Spec => EretResumes` |
| `R5000Proofs!R5000ImplementsGate` | `Spec => ImplementsGate` |
| `MachineProofs!PartsBelongTogether`, `MachineTypeCorrect` | `Spec => [](TypeOK /\ OneMachine /\ WidgetsFollowProm)`, `Spec => []TypeOK` |
| `MachineProofs!SettingsApply` | `Spec => []ConfigApplied` |
| `MachineProofs!WidgetsAreWired` | `Spec => []WidgetsFollowProm` |
| `MachineProofs!LoadGivesBack` | `Spec => LoadRestores` |
| `PortProofs!UARTImplementsStream`, `PS2ImplementsStreams` | `UARTSpec => UARTIsStream`, `PS2Spec => PS2IsStream` |
| `PortProofs!PS2StuckOnlyUnsent` | `PS2Spec => []StuckOnlyUnsent` |
| `DevicesProofs!MACEInterruptsHeld` | `MACESpec => MACEHoldsInterrupts` |
| `DevicesProofs!DevicesHoldInterrupts` | `DevicesSpec => InterruptsHeld` (ten devices) |
| `DevicesProofs!DevicesTypeCorrect` | `DevicesSpec => []DevicesTypeOK` (seventeen modules) |
| `DevicesProofs!AudioPlayedOnce` | `AudioSpec => PlayedOnce` |
| `DevicesProofs!EngineModesHonest` | `EngineSpec => []ModesHonest` |
| `GraphicsProofs!MicroFlagsTellFifo`, `MicroImplementsQueue` | `MicroSpec => []FlagsTellFifo`, `MicroSpec => FifoIsQueue` |
| `GraphicsProofs!EngineSwitchesAgree` | `EngineSpec => []SwitchesAgree` |
| `GraphicsProofs!FramebufferStoreEnough`, `FramebufferDrawingLands`, `FramebufferScanout` | `FramebufferSpec => []StoreEnough`, `[]DrawingLands`, `ScanoutChangesAtSwap` |
| `GraphicsProofs!FramebufferDirectoryOverrun` | `FramebufferSpec => []DirectoryOverrun` |
| `GraphicsProofs!DisplaySurface` | `DisplaySpec => []SurfaceFollowsRegisters` |
| `GraphicsProofs!DisplayPixelsDistinct` | `DisplaySpec => []PixelsDistinct` |
| `BoardProofs!PROMTypeCorrect`, `PROMRomIsImage` | `PROMSpec => []PROMTypeOK`, `[]RomIsImage` |
| `BoardProofs!BoardImplementsPROM` | `BoardSpec => PROMSpec` |
| `BoardProofs!BoardTypeCorrect` | `BoardSpec => []BoardTypeOK` |
| `BoardProofs!BoardDecodesInnermost` | `BoardSpec => []DecodesInnermost` |
| `BoardProofs!BoardRamReads`, `BoardRomAnswers` | `BoardSpec => []RamReads`, `[]RomAnswers` |

They hold for all constants that satisfy the `ASSUME`s of the modules: sizes
are positive, there are more physical than architectural registers, words are
instructions or the bus-error word, vectors and targets are addresses, images
on disk are images, the addresses software uses are natural numbers, `None` is
none of the values it stands beside. With each module's types among them, every
invariant that a passing run checks is a theorem, and so is every action
property and refinement.

*FreeList.* `TypeOK /\ Threaded` is inductive. Popping shifts the chain by
one; pushing needs the pushed register to be on no link, which is the caller's
obligation. With it each action is an action of the stack.

*R10000.* `HeldOnce` is not inductive: nothing in it says that the flush meets
a register once although it may walk past the end of the ring. The invariant is
`IInv == TypeOK /\ Stuck /\ Ownership`. `Stuck` says that no unit knows its
slot, hence only fetch errors are ever complete, hence the head stays at 0 and
the tail follows from the count. `Ownership` adds that a slot which names a
register lies in the window and has not been overwritten
(`i < robCount /\ robCount <= i + RobSize`): entries appended past the
capacity are fetch errors, which name none. So the flush gives each register
back at its first visit, and the second visit of a slot finds none.
`NothingRetires` is a conjunct of `Stuck`.

The other seven rest on what `SInv` adds to `IInv`. `Scheduled`: commit begins
without a flush, and a flush that waits past the start of a cycle keeps EXL
set, so `check_interrupts` lets it be (`TargetKept`). `Room`: decode moves the
fetch queue into the ring, so their sum is what each stage bounds; a ring past
its capacity has a fetch error in slot 0, the next commit raises it, and what
is fetched in that cycle is flushed with the rest (`OverflowBounded`).
`Ordered`: `rob_tail_` is the count modulo the size, and entry `j` of those not
overwritten is `j` instructions after the oldest; appending touches no other
of them because two numbers less than a ring apart have different slots
(`OtherSlot`). `Live`: what the rename map names, until the ring has been
full, and what the issue queue awaits, until it is over-full, is in the window
and not complete. So an entry that waited can be issued only over-full, and
`Room` says that this cycle has a flush (`StaleIssueFlushed`). `Released`: a
flush has put the registers of the slots it passed on the list, so clearing
the ring at its end loses none, and with room in the ring the slot that is
appended to holds none (`LossNeedsFullRing`). That a lost register stays lost
needs no more than `IInv`: each step puts on the list or in a slot only what
was in one of them (`LostNeverFound`). This theorem and `StallLosesRegister`
are stated beside their proofs; no run has them as a property.
`Counted`, inductive with `IInv` alone, says that the entries of the window
that wait are as many as the queue and the units hold; it needs finitely many
units.

*R5000.* `TypeOK` and `resume # None => resume = Succ(epc)` are inductive
together: an exception with EXL set leaves EPC alone, one with EXL clear
discards `resume`, and so does a write to EPC. The refinement is one case per
action; an interrupt needs that EXL was clear.

*Machine.* The invariant is `IInv == TypeOK /\ Wired /\ HardwareHasCpu /\
ConfigApplied /\ FileWhole`. A machine is built under an identity that nothing
points to, so a widget that was not reconnected cannot be live
(`WidgetsFollowProm`). `FileWhole` ties a whole file to the machine it was
saved from, which is what `LoadRestores` needs when the file is read, any
number of steps later; it is preserved by `Save` because of `ConfigApplied`.

*Ports.* The stream of each port is its queue itself; the refinement is one
case per action. A register access that is not a read of data leaves the queue
alone whatever it does to the flags, and a push adds a whole frame or nothing.
`StuckOnlyUnsent` is inductive: a press adds the key to both sides, a release
takes it off both or records that it was not sent.

*Devices.* Each device's types and its latch are proved together, one case per
action. `DevicesSpec` is the conjunction of the devices' specifications, so the
theorems about all of them follow from those about each.

*Graphics.* `FlagsTellFifo` ties the two flags of the status word to the ring,
and with the types it makes the ring a `CommandQueue`. `SwitchesAgree` is
inductive because the paths that change a bit or a member alone are those of
`split`, which it excepts.
`StoreEnough` says that the store is large enough for the geometry in use
unless a size register was written; the size of the store is a product, and
its monotonicity is the lemma on which growing rests. `ScanoutChangesAtSwap`
follows from the actions and the types alone.

`DrawingLands` has four parts. `TilesLand`: as long as all tiles together fit
a word, a tile's number times its size does not wrap (`TileStarts`), so no
tile strays, whatever registers were written, and each lands when none was.
`LinesLand` says the same of pixels, spans, rectangles and blits within the
picture, as long as the end of its last line fits a word; that they land needs
that a line fits its stride (`LineEnds`). `EntriesFit`: all tiles have entries
if and only if there are no more tiles than entries, because the tile in row
`DirectoryEntries \div across` and column `DirectoryEntries % across` has the
first number past them. `CutsExact` says which spans and rectangles stray:
those whose end wraps, and rectangles that start right of the picture. Such a
run has more pixels than the store has bytes, and its end is, as a word, that
of a run within the picture (`WrappedStrays`, from `WordUnique`: no two words
are a whole number of turns apart). So two defects of this code are part of
the property, because they are what it does: the setters alone lead past the
directory, as with 1280x1024 and tiles of 8x8 (20480 tiles, 16384 entries;
`framebuffer.cpp:230`, `261`, `266`), which `FramebufferDirectoryOverrun`
states by itself, and `clear_rect` to the right of the picture writes outside
the store (`framebuffer.cpp:340`). Nothing in the repository outside the
class calls these operations.

`PixelsDistinct` is not about a step but about arithmetic: two pixels of the
surface that `SurfaceFollowsRegisters` describes have different addresses.
A pixel's place is its number among the surface's pixels in the order of their
addresses. `Places` says that a row and a column determine each other's number
in a table and are determined by it; it is used three times, for the tile, the
line in the tile and the pixel on the line, and needs that the tiles across
and down hold the whole picture (`EnoughTiles`). The place gives the address
(`PlaceGivesAddress`), it tells the pixel (`PlaceTellsPixel`), and different
places are a pixel's bytes apart (`Spaced`).

*Modes.* `ModesHonest` quantifies over a table of constants. What is proved is
that the table's timings fit (`ModesTimed`), that no two entries have the same
size and refresh rate although sizes repeat (`ModesDiffer`, `SizesRepeat`), and
that both engines' searches return the entry that was asked for
(`SearchesFind`).

*Board.* `RomIsImage` is inductive for the loader alone: an image that loads
becomes the ROM in the same call, and one that does not load clears the image
and leaves the ROM. Every step of the board is a step of the loader or none of
its business (`BoardImplementsPROM`).

None of the board's own invariants is inductive. `DecodesInnermost` compares
what the loop of `find_device` returns with the covering entry of the highest
base, and does not say which devices can be in the table; `RamReads` says
nothing of two addresses of one cell. The invariant is
`BoardInv == BusInv /\ MemoryInv /\ PROMTypeOK /\ RomIsImage /\ crashed \in
BOOLEAN`. `BusInv`: the table holds devices of `Wiring` and the PROM's
window only, in the order of their bases, and the PROM's once there is a ROM.
Insertion keeps the order (`AttachKeeps`). `MemoryInv`: every word below the
size has a cell, and if the size is a power of two the cell holds what was
stored there last. A store keeps it because then different words have
different cells (`CellsDiffer`): a mask of ones leaves all bits of a smaller
number (`MaskOnes`), and numbers below 2^29 with the same bits are the same,
by halving both as often as there are bits (`OneBitMore`). For other sizes
words do share cells; the code allows them, and `RamReads` excepts them.

`DecodesInnermost` then needs what the loop computes for a table of any length.
The library's induction theorems cannot be used, so `Least` takes the least
turn at which a claim fails, from the well-foundedness of the natural numbers;
with it `LoopRuns` shows that the recursive function is defined by its
equation, `LoopFinds` that after each turn it has the covering entry with the
highest base seen so far, and `FindDeviceIs` puts this in terms of the table.
`AttachedFacts` says of the real addresses that no two devices have the same
base and that none is in a segment that shows another. So the PROM, once it is
attached, is found at its base inside MACE's window (`RomAnswers`).

Only model-checked: the liveness properties `OverflowRecovers` and
`TimerRecurs`, which are beyond the prover, and the properties of the runs that
expect a violation.

## Not modelled

Register and memory values of both cores, the executors of the R10000 (never
called) and its branch predictor and performance counters (never reached), the
LL/SC link, ERROREPC, BADVADDR and exception codes of the R5000; of the main
window the audio output, the debug-logging flag and what the widgets draw.
Registers that only hold what was written, of every device; the PCI block of
MACE, which has no others. `AddressSpace` and the MRE are never constructed:
what the machine does at the MRE's window is in `Board`. Pixel and audio data,
sockets, logging, argument parsing, the ELF information of PROM images and
widget drawing are I/O and stay out. What `read_tile`
finds through an entry software wrote, and a store too large to allocate, are
left out of `Framebuffer`. The decompiled PROM sources under
`samples/` and vendored code are not part of the emulator.

Two listed hazards have no property: the branch-delay bit of CAUSE, which the
model of the R5000 keeps and nothing in it reads, and the LL/SC link, which is
not in it.

## Plan

1. The LL/SC link and CAUSE.BD in `R5000`, with a handler that reads them.
2. The devices on the board: an access that is decoded becomes an action of
   the device it reaches.
3. More findings as theorems: what a counterexample shows on one instance, for
   every instance, as `NothingRetires` and `StallLosesRegister` do.

The most important behaviour, what the default CPU does with the machine's
instructions, was modelled first, then what is built around it; each module is
written so that it can be proved about: constants with named assumptions, one
action per operation, recursive functions and no recursive operators.
