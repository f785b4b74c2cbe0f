# A TLA+ development of Procesador-32-bits

The repository holds a 32-bit pipelined processor with its devices as Logisim
circuits (`src/System/**/*.circ`, three entities in VHDL), a BIOS in C that runs
on it (`src/System/Memory/BIOS`), and the assembler that builds the BIOS image
(`src/Ensamblador/assembler.py`). This directory models the parts where things
happen at the same time (BIOS drivers, interrupt handlers, controllers and the
interrupt hardware between them), the one piece of hardware with a subtle
replacement algorithm, the TLB, and the two algorithms everything else stands
on: the assembler, from a source to the program running on the processor, and
the enumeration of the PCIe buses. TLC checks the models on small instances;
TLAPS proves the safety invariants and the refinements for all values of the
constants, but for three of the boot.

## 1. Inventory

| Part | Source | State | Operations | Modelled in |
|---|---|---|---|---|
| TTY driver | `drivers/tty/tty.c` | `display_queue` (ring with head, tail, count), `hardware_busy`, `system_panic` | `biosWrite`, `biosClear`, `ttyWrite` (direct or queued), `tty_IRQHandler`, `initTty` | `TtyDriver`, `DisplayQueue` |
| TTY controller | `IO/TTY/TTY_Controller.circ` | command registers, request in work, interrupt | start on a command, finish, interrupt | `TtyDriver` |
| Keyboard driver | `drivers/keyboard/keyboard.c` | `key_queue`, `kq_head`, `kq_tail`; the line under edit | `keyboard_IRQHandler`, `readInput`, `initKeyboard` | `Keyboard`, `KeyBuffer` |
| Keyboard controller | `IO/keyboard/Keyboard_Controller.circ` | character buffer, `Service_IRQ` | key press, read, acknowledge, clear | `Keyboard` |
| NVM driver | `drivers/nvm/nvm.c` | command and completion queues in RAM, `busy`, `head_index`, `tail_index` | `NvmAccess`, `nvm_IRQHandler`, `initNvm` | `NvmDriver` |
| NVM controller | `IO/NV_Memory/NV_Memory.circ` | FSM state, Head and Tail counters, fetched command | fetch, execute, complete | `NvmDriver` |
| LAPIC | `Core/LAPIC.circ`, `Core/hdl_export/Pri_Encoder.vhd` | IRR, ISR, TPR, the IRQ pulse | accept, EOI, MSI write, every clock | `Lapic`, `InterruptPath` |
| Exception generator, SR8, halt unit | `Core/Control_FLush.circ`, `Core/Registros.circ`, `Core/Pipeline.circ` | one-bit latch, Cause, EN_INTS, PREV_INTS, halted | take interrupt, SRT, HLT | `InterruptPath` |
| Interrupt dispatch | `hal/lapic.c`, `hal/lapic.h` | `irq_table`, the saved context of each activation | `mainHandler`, `initLAPIC`, critical sections | `InterruptPath` |
| TLB | `Core/hdl_export/TLB_LRU.vhd` | valid, page, PCID, frame, age per entry | lookup, write with replacement, reset | `TlbLru`, `LruCache` |
| MMU, page walker | `Core/MEM.circ` | walk state, MMU registers | walk, fault | `TlbLru` (only that a walk follows a miss and writes the result) |
| Exception handlers | `kernel/exceptions.c` | – | message, halt | `TtyDriver` (`FatalException`) |
| Syscalls | `kernel/syscalls.c` | – | `syscallsHandler` | not modelled |
| PCIe enumeration | `hal/ecam.c` | `mapa`, `map_size`, `next_bus_number`, `offset_BAR_Pos`, the calls in progress | `bus_Enumeration`, `searchFirst`, `search` | `PcieEnum` |
| Root complex, configuration spaces | `PCI/Root_Complex.circ`, `PCI/ECAMs.circ` | bus numbers and windows of three ports, BARs | who answers an address, register writes | `PcieEnum`; the MSI path in `InterruptPath` |
| Shell, main | `shell/shell.c`, `main.c` | command line | commands; `reset` runs `main` again | `Reset` of `PcieEnum`, `readInput`, and the `init...` actions of the drivers |
| Library | `lib/*.c` | pool of eight text buffers | `ToAscii`, strings, division | not modelled |
| Assembler | `Ensamblador/assembler.py` | section, words and bytes so far, labels, relocations, errors | first pass line by line, `.start`, second pass, ROM image with reset vector | `Split`, `Encoder`, `Assembler`, `Boot` |
| Memory map | `Memory/*.circ` | ROM, RAM | which addresses are ROM | `Boot` |
| Pipeline, registers, ALU, arbiter, board | other circuits | stage registers, data | instruction execution | seven instructions by their effect in `Boot`; the interrupt side in `InterruptPath` |

**How the parts meet.** There is one processor and no scheduler. The main
program is the shell inside one of its calls; interrupts suspend it anywhere,
also between the instructions of one C statement. A device asks for an
interrupt by a write to the MSI register; the LAPIC moves the vector from IRR to
ISR when it exceeds what is in service and pulses IRQ; Exception_Generator keeps
the pulse in one latch until EN_INTS allows it, then loads Cause with the top of
ISR and enters `entryHandler`, which calls `mainHandler`, which calls the
driver's handler with interrupts on. Driver and handler share queues in RAM,
guarded by critical sections (EN_INTS off) in the TTY and NVM drivers, and by
nothing in the keyboard driver. Drivers and controllers share registers and, for
the terminal's strings and the NVM's queues, memory. `readInput` calls the TTY
driver for its echo. Waiting is always test-then-`HLT`. Before all that, the
image the assembler wrote is executed from the reset vector, `.start` copies
`.data` and clears `.bss`, `main` enumerates the buses and the drivers take
their register addresses from the table. The shell's `reset` calls `main` again
over whatever registers, tables and queues there are.

**What is hard.** Lost wake-ups between test and `HLT`; queues and counters at
their limits; direct requests overtaking queued ones; device and driver
disagreeing on what is pending; interrupts that nest, meet in one latch, or end
the wrong vector; a reset that runs initialisation over live devices; data read
by a device later than the program that wrote it believes; ages that must stay a
permutation; addresses that one pass of the assembler fixes and the other emits
at, with padding, waiting bytes and injected code in between; bus numbers and
windows given out through the very ports that are being set up, and given out
again after a reset. PROJECT.json lists these under "hazards", each at its line.

**What makes each part correct.** TTY: requests drawn in order, once each, on
both paths; nothing overwritten; panic always shown; the caller is woken.
Keyboard: the ring is a queue; the controller never falls silent; the line is
what was typed and the screen shows it. NVM: commands carried out as given, in
order; completions match; no doorbell is lost; everyone asleep is woken. Interrupt path: critical
sections are atomic, context and flags survive nesting, nesting follows urgency,
no request is lost. TLB: exact LRU, one hit at most, the right translation.
Assembler: every object is where its label says when the program gets control,
every reference reaches it, every instruction decodes as written. Enumeration:
one answer to every address, and every BAR reached through the windows.

## 2. Plan

1. `DisplayQueue`, `TtyDriver`, `TtyDriver_proofs` – done.
2. `Lapic`, `InterruptPath`, `InterruptPath_proofs` – done.
3. `KeyBuffer`, `Keyboard`, `Keyboard_proofs` – done.
4. `NvmDriver`, `NvmDriver_proofs` – done.
5. `LruCache`, `TlbLru`, `TlbLru_proofs` – done.
6. `Split`, `Encoder`, `Assembler`, `Boot`, `Boot_proofs`, `BootMemory_proofs` – done.
   The merge of several files (`merge_asm_files`) was planned and left out:
   nothing calls it.
7. `PcieEnum`, `PcieEnum_proofs` – done.
8. Proofs left: of the safety properties only `ReferencesResolve`, which speaks of
   what the programs of the run do after they got control (section 5).

Composition. Drivers are modelled with an interrupt that is one pending bit;
`InterruptPath` is the module about the way from that bit to the handler, built
on `Lapic` as a synchronous step. Joining them would multiply state without
adding an interaction: a driver sees of the path only when its handler runs, and
`InterruptPath` of a driver only when it is done. What `InterruptPath` shows to
be possible and a driver would not expect is carried into the driver models:

- *A request that is accepted and never handled* (`irq_lost`, and the wrong EOI of
  `MCInterruptPath_eoi.cfg`): `LoseIrq` of `TtyDriver`, `Keyboard` and `NvmDriver`,
  possible whenever an interrupt is on its way. The three ways of losing one
  (ended by another handler's EOI, displaced at the write port, left in ISR behind the
  latch) are the same to the driver: its handler does not run. What a property says
  after a loss is in its statement: `lost` is one of the places of an outstanding
  request in `BusyIsOutstanding` and `ServiceIsAlive`, and the liveness properties
  promise nothing after it. The ordering and overwriting properties and both
  refinements hold whether or not interrupts are lost.
- *A handler run with no request behind it*: `SpuriousRun` of `Keyboard`,
  `SpuriousIrq` of `NvmDriver`. `TtyDriver` has none, because the terminal has vector 127,
  the most urgent, and `MostUrgentRunsWhenAsked` says that the handler of that vector
  runs only for a request of its device.
- *A handler entered again before it ends* (`MCInterruptPath_nesting.cfg`): not the
  terminal's nor the keyboard's, the two most urgent, by `UrgentTwoNest`; the handlers
  of the NVM's vectors (125 and down) are one critical section each, so that a second
  entry can only fall before it or after it, which is a run with nothing behind it.

## 3. Modules

### TtyDriver, DisplayQueue
`ttyWrite` is cut where an interrupt can fall: each test of the queue, each
`HLT`, entry to and exit from the critical section, and the two groups of writes
inside it (`Call`, `WaitIdle`, `WaitRoom`, `Halt`, `enterCriticalSection`,
`SendDirect`, `Enqueue`, `Kick`, `exitCriticalSection`). `tty_IRQHandler` is
`TakeIrq`, `IrqAdvance`, `IrqDispatch`, `IrqReturn`; the controller is `Start`
and `Finish`. A request is a record of the three register values with a model
value for the text. `tty_requires_irq` (the driver's opinion of which requests
end in an interrupt) and `raisesIrq` (the controller's) are separate operators
translated from the two sides. `initTty` is the second run of `main` by the
shell's `reset`; `FatalException` may fall anywhere, also inside the handler.
`DisplayQueue` is the promise: one line of pending requests, drawn in order.
The refinement counts the head of the ring once wherever it is: in its slot, in
the registers or in work.

One assumption about time: a direct request needs three clocks in the
controller, far less than the processor needs from one call to the next, so at
the main program's next register write the previous command has started
(`comand = NoRequest` in `SendDirect` and `Kick`). The handler and the panic
path have no such guard.

### Lapic, InterruptPath
A 128-bit register is the set of its bits. `LapicClock` is one clock of the
LAPIC: acceptance, EOI and MSI writes act together, and In_Service_Register's
single write port is visible in `NextISR`. Every action of `InterruptPath` is one
clock: what the processor does on it (an instruction that matters, or `Stall`)
with `LapicClock`. `frames` is the stack of activations of `mainHandler` with the
vector and flags each one saved; the action `TakeInterrupt` pushes, `SRT` pops.
A device asks again only after its handler has run. `MostUrgent` and `Second` are the
two highest vectors, on this machine the terminal's and the keyboard's. `MaxRequests` bounds the
requests of a behaviour, and with them the stack.

### Keyboard, KeyBuffer
Characters are numbered in the order of typing, so that a duplicate, a loss and
a reordering are visible; `Char` gives the class the editor tells apart. The
handler is three accesses (`ReadData`, `Acknowledge`, `StoreKey`), the reader one
action per access to the ring or call of `biosWrite`. `Acknowledge` allows both
outcomes of sampling Data_Available on the clock that removes a character. The
terminal is what `TtyDriver` shows it to be: direct requests wait for an empty
queue and copy their character, a queued string is an address that is read when
it is drawn (`Text`). Bounds: `MaxKeys` characters, a ring of four instead of 64
and lines of two to four characters instead of 32, so that full, wrapped and
empty rings and full lines occur.

### NvmDriver
The first device; devices share nothing but `HLT` and the order of their queues in
RAM. `NvmAccess` is one critical section left only to sleep (`Room`, `Enqueue`,
`Kick`); the handler is `Retire`, `StartNext`; the controller `Fetch`, `Exec`, `Finish`;
`initNvm` is what the shell's `reset` does, at any moment between two calls.

The two sides disagree, and the module has each as it is. *The command word*: the
driver writes `(option << 24) | idx`, the circuit takes the opcode from bits 7:0
and the ID from bits 31:8 (`Opcode`, `CommandId`). *The completion word*: the
circuit writes that ID shifted by one above the phase tag, which is the carry of
its Tail counter (`Completion`, `PhaseTag`); the driver expects the index in bits
23:0 (`Completes`). *The number of slots*: 128 in the driver, 297 in the counters
of the circuit, which stop at 0x128 (`NVM_QUEUE_LEN`, `DeviceSlots`); past the
driver's queue the controller reads (`Beyond`) and writes the next device's. *A reset*: `initNvm`
starts the driver over at slot 0, the counters and the FSM go on.

`asked`, `performed` and `retired` are histories; `pending` are the commands given
since the last reset and not retired, which is what the ring should hold; `cut`
remembers that a reset fell into a command. What holds of a driver and a controller
that understand each other so little is in the passing run. `OneOutstanding`,
`RingHolds` and `RetiredAsAsked` are the driver's side, sound until a command is
cut: the ring is right, no doorbell is rung while the controller is not looking,
and the one completion that the driver recognises is of the command first in
its ring, carried out as given. `AtMostOneRetires` is the other half: there is
no second one. With the option 0 (read) the completion word is 0, with 1 (write) it
is 2^17, so only a read in slot 0 is ever recognised; whoever fills the ring
sleeps at `nvm.c:133` although its comment expects the completion to free a
place. `nvm_opcode` is the disagreement about the command word by itself.

### TlbLru, LruCache
One action per clock edge of the entity that changes something: `Reset`,
`Lookup` (hit), `Write` (through `Walk`: the walker writes only what missed).
A translation is a record that says whose page tables it came from, so a hit
on another process's private entry is visible. The refinement to `LruCache` maps
the entries, sorted by age, to a line in order of last use. The entity is generic
in the number of entries (64, and 16 and 8 in MEM.circ); TLC uses four.

### Split, Encoder, Assembler, Boot
`Split` is `compute_hi_lo` and the memory map, with everything in proportion to
`HALF`, the values of half a word. `Encoder` is `encode_single` with the parsing
of operands and the resolution of labels, and the fields the decoder takes out of
a word. `Assembler` has one action per kind of line of the first pass; `.align`,
the packing of waiting bytes and the padding are operators that the actions
share. `EndFirstPass` is the end of the first pass with the routine
`.start` that it injects in rom mode (`InjectStart`), `SecondPass` the whole
second pass. `relocs` outlives an assembly as the
attribute of the function does, so a process that assembles again (the graphical
interface) is a sequence of jobs. `Boot` adds `write_rom_logisim` and a processor
that executes the image.

Abstractions. A line is a record: the text of lines, comments and their regular
expressions are left out. A directive with several values is several lines, a
label stands alone on its line, `.p2align n` is given as its 2^n bytes, and each
condition has one of its names. A word is a record of fields or four bytes, a
byte of an address stays recognisable, and the lanes in which the ROM file keeps
bytes are left out, writer and circuit agreeing on them. The processor is `LDI`,
`ADI`, `LOD`, `STR`, `JMP`, `NOP` and `HLT` by their effect; any other word sends it
to `CpuLost`. RAM is zero when it is switched on.

`entered` is no state of the machine: it remembers that the entry of the program
was passed, because a program may come back to it with memory it has changed
since. An object is a label with the lines that follow it, or a `.comm`; where a
line of it is comes from one running sum of sizes over the source, `SizeUpTo`,
written as a recursive function so that it can be reasoned about.

The properties quantify over sources within the limits `Plain` names in `Boot`,
beyond which the assembler goes wrong without an error. Six of them the sources of
the run reach, and dropping any one gives a counterexample of TLC: `CommIsPacked`
(see the finding), `EntryIsCode`, `CopyIsShort`, `BssIsPlain`, `OffsetsAreBytes`,
`NothingRaised`. Five more are kept by all of these sources and were found by the proof, which is
about any source: `CodeIsText` (an instruction in another section is emitted
into the image all the same), `StartIsFree` (a label `.start` of the source is replaced),
`ValuesAreAligned` (a `.long` or `.short` after an odd number of bytes is moved
away from its label), `BasesAreAligned` (an alignment of more than the base of ROM
or RAM has cannot be kept) and `ImageFits` (the image may not reach the reset vector's row).
`EncodedAsWritten` needs none of them: it asks of a pair of instructions that names
a symbol with an offset only that the offset be in bytes and the address exist.
What the proof asks of the form of a line is in `LinesAssumption` and
`BatchAssumption`: the mode is one of two, and the expression of a `.long` is a symbol
with an offset.

### PcieEnum
The recursion of `bus_Enumeration` is a stack of frames (bus, device, and the
entry of the bridge it is inside of), one action per way an iteration can go:
`EmptyBus`, `EmptySlot`, `TableFull`, `EnumerateDevice`, `EnterBridge`, `LeaveBridge`,
`SkipOther`, `EndOfBus`. `Answering(a)` is the root complex with the registers as
they are at that moment, so a read or write goes where the ports send it, and
`Decoding(a)` the registers of devices behind the windows. `Reset` is the shell's
command: it is possible only when `main` found its three classes of devices,
and it keeps `mapa`, whose length is `map_size`, and all registers. An endpoint
answers for all 32 device numbers of its link, as `ECAMs.circ` has it, and no
function has the multi-function bit, so the loop over functions ends at 0.

Addresses are exact but for the unit: `PAGE` is four in the run instead of 4096,
so every boundary (page, 64 KiB, 2^28, 2^32) is at its place in pages and the
bytes inside a page are fewer. The table has its 64 entries; ten resets fill it.

## 4. Runs

| Run | Question | Result |
|---|---|---|
| `tty` | a queue of two, four calls of all kinds, any interleaving with handler, reset, panic and a lost interrupt | holds: `BusyIsOutstanding`, `QueueIsConsistent`, `DirectIsBarrier`, `NeverOverwrites`, refinement of `DisplayQueue`, `AcceptedIsShown`, `PanicIsShown` |
| `irq` | three devices, eight requests | holds: critical sections, context and flags under nesting; `UrgentTwoNest`, `MostUrgentRunsWhenAsked`; `OnlyRequestedRuns` and `LoneRequestIsHandled` as long as requests do not meet |
| `keyboard` | three keys of every class, a ring of four, a line of three, interrupts lost and handlers run for nothing | holds: `ServiceIsAlive`, `LineIsEdited`, `EchoIsComplete`, refinement of `KeyBuffer`, `KeysLeaveTheDevice` |
| `nvm` | the driver of `nvm.c` on the controller of the circuit: six commands, four resets, interrupts lost and without a completion | holds: `OneOutstanding`, `RingHoldsPending`, `RetiredAsAsked` until a reset cuts a command, `AtMostOneRetires` always |
| `tlb` | all sequences, four entries, private and global pages | holds: `AgesAreRanks`, `NoDoubleHit`, `HitIsTranslation`, refinement of `LruCache` |
| `boot` | ten kinds of data around the code in every arrangement, both data modes; one instruction of every form, right and wrong; one assembly after another | holds: `AddressesCountWords`, `MemoryIsAsWritten`, `ReferencesResolve`, `EncodedAsWritten`, `BootReachesEntry` |
| `pcie` | eight kinds of endpoints on three ports, up to twelve resets | holds: `OneClaimant`, `DevicesAreReachable` |
| `tty_lost_wakeup` | does a call return without help from another device | violated: `tty.c:110`, `tty.c:122` |
| `irq_lost` | is every request handled when two devices' requests meet | violated: one latch for two acceptances |
| `nvm_opcode` | does the circuit read the command word the driver writes | violated |
| `asm_comm` | are `.data` and `.bss` contiguous in ram mode | violated: `.comm` takes the place of bytes that wait for a word |
| `pcie_search` | do the addresses `search` gives reach the devices | violated: `ECAM_BASE` is added twice |

Four more configurations lie beside the runs; each is a violation that TLC finds
in the code and that "hazards" describes at its line:

| Configuration | Question | Why it is violated |
|---|---|---|
| `MCInterruptPath_eoi.cfg` | does EOI end the interrupt being handled | a more urgent one may be accepted before it |
| `MCKeyboard_echo.cfg` | does the screen show the line that was typed | the echo is read from a buffer edited meanwhile |
| `MCInterruptPath_nesting.cfg` | do handlers nest by urgency with three devices | the wrong EOI leaves a bit in service that no handler belongs to; the handler that comes back for it is entered over itself |
| `MCNvmDriver_reset.cfg` | does the ring hold what waits after the shell's reset | the completion of a command given before the reset retires from the empty ring |

Each violation run switches on one thing and checks one promise that a comment
or document of the repository makes; PROJECT.json "findings" quotes it.

Related behaviour of the code seen while modelling and kept in "hazards" rather
than in a run of its own: the keyboard's lost wake-up (the same window as the
terminal's); the second, empty line of a CRLF; EOI and acceptance meeting on one
clock; entries
of processes 1 and 257, which the TLB cannot tell apart.

Nesting by urgency, which `MEMORY_AND_ABI.md:103` states, is not kept by a machine
with the terminal, the keyboard and an NVM (`NestingIsByUrgency`, violated in
`MCInterruptPath_nesting.cfg`; with `MCTwoDevices` it would hold, which says nothing of
this machine). What is kept for any number of devices is `UrgentTwoNest`.

**Bounds and why they are enough.** A queue of two slots is full, empty and
wrapped within four calls, and its handler's two outcomes occur in every
combination with the caller's place; three calls are enough for a lost wake-up.
Three vectors, the terminal's, the keyboard's and the first NVM's, are the three
classes `main` asks for, and the least with which a wrong EOI leaves a handler
without a request; eight requests let each device ask again after every kind of
meeting. In `Keyboard` handler runs with nothing behind them count as keys against `MaxKeys`. Three keys of every class
fill a line of three and end it, a ring of four (three places) is full with the
third and wraps with the next read; the echo finding needs three characters and
the newline, hence four keys in its run. Six commands and
four resets take the NVM's counters, which have five values, past a queue of four and
back to slot 0, fill the ring, and let a command be retired before and after. Four TLB entries and more distinct translations
than entries force evictions in every order of ages. The sources of `boot` put two
of ten kinds of data (each section, every alignment from 1 to 16, bytes, halves,
words, addresses, zeros, nine words, seventy bytes) before, after and around the
code, so every directive meets every state of waiting bytes another leaves; a
machine of 4096 addresses with halves of six bits has the carries of `%hi` and
`%lo`, negative low halves included, within sources of a few lines, and `.start`
copies and clears more than one word. The endpoints of `pcie` have BARs below a
page, of several pages, of a whole window and beyond one, several BARs, a header
of another type, or are missing; twelve resets are two more than fill the table.

**Deadlock.** All configurations but those of `MCTlbLru` and `MCNvmDriver` use `CHECK_DEADLOCK FALSE`: the machine
really may stop (a fatal exception ends in `HLT` with interrupts off; `sysOff`
halts), the bounded user, callers and devices may have nothing more to do, and an
assembly, a boot and an enumeration end.
That nobody waits for ever is stated by liveness properties instead.

**Fairness.** Processor and controllers are clocked: an action of theirs that
stays possible happens (weak fairness of the caller's code, the handler, each
step of the controller, and of taking an interrupt). Users, callers, other
devices, exceptions and resets are never obliged to act. That a pending interrupt is
taken is assumed of `TtyDriver` and `Keyboard` only together with `LoseIrq`: one
that the board loses or blocks is not pending, and the properties then claim nothing
(`AcceptedIsShown`, `KeysLeaveTheDevice`); one that is not lost is already
in the latch and taken at the next opening. `Keyboard` assumes nothing of the reader
or the terminal; `NvmDriver` has no fairness and no liveness property. `Fairness` of
`InterruptPath` has `Stall` fair: the clock runs also when the processor does nothing of interest. `BootSpec` has the
assembler and the processor going on (`Running`), and nobody obliged to start
another assembly.

**Mutants.** Every property of a passing run is violated when one definition is
replaced by a plausible mistake (its `...Forgets...`, `...OffByOne`, `...Always`
twin, defined just above it); PROJECT.json names them.

## 5. Proofs

Each component's theorems are in a module of their own. All have the same form:
an inductive invariant `IInv`, a lemma per action that keeps it, `StepKeeps` or
the corresponding step of `Inductive`, and corollaries for the parts a reader
wants. TLC checks the parts as invariants first.

**TtyDriver_proofs** (for every `QUEUE_SIZE` in 1..255, every set of calls and
number of calls: `QueueAssumption`, `CallAssumption`). `IInv` is `TypeOK`,
`BusyIsOutstanding`, `QueueIsConsistent` and `DirectIsBarrier` with three facts
that make them inductive: `InsideIsMasked` (inside the critical section
interrupts are off, so the handler does not run between two of the driver's
writes), `RequestFitsPath` (the request in
hand fits the path that was chosen for it: on the queued path it ends in an
interrupt, on the direct path it does not; driver and controller agree on which
is which by `IrqIffQueued`) and `BusyOwnsRegisters` (while `hardware_busy`, what
waits in the registers to be started is a queued request). Without the second the number
of interrupts still to come could not be tied to `hardware_busy`, and `count`
would not be safe from being decremented at zero. Theorems: `TypesAreKept`,
`BusyIsAlwaysOutstanding`, `QueueIsAlwaysConsistent`, `DirectIsAlwaysBarrier`,
and the action property `NothingIsOverwritten`, which follows from the invariant
in each step. A lost interrupt is one more place where the outstanding request can be
(`lost`): the driver then stays busy, and safe, for ever. `ImplementsPromise` is the refinement of `DisplayQueue`: the ring
from head to tail, behind what the registers and the controller hold, is the line
of requests of the promise, and each step of the driver, the handler and the
controller is `Ask`, `Show`, `Panic`, `Abort` or nothing there. It asks for two slots
or more: with one, two direct requests held by the hardware, which do not pass
through the queue, already exceed the capacity of `QUEUE_SIZE + 1`.

**InterruptPath_proofs** (for every set of vectors in 16..127, threshold and
number of requests: `VectorAssumption`, `ThresholdAssumption`,
`RequestAssumption`). `IInv` is `TypeOK`, `CriticalSectionIsAtomic`,
`ContextIsProtected`, `FlagsAreRestored`, `SavedIsOn` (an activation saved flags
that were on, for it could not have been entered otherwise) and that a halted
processor has no activation. What the LAPIC and the latch do is left arbitrary
within their types: these theorems say that the software's discipline does not
depend on requests arriving in any order, which is why they hold for any number
of devices although requests may be lost. The stack of activations has any
depth; each action changes its top only (`SetTopIs`, `TopIs`). Theorems:
`TypesAreKept`, `CriticalSectionIsAlwaysAtomic`, `ContextIsAlwaysProtected`,
`FlagsAreAlwaysRestored`.

Three more theorems are about which vector is handled, and there the LAPIC matters
clock by clock; they too hold for any vectors, threshold and number of requests.
`UrgentTwoAlwaysNest` and `MostUrgentAlwaysRunsWhenAsked` rest on `TopInv`: an
open handler of the most urgent vector is the innermost one, in service, and nothing
is in the latch behind it (`MostUrgentAlone`); over an open handler of the second
only the most urgent is accepted or entered (`SecondBelow`); and the most urgent is in
the LAPIC only while it is owed or being ended (`ServedIsOwed`). A wrong EOI may take the most urgent out of
service; it is then owed and in no register, its device never asks again and
nothing can be taken over its handler. For the third vector and below the
corresponding statement is false, see section 4.
`OnlyRequestedHandlersRun` holds for any vectors and threshold under the
property's own hypothesis that requests do not meet: then at most one vector is
owed or in service, the latch announces it and the open activation serves it
(`LoneInv`).

**Keyboard_proofs** (for every ring of a power of two slots up to 256, every length
of line and number of keys: `RingAssumption`, `LineAssumption`). `IInv` is the types,
`ServiceIsAlive` (with `lost` for the interrupt that never comes), `EchoIsComplete`,
that characters go, handlers run for nothing included, through the controller's
buffer, the handler and the ring in the order of typing (`FifoIsInOrder`), that the
character read at the tail is still there when the tail moves past it
(`KeyIsAtTail`), that the echo does not run ahead of the line (`EchoIsBehind`) and
that the line is what editing makes of the characters consumed (`LineSoFar`).
`Edited` is recursive over the keys; what the proof needs of it is that it is
defined for every sequence and how it goes on by one key (`EditingExists`), which
is shown by the least length for which it fails, since induction over data is
out of reach. Theorems: `TypesAreKept`, `ServiceIsAlwaysAlive`, `LineIsAlwaysEdited`,
`EchoIsAlwaysComplete`, and `ImplementsBuffer`: the slice of the ring between tail
and head is the queue of `KeyBuffer`, `StoreKey` appends to it or drops the key,
`readInput` takes its first.

**NvmDriver_proofs** (for every length of the queues, every larger number of slots of
the controller, any number of commands and resets: `QueueLengthAssumption`,
`DeviceAssumption`, `BoundAssumption`; nothing is assumed of what the two sides
think of each other). `IInv` is in two parts. `Steady` holds always: types, what `NvmAccess`
knows at its places (`CallerKnows`), that Head is one ahead of Tail while a command is in
work (`CountersAgree`), and `AtMostOneRetires`, because the completion words in the
driver's queue are 0 and 2^17 (`CompletionIs`) and only 0 in slot 0 is recognised
(`RecognisedIs`). `Uncut` holds until a reset cuts a command. It joins the ring
(`RingHolds`, with `RoomFound` for the caller that has tested it) to the controller through slot 0:
work with the controller is the ring's (`WorkIsPending`); with both counters at 0
and the tail at 0 the command in work is the first in the ring (`FirstInWork`); so a
0 in `TAIL_Q[0]` is its completion, and it was carried out (`WaitingIsDone`).
`SlotIs`, `SlotsDiffer` and `SlotMoves` are the arithmetic of the ring. Theorems: `TypesAreKept`,
`AtMostOneEverRetires`, `OneIsAlwaysOutstanding`, `RingAlwaysHoldsPending`,
`RetiredAlwaysAsAsked`.

**TlbLru_proofs** (for every number of entries, every set of pages and natural
numbers as identifiers: `EntriesAssumption`, `PageAssumption`, `PcidAssumption`).
`IInv` is `TypeOK`, `AgesAreRanks` (the ages of the valid entries are distinct
and are the uppermost ones), `FreeIsZero`, `HoldsWalk` (an entry holds what a
walk of its page for its process gives) and `NoTwins` (no two valid entries
answer the same lookup). `PromoteKeepsAges` is the arithmetic heart: taking one
entry to the top and everything above it down by one keeps ranks ranks, for a hit
and for a replacement alike. `OldestIsZero` needs that a full table uses every
age, a pigeonhole argument over the entries. That the victim search finds
anything is `LeastExists`, that a finite, totally ordered set has a least
element, proved by counting predecessors because induction over sets is out of
the installed provers' reach. Theorems: `TypesAreKept`, `AgesAreAlwaysRanks`,
`VictimAlwaysHasAgeZero`, `NeverDoubleHit`, and `HitIsAlwaysTranslation` with
the hypothesis that no two identifiers in use agree in their low eight bits,
which the code needs too. `ImplementsLeastRecentlyUsed` is the refinement of
`LruCache`, without that hypothesis. The ages of the valid entries are as many as
the uppermost numbers they lie among, so by the pigeonhole argument every place of
the line belongs to an entry; taking one to the top is taking its place out of
the line and appending it, a write into the entry of age zero drops the first.

**Boot_proofs** (for every half width that is a multiple of 32, every source, mode
and sequence of assemblies: `HalfAssumption`, `RomAssumption`, `WordAssumption`,
`LinesAssumption`, `BatchAssumption`, `MapAssumption`, the sizes of the machine and
what the regular expressions let through). Four parts.

*The split.* `JoinedIsTarget`: the two halves of any address are joined again to
it, the upper one corrected exactly when the lower one is sign-extended to a
negative number. `SplitIsExact` is the same through `compute_hi_lo`, ROM labels
relocated; `CopyReaches` the displacement of `.start`. They rest on quotient and
remainder being unique (`DivMod`, `ModUnique`).

*Counting.* `AddressesCountWords` is inductive once it says of both data modes
what counts what (`RomCounts`, `RamCounts`): the address of the next word is the
number of words emitted, bytes that wait are counted by none. One lemma per helper
of the first pass (`EmittedCounts`, `FlushCounts`, `AlignedCounts`, `DataCounts` ...)
and one per kind of line.

*Encoding.* `AlwaysEncodedAsWritten` joins two arguments. One is about a word: a
field that could be read means what its argument says and fits its place
(`FieldMeans`), and the decoder cuts out of the sum of weighted fields what the
encoder put in (`FieldsCut`, `ThirdCut`), whatever the layout of the mnemonic
(`OperandsOf`). The other is about the two passes (`CodeInv`): every instruction
read so far waits under the number of its line and nothing else has that number
(`Traces`), `.start` is injected under no line, every label stands for a number,
and an assembly that ends with no error could encode all that waited. An operand
that names a symbol can only be the immediate of `LDI` or `ADI`, and the word then
holds the half of the address it stands for (`SymbolIsSplit`), so two instructions
with the halves of one expression join to its address whatever lies between them
(`PairJoins`, from `JoinedIsTarget`).

*Layout.* `AssemblyInv` holds in every state. There are three regions, the image,
`.data` and `.bss` (in ram mode all is image), and in the first pass, for
sources within the limits, every object already read lies in its region from
where its label says (`Placed`): label aligned (`LabelPlaced`), each line at the sum of
the sizes before it, with its bytes, its instruction or its expression there
(`LineAt`), objects one after the other (`Apart`), and what has been read of an object still open
ends where its region ends, so the next line, needing no padding, is its next (`Open`). A position in the image counts packed words and bytes that wait alike, so
that packing them moves nothing (`FlushGrows`). Each kind of line is one lemma
that it only adds to what there is and lays itself at the end (`LongEffect`,
`DataEffect`, `ZeroEffect` ...); what was placed stays, since images only grow
(`Grows`). After the first pass the layout is remembered as that of the image
before `.start` was injected (`Finished`), the labels of `.bss` moved behind `.data`.

**BootMemory_proofs** (the same assumptions). `MemoryIsWritten` is
`MemoryIsAsWritten` for every source within the limits and every machine. On top of
`AssemblyInv`: every word of the image is the encoding of its item (`ImageIs`),
labels are of objects or `.start` (`NamesInv`), every instruction is in the image
(`TracedInv`). `CpuInv` follows the processor: while it has not entered the
program it is at a place of the way from the reset vector (`OnTheWay`): in the
vector, loading the two bases, in the copy of word w with the first w
words of RAM written and nothing else (`Held`), in the jump, or on its way from the label
to the first instruction after it, where there is no code (`InWalk`). The vector
and the words of `.start` are decoded as the pipeline would (`VectorIs`, `StartItems`),
addresses joined by `SplitIsExact`, displacements by `CopyReaches`. At the entry all words
are held (`AllHeld`), and `MemoryHolds` reads each line of each object off the image or off
RAM. `BootTypes` is `TypeOK`: no fetched word has an operand that is not a
number (`EncodedIsInt`), so registers that hold a number hold an address, and the
program counter stays in the address space whatever the program does.

**PcieEnum_proofs** (for every unit of address, every board, every size of the table
and number of resets: `PageAssumption`, `BoardAssumption`). Nothing is said of how
`Boards` looks but that an endpoint is no bridge. `IInv` says that an enumeration
gives a port always the same bus number, its own, and the window that the room
of the ports before it decides (`First`, `Total`, `Up`), so registers of the time
before agree with the ones given out; that the walk is between two ports, below
one or just returned to one with the numbers that go with it (`Between`, `Below`,
`Returned`); and that at most one port lost its window to a full table
(`CutInv`). `AnswersOnce` and `ApartByUnits` follow: theorems
`AddressesAnswerOnce` and `WindowsStayApart`. `TableInv` adds the count of entries:
the shell starts only with a device behind each port, there an enumeration
records pairs, and so a table of an even number of entries is never full
between a port and its device. That gives `OneClaimantHolds` for boards whose
BARs fit below the configuration space (`WindowsFit`); with an odd table it is
false, as the mutant `RoomButOne` shows. `DevicesAreAlwaysReachable` needs no
such condition, because the addresses of the model do not wrap; of the code it
speaks where the BARs fit. `ReachInv` says of every port
once left that its entry is in the table, its BARs lie one behind the other from the
edge of its window and its window and bus number are its own, and that every later
enumeration writes the same again; the table holds nothing but bridges and those
entries. Its hypotheses are `TableIsEven`, `ClassesApart` (a device does not have the
class of a bridge) and `PagesEnd`: the hardware compares both ends of a BAR with "not
beyond", so a BAR that fills its last page also answers the first address of the
next one.

**Model-checked only.** Of the safety properties, `ReferencesResolve`: it speaks of the
program itself, that the pair of instructions the sources of the run all contain
leaves an address in R4 and what is there in R5, so it is about those sources and not
about every one. What it rests on is proved for every source: `AlwaysEncodedAsWritten` for the
address any such pair holds, `MemoryIsWritten` for what is found there. Liveness (`AcceptedIsShown`,
`PanicIsShown`, `LoneRequestIsHandled`, `KeysLeaveTheDevice`,
`BootReachesEntry`): fairness and ENABLED are
outside the prover's reach.

## 6. Not modelled

What characters look like and how text is formatted; the terminal's cursor and
DMA; sectors and data of the NVM; the LAPIC's timer (never programmed by the
BIOS) and the reading of its registers; the exceptions' causes and double
faults; several NVM devices; `readInput`'s early return with interrupts off
(the shell turns them on before).

Of the assembler: the text of lines, the listing, the command line, the window
and the calls of the C compiler, the table of names for several files
(`merge_asm_files` and `_rename_local_labels`, which nothing calls), and the bytes'
lanes in the ROM file. Of the enumeration: the `size` and printing of entries, the
`map_size` shown by the shell (after a reset it counts every device again), requests
from devices to memory.

Whole parts: `ToAscii`'s eight buffers and software division (`lib/*.c`), the
system calls (a table of one entry), pipeline hazards and bypass (instructions
execute one after the other in `Boot`), the memory arbiter, and the page walker's
faults. The first two are sequential library code; the others are circuits whose
function is spread over wires and whose correctness is about clocks, not about
steps of actors, and would be models of Logisim components more than of this
design. `MEM_V1.circ`, `main_combined.s` and the ROM images are superseded or
generated.
