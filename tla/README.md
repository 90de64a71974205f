# A TLA+ model of VibePS

VibePS is an interpreter-based PlayStation emulator: the library `ps1-core`
(the machine) and the program `ps1-frontend` (a headless host).  This directory
models the parts of it that keep state over many steps, checks them with TLC on
small instances, and proves their safety properties, refinements included, with TLAPS
for every value of the constants.

Paths below are relative to `src/ps1-core/src/` unless they start with `docs/`.

1. [The system](#1-the-system)
2. [What is modelled, and how](#2-what-is-modelled-and-how)
3. [The runs](#3-the-runs)
4. [What disagrees with the documents](#4-what-disagrees-with-the-documents)
5. [What is proved](#5-what-is-proved)
6. [What is only model-checked](#6-what-is-only-model-checked)
7. [What is not modelled](#7-what-is-not-modelled)
8. [Plan](#8-plan)

## 1. The system

Everything runs on one thread.  `Ps1::step_one` (`lib.rs:65`) runs one
instruction, ticks every device by its cycles and then handles the due events:

    Ps1 --- Cpu::step ----> Bus::{fetch,read,write} ----> device registers
     |                        |                               |
     |                        +-- run_pending_dma (in the write that allows it)
     |--- Bus::tick --> Timers, Cdrom line, JoySerial, Spu --> I_STAT
     `--- Scheduler --> VBlank event ----------------------> I_STAT, Timers

There are no threads and no locks.  What interleaves is the **guest** (the main
program and the interrupt handler that may be entered between any two of its
instructions), the **devices** (each advanced by a step's cycles), and the **host**
(which plugs and pulls discs, cards and controllers, saves and resets between
steps).  Devices talk to the CPU through one level, `I_STAT & I_MASK`, sampled before
each instruction; DMA is carried out whole inside the register write that starts
it.

| Component | State | Operations | What makes it correct |
|---|---|---|---|
| CD-ROM controller, `cdrom.rs` | interrupt flags and queue, response, parameter and data FIFOs, position, read state | register bank 0-3, commands, acknowledge, byte and DMA reads, disc in and out | responses in order, one at a time, none stranded; sectors neither mixed, lost nor unannounced; a read goes on until it says that it ended |
| Interrupt controller, `interrupt.rs` | I_STAT, I_MASK | request, acknowledge, mask | a device's line up is a bit set, or one the guest cleared knowingly |
| CPU, `cpu/mod.rs`, `cpu/cop0.rs` | registers, pc and next pc, load delay, six delay-slot fields, status stack, EPC, Cause, TAR | one `step`: sample, fetch, execute, retire; exceptions | precise restart, delay slots, one-instruction load delay, returns to the interrupted mode |
| GTE, `cpu/gte.rs` | 64 registers, busy cycles | commands, moves | registers keep their widths, FLAG tells what was cut, quotients are close, readers wait |
| Memory cards, `joy.rs` | image, flag, dirty, command, step, address, buffer | one byte exchanged; deselection; save | sectors change whole or not at all, and the guest and the host learn of it |
| Serial port and pads, `joy.rs` | control, mode, baud, FIFO, byte and acknowledge timers, line, selection | register accesses, tick, plug and pull | every byte completes, interrupts reach I_STAT, the selection is of a device that is there |
| DMA, `dma.rs` and `bus/mod.rs` | seven channels, DPCR, DICR | register writes, transfers, completion | nothing ready is left waiting, priority, flags and line of completions |
| Timers, `timer.rs` | three counters with mode, target, divider, one-shot and toggle state | tick, blanking edges, accesses | exact counts, right number of interrupts |
| Main loop, `lib.rs`, `scheduler.rs` | clock, event queue | step, run, reset | one VBlank ahead at any time, the right rate |
| GPU, `gpu/mod.rs` | packet under collection, VRAM, words to read, draw state, GPUSTAT | GP0, GP1, GPUREAD | packet lengths agree with their handlers, transfers are exact, a primitive touches each of its pixels once |
| Bus and instruction cache, `bus/mod.rs` | RAM, scratchpad, cache words and tags | address decoding, line fill, isolated accesses | a fetch returns a word its address has held since the last flush, and never an older one than before |
| SPU, `audio/` | voices, RAM, transfer FIFO, interrupt flag and edge | register accesses, one sample per 768 cycles | one interrupt for each rise of the flag, uploads in place, ends reported, samples untouched |
| MDEC, `mdec.rs` | last word | stub | - |
| Test runner, `test_runner.rs` | - | steps until a pattern matches | as for the frontend |
| Frontend, `src/ps1-frontend/src/` | arguments, files, the machine | load, run, dump, save cards | nothing the guest saved is undone, the dump is the sound, the cue sheet's data track is mounted |

The hard behaviours are these.

* **Handshakes with many orders.**  A CD-ROM interrupt may be acknowledged in part,
  before or after I_STAT, with a new command or an eject in between; a DMA completion
  may come while an earlier one is unacknowledged; an acknowledgement of the serial
  port is ignored while the device still pulls /ACK.
* **Things that must go on by themselves.**  Streaming of sectors, the VBlank event,
  a byte on the serial port and a waiting DMA channel each have exactly one place that
  restarts them; losing it once stops them for good.
* **Dialogues broken off.**  A card write or a VRAM upload is a long sequence that
  a deselection, a reset or a removed device may end after any byte.
* **State carried over two instructions.**  Delay slots and delayed loads must
  survive, or be dropped by, exceptions at every point.
* **Shared memory.**  Voices, reverberation, captures, FIFO and DMA use one sound RAM;
  cached code and stores one main RAM with nothing that keeps the two coherent.
* **Files that fail.**  Any file operation of the host may fail, or the process end, with
  card images half saved.
* **Boundaries.**  Pregap, end of disc, sector 0x400, a baud rate of 0, an empty
  or an endless ordering table, odd pixel counts, wrapping rectangles.

`PROJECT.json` lists thirty-eight such hazards, each with its line and the properties
that would show it going wrong.

## 2. What is modelled, and how

Each component is one module.  The fields of the Rust struct are a record (or a
few variables), its methods are operators from record to record that are composed
in the order in which the code calls them, and each entry point of the guest, the
host or the main loop is one action.  Variables marked as observations
(`owner`, `seen`, `upload`, ...) exist for the properties; no guard reads them,
but for the bounds named `Max...`.  Operators with a comment that begins
`Faulty` are altered versions of the definition after them, with a bug such code
could have.  No specification uses them: they document that each property does
tell right from wrong.

**`Cdrom`** is the controller with all of its registers and commands.  `drive`
holds the fields of `Cdrom`; `QueueInterrupt`, `ActivateInterrupt`, `AckInterrupt`
and `QueueNextSectorIfReady` are the methods of these names.  A sector is
`SectorBytes` bytes, each named by LBA and offset, so that mixing or losing any
can be seen; a response is the status it carries and at most one item that stands
for the rest.  **`CdromMailbox`** is what the guest may rely on: an ordered mailbox
of replies of which only the oldest is visible, and into which a drive that
reads posts only when it is empty.  `Cdrom` implements it under the mapping `Mail`
(the flags, if any, followed by the queue), which is also proved.
**`CdromIrq`** puts the controller on the bus, with I_STAT (`Bus::tick`,
`bus/mod.rs:233`) and a guest whose handler acknowledges the controller and I_STAT
in either order; this part, being the guest's, is marked as external.

**`Cpu`** is one `Cpu::step` per action.  Opcodes are grouped by what they do to the
control state: plain writers, loads, merging loads (`lwl`, `lwr`), branches, jumps,
moves to coprocessor 0, `rfe`, traps and memory faults.  Addresses are numbers
modulo `AddrMod`, registers hold addresses, and what an ALU instruction writes is any
of `Values`.  The interrupt line is sampled at the start of each step and may have
any value.  **`RegisterView`** is the abstract register file: `now`, what the next
instruction sees, and `later`, what the one after it sees; a write is seen at once, a
load one instruction late, a merging load combines with the load before
it, and an exception between two instructions neither waits for the load in flight nor
loses it.  With `later` mapped to the load delay that is pending, every step of `Cpu` is a
step of it but one, an exception that finds a load in flight (section 4).

**`Gte`** is the geometry coprocessor with the widths of the code.  Registers are
unpacked and grouped by what they hold: a vector or colour is a function of an axis, a
screen point a record, FLAG the set of the names of its bits.  A command is an operator
from the register file to the next, made of the same small steps as the code's
(`SetMac`, `LimitIr`, `PushSxy`, `PushSz`, `PushColour`, `Divide`).  `busy` is the cycles a
reader must wait; `charged` and `latency` observe what the CPU was charged.  The
integers have no width where the code uses 64 bits; that this changes nothing is
`AccumulatorsTheorem`.  `Between(low, high)` stands for an interval: the provers reason
about bounds and would list `low..high`.  The module has no run, since TLC's integers have 32
bits and the sums of this coprocessor 44; it is written to be proved about.

**`ICache`** is the cache of the bus: `words` and `tags`, the register that enables it,
the isolation by the CPU, fills that start in the middle of a line, and stores by the CPU
and by DMA that go past it.  An address is a page, a line and a slot (`CacheAddresses`), and pages
above `RamPages` are mirrors.  A word is the number of the store that wrote it, so that
older and newer can be told apart.  **`StaleMemory`** is what a program that writes
instructions may rely on: for each address the set of words a fetch may return, which a
store enlarges, a flush reduces to what memory holds, and a fetch cuts to what is not
older than itself.  `ICache` carries that set and the last event along and implements
the abstract memory, which is also proved.

**`SpuVoice`** is one voice: the envelope with the rates of the code, its phases, and the block
position with loops, ends and key-on.  A block of ADPCM is its flags and one value.
**`Spu`** has all voices, the sound RAM, the transfer FIFO with its types of
arrangement, DMA in both directions, the capture buffers, the addresses of the
reverberator, and the interrupt flag with its edge, up to the bit of I_STAT that `Bus::tick`
sets.  `ProduceSample` runs these in the code's order, on which it depends what an interrupt
address sees first.  `With(x, F)` is `F` of `x` computed once; the stages of a sample
are chained with it.

**`CardProtocol`** is the card's side of the dialogue as operators;
**`MemoryCard`** one card with a host that saves and a guest that sends any byte
and breaks off at any; **`JoySerial`** the port, its timers, its interrupt, two
sockets and the pads, with the same `CardProtocol` behind them.  `Tick` has the three
counters of `tick` in the code's order, on which it depends which edges one tick
yields.

**`Dma`** has the registers and, in the same action, everything that a write sets off:
`WriteRegister` requests the interrupt on the edge of the write, then runs pending
channels as `run_pending_dma` does.  RAM is a few words, each either a node of a list
(size, next, end) or data.

**`Timers`** is one timer whose index is chosen at the start, as the code treats each
by its index; no operation of one timer touches another.  `Clocks` is
the loop of `tick`; `cycles` and `requests` observe what it was given and what it
asked for since the last mode write.

**`Ps1`** is the main loop: the queue is a set of dated events, and `StepOne` adds the
step's cycles, then pops and handles all that is due.  **`Frontend`** is the program around
it, on the same variables: `harness::run` as a sequence of phases (BIOS, cards, disc,
executable, files to open, tracing loop or test runner, end of the dump, saves, summary), each of
which may fail and each in the order of the code.  `report` is what the run has printed of its
outcome: the verdict of a test, before the dump and the saves, or the summary of the loop, after
them.  The process may be killed in any
phase and started again; a save that fails or is cut leaves the old file or a short one.
A card image is where it came from and the set of guest writes it has seen; a sample is its
number, so the dump can be compared with what was produced.  Command lines are records
(`ArgSets`), a cue sheet is a sequence of lines and `ParseCue` a fold over them.  A host that
embeds the library and calls `run_cycles` and `reset` is the phase `embedded`, in which `Ps1`
alone steps.

**`Raster`** is which pixels a primitive touches: `Covers` for a triangle with the rule
for top and left edges, `LineStep` for one turn of the loop that draws a line, and
rectangles.  **`Gpu`** is the GP0 stream (collecting, uploading, collecting a polyline or
idle) with the lengths the parser waits for and, separately, the indices the handlers
read, transcribed from the code of each, and the transfers between CPU and VRAM
with wrapping and mask bits.  A drawing command paints the pixels that `Raster` says,
within the drawing area and as far as the mask lets it; colours are abstracted to the one
bit that matters, whether a texel is transparent.

Every definition that stands for code is in the `map` of `PROJECT.json` with its
lines.

## 3. The runs

Each `MC` module only gives values to constants, but for two that join instances: `MCDevices` has
those of the DMA controller, a timer and a card, `MCCpuCache` those of the interpreter and the
cache.  Nothing passes between the joined models, so one of them is chosen at the start and
runs alone.  "Cycles", "bytes" and sizes are scaled down; the code compares them with each other and with zero, and the bounds keep
these cases: a step shorter and longer than a divider, a FIFO that overflows, a
sector that is read to its end.

| Run | Asks | Bounds, and why they are enough |
|---|---|---|
| `cdrom` | all properties of the controller alone, in every order of commands, partial acknowledgements, reads and disc changes | sectors of two bytes (first and last are different), discs of one and two sectors (a read ends, or goes on), positions in the pregap and on the disc, three queued interrupts (a second command's replies behind the first's).  `MaxQueued` bounds commands issued without acknowledging.  Commands that only report are left to `cdrom_irq` |
| `cdrom_irq` | line against I_STAT, and that all is delivered in the end | all commands, three in a row; deadlock is not checked since the guest may have nothing left to do |
| `cpu_cache` | control flow, restart, delayed loads, returns; that the cache is stale memory and no worse | Interpreter: four addresses with one unmapped, one register beside `$0`, one misaligned value: branches in slots, faults in slots, interrupts between load and use and nested handlers all occur.  Cache: two pages and a mirror of the first, all on one line of four words; two stores (an old word and two newer ones of the same cell, or one of each of two); every fill, every tag of a flush or with two valid words |
| `spu` | interrupt, ends, uploads, reach of writes, silence | two voices of which one is captured, a RAM of 18 half words with units and captures of two, blocks of two units, a FIFO of two, ticks of less and of more than a sample, two commands of the guest on top of three setups: a looping sound with the interrupt armed, a sound that ends under the reverberator and the manual transfer, and a curved envelope with a half word queued.  The setups replace long sequences of register writes, so that two commands are enough for a race with a sample |
| `joy` | completion, selection, interrupt | two ports, FIFO of two bytes, three bytes sent (the select, the command and one more of a poll or a card dialogue; an overflow of the FIFO), a poll whose last switches are its first answer and whose last axis is the second, so that a digital pad and a DualShock part within three bytes, rates 0 and 2.  The checksum of a card is not reached and any function does for it; the card's dialogue is covered by `devices` |
| `devices` | waiting channels, flags, line, table; exact counts and requests; atomic writes, answers, checksums, flags | DMA: GPU and ordering-table channels, three words of RAM, tables that are shorter and as long as RAM, a list that never ends (`NodeGuard` for the 0x20000 of the code).  Timers: counters modulo 3 for 2^16, dividers 2 and 3, steps of one and four cycles, nine cycles, i.e. several periods of every mode; without synchronisation every mode of the CPU's clock that interrupts for one reason, and repeated interrupts for both reasons and on the slow clock; with it each gate under a one-shot target.  Card: two sectors of two bytes; addresses of both, the next one and far beyond; dialogues up to the step after the last answer; one write to the image between saves.  A panic is an end, and the only one |
| `frontend` | card files, dump, cue sheets, VBlanks | a frame of six cycles and steps of two to four, five steps, a sample every three cycles, an output queue of three and a drain buffer of two (so that the test runner overflows the queue, the loop leaves a rest, and one step makes a whole buffer), three guest writes, two starts of the process, six command lines that combine the options, both ports on one file among them; all cue sheets of up to three lines, and all three-line ends of sheets that begin with an audio track.  Embedded, runs shorter than, equal to and longer than a frame with resets between them.  Deadlock is not checked: the program ends |
| `gpu` | packets, uploads, downloads, pixels | a VRAM of two by two pixels of one bit (the mask), every class of packet length, rectangles of one to four pixels that wrap at both edges, polylines of up to three words; eight sets of corners that are tilted, flat, crossed, too large, of either winding, and lines in every kind of slope.  What a shape touches is compared in a box around it, also outside VRAM |
| `card_bad_sector` | the statement of section 4 on invalid sectors | as the card of `devices`; deadlock is not checked, since a panic is an end |
| `cpu_load_lost` | the statement of section 4 on loads | as in `cpu_cache`, without unmapped addresses and with only the operations it takes: a move to Status that enables interrupts, a load, an ALU instruction, `rfe` |
| `frontend_unsaved`, `frontend_dump` | the statements of section 4 on card images and on the dump | as in `frontend` |

What the properties say, run by run:

* **`cdrom`** - `NoStrandedInterrupt`: nothing waits behind clear flags.
  `ReadNeverStalls`: a drive that reads has a sector or an interrupt that will
  make it go on.  `DataIsTailOfLastSector`: the data FIFO never mixes or
  outlives sectors.  `MailboxSpec`: refinement.  `SectorKeptUntilTaken`,
  `ReadsAreReported`: no access loses a sector, loads one in silence, or ends a
  read in silence.
* **`cdrom_irq`** - `LineAndStatusAgree`: while the line is up the bit is set, and the bit
  without the line comes only from the handler that clears I_STAT first, which is
  one spurious interrupt.  `EverythingDelivered`: liveness, see below.
* **`cpu_cache`** - `FlowIsConsistent`: the slot fields say what the program order says.
  `RestartPoint`: EPC, BD, BT and TAR of every exception, except in the slot of a
  branch that is itself in a slot, where EPC is the instruction before, as in the
  code, which need not be the branch.  `DelayIsKept`: each step is a step of
  `RegisterView`, or an exception that drops the load in flight.  `RfeReturns`: a return
  restores the interrupted enable through two levels.  `MemorySpec`: refinement of `StaleMemory` by the cache.
* **`spu`** - `InterruptIsOwed`: every rise of the flag reaches I_STAT once or was withdrawn.
  `EndedVoicesAreReported`: a voice that fell silent by itself has its bit in ENDX.
  `UploadLandsInPlace`: what is queued in the FIFO lands in order where it was aimed.
  `SamplesAreSafe`: sound RAM changes only in the captures, where a transfer passed, and in
  the reverberator's area while that is enabled.  `ReleasedFallsSilent`: liveness,
  of a voice the guest leaves alone from some time on, as it does here when its commands
  (`MaxWrites`) are used up: one that sets the level or keys the voice off again in every sample
  holds it above silence.  `UploadLandsInPlace` excepts an upload whose address DMA moves or the
  guest sets anew.
* **`joy`** - `PendingHasTime`, `SelectionIsSound`, `IrqIsLatched`.
* **`devices`** - of the DMA controller: `NothingReady`, `FlagsAreOwed`, `IrqIsLatched`,
  `TableIsAList` (the table of channel 6, read as channel 2 would read it).  Of a timer:
  `CountsExactly` against a closed form, `RequestsFit` against a count of the events.  Of a card:
  `WriteIsAtomic`, `ResultIsTruthful`, `ReadIsVerifiable`, and `FlagsCoverChanges` (the dirty flag
  covers all that the saved image lacks).
* **`frontend`** - `SavedAtTheEnd`: a run that came to its end, or printed the summary of the
  loop, has saved its cards; the verdict of a test promises nothing.  `NoWriteIsUndone`: no
  run, failing or killed anywhere, puts an older image, or a fresh one, in the place of a card.
  `WavIsComplete`: the dump of the loop is the sound in order, that of a test the last samples,
  as many as the output queue holds, and the header agrees.
  `CueMountsDataTrack`: the parser of cue sheets against a definition of what a sheet
  means.  `FrameRate`: VBlanks keep their rate up to one overshoot each.
* **`gpu`** - `PacketsAreRead`, `UploadIsExact`, `RoundTrip`, and `ShapesAreWhole`: a polygon
  touches each pixel within it once, a quad's diagonal included, and a line
  follows its course to its end.

**Fairness.**  Two modules assume any.  `CdromIrq`: weak fairness of the handler, as the CPU
steps for ever and enters and leaves the handler while I_STAT has the bit, and weak
fairness of draining a data FIFO that holds data, which is the guest's part of
reading.  The controller itself has no action of its own; that it never needs one is
the point of `EverythingDelivered`.  `Spu`: time passes for ever again, since
`Ps1::step_one` ticks the bus after every instruction; what the guest does meanwhile is free.
The other modules state safety only: every
step of theirs is an access or a tick, and what must go on by itself is stated as an
invariant that the next step will find its work (`PendingHasTime`, `NothingReady`,
`OneVBlankAhead`, `ReadNeverStalls`).

## 4. What disagrees with the documents

Four runs are there to be violated; each checks a sentence of the documents.

* `card_bad_sector`: docs/concepts/controllers-memory-cards.md:17 claims
  "invalid-sector responses".  A guest that goes on after the 0xff of an invalid read
  makes `exchange_read` index beyond the image (`joy.rs:286`), and the program panics.
* `cpu_load_lost`: ARCHITECTURE.md:77 and docs/concepts/cpus.md:11 claim a "One-instruction
  load delay".  An interrupt is taken at the start of the step after a load
  (`cpu/mod.rs:73`), before line 109 takes the pending load, and `raise_exception` clears
  `load_delay` (line 685): the load is dropped, and EPC names the instruction after it, so that it is
  not repeated either.  `ViewSpec` is the promise, the refinement of `RegisterView`;
  `DelayIsKept` of `cpu_cache` says that nothing else breaks it.
* `frontend_unsaved`: README.md:73 says that "existing raw images are updated with writes made by
  emulated software".  An error of the trace or the dump ends the run before the cards are saved
  (`harness.rs:72`, 96, 100, 104, 107), in a test after its verdict was printed (line 70).
  `RunsUpdateImages` is the promise; `SavedAtTheEnd` and `NoWriteIsUndone` of `frontend` say what holds.
* `frontend_dump`: README.md:75 says that "`--audio-dump PATH` streams the SPU's native 44.1 kHz stereo
  signed-16 output".  Under the test runner nothing takes samples from the output queue until the
  test has stopped (`harness.rs:69`), and the queue drops its oldest: the dump is the last
  second of the sound.  `DumpStreams` is the promise; `WavIsComplete` of `frontend` says what holds.

Noted on the way:

* docs/concepts/gpu-command-flow.md:25 has GP1 track the display mode.
  `sync_display_mode_status` clears bits 0x0075c000 (`gpu/mod.rs:928`), which lacks bits 17
  and 19: a resolution once set stays in GPUSTAT.  It also clears bit 15.
* Where both ports name one card file, each mounts its own copy and the second port's image
  replaces the first's; `SavedAtTheEnd` and `NoWriteIsUndone` except that.
* An ordering table of length 0 writes one entry, not 0x10000; a timer in pulse mode leaves
  bit 10 of its mode low; the VBlank signal rises and falls within one call, so timer 1 never
  counts in synchronisation mode 2; `set_hblank` is called by tests only.
* Of a vector command without the shift the GTE checks another number for the saturation
  flag of IR than the one it clamps (`limit_ir`), so `UnflaggedIsExact` leaves the rotating
  commands out in that mode.

## 5. What is proved

The modules named `...Proofs` hold the proofs, which `tlapm` checks to the last leaf with
Z3, Zenon and LS4: for every value of the constants that satisfies the assumptions named
below, where a run has a small one.  Every safety property of every passing run is among them.
Eight modules hold theorems; `Iteration` has the lemmas about loops that four of the others
rest on.

**`Iteration`.**  The loops of the code are recursive functions in the models
(`f[n \in 0..N] == IF n = 0 THEN start ELSE step[f[n - 1]]`).  What such a loop computes needs
induction, and the library's theorems of induction take an operator as parameter,
which the installed provers cannot instantiate.  `SetInduction` says the same of sets: a set
that holds 0 and, with each number, the next, holds every number; it follows from the least element of a
set of numbers (`LeastElement`).  The set of the n at which a loop is as it should be is such a set.  From it:
`IterationExists` (a function so defined has the values its definition says),
`IterationStays` (what each round keeps, the loop keeps), and the facts about quotients
and remainders on which rings, counters and dividers rest (`RemainderAdds`, `RingPlace`,
`RingIndex`, `RemaindersDiffer`, `DivisionGrows`).

**`CdromProofs`**, from `CdromAssumption` (sizes are naturals, a sector
and an address space are not empty, masks are masks) and, for the last theorem,
`MaxCommandsAssumption`:

| Theorem | Statement |
|---|---|
| `InvCorrect` | `Spec => []CdromInv` |
| `TypeCorrect` | `Spec => []TypeOK` |
| `NothingStranded` | `Spec => []NoStrandedInterrupt` |
| `ReadsNeverStall` | `Spec => []ReadNeverStalls` |
| `DataIsSound` | `Spec => []DataIsTailOfLastSector` |
| `SectorsAreKept` | `Spec => SectorKeptUntilTaken` |
| `ReadsReported` | `Spec => ReadsAreReported` |
| `ImplementsMailbox` | `Spec => MailboxSpec`, the refinement of `CdromMailbox` |
| `LineMeetsStatus` | `IrqSpec => []LineAndStatusAgree` |

None of the three invariants is inductive by itself.  That a read never stalls
needs that no response is stranded, since the acknowledgement that clears the flags starts
the next sector only if the queue is empty; that the FIFO is a tail of the last
sector needs that a disc is there whenever it holds data; and all need the ranges
of `TypeOK`.  `CdromInv` is `TypeOK` and `Good(drive)`, which joins them.  As the
commands are compositions of a few operators on drives, the proof is one lemma for
each operator ("from a good drive to a good drive", and, for operators that leave a
drive in the middle of a command, what they still owe), and one step for each action.
The two action properties follow the same composition with two more predicates: an operator
is `Quiet` if it loads no sector and ends no read, and `Tells` if, when it does, the
interrupt that says so is in the flags or last in the queue.  The delicate step is the
DMA read, which pops the FIFO four times: a pop that loads a sector leaves flags behind
(`PopTells`), so that no later pop of the same read loads another.

For the refinement, `MailOf` of a drive is its mailbox: the flags at the front, then the codes
of the queued responses.  The proof follows each operator to what it does to that sequence: queueing an
interrupt appends to it, a command appends its answers, a sector is streamed only to an
empty mailbox, and an acknowledgement clears bits at the front and, when none is left,
brings the next response forward.  It needs `CdromInv`, since only a drive on which nothing is
stranded has an empty mailbox when its flags are clear.

`LineMeetsStatus` is about the controller on the bus.  A new response may come forward in the middle of the
handler, so that `LineAndStatusAgree` holds at its end only because of what
the handler still has to do: `PlanFits` says which remainders of it are possible, and which of them still
acknowledge I_STAT.

**`CpuProofs`** is about the interpreter, the instruction cache and the geometry coprocessor.  The
first rests on `CpuAssumption` (the address space is a multiple of four, `$0` and the
link register are registers and different, words, targets and vectors are addresses,
displacements are integers, statuses are statuses).  Nothing is assumed of which programs
run: the addresses whose fetch fails, the opcodes, and the codes of traps may be any.

| Theorem | Statement |
|---|---|
| `InvariantHolds` | `Spec => []CpuInv` |
| `CpuTypes` | `Spec => []TypeOK` |
| `FlowStaysConsistent` | `Spec => []FlowIsConsistent` |
| `ExceptionsRestart` | `Spec => RestartPoint` |
| `ReturnsRestoreEnable` | `Spec => RfeReturns` |
| `DelayKept` | `Spec => DelayIsKept`: each step is one of `RegisterView` or drops the load in flight |
| `ImplementsView` | `Spec /\ [][~LoadIsDropped]_vars => ViewSpec`: what drops no load refines `RegisterView` |

`FlowIsConsistent` does not say where a branch stands, so it cannot show that EPC
minus four is that branch; `OwnerInv` adds that the slot of a branch which is not
itself in a slot directly follows it.  `RfeReturns` speaks of a program two handlers away;
`HandlersInv` adds that the second and third enable of Status are those of the handlers
in progress, which a new exception shifts and a return shifts back.  `CpuInv` joins both with
`TypeOK` and `FlowIsConsistent`.  The proof follows the code: lemmas about the operators an
instruction is composed of (`SetReg`, `SetLoad`, `Branch`, `Raise`, `Retire`), then for each
instruction where it goes and what it writes, then for each action that it is `Good`,
which is all four promises at once: the invariant, a restart point, a return, and a step of
the view or a dropped load.  `LoadIsDropped` is an exception between instructions that finds a load
in flight, and the condition of `ImplementsView` says that there is none: the view is
refined up to the disagreement of section 4 and no further.  `WrapBack` is the one arithmetic fact: four back from four on, modulo the address
space.

The cache rests on `CacheAssumption` and `TouchedAssumption` (there is a page, a
mirrored page and a line, and the addresses and segments a program uses exist):

| Theorem | Statement |
|---|---|
| `CacheIsVisibleTheorem` | `CacheSpec => []CacheIsVisible` |
| `MemorySpecTheorem` | `CacheSpec => MemorySpec`, the refinement of `StaleMemory` |

`CacheIsVisible` says that what memory holds and what the cache would return are both in the
set of visible words; with the types it is inductive (`CacheIInv`).  A fill is the interesting step: it
makes words valid for addresses nobody has fetched, and those show what memory holds at
that moment; the words of the old page on the same line are no longer reached by any tag.
The refinement then shows for each action that it is the promised event.

The coprocessor rests on no assumption:

| Theorem | Statement |
|---|---|
| `RegistersTheorem` | `GteSpec => [](GteTypeOK /\ ErrorIsSummary)` |
| `LatencyTheorem` | `GteSpec => []LatencyIsCharged` |
| `UnflaggedTheorem` | `GteSpec => UnflaggedIsExact` |
| `AccumulatorsTheorem` | the sums of every command stay within 2^44 of zero, so the code's 64 bits lose nothing |
| `DivideTheorem` | the unsigned subtractions of the division do not go below zero and its index stays in the table |
| `DivideIsClose` | the quotient is within 5 units of its last bit |
| `IrgbReadsBack` | a colour written through IRGB is read back from ORGB |
| `NclipIsOrientation`, `ProjectedNclipIsExact` | NCLIP computes the number by which `Raster` orients a triangle, and of projected points it fits its register |

The invariant is `IInv`: the registers have their widths, ERROR is the summary of FLAG, the
cycles are naturals, and what was charged covers the latency.  Each setter keeps the
registers (`Registers`), touches one row and flags it when it cuts (`KeepsRows`, `Exact`); a command
is a composition of setters, so each has one lemma, `Done`, that joins these.  For the division, an
entry of the table times the scaled depth differs from 2^24 by at most 2^16, one
refinement squares that relative error, and the rest is rounding.

**`DeviceProofs`** is about the DMA controller, the timers and a memory card.  The DMA controller
rests on `DmaAssumption` (channels are numbers up to 6, sizes positive, registers have their fields, and
`MaxRuns`, the bound on the transfers one write may start, is at least the number of channels):

| Theorem | Statement |
|---|---|
| `TypeCorrect` | `Spec => []TypeOK` |
| `NothingStaysReady` | `Spec => []NothingReady` |
| `FlagsTellWhatIsOwed` | `Spec => []FlagsAreOwed` |
| `EveryCompletionIsLatched` | `Spec => []IrqIsLatched` |
| `TableLeadsToItsEnd` | `Spec => []TableIsAList` |

`run_pending_dma` is a loop that ends because each transfer leaves fewer channels ready, for
which the proof is by induction over their number (`RunPendingDmaEnds`).  That the others stay as
they should, transfer after transfer, is `GoodMachines`; a register write joins them in
`BecomeKeeps`.  The table is followed by induction over its entries (`TableStands`): an entry is not
written twice as long as the table is no longer than RAM (`EntriesDiffer`), and the walk of the list
of channel 2 then visits each once.

The timers rest on `TimersAssumption` (a counter has at least two values, dividers are positive):

| Theorem | Statement |
|---|---|
| `TimerInvHolds` | `TimerSpec => []TimerInv` |
| `CyclesAreCounted` | `TimerSpec => []CountsExactly` |
| `EventsAreRequested` | `TimerSpec => []RequestsFit` |

The closed forms of the properties speak of cycles since the mode was written; the code keeps
a counter and a rest of cycles.  `TimerInv` ties them: the rest is the cycles modulo the divider, and
after n clocks the counter, the line and the number of requests are what n says (`Stands`).  One
clock carries `Stands` from n to n + 1 (`Carries`), the loop of `tick` carries it on, and two ticks
divide together as one does (`DivisionAdds`).  For a one-shot timer, `fired` and the
requests agree in every mode of the clock (`OneShot`).

The card rests on `CardAssumption` (sizes positive, commands and answers distinct bytes, the image has
its size, and the exclusive or of two bytes is a byte):

| Theorem | Statement |
|---|---|
| `CardProgress` | `CardSpec => []CardInv` |
| `SectorsAreWrittenWhole` | `CardSpec => []WriteIsAtomic` |
| `WritesAreReported` | `CardSpec => []ResultIsTruthful` |
| `ReadsAreVerifiable` | `CardSpec => []ReadIsVerifiable` |
| `FlagsAreHonest` | `CardSpec => []FlagsCoverChanges` |

The properties look back over a whole dialogue, which the card itself does not keep: it has a
step, an address, a buffer and a running checksum.  `Progress` says what these are as functions of
the bytes sent: in step with their number, the address made of the two that carry it, the
buffer of those after it, the checksum that of address and buffer, the image as it was before the dialogue
until a sector is stored.  Each byte of a read and of a write keeps that (`ReadMoves`, `WriteMoves`,
`ByteKeeps`).

**`Ps1Proofs`**, from `Ps1Assumption` (a frame and the cost of a step are positive, run lengths
are naturals; a step may even be longer than a frame):

| Theorem | Statement |
|---|---|
| `InvCorrect` | `Spec => []IInv` |
| `OneVBlankAlways` | `Spec => []OneVBlankAhead` |
| `FramesHaveVBlanks` | `Spec => []EveryFrameHasVBlank` |
| `FrameRateKept` | `Spec => []FrameRate` |

`IInv` names the time t of the one queued event and says that t is ahead of the clock by
at most a frame (`Ahead`), that it is at least `(vblanks + 1) * Frame` and at most the
accumulated overshoot later (`OnTime`), and, for a run in progress of at least a frame, that either
a VBlank has come since it began or t is no later than its end (`InRun`).  The last part is what makes `EveryFrameHasVBlank` inductive.

The program around the machine also needs `FrontendAssumption` (command lines and sheets have their fields; the
samples that one step makes fit the drain buffer, and with the rest of a buffer the output queue):

| Theorem | Statement |
|---|---|
| `FrameRateInEveryRun` | `FrontendSpec => [](FrameRate /\ OneVBlankAhead)` |
| `EndedRunsHaveSaved` | `FrontendSpec => []SavedAtTheEnd` |
| `FilesNeverGoBack` | `FrontendSpec => NoWriteIsUndone` |
| `DumpHoldsTheSound` | `FrontendSpec => []WavIsComplete` |
| `DataTrackIsMounted` | `FrontendSpec => []CueMountsDataTrack` |

The first is `IInv` again, which every phase keeps.  For the cards, `CardInv` follows them through a
run: mounted from its file (`CardsMounted`), never behind it (`CardsAhead`), in it once its save is past
(`SavedSoFar`); that the summary is printed last is `SummaryIsLast`.  For the sound, `SoundInv` names how many samples were taken from the queue, `a`: the queue holds those
from `a` on, the dump those before, and neither has a gap.  The loop leaves less than a
buffer behind, the test runner all that the queue could hold.  For the cue sheet, `SheetRead` says by
induction over the lines what the parser has found in them so far: the last file, the track that
is open, and the first data track that got its index; the definition in `CueMountsDataTrack`
names lines, not a state, and the two meet at the end of the sheet.

**`GpuProofs`**.  About pixels, for all points and with no assumption:

| Theorem | Statement |
|---|---|
| `SeamPaintedOnce`, `SeamHasNoGap` | of two triangles on either side of an edge, not both have a pixel of it, and one of them does if it is within their other edges |
| `QuadPaintedOnce` | a quad whose two triangles lie on either side of its diagonal touches no pixel twice |
| `ShadesStayBetween` | an interpolated component lies between those of the corners |
| `LineStarts`, `LineStaysOnCourse`, `LineArrives` | a line begins on its course, each turn of the loop keeps it there, and after as many turns as the longer distance it is at its last pixel |

The first three rest on `Edge` changing its sign with the orientation and on `OneOwner`: of the
two sides of an edge, the rule for top and left edges gives it to exactly one.  The course of a line is `OnCourse`: after n turns the pen is n steps along
the longer direction, and the error term is within half a step of the
exact line, which leaves one pixel in the other direction.

About the command stream, from `GpuAssumption` (sizes positive, words and corners have their types):

| Theorem | Statement |
|---|---|
| `PrimitivesAreWhole` | `Spec => []ShapesAreWhole` |
| `WordsFitPackets` | `Spec => []PacketsAreRead` |
| `UploadsArrive` | `Spec => []UploadIsExact` |
| `UploadsComeBack` | `Spec => RoundTrip` |

`ShapesAreWhole` compares what is drawn with a definition that does not orient triangles or walk
lines: a pixel is within a polygon if it is on one side of all edges, and a line follows its course if
it is close to it.  `WholeTriangle`, `WholeQuad` and `WholeLine` show it of every triangle, of every quad that is
convex, and of every line, wherever their corners are, unless the code drops them as too large; `EdgeMeans` is the identity that decides of which triangle of a quad a pixel can be: what any line says of a
pixel is the mean, weighted by the edges, of what it says of a triangle's corners.  A line is followed by
induction over its turns.
`GpuInv` is the types, `Ready` (what is collected is a command that has words to wait for),
`exact`, and two parts about transfers.  `Remembered` says that VRAM is what it was before the upload with the
words received so far in their pixels, each where its index puts it and nowhere else, since two indices less
than the area are different pixels of the ring, the rectangle being no wider and no higher than VRAM.
`Underway` says that an upload in progress is at the index of the words it has received.
The words left to come end the packet with the last pixel, and a download after it reads the same places in the same order.

**`SpuProofs`**, from `SpuAssumption` and `VoiceAssumption` (there is a voice, the captures fit RAM, the FIFO is
smaller than RAM, units and setups have their types):

| Theorem | Statement |
|---|---|
| `RisesAreOwed` | `Spec => []InterruptIsOwed` |
| `EndsAreReported` | `Spec => []EndedVoicesAreReported` |
| `SamplesStaySafe` | `Spec => SamplesAreSafe` |
| `UploadsLand` | `Spec => UploadLandsInPlace` |

A tick is any number of samples, and a sample is a flush of the FIFO, a loop over the voices, the
captures and the reverberator.  `Goes(s, t)` is what all of them keep from s to t: registers that the guest
owns, the interrupt (no rise without a pending edge), voices (a voice that falls silent is reported), the
FIFO (flushed or untouched), RAM (written only where it may be), and what was queued (it landed).  It is
transitive (`GoesOn`), so each stage needs one lemma, and the flush, the voices and the samples one
induction each.  `SpuInv` joins the types (`Shape`) with `InterruptIsOwed`, `KeyedAreReported` (which, unlike
`EndedVoicesAreReported`, also says that a voice keyed on and not off is never in its release) and `UploadIsKnown`.

**`JoyProofs`**, from `JoyAssumption` (the delay and the pulse of /ACK, the size of the FIFO, the
prescaler, the cycles of a bit and of a step are positive; the baud rate is a natural, zero included;
control words have their fields; the switches of a poll come before the axes):

| Theorem | Statement |
|---|---|
| `InvCorrect` | `Spec => []JoyInv` |
| `BytesEnd` | `Spec => []PendingHasTime` |
| `SelectionTheorem` | `Spec => []SelectionIsSound` |
| `NoEdgeIsLost` | `Spec => []IrqIsLatched` |

`JoyInv` joins the three with the types of the registers and sockets.  The part that needs them
all is a byte that ends: it may select a device, which rests on DTR being up, may
raise the line, which must report its edge, and leaves nothing in flight.  `Carries` says
all three of one part of `tick`, and the parts are composed as in the code.  Nothing is
assumed of what a byte or a card holds.

## 6. What is only model-checked

* `EverythingDelivered` of `cdrom_irq` and `ReleasedFallsSilent` of `spu`: liveness under fairness
  is not within reach of the prover, nor is `ENABLED`.
* `NeverPanics`, `ViewSpec`, `RunsUpdateImages` and `DumpStreams`, which the runs of section 4
  refute; of `ViewSpec`, `ImplementsView` proves what is left of it.

Every other property of the runs is a theorem.  Three limits of these theorems:

* Of the functions by which a module abstracts data, a proof knows what the assumptions say.  `BitXor` is
  any function on bytes, so `ReadIsVerifiable` is about the sum that the code forms and not about which
  errors such a sum finds.
* The exceptions that a property names are not proved: `NoWriteIsUndone` and two ports
  on one file, `RestartPoint` and a branch in the slot of a branch, `UploadLandsInPlace` and
  an upload over which captures or the reverberator write.
* The bounds named `Max...` are parameters, so a theorem holds for every one of them, however large, as
  far as the assumptions allow.

`Gte` has no run, as section 2 says: it is proved only.

## 7. What is not modelled

* **MDEC**: a stub in the code.
* **Address decoding**: a table without state.  The scratchpad and the registers that only
  hold what was written go with it.
* **CPU**: coprocessor 2 moves and what ALU instructions compute.
* **GTE**: the packing of two halves into a register word and the two reserved registers
  (23, which keeps what is written, and 29, which is ORGB): `Gte` has the unpacked values.
* **SPU**: what ADPCM decodes to, volumes, pitch modulation, noise, the mixer and the
  values of the reverberator, none of which decides where or when anything is read
  or written.
* **GPU**: colours, texture lookup, blending and dithering; the drawing area and offset are
  set once; the display registers, GPUSTAT, and GPUREAD answers other than pixels.
* **Serial port**: which buttons are pressed and where the axes stand; every such answer is one value.
* **CD-ROM**: the parameter queue is its length; the values of its bytes are chosen when a
  command takes them, and every command takes them all.
* **Main loop**: `load_psx_exe`, which sets registers and memory once.
* **Frontend and test runner**: the parsing of arguments, the texts of traces and reports, how
  a verdict is read off the machine (any is possible in the model), the detection of raw sectors by
  file length, and the saturation of WAV sizes at 32 bits.

## 8. Plan

Done, in this order: `Cdrom` with `CdromMailbox` and `CdromIrq`; `Cpu` with
`RegisterView`; `MemoryCard` and `JoySerial` over `CardProtocol`; `Dma`; `Timers`;
`Ps1`; `Gpu`; `Spu` over `SpuVoice`; `ICache` over `StaleMemory`; `Frontend` over `Ps1`; `Raster`;
`Gte`; proofs about all of them.

Next, models: the coprocessor 2 moves of `Cpu` with the waiting of `Gte`; GPUSTAT and the
display registers.

Next, proofs:

1. `CdromIrq`: that the controller goes on delivering needs a measure which every round of the
   handler lowers.  That it does is safety and within reach, unlike `EverythingDelivered` itself.
2. `Spu`: in the same way, that the level of a released voice falls by every step of its envelope.
3. An abstract transfer for `Gpu`, a rectangle that fills word by word, which `Remembered` and
   `Underway` already map to; and an abstract port for `JoySerial`.
4. `BitXor` with what makes a checksum find an error (`BitXor(BitXor(a, b), b) = a`), and that a card
   stores no sector in which one byte was altered.
