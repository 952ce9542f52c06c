# Macintosh II core for MiSTer: a verification project in TLA+

The repository is the FPGA core of a Macintosh II: Verilog under `src/rtl`, a
top level `src/LBMacTwo.sv`, the MiSTer framework under `src/sys`, and around it
a Verilator bench (`src/verilator`) and test benches that run on a bare Mac
(`src/SingleStepTests/preboot`).  Its logic is
a few dozen small machines that share one clock, one memory and one processor
bus, and that talk to the outside (the HPS, the Linux side of the board) by
levels and edges.  What is difficult in it is not what a machine does but when:
two machines act in the same clock, a level outlives the command it belonged
to, an acknowledge comes after the question has changed.  These modules state
what the machines promise each other, TLC checks it on small instances, and
TLAPS proves the safety of it for all of them.

## The system

| Part (source) | State it keeps | What happens to it | What makes it correct |
|---|---|---|---|
| SCSI disk target (`rtl/scsi.v`) | phase, command block, byte counter, a ring of sectors with a fetch frontier, one flush in flight, an orphan guard | selection, REQ/ACK pulses, block fetches ahead of the initiator, flushes behind it, bus reset | every byte read is the disk's, every byte written reaches it, the ring is not overrun, status comes after the I/O, the bus is freed after a CDB that has an end |
| SCSI controller (`rtl/ncr5380.sv`) | mode and target registers, pseudo-DMA latches, ACK train, interrupt latch, deferred REQ | the CPU's pseudo-DMA cycles, register writes, CSR polls | no pulse lost or doubled whatever the widths, the interrupt comes once, after the last byte |
| Block device (`sys/hps_io.sv`, HPS) | the request it has taken, the acknowledge window | polls, streams a sector, collects one | external |
| Memory slots and SDRAM (`rtl/addrController_top.v`, `rtl/sdram.v`) | slot counter, sampled command, row, word read | video, processor and floppy/download slots in turn | a slot serves its own master |
| Processor bus (`rtl/tg68k/tg68k.v`, `LBMacTwo.sv`, `rtl/dataController_top.sv`) | bus state, strobes, turbo acknowledge, ownership of a slot, data latch | cycles of RAM, ROM and peripherals with wait states | each cycle is one access of an atomic memory |
| Parameter RAM (`rtl/rtc.v`, `LBMacTwo.sv`) | 256 bytes, a staging buffer, the load/save machine, dirty and pending flags | the Mac writes a byte, an image is mounted, the menu opens, "Reset PRAM & Core" | the image is the memory when nothing is marked; a reset is complete; a boot is released |
| Machine reset, download, RAM clear (`LBMacTwo.sv`) | release counter, `rom_loaded`, clear address, `ioctl_wait` | ROM download, clearing, menu and board reset | the processor starts on a complete ROM and cleared RAM |
| Bus error and fix-up (`LBMacTwo.sv`) | timeout counter, recorded fault address, armed substitution | undecoded cycles time out, a handler's RTE arms a value | a cycle nobody decodes faults; the value reaches the faulting read and no other cycle |
| Sound (`rtl/asc.sv`) | two 1024-byte FIFOs, pointers, counts, interrupt bits, four voices | CPU writes, the sample tick, reads that clear | every byte is played once, in order; what is written is followed by an interrupt |
| ADB (`rtl/adb.sv`, `ps2_*`) | transceiver state, command, response, keyboard queue | state lines from the VIA, PS/2 events | a command gets its response, no key is lost |
| VIAs (`rtl/via6522.sv`), serial (`rtl/scc.v`), floppy (`rtl/swim.v`, `floppy.v`) | registers, timers, interrupt flags, queues, tracks | CPU accesses, clocks, bytes from outside | flags are neither lost nor repeated |
| Decoder and HMMU (`rtl/addrDecoder.v`, `hmmu.v`) | none | pure functions of the address | one select at a time |
| Video cards (`rtl/nubus`) | timing counters, palette, VRAM | pixel clock, CPU accesses | - |
| Verilator bench (`verilator/sim_main.cpp`, `sim.v`, `sim/sim_blkdevice.cpp`, `sim/sim_bus.cpp`) | the bench's clock, a queue of files, ten drives with one delay counter, the reset | mounts, transfers, downloads, the menu's reset and load | the machine runs on whole files and known disks; a window moves its own sector |
| Results file of the bare-metal benches (`preboot/common/runtime/jsonl_writer.c`) | a batch, its use, the bytes written before it | characters, commits after each line, hangs and driver errors | a committed line is on the disk, nothing else is touched |

The parts meet in four places.  The CPU bus: every peripheral sees the same
cycle and one of them answers with DTACK.  The memory: three masters in fixed
slots.  The HPS: block requests (`sd_rd`, `sd_wr`, `sd_ack`), downloads
(`ioctl_*`), mounts and menu events.  The interrupt lines of the VIAs and the
SCC.  Vendored (processor kernel, MC68881, framework, user interface and waveform
libraries), generated and debug code is left aside; PROJECT.json gives the reason for each.

## Modules

A step of every module is one system clock.  A clocked block of the source is
an action or a conjunct of one, its nonblocking assignments are the primed
variables, and where the source assigns a register twice the later assignment
wins.  Wires are operators with the source's names.

**ScsiTarget** is the target of `scsi.v`: the phase machine (`PhaseFsm`), the
byte counter (`DataCount`), the fetch and flush engine (`BlockEngine`), the
frontier (`RingFrontier`), the two sector buffers (`SectorBuffer`) and the roles
of the beats of a written word (`BeatRole`).  A sector has `SectorBytes` bytes
(512 in the code), the ring `RingBlocks` sectors (32); the byte counter is a
record of a sector count and an offset.  Command blocks are values with an operation, a sector and a length.

**HpsDevice** is the device behind `hps_io`, as the target sees it: it takes a
request with the sector address of that moment, opens the acknowledge window
later, streams or collects the sector, closes the window, each at any delay.  A
window may close without data (the image is not attached yet).

**ScsiBus** composes the two with an initiator that moves single bytes, selects
and resets the bus at any clock.  **ScsiBusProofs** holds its proofs: types, counts, the
frontier, the order of status and I/O; then the ring and what reads serve; then the flush
engine and what writes leave.

**Ncr5380** is the controller: begin and end of pseudo-DMA cycles (`DmaCycles`),
the train of ACK pulses (`AckTrain`), the read path with its registers (`DataOut`,
`ReadPath`), `DmaEnable`, the interrupt (`EndOfTransfer`) and the deferred REQ
(`DeferredReq`).  **ScsiDma** composes it with the target, the device and a disk
driver: it programs the registers, moves the data in any mix of widths, turns DMA
mode off, sleeps, and polls for status and message.  **ScsiDmaProofs** proves its types,
counts and interrupt, **ScsiDmaDataProofs** extends it with the bytes read and written.

**Sdram** is the slot counter and the SDRAM controller: row and bank are sampled
at the slot's start, column, mask and data one phase later, and the word of a
read is there at the slot's end.  A location is a row and a column, so that an
address that moves between the two is a third location.

**CpuBus** puts the processor's bus in front of it: the wrapper's eight states
(`Phi1`, `Phi2`), the turbo acknowledge, the read handshake (`ReadOwner`,
`ReadDone`, `ReadHandshake`), the write handshake, and the other masters of the
slots.  Peripherals answer after any delay.  **CpuMemory** is its abstract
specification: a memory whose cycles begin, take effect once and end.  `CpuBus`
implements it with the chip's words as the store and the wrapper's data register as the
reply; `as_r` is the strobe register (`as` in the source).  **CpuBusProofs** proves that.

**PramStore** is the parameter RAM: port A (the Mac) and port B (the machine) of
the memory in `rtc.v`, the load and save machine of `LBMacTwo.sv` with an action per
state, its staging buffer, the reset pulse and the release of the Mac.  Two ports
that write one address leave either byte, and a read that meets the other port's
write returns anything: the code asks for `no_rw_check`.  **PramStoreProofs** holds the proofs.

**AscFifo** is FIFO playback of the sound chip: the rings with their one RAM port
(`Place_a`, `Memory`), pointers and counts (`Pointers`), the interrupt register
(`raised`, `Interrupt`) and the driver's bus cycles, which hold their strobes for
`Cycle` clocks and take a value in the last.  Where a tick, a write, a clear and a
status read meet in one clock the tick's assignments win, as in the code.
**AscFifoProofs** holds the proofs.

**BusTimeout** is how a cycle ends that no memory answers: the wrapper's states and E
clock, the acknowledges of the top level, and the counter that should raise a bus error.

**BenchLog** is the results writer of the bare-metal benches and the loop that feeds
it: `Putc`, `LineEnds` (`jw_commit_line`), `Flush`, and the driver below, which writes a
batch sector by sector, fails or never returns in front of any of them.
**BenchLogProofs** holds the proofs.

**SimBlockDevice** and **SimBus** are the block device and the file loader of the
Verilator bench as functions of their registers: one call of `BeforeEval` is the ten
visits of the drives in turn, or one word of a file.  **SimBench** composes them with
the bench's reset and with what `sim.v` adds to the core: release counter, download port,
floppy sizes, and SCSI targets that ask for sectors.  **SimBenchProofs** holds the proofs.

**MCScsi**, **MCDma**, **MCCpuBus**, **MCPram**, **MCBenchLog** and **MCSimBench** give
the constants their values; `AscFifo` and `BusTimeout` take theirs from the .cfg.

## Runs

| Run | Question | Instance |
|---|---|---|
| `scsi_read` | Do reads serve the disk through the prefetch ring, paced on the CSR's REQ, with a bus reset at any clock? | ring of 2, up to 3 sectors, 3 commands, 1 reset |
| `scsi_any` | Do the frontier and the order of status and I/O survive overlapping device work, empty windows and resets, in every class of command; do writes reach the disk, and only their sectors; does every dialog whose CDB has an end, end? | 2 commands, 1 reset, 1 empty window, one endless CDB, fairness |
| `dma` | Does the pseudo-DMA port move every mix of widths, and does the transfer end? | sectors of 4 bytes, 1 and 3 sectors, DTACK sampled up to 2 clocks late |
| `dma_odd_word` | May a written word start at an odd place? Its high byte is stored twice. | violation |
| `cpu_bus` | Is each RAM and ROM cycle one access of an atomic memory, and does it end? | 6 locations, two lanes, two data words |
| `pram` | Is a clean image the parameter RAM, is a reset complete, long enough and sure to come, is the boot released? | 2 words, 1 Mac write, 2 menu events, 1 mount |
| `asc_fifo` | Does a ring hold what was written, and do bytes written while `irq_n` is high make it fall, whatever meets the tick and however the driver polls? | channel A, ring of 4, a tick every 4 clocks |
| `asc_status` | Does the read that clears the interrupt register return it? It returns zero. | both channels; violation |
| `asc_play` | Is the byte played the oldest of the ring? It is the one the CPU's address points at. | both channels; violation |
| `bus_timeout` | Does a cycle nobody decodes end with a bus error? It ends with an acknowledge. | violation |
| `bench_log` | Is a committed line on the disk, and nothing else touched, wherever a test hangs or the driver fails? | 2 batches of 2 sectors of 2 bytes, 5 lines |
| `sim_bench` | Is the machine released on whole files and known disks, does every window move its sector and every request end? | 3 drives, 2 images, 4 files, 2 requests, 1 bus reset, 1 menu use |

**Why the bounds are enough.**  A ring of two sectors with transfers of three is
full, empty and wrapped around; two bytes make a sector have a first, a last and
a boundary, four are needed for a longword inside one.  Two commands are what an
orphan needs: the one it belongs to and the one it lands in.  `scsi_read` has no
overlap of commands (`Overlap = FALSE`): an orphan fetch that ends in the next
read moves that read's frontier past the ring, which is the subject of
`scsi_any` and of the guard.  In `dma` a unit stays inside its sector, because DREQ
covers the byte at the counter only, and a CPU begins its next cycle at least
two clocks after the last.  In `cpu_bus` two rows and three columns give every master an
address that differs from every mixture of two others; RAM and ROM exclude the
addresses whose top bits the wrapper decodes elsewhere.  In `pram` two words make the
packing of bytes and the counter's carry visible; the backstop may expire at any
clock, where the code counts 94 million.

In `asc_fifo` the driver is not bounded at all: a ring of four is half full, full,
empty and wrapped around, and a word every four clocks overtakes the tick.  Channel B
has the same logic and shares only the tick and the register; the two violation runs
have both.  `bench_log` fills the file to its last byte and beyond, with lines shorter
than a sector and longer than one.  In `sim_bench` the proportions of the code are assumptions:
`MountDelay` is a multiple of the number of drives, as 1200 is of ten, or an announcement
would be withdrawn by the wrong visit; the release takes longer (65535 ticks of four
clocks) than the 2000 clocks the disks wait and their mounts together.  The large internal
floppy of the instance overlaps the NuBus ROM's window (0x180000 lies inside
0x100000-0x1FFFFF) and overwrites it, as in `sim.v`; no property speaks of that ROM.

**Fairness.**  All liveness rests on the clock running (`WF_vars(Next)`).
Beyond it: the device completes what it has taken (the HPS polls for ever), an
initiator that sees REQ moves its byte, a driver goes on with what it has begun.
Selecting, resetting, mounting and menu events are never forced.  `cpu_bus` needs
nothing but the clock: the slots are the clock's.  `pram` also assumes that the RAM is
cleared and that the backstop expires, both counters of the code.  `sim_bench` needs the
bench's loop, `asc_fifo` the clock; the driver may stop at any time, or poll `$804` for ever.

**What the passing runs rely on.**  The initiator settles four clocks after a
pulse (`Settle`; the controller's train does); a driver follows the documented
order TCR, mode, start.  The raw turbo acknowledge of `CpuBus` already waits for a
processor slot at whose start the cycle was present, so the write handshake of the
top level never adds a wait in the model: `OwnedSlotInTime` holds with room to spare.

What they except is written into the properties.  No `cmd*_cpl` wire recognises a CDB of
group 3, 4, 6 or 7 (`scsi.v:802-813`): it is never complete, and the target keeps BSY and asks for
bytes in CMD_IN until the bus is reset, the wedge that the comment at 805-812 describes for group 5
before its repair.  `BusIsFreed` is about the other CDBs; the run has an endless one (`NoEnd`) among its
commands, so the dialog after the reset is seen to end, and all other properties are checked with it.  (Without
the exception TLC finds the target in CMD_IN with its byte counter at 15.)  In `scsi_any` the two properties of
writes hold until a bus reset only: the acknowledge window of an aborted fetch takes back
the request of a write that follows it (`io_wr` falls with any `io_ack`, `scsi.v:659`), which is then
lost with status OK.  In `asc_fifo` a write or clear in the very clock of a tick, or a
write to a full ring, ends the promise of `HoldsWritten` until the next clear: the write
pointer moves, the byte is not stored, or the pointers stay apart (`asc.sv:300`, 373-375,
446-450).  `AsksForMore` is about the edge of `irq_n`, which VIA2 samples every clock, and not about what a read
of `$804` returns: bytes written while `irq_n` is high are followed by an edge, whatever reads come
between.  Bytes written while it is low, an earlier event being unacknowledged, are not covered.  Their event
makes no edge, the read that acknowledges the earlier one clears both and, as `asc_status` shows, returns
zero: a driver that trusts the value waits for ever, one that refills at every interrupt does not.  In `pram` a Mac write in the middle of a save ends that of `CleanMeansSaved`:
the end of the save clears the mark the write has set (`LBMacTwo.sv:577`);
`RefusedIsLeft` is about a disk mounted at rest, `LateLoadReboots` about a Mac that ran before the mount
(the rest is below, among the divergences).  In `sim_bench` a request
that a bus reset abandons is followed by another only when the device has left it.  A
window in which the device stood still (the menu's reset zeroes the bench's clock) may carry
too many strobes, all of the same last word: the count of `WindowMoves` is a lower bound.  The running machine
does not eject a floppy (`sim.v:942-945`, 957-960), so `ReleasedReady` speaks of disks never ejected.
In `bench_log` the image sets aside exactly the writer's bound.  `iotest/build_dsk.sh:17` sets aside 16384 bytes
and `diskio_main.c:557` passes 32*1024, "same allocation as build_*.sh": a log longer than one
batch, which that bench does not write, would run into what follows the file.

## Proofs

Every safety property a passing run checks is a theorem.  The assumptions are those the modules name (`BusAssumption` and its
like) and the hypotheses written into a theorem, each of which is explained below.

### The SCSI target

`ScsiBusProofs` is about `ScsiBus`, for every sector size, ring depth, set of commands,
settle time above two clocks and bound:

- `TypeCorrect`: `Spec => []TypeOK`.
- `FrontierCorrect`: `Spec => []FrontierHolds`, "rd_hps_blk >= rd_cur_blk is
  invariant", on which the unsigned subtraction in `req_rd` rests.
- `CountsCorrect`: `Spec => []CountsAgree`.
- `StatusComesLast`: `Spec => []StatusAfterIO`.

`FrontierHolds` is not inductive.  The counter moves two clocks after ACK falls, so
a step that counts the last byte of a sector is safe only because its pulse began
when the sector had been fetched (`PulseIsServed`); a new read starts the frontier
at zero, safe only because the pulse of the last command byte is over by then
(`CommandEndsQuiet`), which needs pulses to be apart (`PulsesApart`), which is where
the settle time enters.  `FrontierInv` is the conjunction.  `CountInv` adds which phases a
command visits (`PhaseFits`), that the initiator's count is the target's or one pulse ahead,
by the stage of the pulse (`BytesMoved`), and that the bytes stay within the phase
(`InTurn`).  In `CountsAgree` a command without a data phase has nothing to move; the
register `data_len` may then hold anything.  `OwnerInv` relates the device to the
command it works for.

Of reads:

- `RingBounded`: `Spec => [](Exclusive => RingNotOverrun)`.
- `ReadsAreServed`: without empty windows, `Spec => [](Exclusive => ReadServesDisk)`.
- `FetchesStayInRange`: without empty windows, overlap and writes, `Spec => RequestsStayInRange`.

`Exclusive` says that no reset has happened, or that an initiator does not begin a command
while the device is at work on an older one.  Otherwise the fetch of an aborted read
ends in the next and moves its frontier: the ring then holds one sector less than the target
believes, and the code does not guard against it.  A window without data (`MaxEmpty`)
advances the sector address but not the frontier (`scsi.v:851` against 305-309), after which
the ring serves the wrong sectors: the theorems are about a device that has its image.  The argument:
between commands nothing is requested and a request is held until its window (`QuietInv`), hence one
fetch at a time and its sector is the frontier's (`RingInv`), hence it is written to a ring place that no
unread sector holds (`SlotsDiffer`, arithmetic modulo the ring), hence every sector between
counter and frontier is in its place (`ReadInv`).

Of writes:

- `WritesInRange`: `~Polled` implies `Spec => WritesStayInRange`.
- `WritesArrive`: `~Polled` implies `Spec => []WriteReachesDisk`.
- `RequestsInRange`: `~Polled`, no resets and no empty windows imply `Spec => RequestsStayInRange`.

`Polled` is an initiator that paces itself on the CSR's REQ; that REQ ignores the stall
for a write half still being flushed, and such an initiator overwrites it (`scsi.v:415`
against 391-393).  The real drivers write through the DMA port.  The invariants count
sectors: those flushed, the one in flight, the one pending and the half being filled
add up to the counter (`SectorsAddUp` in `FlushInv`), a half keeps its bytes until its flush has
collected them (`HalvesHold`) and the image holds what the finished flushes took (`ImageHolds`,
together `WriteInv`).

### The pseudo-DMA port

`ScsiDmaProofs` is about `ScsiDma`, for every mix of units, sector size, ring depth and length
of the pulses; `ScsiDmaDataProofs` adds what the bytes are:

- `DmaTypeCorrect`: `Spec => []TypeOK`.
- `DmaCountsRight`: `Spec => []DmaCountsAgree`.
- `IrqRight`: `Spec => []IrqMeansMoved`.
- `DmaReadsRight`: without empty windows and with `UnitsInside`, `Spec => []DmaReadsServeDisk`.
- `DmaWritesArrive`: with `UnitsInside` and `EvenWords`, `Spec => []DmaWritesReachDisk`.

`DriverAssumption` leaves the CPU one clock between two cycles (`MinGap`): the controller
recognises a cycle by the edge of its strobe.  `UnitsInside` keeps a unit in its sector, since
DREQ vouches for the byte at the counter only.  `EvenWords` keeps written words at even places; the run
`dma_odd_word` shows what happens at odd ones.  A driver that moves whole sectors by words and
longwords satisfies both.

`CountInv` keeps one sum: what the CPU has moved is what the target has counted plus the
pulses due (`Counts`), those of a cycle that has just ended and those the train has left; each clock
moves a pulse from one to the next.  `Train` and `Cycle` say how the controller's counters and
latches show which pulses those are.  `Interrupt` says in which
order phase match, completion and the driver's steps may be when the latch rises.
`DataInv` follows a byte from the image to the ring (`RingServes`, with one fetch at a time,
`OneFetch`), from the ring to the target's output, which lags a clock behind the counter (`Fresh`),
and on to the CPU, either half of a word (`Shown`, `Taken`).  For writes `CycleBytes` and `Beats` say which byte of
a word each stage of the train holds, `StoresCounted` that it is stored in the clock
in which it is counted; then the sectors are counted as for `ScsiBus` (`OneFlush`, `SectorsAddUp`, `HalvesHold`,
`ImageHolds`), and `Arrived` keeps the result after the status byte, which is when `DoneAnswered` lets
the driver be done.

### The processor bus

`CpuBusProofs` is about `CpuBus`, for every set of locations, words and wait states:

- `BusTypeCorrect`: `Spec => []TypeOK`.
- `SlotsComeInTime`: `Spec => []OwnedSlotInTime`; no handshake reaches its fallback.
- `WritesAreNotLost`: `Spec => []NoPhantomWrite`.
- `TargetsOnly`: `Spec => OnlyTheTargetChanges`.
- `Refinement`: `Spec => ImplementsAtomicMemory`, step by step: a step begins a cycle
  (`BeginsOne`), ends one (`EndsOne`), makes it take effect (`LandsOne`) or is a stutter.

`BusInv` ties the machines that share the slot counter together: where the wrapper may be in each
phase of a slot, that a cycle at rest leaves its marks down (`AtRest`), that a waiting cycle has
met few slot ends (the waits), that a slot marked as the processor's has latched the very
command on the bus (`Latched`), and that the word read or written is the one of that
command (`ReadWord`, `WriteWord`, `Replied`).  The abstract memory's store is the chip's
words, so the effect of a write is the clock in which the chip takes the column.

### Parameter RAM

`PramStoreProofs` is about `PramStore`, for every number of words, bytes, files, rate of the
clock enable, pulse and settle length, and every bound:

- `PramTypeCorrect`: `Spec => []TypeOK`.
- `ResetsAreTaken`: `Spec => ResetIsTaken`; the invariant says how many clocks of the pulse
  are left until the next `clk8_en_p` (`PulseCovers`).
- `LateLoadsReboot`: `Spec => LateLoadReboots`.
- `RefusedStay`: `Spec => RefusedIsLeft`.
- `CleanIsSaved`: `Spec => []CleanMeansSaved`.
- `ResetsErase`: `Spec => ResetErases`.

The machine's states are first put into one table (`MachineMoves`: each register's next value over
all thirteen states), which every later step uses.  `Handshake` says which state
may have which window of `hps_io` open and that its end is always seen.  The data follow the bytes through the
pipeline: from the image to the staging buffer (`Fetched`), from there to the memory
(`Stored`), from the memory to the buffer with its registered output and the packed low byte
(`Filled`), an erasure of both (`Cleared`), from the buffer to the image (`Saved`); `Agree` is
what is left of it at rest.  A byte written by the machine lands a clock later, so all of them
speak of the memory as it will have landed (`landed`), which is why `CleanMeansSaved` alone is not
inductive.  The attempt corrected one property: an image that is unmounted while its erasure waits for a window
is not erased, so `ResetErases` speaks of an image only if there is one.

### The results writer

`BenchLogProofs` proves about `BenchLog`, for every size of sector, batch and file, any
lines and any number of tests:

- `CommittedIsDurable`: `Spec => []LinesDurable`, "every JSONL line emitted before the
  hang is on disk".
- `PlacesAreRight`: `Spec => []NeverElsewhere`.
- `RewritingKeeps`: `Spec => NothingUnwritten`, an action property.

The invariant `LogInv` follows the stream from the test to the disk.  A batch begins at a
multiple of its size (`Aligned`: or the last batch would reach over the end of the file),
the next character's number is its place until the file is full (`InPlace`), the batch
holds the characters of its places and is padded while it is written (`BatchIsStream`), and
the file holds the batches left behind and the sectors written so far (`FileIsPrefix`).
`LinesDurable` alone is not inductive: a commit rewrites safe lines, and only `BatchIsStream`
says that it writes the same bytes.  `NothingUnwritten` follows from the last two.

### The sound chip

`AscFifoProofs` proves about `AscFifo`, for one channel or two, every size of ring, set of
bytes, rate of the tick and length of a bus cycle:

- `FifoTypeCorrect`: `Spec => []TypeOK`; the counts stay within the ring.
- `RingsHoldWritten`: `Spec => []HoldsWritten`.

`HoldsWritten` alone is not inductive: outside FIFO mode the CPU writes the ring's memory at
any place.  `OffIsEmpty` says that an undisturbed ring is empty then, since the write that
leaves FIFO mode clears it.  `FifoInv` is the conjunction.  The proof takes a clock apart into
what it does to one ring: the tick takes a byte (`DrainKeeps`), a write adds one
(`FillKeeps`), a clear empties it (`ClearEmpties`), or none of them (`IdleKeeps`); the lemmas about
places say that a ring's next free place is none of those in use.

### The Verilator bench

`SimBenchProofs` is about `SimBench`, for any number of drives, images, sectors and words, any
delays in the proportions of `BenchAssumption`, and every bound:

- `SectorsStayWhole`: `Spec => []NeverTorn`.
- `WindowsMove`: with `NoEmptyFiles`, `Spec => []WindowMoves`.
- `ReleasedOnReady`: with `NoEmptyFiles`, `ReleaseOutlastsQueue`, `BootRom` and `Layout`,
  `Spec => []ReleasedReady`.

A call of the device visits the drives one after the other, and the model writes that walk as a recursive
function.  `Walked` is the induction over it: an invariant of the walk is a set of pairs of a
device and the number of drives visited, and if every visit leads from the pairs at `k` to the
pairs at `k + 1`, a call leads from those at zero to those at `Drives`.  (The library's induction
theorems take an operator, which the provers cannot instantiate; a set serves as well, and
`LeastNat` takes its least counterexample.)  A property of a call is then proved about one visit, and a visit is
four steps, each with a lemma that says what it may change (`TransferMoves`, `MountMoves`,
`StartMoves`, `AcknowledgeMoves`).

`DiskInv` carries `NeverTorn`: the sector the device is at work on holds its first `bytecnt` words from the
new write and the rest from one older, and the word a target offers is the one at the address
driven (`Offered`).  It needs no timing at all.

`WindowMoves` does, since mounts and transfers share the delay counter: a request that met an unfinished
announcement would open a window without a transfer.  `TimeInv` says that this cannot
happen because the machine is still in reset.  It counts the calls of the device that are left until
all images are announced (`Left`, at most `Drives * (Rounds + 2)`) and bounds that number plus the
clocks until the disks start by the clocks until the release counter has run out
(`Unsettled`), except while a reset or a file is about to restart the counter (`Resets`,
`Pending`).  An empty file would break it, because it stops the device for a clock without
setting the counter back: hence `NoEmptyFiles`, which the ROMs and floppies of the bench satisfy.
Once everything is announced, `Settled` ties window, strobe and counter together, and `Windows`
says at each clock how many words of its sector a target has; inside a call (`Follows`) the
number depends on whether the drive has had its visit, because a strobe left by one visit is
taken by the target only after the last.

For `ReleasedReady`, `LoadInv` follows the startup files through the queue: the first `n` have
been taken, those that opened are in memory (`Loaded`), and the rest of the queue is what was queued,
in order, then the menu's files (`Queued`).  While one streams, its words up to the one on the port are in
memory (`Streaming`), and the counter stands at its start (`Held`).  Between two files the
counter runs, one clock for each file that does not open, and `Between` bounds their number by the
clocks it has left; a reset in the interval sets it back (`Resets`).  The hypotheses are about the
files: their number is below the release time (65535 ticks of four clocks), a ROM that opens is
among them (without one the bench lets the machine go on empty memory), and no later file overwrites an earlier one (`Layout`: floppies never, a ROM only by a ROM of the menu),
except the NuBus ROM, which a large internal floppy may.  The instance of `sim_bench` satisfies all of them.
The disks' part is `TimeInv`: a machine that runs is past `Unsettled`, so every image has been announced.

### Only model-checked

The liveness properties (`BusIsFreed`, `TransferEnds`, `CycleEnds`, `MenuResetComes`,
`BootIsReleased`, `AsksForMore`, `RequestsServed`) rest on fairness and ENABLED, which the
prover cannot do.

## Hazards and divergences

PROJECT.json lists at each line of the source what a test would hardly reach, with
the property that watches it.  Eight runs pass and four end in a counterexample,
each against a sentence of the code's own comments:

- `asc_status`: the read of `$50F14804` clears the register at the end of its first clock
  and the CPU takes the value in its last, so a driver that polls for a bit never sees it.
  This is what the parked note `docs/handoff_asc_sound_fifo_hang_2026-06-13.md` describes.
- `asc_play`: the RAM's output is registered, and the port points at the read pointer in
  the tick's clock only; the byte played belongs to the address of the clock before.
- `dma_odd_word`: a word written at an odd place of a transfer stores its high byte twice.
- `bus_timeout`: no cycle lives long enough to meet the 8 microsecond timeout.

More of the same kind were seen while modelling and have no run of their own:

- the window of an aborted fetch takes back a later write's request (above);
- after an acknowledge without data the next fetch is for the following sector (`scsi.v:851`
  against 305-309);
- the orphan guard, once set by a reset in the clock a fetch ends, swallows a later one
  (`scsi.v:645` against 632-633);
- a write paced on the CSR's REQ overwrites a sector that is still being flushed (`scsi.v:415`
  against 391-393), and the flush of a write aborted by a bus reset advances the next
  command's sector (`scsi.v:637` against 851);
- a Mac write during a save of parameter RAM is neither saved nor marked: the end of the save clears
  `pram_dirty`, "PRAM changed since last save" (`LBMacTwo.sv:577` against 446);
- a disk mounted into the slot after the menu opened or an erasure ended, and before the save's window, is
  written (524 and 572-575 against 483);
- whether a load is late is decided at the mount, not at its end, so one that spans the boot's backstop does
  not reboot the Mac (488 against 503-506 and `docs/handoff_pram_video_scsi_2026-06-11.md:143-145`);
- a CDB of group 3, 4, 6 or 7 holds the bus until a reset (`scsi.v:802-813`);
- the reserved size of an iotest log is half of what its writer is told (above).

## Plan

In this order, each with its run, mutants and, where it says so, proofs:

1. `BootLoad`: download, `ioctl_wait`, RAM clear and the release, composed with `Sdram`;
   every word cleared or downloaded once before the Mac is let go.
2. `BusError`: the recorded fault and the substitution, once a bus error can arise.
3. The sound chip's two channels together and a refilling driver that reads `$804` as the
   Mac's does, with what its interrupt handler makes of a zero.
4. `RtcSerial`: the serial engine under chip select, composed with `PramStore`.
5. `Adb`, then `Via`, `Scc`, `Swim`: the peripherals with interrupt flags.
6. `Decoder`: selects as functions, checked against a table of regions.
7. An abstract block service (a disk of sectors read and written by commands) implemented by `ScsiBus`.

## Not modelled

Data rather than control: the sample arithmetic of the sound chip, the floating-point unit,
the processor kernel, pixel formatting, the test corpora.  Outside TLA+: timing closure.
The interrupt, serial and floppy machines of the plan are control and still missing.  Bus errors do
not arise, so nothing arms the substitution; `nubus_arbiter.sv` is not in the top level.

Counted in lines, the C and C++ sources of the repository are nearly all vendored or user
interface: imgui, implot, stb, json.hpp and the waveform library are about 100,000 of 150,000
lines, and most of `sim_main.cpp` is traces and windows.  What carries logic of its own there is the
block device, the file loader, the bench's loop and the results writer, and those are modelled; the
core itself is Verilog.
