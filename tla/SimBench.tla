------------------------------- MODULE SimBench -------------------------------
(***************************************************************************)
(* The Verilator bench around the core: verilate() of                      *)
(* verilator/sim_main.cpp calls the block device and the file loader       *)
(* before every rising clock, and the top level verilator/sim.v takes      *)
(* their words, holds the machine in reset meanwhile and lets its SCSI     *)
(* targets ask for sectors.  The menu may reset the bench, or queue        *)
(* another ROM, at any clock.                                              *)
(*                                                                         *)
(* One step is one rising clock: the two callbacks in their order, then    *)
(* every always-block with the values they left.                           *)
(***************************************************************************)
EXTENDS SimBlockDevice, SimBus

CONSTANTS
  InitialReset, Boot, \* clocks the bench holds reset (48) and the disks wait (2000)
  Release,            \* 8 MHz clocks between the last reason for reset and its end (65535)
  BusResets, MenuUses \* bounds

VARIABLES
  main_time, dev, bus,                     \* the bench: its clock, disks and loader
  slot,                                    \* busCycle and busPhase of the core
  reset, rst_cnt, n_reset,                 \* machine reset
  ioctl_wait, dio_write, dio_old_cyc,      \* the core's download handshake
  mem, old_down, inserted,                 \* what was loaded, and the drives' floppies
  capacity, q, target,                     \* targets: image size, their I/O, the one on the bus
  requests, resets, loads, busResets       \* bounds

coreVars  == <<slot, reset, rst_cnt, n_reset>>
dioVars   == <<ioctl_wait, dio_write, dio_old_cyc, mem, old_down, inserted>>
scsiVars  == <<capacity, q, target, requests, busResets>>
vars == <<main_time, dev, bus, coreVars, dioVars, scsiVars, resets, loads>>

Files == {Startup[k] : k \in 1 .. Len(Startup)} \cup Menu

ASSUME BenchAssumption ==
  /\ {InitialReset, Boot, Release, Requests, BusResets, MenuUses} \subseteq Nat
  \* the 8 MHz enable comes while the bench holds reset
  /\ InitialReset \in 5 .. Boot
  \* the disks are announced before the machine runs
  /\ 4 * Release > Boot + Drives * (MountDelay \div Drives + 2)
  \* an image is a floppy by its size: it has one index
  /\ \A k, j \in 1 .. Len(Startup) : Startup[k].index = Startup[j].index => k = j

--------------------------------------------------------------------------------
(* The core, sim.v *)

clk8_en_p     == slot % 4 = 3
dioBusControl == slot \div 4 = 2

MachineReset ==
  IF ~clk8_en_p THEN UNCHANGED <<rst_cnt, n_reset>>
  ELSE /\ rst_cnt' = IF reset' \/ bus'.download THEN Release
                     ELSE IF rst_cnt > 0 THEN rst_cnt - 1 ELSE 0
       /\ n_reset' = (~reset' /\ ~bus'.download /\ (n_reset \/ rst_cnt = 0))

\* The word windows of memory, in half megawords: the NuBus ROM's lies in the
\* internal floppy's and is written over by a large one
Base(i)     == CASE i = ROM -> 0 [] i = NuBus -> 3 [] i = Internal -> 2 [] i = External -> 4
HalfMega    == 2
place(i, k) == Base(i) * HalfMega + k

\* The words of memory the files take
Cells == UNION {{place(f.index, k) : k \in 0 .. f.words - 1} : f \in Files}

\* ram_we while a word is driven: every clock writes it again
DownloadPort ==
  /\ mem' = IF bus'.download /\ bus'.wr
            THEN [mem EXCEPT ![place(bus'.index, bus'.addr)] = bus'.dout] ELSE mem
  /\ dio_old_cyc' = dioBusControl
  /\ dio_write' = IF dioBusControl THEN dio_write ELSE ioctl_wait
  /\ ioctl_wait' = ((ioctl_wait \/ bus'.wr) /\ ~(dio_old_cyc /\ ~dioBusControl /\ dio_write))

\* A floppy drive holds a disk when the last address fits its size.  The running
\* machine may eject it again (diskEject, sim.v:942-945, 957-960); here it does not.
sizeFits(b) == \E f \in Files : f.index = b.index /\ b.addr + 1 = f.words
FloppyDrives ==
  /\ old_down' = bus'.download
  /\ inserted' = IF old_down /\ ~bus'.download /\ bus'.index \in {Internal, External}
                 THEN IF sizeFits(bus') THEN inserted \cup {bus'.index} ELSE inserted \ {bus'.index}
                 ELSE inserted

--------------------------------------------------------------------------------
(* The SCSI targets.  q[d] is what a target has outstanding: nothing, a     *)
(* request (sd_rd or sd_wr), or an open window, or the clock it ended in.   *)

asks(op)   == {d \in Used : q[d].st = "asked" /\ q[d].op = op}
deviceSees == Request(asks("read"), asks("write"), [d \in Used |-> q[d].lba],
                        [d \in Used |-> q[d].q_a])

\* img_mounted brings the size of one image to its target
Capacities == capacity' = [d \in Used |-> IF d \in dev'.img_mounted THEN dev'.img_size ELSE capacity[d]]

\* mutant: a strobe is taken outside the target's own window
BufferAny(d) == IF dev'.buff_wr THEN [q[d].buf EXCEPT ![dev'.buff_addr] = dev'.buff_dout] ELSE q[d].buf
Buffer(d) == IF dev'.buff_wr /\ d \in dev'.sd_ack /\ q[d].st # "idle"
             THEN [q[d].buf EXCEPT ![dev'.buff_addr] = dev'.buff_dout] ELSE q[d].buf

\* The strobes of a window, counted with saturation; the request goes with the
\* first clock of it.
Target(d) ==
  LET ack == d \in dev'.sd_ack /\ q[d].st # "idle"
  IN [q[d] EXCEPT
        !.st  = CASE @ = "asked" /\ ack -> "window" [] @ = "window" /\ ~ack -> "done"
                  [] @ = "done" -> "idle" [] OTHER -> @,
        !.buf = Buffer(d), !.q_a = q[d].buf[dev'.buff_addr],
        !.fill = IF ~ack THEN IF q[d].st = "window" THEN @ ELSE 0
                 ELSE IF dev'.buff_wr /\ @ < 2 * Words - 1 THEN @ + 1 ELSE @]

Quiet == /\ q' = [d \in Used |-> Target(d)]
         /\ UNCHANGED <<target, requests, busResets>>

\* One target is on the bus.  The machine selects it when it runs; what it has
\* begun to serve it goes on asking for, the machine in reset or not.
Ask(d, op, l) ==
  /\ requests < Requests /\ requests' = requests + 1
  /\ \A e \in Used : q[e].st = "idle"
  /\ capacity[d] # None /\ (n_reset \/ target = d) /\ dev.current_disk # d
  /\ q' = [e \in Used |->
             IF e # d THEN Target(e)
             ELSE [st |-> "asked", op |-> op, lba |-> l, write |-> requests', fill |-> 0,
                   q_a |-> Target(d).q_a, buf |-> IF op = "write" THEN image(d, l, requests')
                                                             ELSE Target(d).buf]]
  /\ target' = d /\ UNCHANGED busResets

\* The machine resets the SCSI bus: the target forgets, the device does not
BusReset ==
  /\ busResets < BusResets /\ busResets' = busResets + 1
  /\ n_reset /\ \E d \in Used : q[d].st \in {"asked", "window"}
  /\ q' = [d \in Used |-> [Target(d) EXCEPT !.st = "idle", !.fill = 0]]
  /\ target' = None /\ UNCHANGED requests

--------------------------------------------------------------------------------
(* The bench *)

\* What the menu did since the last clock
Nothing    == UNCHANGED <<resets, loads>>
ResetSim   == resets + loads < MenuUses /\ resets' = resets + 1 /\ UNCHANGED loads
LoadRom    == resets + loads < MenuUses /\ loads' = loads + 1 /\ UNCHANGED resets

\* The reset line follows the bench's clock, which stays at its last
\* interesting value
Reset(t) == /\ reset' = CASE t < InitialReset -> TRUE [] t = InitialReset -> FALSE
                          [] OTHER -> reset
            /\ main_time' = IF t <= Boot THEN t + 1 ELSE t

\* Is it the device's turn in this clock?
DeviceRuns(t) == t >= Boot /\ ~bus.download

Clock(t, queued) ==
  /\ dev' \in IF DeviceRuns(t) THEN BeforeEval(dev, deviceSees) ELSE {dev}
  /\ bus' = LoaderStep(queued, ioctl_wait)
  /\ Reset(t) /\ MachineReset /\ DownloadPort /\ FloppyDrives /\ Capacities
  /\ slot' = (slot + 1) % 16
  /\ \/ Quiet
     \/ \E d \in Used, op \in {"read", "write"}, l \in Lba : Ask(d, op, l)
     \/ BusReset

Tick      == Nothing /\ Clock(main_time, bus)
MenuReset == ResetSim /\ Clock(0, bus)
MenuLoad  == \E f \in Menu : LoadRom /\ Clock(main_time, QueueDownload(bus, f))

Init ==
  /\ main_time = 0 /\ dev = DeviceInit /\ bus = LoaderInit
  /\ slot = 0 /\ reset = FALSE /\ rst_cnt = 0 /\ n_reset = FALSE
  /\ ioctl_wait = FALSE /\ dio_write = FALSE /\ dio_old_cyc = FALSE
  /\ mem = [p \in Cells |-> word(NoFile, 0)]
  /\ old_down = FALSE /\ inserted = {}
  /\ capacity = [d \in Used |-> None]
  /\ q = [d \in Used |-> [st |-> "idle", op |-> "read", lba |-> 0, write |-> 0, fill |-> 0,
                          q_a |-> image(d, 0, 0)[0], buf |-> image(d, 0, 0)]]
  /\ target = None /\ requests = 0 /\ resets = 0 /\ loads = 0 /\ busResets = 0

Next == Tick \/ MenuReset \/ MenuLoad

Spec == Init /\ [][Next]_vars

\* The bench's loop runs; the menu, the machine and its resets are free.
FairSpec == Spec /\ WF_vars(Nothing /\ Clock(main_time, bus))

--------------------------------------------------------------------------------
(* Properties *)

\* Once the machine runs every file that opens is in memory whole, every
\* floppy is seen in its drive, and every image is announced with its own
\* size; only a ROM the menu has just queued may still be loading.  (The
\* bench's comment: "wait for ROM download to complete before releasing
\* reset"; the disks are announced through one counter and one size.)
InMemory(f) == \A k \in 0 .. f.words - 1 : mem[place(f.index, k)] = word(f, k)
Opened(i)   == {f \in Files : f.opens /\ f.index \in i}
loaderIdle  == bus.queue = <<>> /\ bus.file = NoFile
ReleasedReady ==
  n_reset =>
    /\ loads = 0 => loaderIdle
    /\ loaderIdle => \E f \in Opened({ROM}) : InMemory(f)
    /\ \A f \in Opened({Internal, External}) : InMemory(f) /\ f.index \in inserted
    /\ \A d \in Used : capacity[d] = d

\* When the window of a read ends, the target has counted no fewer strobes
\* than a sector has words and its buffer holds the sector it asked for; when
\* the window of a write ends, the image holds what the target was given.
\* Another drive's transfer, requests abandoned at a bus reset and a pause of
\* the device in the middle (menu reset or load) make no difference.
WindowMoves ==
  \A d \in Used : q[d].st = "done" =>
    IF q[d].op = "read" THEN q[d].fill >= Words /\ q[d].buf = dev.disk[d][q[d].lba]
                        ELSE dev.disk[d][q[d].lba] = image(d, q[d].lba, q[d].write)

\* A sector of an image the device is not at work on holds the words of one
\* write, its own, each in its place.
NeverTorn ==
  \A d \in Used : dev.current_disk # d =>
    \A l \in Lba : \E n \in 0 .. requests : dev.disk[d][l] = image(d, l, n)

\* Every request is answered or abandoned.
RequestsServed == \A d \in Used : q[d].st = "asked" ~> q[d].st = "idle"
=============================================================================
