-------------------------------- MODULE CpuBus --------------------------------
(***************************************************************************)
(* A bus cycle of the processor: the wrapper rtl/tg68k/tg68k.v around the  *)
(* TG68K kernel, the slot-owned read and write handshakes of LBMacTwo.sv,  *)
(* and the memory slots and SDRAM controller of Sdram, which the processor *)
(* shares with the video fetch, the floppy fetch and the download.         *)
(*                                                                         *)
(* The kernel is any program: at each of its steps it asks for the next    *)
(* access or for none.  A peripheral answers when it likes, which sets the *)
(* processor adrift from the slots.  Everything is clocked together; a     *)
(* step is one clock of clk_sys, which the processor's phi1 and phi2 use   *)
(* in turn.                                                                *)
(***************************************************************************)
EXTENDS Sdram

CONSTANTS
  Ram, Rom,   \* what the processor reaches
  Video,      \* the frame buffer the video fetch reads
  Disk,       \* the floppy images, in the same chip
  Data,       \* the words a program writes
  Images,     \* what the download leaves in the chip
  Io          \* a place of the peripherals

VARIABLES
  access,  \* what the kernel asks for: kind, place, direction, lanes, data
  addr,    \* the wrapper's address register: kind and place
  s_state, as_r, wr, ds, \* state, strobes (ds is a set of lanes), and whether it writes
  din_r,   \* the word the wrapper has latched for the kernel
  other,   \* the access of the other master of this slot
  turbo_dtack_en,
  sdram_slot_cpu_rd, cpu_sdram_rd_done, cpu_rd_wait, cpu_data,
  sdram_slot_cpu_wr, cpu_sdram_wr_done, cpu_wr_wait

cpuVars  == <<access, addr, s_state, as_r, wr, ds, din_r>>
readVars == <<sdram_slot_cpu_rd, cpu_sdram_rd_done, cpu_rd_wait, cpu_data>>
writVars == <<sdram_slot_cpu_wr, cpu_sdram_wr_done, cpu_wr_wait>>
vars     == <<busPhase, busCycle, sdramVars, cpuVars, other, turbo_dtack_en, readVars, writVars>>

ASSUME PlacesAssumption ==
  /\ Ram \cup Rom \cup Video \cup Disk \subseteq Location
  /\ Ram \cap Rom = {} /\ (Ram \cup Rom) \cap Disk = {}
  /\ Io \in Location \ (Ram \cup Rom \cup Disk)
  /\ Data \subseteq Word /\ Data # {} /\ Images \subseteq [Location -> Word]

aWord == CHOOSE w \in Data : TRUE

\* Reads take a whole word; what a write carries is in its lanes.
Read(k, l)        == [kind |-> k, loc |-> l, write |-> FALSE, lanes |-> Lanes, data |-> aWord]
Write(k, l, b, d) == [kind |-> k, loc |-> l, write |-> TRUE, lanes |-> b, data |-> d]
NoAccess          == [kind |-> "none", loc |-> Io, write |-> FALSE, lanes |-> {}, data |-> aWord]

Access ==
  {NoAccess, Read("io", Io)} \cup {Read("ram", l) : l \in Ram} \cup {Read("rom", l) : l \in Rom}
  \cup {Write("ram", l, b, d) : l \in Ram, b \in (SUBSET Lanes) \ {{}}, d \in Data}
  \cup {Write("rom", l, Lanes, d) : l \in Rom, d \in Data}

-----------------------------------------------------------------------------
(* Wires *)

selectRAM == as_r /\ addr.kind = "ram"
selectROM == as_r /\ addr.kind = "rom"
cpu_sdram_rd_cycle == (selectRAM \/ selectROM) /\ ~wr
cpu_sdram_wr_cycle == (selectRAM \/ selectROM) /\ wr

\* What the arbiter hands to the controller in this clock.  The slots of the
\* other masters belong to the video fetch, which may be blanked, and to the
\* floppy fetch or the download; an unused one shows the processor's address.
Command ==
  IF cpuBusControl
  THEN [oe |-> cpu_sdram_rd_cycle, we |-> selectRAM /\ wr, addr |-> addr.loc,
        lanes |-> ds, data |-> access.data]
  ELSE [oe |-> other.op = "read", we |-> other.op = "write",
        addr |-> IF other.op = "none" THEN addr.loc ELSE other.addr,
        lanes |-> Lanes, data |-> other.data]

cpu_rd_addr_match == dout_addr = Command.addr
cpu_rd_take       == cpu_rd_addr_match \/ cpu_rd_wait >= 4

\* DTACK of a RAM or ROM cycle waits for the slot that did the work.
ram_or_rom_dtack ==
  /\ ~(cpu_sdram_rd_cycle /\ ~cpu_sdram_rd_done)
  /\ ~(cpu_sdram_wr_cycle /\ ~cpu_sdram_wr_done)
  /\ turbo_dtack_en

\* The word the processor sees.
memoryDataIn == dout
cpuDataOut == IF sdram_slot_cpu_rd /\ slotEnd /\ cpu_rd_take THEN memoryDataIn ELSE cpu_data

-----------------------------------------------------------------------------
(* The always-blocks *)

idle == access.kind = "none"

\* mutant: the lanes of a write open one state late
laneStateLate == IF access.write THEN 5 ELSE 1
\* The state in which the lanes open
laneState == IF access.write THEN 3 ELSE 1

\* phi1: the wrapper starts a cycle at state 1, opens the lanes of a write at
\* state 3, and lets the kernel go on from state 7 or when it asks for nothing.
Phi1 ==
  /\ s_state' = IF idle THEN 0 ELSE IF s_state = 4 THEN 4 ELSE (s_state + 1) % 8
  /\ as_r' = (as_r \/ (s_state = 1 /\ ~idle))
  /\ wr' = IF s_state = 1 /\ ~idle THEN access.write ELSE wr /\ s_state # 7
  /\ ds' = IF ~idle /\ s_state = laneState THEN access.lanes ELSE ds
  /\ IF s_state = 7 \/ idle THEN access' \in Access ELSE UNCHANGED access
  /\ UNCHANGED din_r

\* phi2: the wrapper waits for DTACK in state 4, and ends the cycle in state 6.
Phi2(dtack) ==
  /\ s_state' = IF idle THEN 0 ELSE IF s_state # 4 \/ dtack THEN (s_state + 1) % 8 ELSE 4
  /\ IF s_state = 6 THEN din_r' = cpuDataOut /\ ds' = {} /\ as_r' = FALSE
                    ELSE UNCHANGED <<din_r, ds, as_r>>
  /\ UNCHANGED <<wr, access>>

Processor(dtack) ==
  /\ addr' = [kind |-> access.kind, loc |-> access.loc]
  /\ IF busPhase % 2 = 0 THEN Phi1 ELSE Phi2(dtack)

TurboDtack ==
  turbo_dtack_en' = (as_r /\ (turbo_dtack_en \/ (busPhase = 0 /\ cpuBusControl)
                            \/ ~(selectROM \/ selectRAM)))

\* mutant: the wait counters run on
WaitOn(n) == n + 1
Wait(n)   == IF n >= 4 THEN n ELSE n + 1

\* mutant: the mark is taken at the end of a slot
ReadOwnerLate ==
  sdram_slot_cpu_rd' = IF slotEnd THEN cpuBusControl /\ cpu_sdram_rd_cycle ELSE sdram_slot_cpu_rd

\* A slot is the read's own when it started with the processor's command.
ReadOwner ==
  sdram_slot_cpu_rd' =
    IF busPhase = 0 THEN cpuBusControl /\ cpu_sdram_rd_cycle ELSE sdram_slot_cpu_rd

\* mutant: done is a pulse
ReadDonePulse ==
  IF ~as_r THEN cpu_sdram_rd_done' = FALSE /\ cpu_rd_wait' = 0
  ELSE IF sdram_slot_cpu_rd /\ slotEnd
  THEN cpu_sdram_rd_done' = cpu_rd_take /\ cpu_rd_wait' = Wait(cpu_rd_wait)
  ELSE cpu_sdram_rd_done' = FALSE /\ UNCHANGED cpu_rd_wait

ReadDone ==
  IF ~as_r THEN cpu_sdram_rd_done' = FALSE /\ cpu_rd_wait' = 0
  ELSE IF sdram_slot_cpu_rd /\ slotEnd
  THEN /\ cpu_sdram_rd_done' = (cpu_sdram_rd_done \/ cpu_rd_take)
       /\ cpu_rd_wait' = Wait(cpu_rd_wait)
  ELSE UNCHANGED <<cpu_sdram_rd_done, cpu_rd_wait>>

ReadHandshake ==
  /\ ReadOwner /\ ReadDone
  /\ cpu_data' = IF sdram_slot_cpu_rd /\ slotEnd /\ cpu_rd_take THEN memoryDataIn ELSE cpu_data

\* The write handshake counts the ends of slots in every cycle, and gives up
\* waiting for an owned one after four.
WriteHandshake ==
  /\ sdram_slot_cpu_wr' = IF busPhase = 0 THEN cpuBusControl /\ cpu_sdram_wr_cycle
                                          ELSE sdram_slot_cpu_wr
  /\ IF ~as_r THEN cpu_sdram_wr_done' = FALSE /\ cpu_wr_wait' = 0
     ELSE /\ cpu_wr_wait' = IF slotEnd THEN Wait(cpu_wr_wait) ELSE cpu_wr_wait
          /\ cpu_sdram_wr_done' =
               (cpu_sdram_wr_done \/ (sdram_slot_cpu_wr /\ slotEnd) \/ cpu_wr_wait >= 4)

\* What the master of the next slot will do: a video fetch, a floppy fetch or
\* a word of a download; nothing in a slot of the processor.
NoOther == [op |-> "none", addr |-> Io, data |-> aWord]
Fetch(l)     == [op |-> "read", addr |-> l, data |-> aWord]
Others(cycle) ==
  {NoOther}
  \cup (IF cycle = 0 THEN {Fetch(l) : l \in Video} ELSE {})
  \cup (IF cycle = 2 THEN {Fetch(l) : l \in Disk}
                         \cup {[op |-> "write", addr |-> l, data |-> d] : l \in Disk, d \in Data}
        ELSE {})
OtherMasters ==
  IF slotEnd THEN other' \in Others((busCycle + 1) % 4) ELSE UNCHANGED other

-----------------------------------------------------------------------------
\* Just out of reset; the memory is as the download left it.
Init ==
  /\ SdramInit /\ mem \in Images
  /\ sd_data = aWord /\ dout = aWord /\ dout_addr = Io /\ addr_latch = Io
  /\ access = NoAccess /\ addr = [kind |-> "none", loc |-> Io]
  /\ s_state = 0 /\ as_r = FALSE /\ wr = FALSE /\ ds = {} /\ din_r = aWord
  /\ other = NoOther /\ turbo_dtack_en = FALSE
  /\ sdram_slot_cpu_rd = FALSE /\ cpu_sdram_rd_done = FALSE /\ cpu_rd_wait = 0
  /\ cpu_data = aWord
  /\ sdram_slot_cpu_wr = FALSE /\ cpu_sdram_wr_done = FALSE /\ cpu_wr_wait = 0

\* A peripheral gives DTACK when it likes.
Dtack(ready) == as_r /\ IF addr.kind = "io" THEN ready ELSE ram_or_rom_dtack
Clock(ready) ==
  /\ Phases /\ Controller(Command) /\ Processor(Dtack(ready))
  /\ TurboDtack /\ ReadHandshake /\ WriteHandshake /\ OtherMasters
Next == \E ready \in BOOLEAN : Clock(ready)

Spec     == Init /\ [][Next]_vars
FairSpec == Spec /\ WF_vars(Next)

-----------------------------------------------------------------------------
(* Properties *)

\* The processor's view: every RAM and ROM cycle is one read or write of an
\* atomic memory, whatever the other masters do in the slots in between.
request == IF selectRAM \/ selectROM
           THEN [loc |-> addr.loc, write |-> wr, lanes |-> access.lanes, data |-> access.data]
           ELSE [loc |-> "none"]
Atomic == INSTANCE CpuMemory WITH
            store <- [l \in Ram \cup Rom |-> mem[l]], reply <- din_r
ImplementsAtomicMemory == Atomic!Spec

\* Every register holds a value of its kind.
TypeOK ==
  /\ busPhase \in 0 .. 3 /\ busCycle \in 0 .. 3
  /\ {oe_latch, we_latch, as_r, wr, turbo_dtack_en} \subseteq BOOLEAN
  /\ {sdram_slot_cpu_rd, cpu_sdram_rd_done} \subseteq BOOLEAN
  /\ {sdram_slot_cpu_wr, cpu_sdram_wr_done} \subseteq BOOLEAN
  /\ addr \in [kind : {"none", "io", "ram", "rom"}, loc : Location]
  /\ other \in [op : {"none", "read", "write"}, addr : Location, data : Word]
  /\ mem \in [Location -> Word] /\ {sd_data, dout, din_r, cpu_data} \subseteq Word
  /\ {addr_latch, dout_addr} \subseteq Location /\ access \in Access
  /\ s_state \in 0 .. 7 /\ ds \in SUBSET Lanes
  /\ cpu_rd_wait \in 0 .. 4 /\ cpu_wr_wait \in 0 .. 4

\* "Worst case adds ~2 busCycles of wait ... a CPU slot always arrives": a
\* cycle that still waits has seen at most two slots end, so neither timeout
\* fallback, which would take a neighbour's word or drop a write, is reached.
OwnedSlotInTime ==
  /\ cpu_sdram_rd_cycle /\ ~cpu_sdram_rd_done => cpu_wr_wait <= 2 /\ cpu_rd_wait = 0
  /\ cpu_sdram_wr_cycle /\ ~cpu_sdram_wr_done => cpu_wr_wait <= 2

\* "The write is silently lost" (the phantom-write probe): a slot that ends a
\* RAM write has really latched the command.
NoPhantomWrite ==
  sdram_slot_cpu_wr /\ selectRAM /\ slotEnd /\ ~cpu_sdram_wr_done =>
    we_latch /\ \A b \in access.lanes : mem[addr.loc][b] = access.data[b]

\* Nothing the processor or the other masters do changes a word that is not
\* the target of this slot's command.
OnlyTheTargetChanges ==
  [][\A l \in Location : mem'[l] # mem[l] =>
        (selectRAM /\ wr /\ l = addr.loc) \/ (other.op = "write" /\ l = other.addr)]_vars

\* "So this cannot wedge": a RAM or ROM cycle ends.
CycleEnds == (selectRAM \/ selectROM) ~> ~as_r
=============================================================================
