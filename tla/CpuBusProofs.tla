----------------------------- MODULE CpuBusProofs -----------------------------
(***************************************************************************)
(* Proofs about CpuBus, for every layout of the chip, set of lanes and     *)
(* words, and any program: each RAM and ROM cycle is one access of an      *)
(* atomic memory.                                                          *)
(***************************************************************************)
EXTENDS CpuBus, TLAPS

-----------------------------------------------------------------------------
(* The inductive invariant *)

memCycle == selectRAM \/ selectROM
own      == IF wr THEN sdram_slot_cpu_wr ELSE sdram_slot_cpu_rd
done     == IF wr THEN cpu_sdram_wr_done ELSE cpu_sdram_rd_done

\* The wrapper's registers are those of its state, and its states keep step
\* with the two processor clocks.
Wrapper ==
  /\ as_r <=> s_state \in 2 .. 6
  /\ wr <=> s_state \in 2 .. 7 /\ access.write
  /\ ds = IF s_state \in laneState + 1 .. 6 THEN access.lanes ELSE {}
  /\ idle => s_state = 0
  /\ s_state # 0 => addr = [kind |-> access.kind, loc |-> access.loc]
  /\ s_state \in {1, 3, 5, 7} => busPhase \in {0, 2}
  /\ s_state \in {2, 6} \/ (s_state = 0 /\ ~idle) => busPhase \in {1, 3}

\* Between two cycles the handshakes are at rest.
AtRest ==
  s_state \in 0 .. 2 =>
    /\ ~cpu_sdram_rd_done /\ ~cpu_sdram_wr_done /\ cpu_rd_wait = 0 /\ cpu_wr_wait = 0

\* A slot is marked by a cycle that waits in state 4 only, in the direction of
\* the cycle, from its first clock until the clock after its last.
Marked ==
  sdram_slot_cpu_rd \/ sdram_slot_cpu_wr =>
    /\ memCycle /\ s_state = 4 /\ turbo_dtack_en
    /\ (sdram_slot_cpu_rd <=> ~wr) /\ (sdram_slot_cpu_wr <=> wr)
    /\ IF done THEN busPhase = 0 ELSE busPhase \in 1 .. 3 /\ cpuBusControl

\* A cycle that has no slot yet has seen one slot end at most, or two when the
\* next is its own.
Waits ==
  memCycle /\ ~done =>
    /\ s_state \in 2 .. 4 /\ cpu_rd_wait = 0
    /\ CASE cpu_wr_wait = 0 -> busPhase # 0
         [] cpu_wr_wait = 1 -> own \/ busPhase = 0 \/ ~cpuBusControl
         [] cpu_wr_wait = 2 -> own \/ (busPhase = 0 /\ cpuBusControl)
         [] OTHER           -> FALSE

\* A cycle whose slot is over ends within the next slot, which is not the
\* processor's.
Ends ==
  memCycle /\ done =>
    /\ ~cpuBusControl /\ turbo_dtack_en
    /\ s_state = IF busPhase \in {0, 1} THEN 4 ELSE busPhase + 3

\* The controller's command is that of the slot's master.
Latched ==
  busPhase # 0 =>
    IF cpuBusControl
    THEN /\ (oe_latch <=> sdram_slot_cpu_rd) /\ (we_latch <=> sdram_slot_cpu_wr /\ selectRAM)
         /\ sdram_slot_cpu_rd \/ sdram_slot_cpu_wr => addr_latch = addr.loc
    ELSE /\ (oe_latch <=> other.op = "read") /\ (we_latch <=> other.op = "write")
         /\ other.op # "none" => addr_latch = other.addr

\* Where the word of a read is on its way, and where that of a write.
ReadWord ==
  /\ sdram_slot_cpu_rd /\ ~cpu_sdram_rd_done =>
       /\ busPhase \in {2, 3} => sd_data = mem[addr.loc]
       /\ busPhase = 3 => dout = mem[addr.loc] /\ dout_addr = addr.loc
  /\ memCycle /\ ~wr /\ cpu_sdram_rd_done => cpu_data = mem[addr.loc]
WriteWord ==
  selectRAM /\ wr /\ (cpu_sdram_wr_done \/ (sdram_slot_cpu_wr /\ busPhase \in {2, 3})) =>
    \A b \in access.lanes : mem[addr.loc][b] = access.data[b]

\* The wrapper has latched what the handshake holds, but for a word just read.
Replied == (memCycle /\ ~wr /\ cpu_sdram_rd_done) \/ din_r = cpu_data

BusInv ==
  /\ TypeOK /\ other \in Others(busCycle)
  /\ Wrapper /\ AtRest /\ Marked /\ Waits /\ Ends /\ Latched
  /\ ReadWord /\ WriteWord /\ Replied
-----------------------------------------------------------------------------
(* Facts about the parts *)

(* What the kernel may ask for. *)
LEMMA AccessParts ==
  ASSUME NEW a \in Access
  PROVE /\ a.kind \in {"none", "io", "ram", "rom"} /\ a.loc \in Location
        /\ a.write \in BOOLEAN /\ a.lanes \in SUBSET Lanes /\ a.data \in Word
        /\ a.kind = "ram" => a.loc \in Ram
        /\ a.kind = "rom" => a.loc \in Rom
        /\ a.write => a.kind \in {"ram", "rom"}
<1>1. aWord \in Data /\ Data \subseteq Word BY PlacesAssumption DEF aWord
<1>2. Io \in Location /\ Ram \subseteq Location /\ Rom \subseteq Location
  BY PlacesAssumption
<1>0. CASE a = NoAccess BY <1>0, <1>1, <1>2 DEF NoAccess
<1>3. CASE a = Read("io", Io) BY <1>1, <1>2, <1>3 DEF Read
<1>4. CASE a \in {Read("ram", l) : l \in Ram}
  <2>1. PICK l \in Ram : a = Read("ram", l) BY <1>4
  <2>2. QED BY <2>1, <1>1, <1>2 DEF Read
<1>5. CASE a \in {Read("rom", l) : l \in Rom}
  <2>1. PICK l \in Rom : a = Read("rom", l) BY <1>5
  <2>2. QED BY <2>1, <1>1, <1>2 DEF Read
<1>6. CASE a \in {Write("ram", l, b, d) : l \in Ram, b \in (SUBSET Lanes) \ {{}}, d \in Data}
  <2>1. PICK l \in Ram, b \in SUBSET Lanes, d \in Data : a = Write("ram", l, b, d) BY <1>6
  <2>2. QED BY <2>1, <1>1, <1>2 DEF Write
<1>7. CASE a \in {Write("rom", l, Lanes, d) : l \in Rom, d \in Data}
  <2>1. PICK l \in Rom, d \in Data : a = Write("rom", l, Lanes, d) BY <1>7
  <2>2. QED BY <2>1, <1>1, <1>2 DEF Write
<1>8. QED BY <1>0, <1>3, <1>4, <1>5, <1>6, <1>7 DEF Access

(* Reaching a place by its row and column. *)
LEMMA Pair == \A l \in Location : <<l[1], l[2]>> = l
  BY DEF Location

(* What the other master of a slot does. *)
LEMMA OthersParts ==
  ASSUME NEW n \in 0 .. 3, NEW o \in Others(n)
  PROVE /\ o \in [op : {"none", "read", "write"}, addr : Location, data : Word]
        /\ o.op = "write" => o.addr \in Disk
        /\ n \in {1, 3} => o.op = "none"
<1>1. aWord \in Word /\ Data \subseteq Word BY PlacesAssumption DEF aWord
<1>2. Io \in Location /\ Video \subseteq Location /\ Disk \subseteq Location
  BY PlacesAssumption
<1>3. CASE o = NoOther BY <1>1, <1>2, <1>3 DEF NoOther
<1>4. CASE n = 0 /\ o \in {Fetch(l) : l \in Video} BY <1>1, <1>2, <1>4 DEF Fetch
<1>5. CASE n = 2 /\ o \in {Fetch(l) : l \in Disk} BY <1>1, <1>2, <1>5 DEF Fetch
<1>6. CASE n = 2 /\ o \in {[op |-> "write", addr |-> l, data |-> d] : l \in Disk, d \in Data}
  BY <1>1, <1>2, <1>6
<1>7. QED BY <1>3, <1>4, <1>5, <1>6 DEF Others

(* A clock's place in the slots. *)
LEMMA PhaseStep ==
  ASSUME TypeOK, Phases
  PROVE /\ busPhase = 0 => busPhase' = 1
        /\ busPhase = 1 => busPhase' = 2
        /\ busPhase = 2 => busPhase' = 3
        /\ busPhase = 3 => busPhase' = 0
        /\ busPhase # 3 => busCycle' = busCycle
        /\ busPhase = 3 => busCycle' = (busCycle + 1) % 4 /\ cpuBusControl' = ~cpuBusControl
        /\ busCycle' \in 0 .. 3
        /\ busPhase % 2 = 0 <=> busPhase \in {0, 2}
<1>1. busPhase \in 0 .. 3 /\ busCycle \in 0 .. 3 BY DEF TypeOK
<1>2. /\ (0 + 1) % 4 = 1 /\ (1 + 1) % 4 = 2 /\ (2 + 1) % 4 = 3 /\ (3 + 1) % 4 = 0
      /\ 0 % 2 = 0 /\ 1 % 2 = 1 /\ 2 % 2 = 0 /\ 3 % 2 = 1
  BY SMT
<1>3. busCycle \in {0, 1, 2, 3} /\ busPhase \in {0, 1, 2, 3} BY <1>1, SMT
<1>4. QED BY <1>2, <1>3, SMT DEF Phases, cpuBusControl

-----------------------------------------------------------------------------
(* One clock *)

(* The registers of one bit, as the always-blocks drive them. *)
LEMMA Bits ==
  ASSUME BusInv, NEW ready \in BOOLEAN, Clock(ready)
  PROVE /\ as_r' <=> IF busPhase \in {0, 2} THEN as_r \/ (s_state = 1 /\ ~idle)
                                            ELSE as_r /\ s_state # 6
        /\ wr' <=> IF busPhase \in {0, 2} /\ s_state = 1 /\ ~idle THEN access.write
                   ELSE wr /\ ~(busPhase \in {0, 2} /\ s_state = 7)
        /\ turbo_dtack_en' <=> as_r /\ (turbo_dtack_en \/ (busPhase = 0 /\ cpuBusControl)
                                         \/ ~memCycle)
        /\ sdram_slot_cpu_rd' <=> IF busPhase = 0 THEN cpuBusControl /\ memCycle /\ ~wr
                                                  ELSE sdram_slot_cpu_rd
        /\ sdram_slot_cpu_wr' <=> IF busPhase = 0 THEN cpuBusControl /\ memCycle /\ wr
                                                  ELSE sdram_slot_cpu_wr
        /\ cpu_sdram_rd_done' <=>
             as_r /\ (cpu_sdram_rd_done \/ (sdram_slot_cpu_rd /\ slotEnd /\ cpu_rd_take))
        /\ cpu_sdram_wr_done' <=>
             as_r /\ (cpu_sdram_wr_done \/ (sdram_slot_cpu_wr /\ slotEnd) \/ cpu_wr_wait >= 4)
        /\ oe_latch' <=> IF busPhase = 0 THEN Command.oe ELSE oe_latch
        /\ we_latch' <=> IF busPhase = 0 THEN Command.we ELSE we_latch
<1>1. /\ Processor(Dtack(ready)) /\ TurboDtack /\ ReadOwner /\ ReadDone /\ WriteHandshake
      /\ CommandStart(Command)
  BY DEF Clock, ReadHandshake, Controller
<1>2. (busPhase % 2 = 0 <=> busPhase \in {0, 2}) BY PhaseStep DEF Clock, BusInv
<1>3. IF busPhase \in {0, 2} THEN Phi1 ELSE Phi2(Dtack(ready))
  BY <1>1, <1>2, Zenon DEF Processor
<1>4. as_r' <=> IF busPhase \in {0, 2} THEN as_r \/ (s_state = 1 /\ ~idle)
                                       ELSE as_r /\ s_state # 6
  BY <1>3, Zenon DEF Phi1, Phi2
<1>5. wr' <=> IF busPhase \in {0, 2} /\ s_state = 1 /\ ~idle THEN access.write
             ELSE wr /\ ~(busPhase \in {0, 2} /\ s_state = 7)
  BY <1>3, Zenon DEF Phi1, Phi2
<1>6. turbo_dtack_en' <=> as_r /\ (turbo_dtack_en \/ (busPhase = 0 /\ cpuBusControl) \/ ~memCycle)
  BY <1>1, Zenon DEF TurboDtack, memCycle
<1>7. sdram_slot_cpu_rd' <=> IF busPhase = 0 THEN cpuBusControl /\ memCycle /\ ~wr
                                            ELSE sdram_slot_cpu_rd
  BY <1>1, Zenon DEF ReadOwner, cpu_sdram_rd_cycle, memCycle
<1>8. sdram_slot_cpu_wr' <=> IF busPhase = 0 THEN cpuBusControl /\ memCycle /\ wr
                                            ELSE sdram_slot_cpu_wr
  BY <1>1, Zenon DEF WriteHandshake, cpu_sdram_wr_cycle, memCycle
<1>9. cpu_sdram_rd_done' <=>
        as_r /\ (cpu_sdram_rd_done \/ (sdram_slot_cpu_rd /\ slotEnd /\ cpu_rd_take))
  BY <1>1, Zenon DEF ReadDone
<1>10. cpu_sdram_wr_done' <=>
         as_r /\ (cpu_sdram_wr_done \/ (sdram_slot_cpu_wr /\ slotEnd) \/ cpu_wr_wait >= 4)
  BY <1>1, Zenon DEF WriteHandshake
<1>11. (oe_latch' <=> IF busPhase = 0 THEN Command.oe ELSE oe_latch)
       /\ (we_latch' <=> IF busPhase = 0 THEN Command.we ELSE we_latch)
  BY <1>1, Zenon DEF CommandStart, Sample
<1>12. QED BY <1>4, <1>5, <1>6, <1>7, <1>8, <1>9, <1>10, <1>11

(* The wrapper: what one clock makes of each of its states. *)
LEMMA WrapperStep ==
  ASSUME BusInv, NEW ready \in BOOLEAN, Clock(ready)
  PROVE /\ s_state \notin {0, 7} => access' = access
        /\ s_state = 0 => s_state' = IF idle \/ busPhase \in {0, 2} THEN 0 ELSE 1
        /\ s_state \in {1, 2, 3, 5, 6} => s_state' = s_state + 1
        /\ s_state = 4 => s_state' = IF busPhase \in {1, 3} /\ Dtack(ready) THEN 5 ELSE 4
        /\ s_state = 7 => s_state' = 0
        /\ access' = access \/ (s_state \in {0, 7} /\ s_state' = 0 /\ busPhase \in {0, 2})
        /\ access' \in Access
        /\ (as_r' <=> s_state' \in 2 .. 6)
<1>1. Processor(Dtack(ready)) /\ Wrapper /\ TypeOK BY DEF Clock, BusInv
<1>2. busPhase % 2 = 0 <=> busPhase \in {0, 2} BY PhaseStep DEF Clock, BusInv
<1>3. busPhase \in {0, 1, 2, 3} /\ s_state \in {0, 1, 2, 3, 4, 5, 6, 7} BY <1>1, SMT DEF TypeOK
<1>4. (s_state + 1) % 8 = IF s_state = 7 THEN 0 ELSE s_state + 1 BY <1>3, SMT
<1>5. idle => s_state = 0 BY <1>1 DEF Wrapper
<1>6. CASE busPhase \in {0, 2}
  <2>1. Phi1 BY <1>1, <1>2, <1>6 DEF Processor
  <2>2. s_state \in {0, 1, 3, 4, 5, 7} BY <1>1, <1>3, <1>6, SMT DEF Wrapper
  <2>3. s_state' = IF idle THEN 0 ELSE IF s_state = 4 THEN 4 ELSE (s_state + 1) % 8
    BY <2>1 DEF Phi1
  <2>4. s_state = 0 => idle BY <1>1, <1>6, SMT DEF Wrapper
  <2>5. IF s_state = 7 \/ idle THEN access' \in Access ELSE access' = access
    BY <2>1 DEF Phi1
  <2>6. access \in Access BY <1>1 DEF TypeOK
  <2>7. as_r' <=> as_r \/ (s_state = 1 /\ ~idle) BY <1>6, Bits
  <2>8. (as_r <=> s_state \in 2 .. 6) BY <1>1 DEF Wrapper
  <2>9. s_state' = IF s_state \in {0, 7} THEN 0 ELSE IF s_state = 4 THEN 4 ELSE s_state + 1
    BY <1>3, <1>4, <1>5, <2>2, <2>3, <2>4, SMT
  <2>10. (as_r' <=> s_state' \in 2 .. 6) BY <1>5, <2>2, <2>7, <2>8, <2>9, SMT
  <2>11. /\ s_state \notin {0, 7} => access' = access
         /\ access' \in Access
    BY <1>5, <2>5, <2>6
  <2>12. access' = access \/ (s_state \in {0, 7} /\ s_state' = 0)
    BY <1>5, <2>5, <2>9
  <2>13. QED BY <1>6, <2>2, <2>9, <2>10, <2>11, <2>12, SMT
<1>7. CASE busPhase \in {1, 3}
  <2>1. Phi2(Dtack(ready)) BY <1>1, <1>2, <1>7, SMT DEF Processor
  <2>2. s_state \in {0, 2, 4, 6} BY <1>1, <1>3, <1>7, SMT DEF Wrapper
  <2>3. s_state' = IF idle THEN 0 ELSE IF s_state # 4 \/ Dtack(ready) THEN (s_state + 1) % 8 ELSE 4
    BY <2>1 DEF Phi2
  <2>4. access' = access /\ access \in Access BY <1>1, <2>1 DEF Phi2, TypeOK
  <2>5. as_r' <=> as_r /\ s_state # 6 BY <1>7, Bits, SMT
  <2>6. (as_r <=> s_state \in 2 .. 6) BY <1>1 DEF Wrapper
  <2>7. s_state' = IF s_state = 4 /\ ~Dtack(ready) THEN 4 ELSE IF idle THEN 0 ELSE s_state + 1
    BY <1>3, <1>4, <1>5, <2>2, <2>3, SMT
  <2>8. (as_r' <=> s_state' \in 2 .. 6) BY <1>5, <2>2, <2>5, <2>6, <2>7, SMT
  <2>9. QED BY <1>5, <1>7, <2>2, <2>4, <2>7, <2>8, SMT
<1>8. QED BY <1>3, <1>6, <1>7

(* A memory cycle in terms of the wrapper's state, before and after a clock. *)
LEMMA Cycles ==
  ASSUME BusInv, NEW ready \in BOOLEAN, Clock(ready)
  PROVE /\ memCycle <=> s_state \in 2 .. 6 /\ access.kind \in {"ram", "rom"}
        /\ selectRAM <=> s_state \in 2 .. 6 /\ access.kind = "ram"
        /\ memCycle' <=> s_state' \in 2 .. 6 /\ access.kind \in {"ram", "rom"}
        /\ selectRAM' <=> s_state' \in 2 .. 6 /\ access.kind = "ram"
        /\ s_state \in 2 .. 6 => addr' = addr
        /\ s_state \in 1 .. 6 => access' = access
        /\ s_state \in 2 .. 6 => (wr <=> access.write) /\ (wr' <=> wr)
        /\ addr' = [kind |-> access.kind, loc |-> access.loc]
        /\ s_state' \in 1 .. 7 => access' = access
        /\ memCycle /\ s_state # 6 => memCycle'
        /\ memCycle' => memCycle \/ s_state = 1
        /\ memCycle' /\ s_state # 1 => s_state \in 2 .. 5 /\ memCycle
<1>1. Wrapper /\ TypeOK BY DEF BusInv
<1>2. addr' = [kind |-> access.kind, loc |-> access.loc] BY DEF Clock, Processor
<1>3. s_state \in 0 .. 7 BY <1>1 DEF TypeOK
<1>4. s_state \in 2 .. 6 => addr = [kind |-> access.kind, loc |-> access.loc]
  BY <1>1, <1>3, SMT DEF Wrapper
<1>5. (as_r <=> s_state \in 2 .. 6) /\ (as_r' <=> s_state' \in 2 .. 6)
  BY <1>1, WrapperStep DEF Wrapper
<1>6. (memCycle <=> s_state \in 2 .. 6 /\ access.kind \in {"ram", "rom"})
      /\ (selectRAM <=> s_state \in 2 .. 6 /\ access.kind = "ram")
  BY <1>4, <1>5, SMT DEF memCycle, selectRAM, selectROM
<1>7. (memCycle' <=> s_state' \in 2 .. 6 /\ access.kind \in {"ram", "rom"})
      /\ (selectRAM' <=> s_state' \in 2 .. 6 /\ access.kind = "ram")
  BY <1>2, <1>5, SMT DEF memCycle, selectRAM, selectROM
<1>8. s_state \in 1 .. 6 => access' = access BY <1>3, WrapperStep, SMT
<1>9. s_state' \in 1 .. 7 => access' = access BY <1>3, WrapperStep, SMT
<1>10. s_state \in 2 .. 6 => (wr <=> access.write) BY <1>1, SMT DEF Wrapper
<1>11. s_state \in 2 .. 6 => (wr' <=> wr) BY <1>3, Bits, SMT
<1>12. (s_state \in 2 .. 6 /\ s_state # 6 => s_state' \in 2 .. 6)
       /\ (s_state' \in 2 .. 6 => s_state \in 2 .. 5 \/ s_state = 1)
  BY <1>3, WrapperStep, SMT
<1>13. QED
  BY <1>2, <1>3, <1>4, <1>6, <1>7, <1>8, <1>9, <1>10, <1>11, <1>12, SMT

LEMMA WrapperKeeps ==
  ASSUME BusInv, NEW ready \in BOOLEAN, Clock(ready)
  PROVE Wrapper'
<1>1. Wrapper /\ TypeOK BY DEF BusInv
<1>2. busPhase \in {0, 1, 2, 3} /\ s_state \in {0, 1, 2, 3, 4, 5, 6, 7} BY <1>1, SMT DEF TypeOK
<1>3. wr' <=> s_state' \in 2 .. 7 /\ access'.write
  <2>1. CASE s_state \in {0, 7}
    <3>1. s_state' \in {0, 1} /\ ~wr' BY <1>1, <1>2, <2>1, Bits, WrapperStep, SMT DEF Wrapper
    <3>2. QED BY <3>1, SMT
  <2>2. CASE s_state = 1
    <3>1. ~idle /\ busPhase \in {0, 2} /\ s_state' = 2 /\ access' = access
      BY <1>1, <2>2, WrapperStep, SMT DEF Wrapper
    <3>2. QED BY <2>2, <3>1, Bits, SMT
  <2>3. CASE s_state \in 2 .. 6
    <3>1. s_state' \in 2 .. 7 BY <1>2, <2>3, WrapperStep, SMT
    <3>2. QED BY <2>3, <3>1, Cycles, SMT
  <2>4. QED BY <1>2, <2>1, <2>2, <2>3, SMT
<1>4. ds' = IF s_state' \in laneState' + 1 .. 6 THEN access'.lanes ELSE {}
  <2>1. busPhase % 2 = 0 <=> busPhase \in {0, 2} BY PhaseStep DEF Clock, BusInv
  <2>2. ds' = IF busPhase \in {0, 2} THEN IF ~idle /\ s_state = laneState THEN access.lanes ELSE ds
                                     ELSE IF s_state = 6 THEN {} ELSE ds
    BY <2>1, Zenon DEF Clock, Processor, Phi1, Phi2
  <2>3. laneState \in {1, 3} /\ laneState' \in {1, 3} BY DEF laneState
  <2>4. access' = access => laneState' = laneState BY DEF laneState
  <2>5. CASE s_state \in {0, 7}
    <3>1. ds' = {} /\ s_state' \in {0, 1}
      BY <1>1, <1>2, <2>2, <2>3, <2>5, WrapperStep, SMT DEF Wrapper
    <3>2. s_state' \notin laneState' + 1 .. 6
      <4>1. CASE laneState' = 1 BY <3>1, <4>1, SMT
      <4>2. CASE laneState' = 3 BY <3>1, <4>2, SMT
      <4>3. QED BY <2>3, <4>1, <4>2
    <3>3. QED BY <3>1, <3>2
  <2>6. CASE s_state \in 1 .. 6
    <3>1. access' = access /\ laneState' = laneState /\ ~idle
      BY <1>1, <2>4, <2>6, Cycles, SMT DEF Wrapper
    <3>2. s_state' = s_state + 1 \/ (s_state = 4 /\ s_state' = 4) BY <1>2, <2>6, WrapperStep, SMT
    <3>3. s_state = laneState => busPhase \in {0, 2} BY <1>1, <2>3, SMT DEF Wrapper
    <3>4. s_state = 6 => busPhase \notin {0, 2} BY <1>1, SMT DEF Wrapper
    <3>5. ds = IF s_state \in laneState + 1 .. 6 THEN access.lanes ELSE {} BY <1>1 DEF Wrapper
    <3>6. s_state' \in laneState + 1 .. 6 <=>
            s_state = laneState \/ (s_state \in laneState + 1 .. 6 /\ s_state # 6)
      BY <1>2, <2>3, <2>6, <3>2, SMT
    <3>7. s_state = laneState => s_state # 6 /\ s_state \notin laneState + 1 .. 6
      BY <2>3, SMT
    <3>8. ds' = IF s_state = laneState THEN access.lanes ELSE IF s_state = 6 THEN {} ELSE ds
      BY <1>2, <2>2, <3>1, <3>3, <3>4, <3>7
    <3>9. ds' = IF s_state' \in laneState + 1 .. 6 THEN access.lanes ELSE {}
      BY <3>5, <3>6, <3>7, <3>8
    <3>10. QED BY <3>1, <3>9
  <2>7. QED BY <1>2, <2>5, <2>6, SMT
<1>5. idle' => s_state' = 0
  <2>1. CASE access' = access
    <3>1. idle' <=> idle BY <2>1 DEF idle
    <3>2. QED BY <1>1, <3>1, WrapperStep, SMT DEF Wrapper
  <2>2. QED BY <2>1, WrapperStep
<1>6. s_state' # 0 => addr' = [kind |-> access'.kind, loc |-> access'.loc]
  <2>1. s_state' \in 0 .. 7 BY <1>2, WrapperStep, SMT
  <2>2. QED BY <2>1, Cycles, SMT
<1>7. /\ s_state' \in {1, 3, 5, 7} => busPhase' \in {0, 2}
      /\ s_state' \in {2, 6} \/ (s_state' = 0 /\ ~idle') => busPhase' \in {1, 3}
  <2>1. busPhase' \in {0, 2} <=> busPhase \in {1, 3}
    BY <1>2, PhaseStep, SMT DEF Clock, BusInv
  <2>2. busPhase' \in {1, 3} <=> busPhase \in {0, 2}
    BY <1>2, PhaseStep, SMT DEF Clock, BusInv
  <2>3. access' = access => (idle' <=> idle) BY DEF idle
  <2>4. s_state' \in {1, 3, 5, 7} => busPhase \in {1, 3}
    BY <1>1, <1>2, WrapperStep, SMT DEF Wrapper
  <2>5. s_state' \in {2, 6} => busPhase \in {0, 2}
    BY <1>1, <1>2, WrapperStep, SMT DEF Wrapper
  <2>6. s_state' = 0 /\ ~idle' => busPhase \in {0, 2}
    BY <1>1, <1>2, <2>3, WrapperStep, SMT DEF Wrapper
  <2>7. QED BY <2>1, <2>2, <2>4, <2>5, <2>6
<1>8. QED BY <1>3, <1>4, <1>5, <1>6, <1>7, WrapperStep DEF Wrapper

(* The next clock's mark and waits of the handshakes. *)
LEMMA MarkedKeeps ==
  ASSUME BusInv, NEW ready \in BOOLEAN, Clock(ready)
  PROVE Marked'
<1>1. Wrapper /\ TypeOK /\ Marked /\ Waits /\ Ends BY DEF BusInv
<1>2. busPhase \in {0, 1, 2, 3} /\ s_state \in {0, 1, 2, 3, 4, 5, 6, 7} BY <1>1, SMT DEF TypeOK
<1>3. SUFFICES ASSUME sdram_slot_cpu_rd' \/ sdram_slot_cpu_wr'
      PROVE /\ memCycle' /\ s_state' = 4 /\ turbo_dtack_en'
            /\ (sdram_slot_cpu_rd' <=> ~wr') /\ (sdram_slot_cpu_wr' <=> wr')
            /\ IF done' THEN busPhase' = 0 ELSE busPhase' \in 1 .. 3 /\ cpuBusControl'
  BY DEF Marked
<1>4. CASE busPhase = 0
  <2>1. cpuBusControl /\ memCycle BY <1>3, <1>4, Bits
  <2>2. ~done /\ s_state \in {3, 4}
    BY <1>1, <1>2, <1>4, <2>1, SMT DEF Ends, Waits, Wrapper
  <2>3. memCycle' /\ s_state' = 4 /\ (wr' <=> wr) BY <1>2, <1>4, <2>1, <2>2, WrapperStep, Cycles, SMT
  <2>4. turbo_dtack_en' BY <1>4, <2>1, Bits DEF memCycle, selectRAM, selectROM
  <2>5. (sdram_slot_cpu_rd' <=> ~wr) /\ (sdram_slot_cpu_wr' <=> wr) BY <1>4, <2>1, Bits
  <2>6. cpu_wr_wait \in {0, 1, 2} BY <1>1, <2>1, <2>2, SMT DEF Waits, TypeOK
  <2>7. ~done' BY <1>4, <2>2, <2>3, <2>6, Bits, SMT DEF done, slotEnd
  <2>8. busPhase' = 1 /\ busCycle' = busCycle BY <1>1, <1>4, PhaseStep, SMT DEF Clock
  <2>9. QED BY <2>1, <2>3, <2>4, <2>5, <2>7, <2>8, SMT DEF cpuBusControl
<1>5. CASE busPhase \in {1, 2, 3}
  <2>1. sdram_slot_cpu_rd \/ sdram_slot_cpu_wr BY <1>3, <1>5, Bits, SMT
  <2>2. /\ memCycle /\ s_state = 4 /\ turbo_dtack_en /\ ~done /\ cpuBusControl
        /\ (sdram_slot_cpu_rd <=> ~wr) /\ (sdram_slot_cpu_wr <=> wr)
    BY <1>1, <1>5, <2>1, SMT DEF Marked
  <2>3. ~Dtack(ready)
    BY <2>2, Zenon DEF Dtack, ram_or_rom_dtack, cpu_sdram_rd_cycle, cpu_sdram_wr_cycle,
       memCycle, selectRAM, selectROM, done
  <2>4. memCycle' /\ s_state' = 4 /\ (wr' <=> wr) BY <2>2, <2>3, WrapperStep, Cycles, SMT
  <2>5. turbo_dtack_en' BY <2>2, Bits DEF memCycle, selectRAM, selectROM
  <2>6. (sdram_slot_cpu_rd' <=> ~wr) /\ (sdram_slot_cpu_wr' <=> wr) BY <1>5, <2>2, Bits, SMT
  <2>7. CASE busPhase = 3
    <3>1. busPhase' = 0 BY <1>1, <2>7, PhaseStep DEF Clock
    <3>2. sdram_slot_cpu_rd => dout_addr = addr.loc
      BY <2>2, <2>7, SMT DEF BusInv, ReadWord, done
    <3>3. Command.addr = addr.loc BY <2>2 DEF Command
    <3>4. as_r BY <2>2 DEF memCycle, selectRAM, selectROM
    <3>5. sdram_slot_cpu_rd => cpu_rd_take BY <3>2, <3>3 DEF cpu_rd_take, cpu_rd_addr_match
    <3>6. done' BY <2>2, <2>4, <2>7, <3>4, <3>5, Bits, SMT DEF done, slotEnd
    <3>7. QED BY <2>4, <2>5, <2>6, <3>1, <3>6
  <2>8. CASE busPhase \in {1, 2}
    <3>1. busPhase' \in 1 .. 3 /\ busCycle' = busCycle BY <1>1, <2>8, PhaseStep, SMT DEF Clock
    <3>2. cpu_wr_wait \in {0, 1, 2} BY <1>1, <2>2, SMT DEF Waits, TypeOK
    <3>3. ~done' BY <2>2, <2>4, <2>8, <3>2, Bits, SMT DEF done, slotEnd
    <3>4. QED BY <2>2, <2>4, <2>5, <2>6, <3>1, <3>3 DEF cpuBusControl
  <2>9. QED BY <1>5, <2>7, <2>8
<1>6. QED BY <1>2, <1>4, <1>5

LEMMA AtRestKeeps ==
  ASSUME BusInv, NEW ready \in BOOLEAN, Clock(ready)
  PROVE AtRest'
<1>1. Wrapper /\ TypeOK BY DEF BusInv
<1>2. SUFFICES ASSUME s_state' \in 0 .. 2
      PROVE ~cpu_sdram_rd_done' /\ ~cpu_sdram_wr_done' /\ cpu_rd_wait' = 0 /\ cpu_wr_wait' = 0
  BY DEF AtRest
<1>3. s_state \in {0, 1, 2, 3, 4, 5, 6, 7} BY <1>1, SMT DEF TypeOK
<1>4. s_state \in {0, 1, 7} BY <1>2, <1>3, WrapperStep, SMT
<1>5. ~as_r BY <1>1, <1>4, SMT DEF Wrapper
<1>6. QED BY <1>5 DEF Clock, ReadHandshake, ReadDone, WriteHandshake

(* The counters of slot ends. *)
LEMMA WaitStep ==
  ASSUME BusInv, NEW ready \in BOOLEAN, Clock(ready), memCycle
  PROVE /\ cpu_rd_wait' = IF sdram_slot_cpu_rd /\ slotEnd THEN Wait(cpu_rd_wait) ELSE cpu_rd_wait
        /\ cpu_wr_wait' = IF slotEnd THEN Wait(cpu_wr_wait) ELSE cpu_wr_wait
<1>1. as_r BY DEF memCycle, selectRAM, selectROM
<1>2. QED BY <1>1 DEF Clock, ReadHandshake, ReadDone, WriteHandshake

LEMMA WaitsKeep ==
  ASSUME BusInv, NEW ready \in BOOLEAN, Clock(ready)
  PROVE Waits'
<1>1. Wrapper /\ TypeOK /\ Marked /\ Waits /\ Ends /\ AtRest BY DEF BusInv
<1>2. busPhase \in {0, 1, 2, 3} /\ s_state \in {0, 1, 2, 3, 4, 5, 6, 7} BY <1>1, SMT DEF TypeOK
<1>3. SUFFICES ASSUME memCycle', ~done'
      PROVE /\ s_state' \in 2 .. 4 /\ cpu_rd_wait' = 0
            /\ \/ cpu_wr_wait' = 0 /\ busPhase' # 0
               \/ cpu_wr_wait' = 1 /\ (own' \/ busPhase' = 0 \/ ~cpuBusControl')
               \/ cpu_wr_wait' = 2 /\ (own' \/ (busPhase' = 0 /\ cpuBusControl'))
  BY SMT DEF Waits
<1>4. CASE s_state = 1
  <2>1. s_state' = 2 BY <1>4, WrapperStep, SMT
  <2>2. busPhase' # 0 BY <1>1, <1>2, <1>4, PhaseStep, SMT DEF Wrapper, Clock
  <2>3. cpu_rd_wait' = 0 /\ cpu_wr_wait' = 0 BY <2>1, AtRestKeeps, SMT DEF AtRest
  <2>4. QED BY <2>1, <2>2, <2>3, SMT
<1>5. CASE s_state # 1
  <2>1. memCycle /\ s_state \in {2, 3, 4, 5} /\ (wr' <=> wr)
    BY <1>2, <1>3, <1>5, Cycles, SMT
  <2>2. as_r BY <2>1 DEF memCycle, selectRAM, selectROM
  <2>3. ~done BY <1>3, <2>1, <2>2, Bits DEF done
  <2>4. s_state \in {2, 3, 4} /\ cpu_rd_wait = 0 BY <1>1, <1>2, <2>1, <2>3, SMT DEF Waits
  <2>5. ~Dtack(ready)
    BY <2>1, <2>3, Zenon DEF Dtack, ram_or_rom_dtack, cpu_sdram_rd_cycle, cpu_sdram_wr_cycle,
       memCycle, selectRAM, selectROM, done
  <2>6. s_state' \in 2 .. 4 BY <2>4, <2>5, WrapperStep, SMT
  <2>7. ~(own /\ slotEnd)
    <3>1. SUFFICES ASSUME own, slotEnd PROVE FALSE OBVIOUS
    <3>2. sdram_slot_cpu_rd \/ sdram_slot_cpu_wr BY <3>1 DEF own
    <3>3. own' BY <3>1, <2>1, Bits, SMT DEF own, slotEnd
    <3>4. sdram_slot_cpu_rd' \/ sdram_slot_cpu_wr' BY <3>3 DEF own
    <3>5. busPhase' \in 1 .. 3 BY <1>3, <3>4, MarkedKeeps DEF Marked
    <3>6. busPhase' = 0 BY <1>1, <3>1, PhaseStep DEF Clock, slotEnd
    <3>7. QED BY <3>5, <3>6, SMT
  <2>8. ~(sdram_slot_cpu_rd /\ slotEnd)
    BY <1>1, <2>7 DEF Marked, own
  <2>9. cpu_rd_wait' = 0 BY <2>1, <2>4, <2>8, WaitStep
  <2>10. /\ cpu_wr_wait = 0 => busPhase # 0
         /\ cpu_wr_wait = 1 => own \/ busPhase = 0 \/ ~cpuBusControl
         /\ cpu_wr_wait = 2 => own \/ (busPhase = 0 /\ cpuBusControl)
         /\ cpu_wr_wait \in {0, 1, 2}
    BY <1>1, <2>1, <2>3, SMT DEF Waits, TypeOK
  <2>11. CASE busPhase = 3
    <3>1. ~own BY <2>7, <2>11 DEF slotEnd
    <3>2. busPhase' = 0 /\ cpuBusControl' = ~cpuBusControl BY <1>1, <2>11, PhaseStep DEF Clock
    <3>3. cpu_wr_wait' = cpu_wr_wait + 1
      BY <2>1, <2>10, <2>11, WaitStep, SMT DEF slotEnd, Wait
    <3>4. cpu_wr_wait = 0 \/ (cpu_wr_wait = 1 /\ ~cpuBusControl) BY <2>10, <2>11, <3>1, SMT
    <3>5. CASE cpu_wr_wait = 0
      <4>1. cpu_wr_wait' = 1 BY <3>3, <3>5, SMT
      <4>2. QED BY <2>6, <2>9, <3>2, <4>1
    <3>6. CASE cpu_wr_wait = 1 /\ ~cpuBusControl
      <4>1. cpu_wr_wait' = 2 BY <3>3, <3>6, SMT
      <4>2. QED BY <2>6, <2>9, <3>2, <3>6, <4>1
    <3>7. QED BY <3>4, <3>5, <3>6
  <2>12. CASE busPhase \in {0, 1, 2}
    <3>1. busPhase' \in {1, 2, 3} /\ busCycle' = busCycle BY <1>1, <2>12, PhaseStep, SMT DEF Clock
    <3>2. cpu_wr_wait' = cpu_wr_wait BY <2>1, <2>12, WaitStep, SMT DEF slotEnd
    <3>3. cpuBusControl' <=> cpuBusControl BY <3>1 DEF cpuBusControl
    <3>4. busPhase = 0 /\ cpuBusControl => own' BY <2>1, Bits DEF own
    <3>5. busPhase # 0 => (own' <=> own) BY <2>1, Bits DEF own
    <3>6. busPhase' # 0 BY <3>1, SMT
    <3>7. cpu_wr_wait = 1 => own' \/ ~cpuBusControl' BY <2>10, <3>3, <3>4, <3>5
    <3>8. own => busPhase # 0 BY <1>1, <2>3 DEF Marked, own
    <3>9. cpu_wr_wait = 2 => own' BY <2>10, <3>4, <3>5, <3>8
    <3>10. QED BY <2>6, <2>9, <2>10, <3>2, <3>6, <3>7, <3>9
  <2>13. QED BY <1>2, <2>11, <2>12
<1>6. QED BY <1>4, <1>5

LEMMA EndsKeep ==
  ASSUME BusInv, NEW ready \in BOOLEAN, Clock(ready)
  PROVE Ends'
<1>1. Wrapper /\ TypeOK /\ Marked /\ Waits /\ Ends /\ AtRest BY DEF BusInv
<1>2. busPhase \in {0, 1, 2, 3} /\ s_state \in {0, 1, 2, 3, 4, 5, 6, 7} BY <1>1, SMT DEF TypeOK
<1>3. SUFFICES ASSUME memCycle', done'
      PROVE /\ ~cpuBusControl' /\ turbo_dtack_en'
            /\ s_state' = IF busPhase' \in {0, 1} THEN 4 ELSE busPhase' + 3
  BY DEF Ends
<1>4. s_state # 1
  <2>1. SUFFICES ASSUME s_state = 1 PROVE FALSE OBVIOUS
  <2>2. s_state' \in 0 .. 2 BY <2>1, WrapperStep, SMT
  <2>3. QED BY <1>3, <2>2, AtRestKeeps DEF AtRest, done
<1>5. memCycle /\ s_state \in {2, 3, 4, 5} /\ (wr' <=> wr) BY <1>2, <1>3, <1>4, Cycles, SMT
<1>6. as_r BY <1>5 DEF memCycle, selectRAM, selectROM
<1>7. CASE done
  <2>1. ~cpuBusControl /\ turbo_dtack_en /\ s_state = IF busPhase \in {0, 1} THEN 4 ELSE busPhase + 3
    BY <1>1, <1>5, <1>7 DEF Ends
  <2>2. busPhase \in {0, 1, 2} BY <1>2, <1>5, <2>1, SMT
  <2>3. cpuBusControl' <=> cpuBusControl
    BY <1>1, <2>2, PhaseStep, SMT DEF Clock, cpuBusControl
  <2>4. turbo_dtack_en' BY <1>6, <2>1, Bits
  <2>5. Dtack(ready)
    BY <1>5, <1>6, <1>7, <2>1, Zenon DEF Dtack, ram_or_rom_dtack, cpu_sdram_rd_cycle,
       cpu_sdram_wr_cycle, memCycle, selectRAM, selectROM, done
  <2>6. s_state' = IF busPhase' \in {0, 1} THEN 4 ELSE busPhase' + 3
    <3>1. CASE busPhase = 0
      <4>1. busPhase' = 1 /\ s_state = 4 BY <1>1, <2>1, <3>1, PhaseStep DEF Clock
      <4>2. QED BY <3>1, <4>1, WrapperStep, SMT
    <3>2. CASE busPhase = 1
      <4>1. busPhase' = 2 /\ s_state = 4 BY <1>1, <2>1, <3>2, PhaseStep DEF Clock
      <4>2. QED BY <2>5, <3>2, <4>1, WrapperStep, SMT
    <3>3. CASE busPhase = 2
      <4>1. busPhase' = 3 BY <1>1, <3>3, PhaseStep DEF Clock
      <4>2. s_state = 5 BY <2>1, <3>3, SMT
      <4>3. QED BY <4>1, <4>2, WrapperStep, SMT
    <3>4. QED BY <2>2, <3>1, <3>2, <3>3
  <2>7. QED BY <2>1, <2>3, <2>4, <2>6
<1>8. CASE ~done
  <2>1. cpu_wr_wait \in {0, 1, 2} BY <1>1, <1>5, <1>8, SMT DEF Waits, TypeOK
  <2>2. own /\ slotEnd BY <1>3, <1>5, <1>8, <2>1, Bits, SMT DEF done, own
  <2>3. sdram_slot_cpu_rd \/ sdram_slot_cpu_wr BY <2>2 DEF own
  <2>4. s_state = 4 /\ turbo_dtack_en /\ cpuBusControl BY <1>1, <1>8, <2>3 DEF Marked
  <2>5. busPhase' = 0 /\ ~cpuBusControl' BY <1>1, <2>2, <2>4, PhaseStep DEF Clock, slotEnd
  <2>6. ~Dtack(ready)
    BY <1>5, <1>8, Zenon DEF Dtack, ram_or_rom_dtack, cpu_sdram_rd_cycle, cpu_sdram_wr_cycle,
       memCycle, selectRAM, selectROM, done
  <2>7. s_state' = 4 BY <2>4, <2>6, WrapperStep, SMT
  <2>8. turbo_dtack_en' BY <1>6, <2>4, Bits
  <2>9. QED BY <2>5, <2>7, <2>8, SMT
<1>9. QED BY <1>7, <1>8

(* What the arbiter hands over in a clock, by the slot's master. *)
LEMMA Commands ==
  ASSUME BusInv
  PROVE /\ cpuBusControl => /\ (Command.oe <=> memCycle /\ ~wr) /\ (Command.we <=> selectRAM /\ wr)
                            /\ Command.addr = addr.loc /\ Command.lanes = ds
                            /\ Command.data = access.data
        /\ ~cpuBusControl => /\ (Command.oe <=> other.op = "read")
                             /\ (Command.we <=> other.op = "write")
                             /\ other.op # "none" => Command.addr = other.addr
        /\ Command.addr \in Location
<1>1. CASE cpuBusControl
  <2>1. Command = [oe |-> cpu_sdram_rd_cycle, we |-> selectRAM /\ wr, addr |-> addr.loc,
                   lanes |-> ds, data |-> access.data]
    BY <1>1 DEF Command
  <2>2. /\ (Command.oe <=> cpu_sdram_rd_cycle) /\ (Command.we <=> selectRAM /\ wr)
        /\ Command.addr = addr.loc /\ Command.lanes = ds /\ Command.data = access.data
    BY <2>1, Zenon
  <2>3. addr.loc \in Location BY DEF BusInv, TypeOK
  <2>4. QED BY <1>1, <2>2, <2>3 DEF cpu_sdram_rd_cycle, memCycle
<1>2. CASE ~cpuBusControl
  <2>1. Command = [oe |-> other.op = "read", we |-> other.op = "write",
                   addr |-> IF other.op = "none" THEN addr.loc ELSE other.addr,
                   lanes |-> Lanes, data |-> other.data]
    BY <1>2 DEF Command
  <2>2. /\ (Command.oe <=> other.op = "read") /\ (Command.we <=> other.op = "write")
        /\ Command.addr = IF other.op = "none" THEN addr.loc ELSE other.addr
    BY <2>1, Zenon
  <2>3. addr.loc \in Location /\ other.addr \in Location BY DEF BusInv, TypeOK
  <2>4. QED BY <1>2, <2>2, <2>3
<1>3. QED BY <1>1, <1>2

LEMMA LatchedKeeps ==
  ASSUME BusInv, NEW ready \in BOOLEAN, Clock(ready)
  PROVE Latched'
<1>1. Wrapper /\ TypeOK /\ Marked /\ Latched BY DEF BusInv
<1>2. busPhase \in {0, 1, 2, 3} BY <1>1, SMT DEF TypeOK
<1>3. CASE busPhase = 3
  <2>1. busPhase' = 0 BY <1>1, <1>3, PhaseStep DEF Clock
  <2>2. QED BY <2>1 DEF Latched
<1>4. CASE busPhase \in {0, 1, 2}
  <2>1. busCycle' = busCycle /\ other' = other
    BY <1>1, <1>4, PhaseStep, SMT DEF Clock, OtherMasters, slotEnd
  <2>2. cpuBusControl' <=> cpuBusControl BY <2>1 DEF cpuBusControl
  <2>3. sdram_slot_cpu_rd' \/ sdram_slot_cpu_wr' => memCycle' /\ memCycle /\ addr' = addr
    <3>1. SUFFICES ASSUME sdram_slot_cpu_rd' \/ sdram_slot_cpu_wr'
                   PROVE memCycle' /\ memCycle /\ addr' = addr
      OBVIOUS
    <3>2. memCycle' /\ s_state' = 4 BY <3>1, MarkedKeeps DEF Marked
    <3>3. s_state # 1 BY <3>2, WrapperStep, SMT
    <3>4. QED BY <3>2, <3>3, Cycles, SMT
  <2>4. memCycle' /\ memCycle => (selectRAM' <=> selectRAM) BY Cycles, SMT
  <2>5. CASE busPhase = 0
    <3>1. (oe_latch' <=> Command.oe) /\ (we_latch' <=> Command.we) BY <2>5, Bits
    <3>2. addr_latch' = Command.addr BY <2>5 DEF Clock, Controller, CommandStart, Sample
    <3>3. CASE cpuBusControl
      <4>1. (sdram_slot_cpu_rd' <=> memCycle /\ ~wr) /\ (sdram_slot_cpu_wr' <=> memCycle /\ wr)
        BY <2>5, <3>3, Bits
      <4>2. selectRAM => memCycle BY DEF memCycle
      <4>3. oe_latch' <=> sdram_slot_cpu_rd' BY <3>1, <3>3, <4>1, Commands
      <4>4. we_latch' <=> sdram_slot_cpu_wr' /\ selectRAM'
        BY <2>3, <2>4, <3>1, <3>3, <4>1, <4>2, Commands
      <4>5. sdram_slot_cpu_rd' \/ sdram_slot_cpu_wr' => addr_latch' = addr'.loc
        BY <2>3, <3>2, <3>3, Commands
      <4>6. QED BY <2>2, <3>3, <4>3, <4>4, <4>5 DEF Latched
    <3>4. CASE ~cpuBusControl
      BY <2>1, <2>2, <3>1, <3>2, <3>4, Commands DEF Latched
    <3>5. QED BY <3>3, <3>4
  <2>6. CASE busPhase \in {1, 2}
    <3>1. (oe_latch' <=> oe_latch) /\ (we_latch' <=> we_latch) BY <2>6, Bits, SMT
    <3>2. addr_latch' = addr_latch BY <2>6, SMT DEF Clock, Controller, CommandStart
    <3>3. (sdram_slot_cpu_rd' <=> sdram_slot_cpu_rd) /\ (sdram_slot_cpu_wr' <=> sdram_slot_cpu_wr)
      BY <2>6, Bits, SMT
    <3>4. busPhase # 0 BY <2>6, SMT
    <3>5. CASE cpuBusControl
      <4>1. /\ (oe_latch <=> sdram_slot_cpu_rd) /\ (we_latch <=> sdram_slot_cpu_wr /\ selectRAM)
            /\ sdram_slot_cpu_rd \/ sdram_slot_cpu_wr => addr_latch = addr.loc
        BY <1>1, <3>4, <3>5 DEF Latched
      <4>2. QED BY <2>2, <2>3, <2>4, <3>1, <3>2, <3>3, <3>5, <4>1 DEF Latched
    <3>6. CASE ~cpuBusControl
      BY <1>1, <2>1, <2>2, <3>1, <3>2, <3>4, <3>6 DEF Latched
    <3>7. QED BY <3>5, <3>6
  <2>7. QED BY <1>4, <2>5, <2>6
<1>5. QED BY <1>2, <1>3, <1>4

(* What a byte-wise write makes of a word. *)
Merged(w, lanes, d) == [b \in Lanes |-> IF b \in lanes THEN d[b] ELSE w[b]]

(* The one clock of a slot in which the memory changes, and how. *)
LEMMA MemStep ==
  ASSUME BusInv, NEW ready \in BOOLEAN, Clock(ready)
  PROVE /\ busPhase = 1 /\ sdram_slot_cpu_wr /\ selectRAM =>
             mem' = [mem EXCEPT ![addr.loc] = Merged(mem[addr.loc], access.lanes, access.data)]
        /\ ~(busPhase = 1 /\ sdram_slot_cpu_wr /\ selectRAM) =>
             \A l \in Location : mem'[l] # mem[l] => other.op = "write" /\ l = other.addr
        /\ busPhase # 1 => mem' = mem
        /\ mem' \in [Location -> Word]
<1>1. Wrapper /\ TypeOK /\ Marked /\ Latched BY DEF BusInv
<1>2. mem \in [Location -> Word] BY <1>1 DEF TypeOK
<1>3. CASE ~(busPhase = 1 /\ we_latch)
  <2>1. mem' = mem BY <1>3 DEF Clock, Controller, CommandContinue
  <2>2. ~(busPhase = 1 /\ sdram_slot_cpu_wr /\ selectRAM)
    <3>1. SUFFICES ASSUME busPhase = 1, sdram_slot_cpu_wr, selectRAM PROVE FALSE OBVIOUS
    <3>2. cpuBusControl BY <1>1, <3>1, SMT DEF Marked
    <3>3. we_latch BY <1>1, <3>1, <3>2, SMT DEF Latched
    <3>4. QED BY <1>3, <3>1, <3>3
  <2>3. QED BY <1>2, <2>1, <2>2
<1>4. CASE busPhase = 1 /\ we_latch
  <2> DEFINE at == <<addr_latch[1], Command.addr[2]>>
  <2>1. mem' = [mem EXCEPT ![at] = Merged(mem[at], Command.lanes, Command.data)]
    BY <1>4 DEF Clock, Controller, CommandContinue, Merged
  <2>2. CASE cpuBusControl
    <3>1. sdram_slot_cpu_wr /\ selectRAM /\ addr_latch = addr.loc
      BY <1>1, <1>4, <2>2, SMT DEF Latched
    <3>2. wr /\ s_state = 4 BY <1>1, <3>1 DEF Marked
    <3>3. access.write BY <1>1, <3>2 DEF Wrapper
    <3>4. ds = access.lanes
      <4>1. laneState = 3 BY <3>3 DEF laneState
      <4>2. 4 \in laneState + 1 .. 6 BY <4>1, SMT
      <4>3. QED BY <1>1, <3>2, <4>2 DEF Wrapper
    <3>5. Command.addr = addr.loc /\ Command.lanes = access.lanes /\ Command.data = access.data
      BY <2>2, <3>4, Commands
    <3>6. at = addr.loc
      <4>1. addr.loc \in Location BY <1>1 DEF TypeOK
      <4>2. QED BY <3>1, <3>5, <4>1, Pair
    <3>7. mem' = [mem EXCEPT ![addr.loc] = Merged(mem[addr.loc], access.lanes, access.data)]
      BY <2>1, <3>5, <3>6
    <3>8. Merged(mem[addr.loc], access.lanes, access.data) \in Word
      <4>1. mem[addr.loc] \in Word BY <1>1, <1>2 DEF TypeOK
      <4>2. access.data \in Word BY <1>1, AccessParts DEF TypeOK
      <4>3. QED BY <4>1, <4>2 DEF Word, Merged
    <3>9. mem' \in [Location -> Word] BY <1>2, <3>7, <3>8
    <3>10. QED BY <1>4, <3>1, <3>7, <3>9
  <2>3. CASE ~cpuBusControl
    <3>1. other.op = "write" /\ addr_latch = other.addr BY <1>1, <1>4, <2>3, SMT DEF Latched
    <3>2. ~sdram_slot_cpu_wr BY <1>1, <1>4, <2>3, SMT DEF Marked
    <3>3. Command.addr = other.addr BY <2>3, <3>1, Commands
    <3>4. at = other.addr /\ other.addr \in Location
      <4>1. other.addr \in Location BY <1>1 DEF TypeOK
      <4>2. QED BY <3>1, <3>3, <4>1, Pair
    <3>5. Command.lanes = Lanes /\ Command.data = other.data BY <2>3 DEF Command
    <3>6. Merged(mem[at], Command.lanes, Command.data) \in Word
      <4>1. mem[at] \in Word /\ other.data \in Word BY <1>1, <1>2, <3>4 DEF TypeOK
      <4>2. QED BY <3>5, <4>1 DEF Word, Merged
    <3>7. mem' \in [Location -> Word] BY <1>2, <2>1, <3>4, <3>6
    <3>8. \A l \in Location : mem'[l] # mem[l] => l = other.addr BY <1>2, <2>1, <3>4
    <3>9. QED BY <1>4, <3>1, <3>2, <3>7, <3>8
  <2>4. QED BY <2>2, <2>3
<1>5. QED BY <1>3, <1>4

(* Only a write of the processor's own changes what it reaches. *)
LEMMA OursChange ==
  ASSUME BusInv, NEW ready \in BOOLEAN, Clock(ready), NEW l \in Ram \cup Rom, mem'[l] # mem[l]
  PROVE busPhase = 1 /\ sdram_slot_cpu_wr /\ selectRAM
<1>1. other.op = "write" => other.addr \in Disk
  BY OthersParts DEF BusInv, TypeOK
<1>2. l \in Location /\ l \notin Disk BY PlacesAssumption
<1>3. QED BY <1>1, <1>2, MemStep

(* A memory cycle is about a place of RAM or ROM. *)
LEMMA OurPlace ==
  ASSUME BusInv, memCycle
  PROVE addr.loc \in Ram \cup Rom /\ addr.loc = access.loc /\ (selectRAM => addr.loc \in Ram)
<1>1. Wrapper /\ access \in Access BY DEF BusInv, TypeOK
<1>2. as_r BY DEF memCycle, selectRAM, selectROM
<1>3. s_state # 0 BY <1>1, <1>2, SMT DEF Wrapper
<1>4. addr = [kind |-> access.kind, loc |-> access.loc] BY <1>1, <1>3 DEF Wrapper
<1>5. addr.kind = access.kind /\ addr.loc = access.loc BY <1>4
<1>6. access.kind \in {"ram", "rom"} /\ (selectRAM => access.kind = "ram")
  BY <1>5 DEF memCycle, selectRAM, selectROM
<1>7. QED BY <1>1, <1>5, <1>6, AccessParts

(* A mark of the next clock, and the cycle it belongs to in this one. *)
LEMMA MarkStep ==
  ASSUME BusInv, NEW ready \in BOOLEAN, Clock(ready), sdram_slot_cpu_rd' \/ sdram_slot_cpu_wr'
  PROVE /\ memCycle /\ memCycle' /\ addr' = addr /\ access' = access
        /\ s_state \in 2 .. 5 /\ (wr' <=> wr) /\ (sdram_slot_cpu_rd' <=> ~wr) /\ (sdram_slot_cpu_wr' <=> wr)
<1>1. memCycle' /\ s_state' = 4 /\ (sdram_slot_cpu_rd' <=> ~wr') /\ (sdram_slot_cpu_wr' <=> wr')
  BY MarkedKeeps DEF Marked
<1>2. s_state # 1 BY <1>1, WrapperStep, SMT
<1>3. memCycle /\ s_state \in 2 .. 5 BY <1>1, <1>2, Cycles
<1>4. (wr' <=> wr) /\ addr' = addr /\ access' = access BY <1>3, Cycles, SMT
<1>5. QED BY <1>1, <1>3, <1>4

LEMMA ReadWordKeeps ==
  ASSUME BusInv, NEW ready \in BOOLEAN, Clock(ready)
  PROVE ReadWord'
<1>1. Wrapper /\ TypeOK /\ Marked /\ Latched /\ ReadWord /\ AtRest BY DEF BusInv
<1>2. busPhase \in {0, 1, 2, 3} BY <1>1, SMT DEF TypeOK
<1>3. ASSUME memCycle, ~wr PROVE mem'[addr.loc] = mem[addr.loc]
  <2>1. ~sdram_slot_cpu_wr BY <1>1, <1>3 DEF Marked
  <2>2. QED BY <1>3, <2>1, OurPlace, OursChange
<1>4. ASSUME sdram_slot_cpu_rd', ~cpu_sdram_rd_done', busPhase' \in {2, 3}
      PROVE sd_data' = mem'[addr'.loc]
            /\ (busPhase' = 3 => dout' = mem'[addr'.loc] /\ dout_addr' = addr'.loc)
  <2>1. memCycle /\ addr' = addr /\ ~wr BY <1>4, MarkStep
  <2>2. mem'[addr'.loc] = mem[addr.loc] BY <1>3, <2>1
  <2>3. busPhase \in {1, 2} BY <1>1, <1>2, <1>4, PhaseStep, SMT DEF Clock
  <2>4. sdram_slot_cpu_rd /\ ~sdram_slot_cpu_wr
    BY <1>1, <1>4, <2>1, <2>3, Bits, SMT DEF Marked
  <2>5. cpuBusControl BY <1>1, <2>3, <2>4, SMT DEF Marked
  <2>6. oe_latch /\ ~we_latch /\ addr_latch = addr.loc
    BY <1>1, <2>3, <2>4, <2>5, SMT DEF Latched
  <2>7. CASE busPhase = 1
    <3>1. sd_data' = mem[<<addr_latch[1], Command.addr[2]>>]
      BY <2>6, <2>7 DEF Clock, Controller, CommandContinue
    <3>2. Command.addr = addr.loc /\ addr.loc \in Location BY <2>5, Commands
    <3>3. sd_data' = mem[addr.loc] BY <2>6, <3>1, <3>2, Pair
    <3>4. busPhase' = 2 BY <1>1, <2>7, PhaseStep DEF Clock
    <3>5. QED BY <2>2, <3>3, <3>4
  <2>8. CASE busPhase = 2
    <3>1. ~cpu_sdram_rd_done
      <4>1. as_r BY <2>1 DEF memCycle, selectRAM, selectROM
      <4>2. QED BY <1>4, <4>1, Bits
    <3>2. sd_data = mem[addr.loc] BY <1>1, <2>4, <2>8, <3>1 DEF ReadWord
    <3>3. sd_data' = sd_data BY <2>8 DEF Clock, Controller, CommandContinue
    <3>4. dout' = sd_data /\ dout_addr' = addr_latch BY <2>6, <2>8 DEF Clock, Controller, DataReady
    <3>5. QED BY <2>1, <2>2, <2>6, <3>2, <3>3, <3>4
  <2>9. QED BY <2>3, <2>7, <2>8
<1>5. ASSUME memCycle', ~wr', cpu_sdram_rd_done'
      PROVE cpu_data' = mem'[addr'.loc]
  <2>1. s_state # 1
    <3>1. SUFFICES ASSUME s_state = 1 PROVE FALSE OBVIOUS
    <3>2. s_state' \in 0 .. 2 BY <3>1, WrapperStep, SMT
    <3>3. QED BY <1>5, <3>2, AtRestKeeps DEF AtRest
  <2>2. memCycle /\ s_state \in 2 .. 5 BY <1>5, <2>1, Cycles
  <2>3. ~wr /\ addr' = addr BY <1>5, <2>2, Cycles, SMT
  <2>4. mem'[addr'.loc] = mem[addr.loc] BY <1>3, <2>2, <2>3
  <2>5. cpu_data' = IF sdram_slot_cpu_rd /\ slotEnd /\ cpu_rd_take THEN dout ELSE cpu_data
    BY DEF Clock, ReadHandshake, memoryDataIn
  <2>6. CASE cpu_sdram_rd_done
    <3>1. cpu_data = mem[addr.loc] BY <1>1, <2>2, <2>3, <2>6 DEF ReadWord
    <3>2. ~(sdram_slot_cpu_rd /\ slotEnd) BY <1>1, <2>3, <2>6, SMT DEF Marked, done, slotEnd
    <3>3. QED BY <2>4, <2>5, <3>1, <3>2
  <2>7. CASE ~cpu_sdram_rd_done
    <3>1. sdram_slot_cpu_rd /\ slotEnd /\ cpu_rd_take BY <1>5, <2>7, Bits
    <3>2. dout = mem[addr.loc] BY <1>1, <2>7, <3>1, SMT DEF ReadWord, slotEnd
    <3>3. QED BY <2>4, <2>5, <3>1, <3>2
  <2>8. QED BY <2>6, <2>7
<1>6. QED BY <1>4, <1>5, SMT DEF ReadWord

LEMMA WriteWordKeeps ==
  ASSUME BusInv, NEW ready \in BOOLEAN, Clock(ready)
  PROVE WriteWord'
<1>1. Wrapper /\ TypeOK /\ Marked /\ WriteWord /\ AtRest /\ Waits BY DEF BusInv
<1>2. busPhase \in {0, 1, 2, 3} BY <1>1, SMT DEF TypeOK
<1>3. SUFFICES ASSUME selectRAM', wr',
                      cpu_sdram_wr_done' \/ (sdram_slot_cpu_wr' /\ busPhase' \in {2, 3}),
                      NEW b \in access'.lanes
               PROVE mem'[addr'.loc][b] = access'.data[b]
  BY DEF WriteWord
<1>4. memCycle' BY <1>3 DEF memCycle
<1>5. s_state # 1
  <2>1. SUFFICES ASSUME s_state = 1 PROVE FALSE OBVIOUS
  <2>2. s_state' = 2 BY <2>1, WrapperStep, SMT
  <2>3. ~cpu_sdram_wr_done' BY <2>2, AtRestKeeps, SMT DEF AtRest
  <2>4. ~sdram_slot_cpu_wr' BY <2>2, MarkedKeeps, SMT DEF Marked
  <2>5. QED BY <1>3, <2>3, <2>4
<1>6. memCycle /\ s_state \in 2 .. 5 BY <1>4, <1>5, Cycles
<1>7. wr /\ selectRAM /\ addr' = addr /\ access' = access BY <1>3, <1>6, Cycles, SMT
<1>8. access \in Access /\ access.lanes \subseteq Lanes BY <1>1, AccessParts DEF TypeOK
<1>9. CASE busPhase = 1 /\ sdram_slot_cpu_wr
  <2>1. mem' = [mem EXCEPT ![addr.loc] = Merged(mem[addr.loc], access.lanes, access.data)]
    BY <1>7, <1>9, MemStep
  <2>2. addr.loc \in Location /\ mem \in [Location -> Word] BY <1>1 DEF TypeOK
  <2>3. mem'[addr.loc] = Merged(mem[addr.loc], access.lanes, access.data) BY <2>1, <2>2
  <2>4. QED BY <1>3, <1>7, <1>8, <2>3 DEF Merged
<1>10. CASE ~(busPhase = 1 /\ sdram_slot_cpu_wr)
  <2>1. mem'[addr.loc] = mem[addr.loc] BY <1>6, <1>10, OurPlace, OursChange
  <2>2. cpu_sdram_wr_done \/ (sdram_slot_cpu_wr /\ busPhase \in {2, 3})
    <3>1. CASE cpu_sdram_wr_done'
      <4>1. ~cpu_sdram_wr_done => ~(cpu_wr_wait >= 4)
        BY <1>1, <1>6, <1>7, SMT DEF Waits, TypeOK, done
      <4>2. cpu_sdram_wr_done \/ (sdram_slot_cpu_wr /\ slotEnd) BY <3>1, <4>1, Bits
      <4>3. QED BY <4>2 DEF slotEnd
    <3>2. CASE sdram_slot_cpu_wr' /\ busPhase' \in {2, 3}
      <4>1. busPhase \in {1, 2} BY <1>1, <1>2, <3>2, PhaseStep, SMT DEF Clock
      <4>2. sdram_slot_cpu_wr BY <3>2, <4>1, Bits, SMT
      <4>3. QED BY <1>10, <4>1, <4>2
    <3>3. QED BY <1>3, <3>1, <3>2
  <2>3. mem[addr.loc][b] = access.data[b] BY <1>1, <1>3, <1>7, <2>2 DEF WriteWord
  <2>4. QED BY <1>7, <2>1, <2>3
<1>11. QED BY <1>9, <1>10

(* What the wrapper latches for the kernel. *)
LEMMA ReplyStep ==
  ASSUME BusInv, NEW ready \in BOOLEAN, Clock(ready)
  PROVE /\ s_state = 6 => din_r' = cpu_data'
        /\ s_state # 6 => din_r' = din_r
        /\ ~(sdram_slot_cpu_rd /\ slotEnd) => cpu_data' = cpu_data
<1>1. Wrapper /\ TypeOK BY DEF BusInv
<1>2. busPhase % 2 = 0 <=> busPhase \in {0, 2} BY PhaseStep DEF Clock, BusInv
<1>3. cpu_data' = cpuDataOut BY DEF Clock, ReadHandshake, cpuDataOut
<1>4. ~(sdram_slot_cpu_rd /\ slotEnd) => cpu_data' = cpu_data BY <1>3 DEF cpuDataOut
<1>5. s_state = 6 => busPhase \notin {0, 2} BY <1>1, SMT DEF Wrapper
<1>6. IF busPhase \in {0, 2} THEN Phi1 ELSE Phi2(Dtack(ready))
  BY <1>2, Zenon DEF Clock, Processor
<1>7. din_r' = IF s_state = 6 THEN cpuDataOut ELSE din_r
  BY <1>5, <1>6, Zenon DEF Phi1, Phi2
<1>8. QED BY <1>3, <1>4, <1>7

LEMMA RepliedKeeps ==
  ASSUME BusInv, NEW ready \in BOOLEAN, Clock(ready)
  PROVE Replied'
<1>1. Marked /\ Replied BY DEF BusInv
<1>2. SUFFICES ASSUME ~(memCycle' /\ ~wr' /\ cpu_sdram_rd_done'), s_state # 6
               PROVE din_r' = cpu_data'
  BY ReplyStep DEF Replied
<1>3. ASSUME memCycle, ~wr, cpu_sdram_rd_done PROVE FALSE
  <2>1. s_state \in 2 .. 6 /\ memCycle' BY <1>2, <1>3, Cycles
  <2>2. ~wr' BY <1>3, <2>1, Cycles
  <2>3. as_r BY <1>3 DEF memCycle, selectRAM, selectROM
  <2>4. QED BY <1>2, <1>3, <2>1, <2>2, <2>3, Bits
<1>4. ~(sdram_slot_cpu_rd /\ slotEnd)
  <2>1. SUFFICES ASSUME sdram_slot_cpu_rd, slotEnd PROVE FALSE OBVIOUS
  <2>2. memCycle /\ ~wr /\ s_state = 4 BY <1>1, <2>1 DEF Marked
  <2>3. memCycle' BY <1>2, <2>2, Cycles
  <2>4. (wr' <=> wr) BY <2>2, Cycles, SMT
  <2>5. sdram_slot_cpu_rd' \/ sdram_slot_cpu_wr' BY <2>1, Bits, SMT DEF slotEnd
  <2>6. busPhase' = 0 BY <2>1, PhaseStep DEF Clock, BusInv, slotEnd
  <2>7. done' BY <2>5, <2>6, MarkedKeeps, SMT DEF Marked
  <2>8. QED BY <1>2, <2>2, <2>3, <2>4, <2>7 DEF done
<1>5. QED BY <1>1, <1>2, <1>3, <1>4, ReplyStep DEF Replied

LEMMA OthersKeep ==
  ASSUME BusInv, NEW ready \in BOOLEAN, Clock(ready)
  PROVE other' \in Others(busCycle')
<1>1. CASE slotEnd
  <2>1. busCycle' = (busCycle + 1) % 4 BY <1>1, PhaseStep DEF BusInv, Clock, slotEnd
  <2>2. QED BY <1>1, <2>1 DEF Clock, OtherMasters
<1>2. CASE ~slotEnd
  <2>1. busCycle' = busCycle BY <1>2, PhaseStep DEF BusInv, Clock, slotEnd
  <2>2. QED BY <1>2, <2>1 DEF BusInv, Clock, OtherMasters
<1>3. QED BY <1>1, <1>2

LEMMA TypeKeeps ==
  ASSUME BusInv, NEW ready \in BOOLEAN, Clock(ready)
  PROVE TypeOK'
<1>1. TypeOK BY DEF BusInv
<1>2. busPhase \in {0, 1, 2, 3} /\ s_state \in {0, 1, 2, 3, 4, 5, 6, 7} BY <1>1, SMT DEF TypeOK
<1>3. busPhase' \in 0 .. 3 /\ busCycle' \in 0 .. 3 BY <1>1, <1>2, PhaseStep, SMT DEF Clock
<1>4. access' \in Access /\ s_state' \in 0 .. 7 BY <1>2, WrapperStep, SMT
<1>5. addr' \in [kind : {"none", "io", "ram", "rom"}, loc : Location]
  BY <1>1, AccessParts DEF TypeOK, Clock, Processor
<1>6. other' \in [op : {"none", "read", "write"}, addr : Location, data : Word]
  BY <1>3, OthersKeep, OthersParts
<1>7. mem' \in [Location -> Word] BY MemStep
<1>8. ds' \in SUBSET Lanes
  BY <1>4, WrapperKeeps, AccessParts DEF Wrapper
<1>9. addr_latch' \in Location /\ dout_addr' \in Location
  BY <1>1, Commands DEF TypeOK, Clock, Controller, CommandStart, Sample, DataReady
<1>10. sd_data' \in Word /\ dout' \in Word
  <2>1. <<addr_latch[1], Command.addr[2]>> \in Location
    BY <1>1, Commands DEF TypeOK, Location
  <2>2. mem[<<addr_latch[1], Command.addr[2]>>] \in Word BY <1>1, <2>1 DEF TypeOK
  <2>3. sd_data' \in Word BY <1>1, <2>2 DEF TypeOK, Clock, Controller, CommandContinue
  <2>4. dout' \in Word BY <1>1 DEF TypeOK, Clock, Controller, DataReady
  <2>5. QED BY <2>3, <2>4
<1>11. cpu_data' \in Word BY <1>1 DEF TypeOK, Clock, ReadHandshake, memoryDataIn
<1>12. din_r' \in Word BY <1>1, <1>11, ReplyStep DEF TypeOK
<1>13. cpu_rd_wait' \in 0 .. 4 /\ cpu_wr_wait' \in 0 .. 4
  BY <1>1, SMT DEF TypeOK, Clock, ReadHandshake, ReadDone, WriteHandshake, Wait
<1>14. /\ sdram_slot_cpu_rd' \in BOOLEAN /\ sdram_slot_cpu_wr' \in BOOLEAN
       /\ cpu_sdram_rd_done' \in BOOLEAN /\ cpu_sdram_wr_done' \in BOOLEAN
       /\ turbo_dtack_en' \in BOOLEAN
  BY <1>1, Zenon DEF TypeOK, Clock, ReadHandshake, ReadOwner, ReadDone, WriteHandshake, TurboDtack,
     cpu_sdram_rd_cycle, cpu_sdram_wr_cycle
<1>15. oe_latch' \in BOOLEAN /\ we_latch' \in BOOLEAN
  <2>1. Command.oe \in BOOLEAN /\ Command.we \in BOOLEAN
    BY Zenon DEF Command, cpu_sdram_rd_cycle
  <2>2. QED BY <1>1, <2>1, Zenon DEF TypeOK, Clock, Controller, CommandStart, Sample
<1>16. as_r' \in BOOLEAN /\ wr' \in BOOLEAN
  <2>1. access.write \in BOOLEAN BY <1>1, AccessParts DEF TypeOK
  <2>2. QED BY <1>1, <2>1, Zenon DEF TypeOK, Clock, Processor, Phi1, Phi2
<1>17. QED
  BY <1>3, <1>4, <1>5, <1>6, <1>7, <1>8, <1>9, <1>10, <1>11, <1>12, <1>13, <1>14, <1>15, <1>16
  DEF TypeOK

LEMMA ClockKeeps ==
  ASSUME BusInv, NEW ready \in BOOLEAN, Clock(ready)
  PROVE BusInv'
  BY TypeKeeps, OthersKeep, WrapperKeeps, AtRestKeeps, MarkedKeeps, WaitsKeep, EndsKeep,
     LatchedKeeps, ReadWordKeeps, WriteWordKeeps, RepliedKeeps DEF BusInv

LEMMA InitHolds == Init => BusInv
<1>1. SUFFICES ASSUME Init PROVE BusInv OBVIOUS
<1>2. aWord \in Word /\ Io \in Location /\ Images \subseteq [Location -> Word]
  BY PlacesAssumption DEF aWord
<1>3. busPhase = 0 /\ busCycle = 0 /\ oe_latch = FALSE /\ we_latch = FALSE
  BY <1>1 DEF Init, SdramInit
<1>4. access = NoAccess /\ access \in Access BY <1>1 DEF Init, Access
<1>5. idle BY <1>4 DEF idle, NoAccess
<1>6. other = NoOther /\ other \in Others(busCycle) BY <1>1 DEF Init, Others
<1>7. TypeOK
  <2>1. addr \in [kind : {"none", "io", "ram", "rom"}, loc : Location]
    BY <1>1, <1>2 DEF Init
  <2>2. other \in [op : {"none", "read", "write"}, addr : Location, data : Word]
    BY <1>2, <1>6 DEF NoOther
  <2>3. mem \in [Location -> Word] BY <1>1, <1>2 DEF Init
  <2>4. s_state \in 0 .. 7 /\ cpu_rd_wait \in 0 .. 4 /\ cpu_wr_wait \in 0 .. 4
        /\ busPhase \in 0 .. 3 /\ busCycle \in 0 .. 3
    BY <1>1, <1>3, SMT DEF Init
  <2>5. /\ sd_data = aWord /\ dout = aWord /\ din_r = aWord /\ cpu_data = aWord
        /\ addr_latch = Io /\ dout_addr = Io /\ ds = {}
    BY <1>1 DEF Init
  <2>6. {oe_latch, we_latch, as_r, wr, turbo_dtack_en} \subseteq BOOLEAN
        /\ {sdram_slot_cpu_rd, cpu_sdram_rd_done} \subseteq BOOLEAN
        /\ {sdram_slot_cpu_wr, cpu_sdram_wr_done} \subseteq BOOLEAN
    BY <1>1, <1>3, Zenon DEF Init
  <2>7. {sd_data, dout, din_r, cpu_data} \subseteq Word /\ {addr_latch, dout_addr} \subseteq Location
    BY <1>2, <2>5
  <2>8. ds \in SUBSET Lanes BY <2>5
  <2>9. QED BY <1>4, <2>1, <2>2, <2>3, <2>4, <2>6, <2>7, <2>8 DEF TypeOK
<1>8. s_state = 0 /\ ~as_r /\ ~wr /\ ds = {} /\ din_r = cpu_data BY <1>1 DEF Init
<1>9. ~sdram_slot_cpu_rd /\ ~sdram_slot_cpu_wr /\ ~cpu_sdram_rd_done /\ ~cpu_sdram_wr_done
      /\ cpu_rd_wait = 0 /\ cpu_wr_wait = 0
  BY <1>1 DEF Init
<1>10. ~memCycle /\ ~selectRAM BY <1>8 DEF memCycle, selectRAM, selectROM
<1>11. Wrapper BY <1>5, <1>8, SMT DEF Wrapper, laneState
<1>12. AtRest /\ Marked /\ Waits /\ Ends BY <1>9, <1>10 DEF AtRest, Marked, Waits, Ends
<1>13. Latched /\ ReadWord /\ WriteWord /\ Replied
  BY <1>3, <1>8, <1>9, <1>10 DEF Latched, ReadWord, WriteWord, Replied
<1>14. QED BY <1>6, <1>7, <1>11, <1>12, <1>13 DEF BusInv

LEMMA StutterKeeps == BusInv /\ UNCHANGED vars => BusInv'
<1>1. SUFFICES ASSUME BusInv, UNCHANGED vars PROVE BusInv' OBVIOUS
<1> USE <1>1 DEF vars, sdramVars, cpuVars, readVars, writVars
<1>2. TypeOK' BY DEF BusInv, TypeOK
<1>3. other' \in Others(busCycle') BY DEF BusInv
<1>4. (memCycle' <=> memCycle) /\ (selectRAM' <=> selectRAM) BY DEF memCycle, selectRAM, selectROM
<1>5. (own' <=> own) /\ (done' <=> done) /\ (cpuBusControl' <=> cpuBusControl)
  BY DEF own, done, cpuBusControl
<1>6. Wrapper' BY DEF BusInv, Wrapper, laneState, idle
<1>7. AtRest' BY DEF BusInv, AtRest
<1>8. Marked' BY <1>4, <1>5 DEF BusInv, Marked
<1>9. Waits' BY <1>4, <1>5 DEF BusInv, Waits
<1>10. Ends' BY <1>4, <1>5 DEF BusInv, Ends
<1>11. Latched' BY <1>4, <1>5 DEF BusInv, Latched
<1>12. ReadWord' /\ WriteWord' /\ Replied' BY <1>4 DEF BusInv, ReadWord, WriteWord, Replied
<1>13. QED BY <1>2, <1>3, <1>6, <1>7, <1>8, <1>9, <1>10, <1>11, <1>12 DEF BusInv

LEMMA StepKeeps == BusInv /\ [Next]_vars => BusInv'
  BY ClockKeeps, StutterKeeps DEF Next

-----------------------------------------------------------------------------
(* The results *)

(* Every register of the wrapper, the handshakes and the controller keeps a  *)
(* value of its kind, whatever the program and the other masters do.         *)
THEOREM BusTypeCorrect == Spec => []TypeOK
<1>1. BusInv => TypeOK BY DEF BusInv
<1>2. QED BY InitHolds, StepKeeps, <1>1, PTL DEF Spec

(* A waiting cycle has seen at most two slots end, so that neither timeout   *)
(* fallback of LBMacTwo.sv's handshakes is reached.                          *)
THEOREM SlotsComeInTime == Spec => []OwnedSlotInTime
<1>1. ASSUME BusInv PROVE OwnedSlotInTime
  <2>1. Waits /\ TypeOK BY <1>1 DEF BusInv
  <2>2. memCycle /\ ~done => cpu_rd_wait = 0 /\ cpu_wr_wait \in {0, 1, 2}
    BY <2>1, SMT DEF Waits, TypeOK
  <2>3. memCycle /\ ~done => cpu_rd_wait = 0 /\ cpu_wr_wait <= 2 BY <2>2, SMT
  <2>4. QED BY <2>3 DEF OwnedSlotInTime, cpu_sdram_rd_cycle, cpu_sdram_wr_cycle, memCycle, done
<1>2. QED BY InitHolds, StepKeeps, <1>1, PTL DEF Spec

(* A slot that ends a RAM write has latched its command: "the write is       *)
(* silently lost" never happens.                                             *)
THEOREM WritesAreNotLost == Spec => []NoPhantomWrite
<1>1. ASSUME BusInv PROVE NoPhantomWrite
  <2>1. SUFFICES ASSUME sdram_slot_cpu_wr, selectRAM, slotEnd, ~cpu_sdram_wr_done
                 PROVE we_latch /\ \A b \in access.lanes : mem[addr.loc][b] = access.data[b]
    BY DEF NoPhantomWrite
  <2>2. Marked /\ Latched /\ WriteWord BY <1>1 DEF BusInv
  <2>3. wr /\ ~done BY <2>1, <2>2 DEF Marked, done
  <2>4. cpuBusControl BY <2>1, <2>2, <2>3 DEF Marked
  <2>5. busPhase = 3 BY <2>1 DEF slotEnd
  <2>6. we_latch BY <2>1, <2>2, <2>4, <2>5, SMT DEF Latched
  <2>7. QED BY <2>1, <2>2, <2>3, <2>5, <2>6 DEF WriteWord
<1>2. QED BY InitHolds, StepKeeps, <1>1, PTL DEF Spec

(* No clock changes a word that is not the target of its slot's command: the *)
(* row and the column of sdram.v belong to one address.                      *)
THEOREM TargetsOnly == Spec => OnlyTheTargetChanges
<1>1. ASSUME BusInv, [Next]_vars
      PROVE [\A l \in Location : mem'[l] # mem[l] =>
               (selectRAM /\ wr /\ l = addr.loc) \/ (other.op = "write" /\ l = other.addr)]_vars
  <2>1. CASE UNCHANGED vars BY <2>1
  <2>2. CASE Next
    <3>1. PICK ready \in BOOLEAN : Clock(ready) BY <2>2 DEF Next
    <3>2. SUFFICES ASSUME NEW l \in Location, mem'[l] # mem[l]
                   PROVE (selectRAM /\ wr /\ l = addr.loc) \/ (other.op = "write" /\ l = other.addr)
      OBVIOUS
    <3>3. CASE busPhase = 1 /\ sdram_slot_cpu_wr /\ selectRAM
      <4>1. mem' = [mem EXCEPT ![addr.loc] = Merged(mem[addr.loc], access.lanes, access.data)]
        BY <1>1, <3>1, <3>3, MemStep
      <4>2. mem \in [Location -> Word] BY <1>1 DEF BusInv, TypeOK
      <4>3. l = addr.loc BY <3>2, <4>1, <4>2
      <4>4. wr BY <1>1, <3>3 DEF BusInv, Marked
      <4>5. QED BY <3>3, <4>3, <4>4
    <3>4. CASE ~(busPhase = 1 /\ sdram_slot_cpu_wr /\ selectRAM)
      BY <1>1, <3>1, <3>2, <3>4, MemStep
    <3>5. QED BY <3>3, <3>4
  <2>3. QED BY <1>1, <2>1, <2>2
<1>2. QED BY InitHolds, StepKeeps, <1>1, PTL DEF Spec, OnlyTheTargetChanges

-----------------------------------------------------------------------------
(* The atomic memory *)

Store == [l \in Ram \cup Rom |-> mem[l]]

(* What the atomic memory is asked for. *)
LEMMA Requests ==
  ASSUME BusInv
  PROVE /\ ~memCycle => request = Atomic!NoRequest
        /\ memCycle => /\ request = [loc |-> addr.loc, write |-> wr, lanes |-> access.lanes,
                                     data |-> access.data]
                       /\ request # Atomic!NoRequest
                       /\ request \in Atomic!Request
                       /\ request.loc = addr.loc /\ request.lanes = access.lanes
                       /\ request.data = access.data /\ (request.write <=> wr)
<1>1. ~memCycle => request = Atomic!NoRequest BY DEF request, memCycle, Atomic!NoRequest
<1>2. SUFFICES ASSUME memCycle
               PROVE /\ request = [loc |-> addr.loc, write |-> wr, lanes |-> access.lanes,
                                   data |-> access.data]
                     /\ request # Atomic!NoRequest
                     /\ request \in Atomic!Request
                     /\ request.loc = addr.loc /\ request.lanes = access.lanes
                     /\ request.data = access.data /\ (request.write <=> wr)
  BY <1>1
<1>3. request = [loc |-> addr.loc, write |-> wr, lanes |-> access.lanes, data |-> access.data]
  BY <1>2 DEF request, memCycle
<1>4. addr.loc \in Ram \cup Rom BY <1>2, OurPlace
<1>5. wr \in BOOLEAN /\ access.lanes \in SUBSET Lanes /\ access.data \in Word
  BY AccessParts DEF BusInv, TypeOK
<1>6. request \in Atomic!Request BY <1>3, <1>4, <1>5 DEF Atomic!Request, Atomic!Word, Word
<1>7. request # Atomic!NoRequest
  <2>1. DOMAIN request = {"loc", "write", "lanes", "data"} BY <1>3
  <2>2. DOMAIN Atomic!NoRequest = {"loc"} BY DEF Atomic!NoRequest
  <2>3. QED BY <2>1, <2>2
<1>8. request.loc = addr.loc /\ request.lanes = access.lanes /\ request.data = access.data
      /\ (request.write <=> wr)
  BY <1>3, Zenon
<1>9. QED BY <1>3, <1>6, <1>7, <1>8

(* A cycle in progress is one request. *)
LEMMA RequestKeeps ==
  ASSUME BusInv, NEW ready \in BOOLEAN, Clock(ready), memCycle, s_state # 6
  PROVE memCycle' /\ request' = request
<1>1. BusInv' BY ClockKeeps
<1>2. s_state \in 2 .. 6 /\ memCycle' BY Cycles
<1>3. wr' = wr
  <2>1. wr \in BOOLEAN /\ wr' \in BOOLEAN BY <1>1 DEF BusInv, TypeOK
  <2>2. wr' <=> wr BY <1>2, Cycles
  <2>3. QED BY <2>1, <2>2
<1>4. addr' = addr BY <1>2, Cycles
<1>5. access' = access
  <2>1. s_state \in 1 .. 6 BY <1>2, SMT
  <2>2. QED BY <2>1, Cycles
<1>6. request' = [loc |-> addr'.loc, write |-> wr', lanes |-> access'.lanes, data |-> access'.data]
  BY <1>2 DEF request, memCycle
<1>7. request = [loc |-> addr.loc, write |-> wr, lanes |-> access.lanes, data |-> access.data]
  BY DEF request, memCycle
<1>8. QED BY <1>2, <1>3, <1>4, <1>5, <1>6, <1>7

(* What the processor reaches changes by its own write only. *)
LEMMA StoreKeeps ==
  ASSUME BusInv, NEW ready \in BOOLEAN, Clock(ready),
         ~(busPhase = 1 /\ sdram_slot_cpu_wr /\ selectRAM)
  PROVE Store' = Store
<1>1. \A l \in Ram \cup Rom : mem'[l] = mem[l] BY OursChange
<1>2. QED BY <1>1 DEF Store

(* The clock that starts a memory cycle. *)
LEMMA BeginsOne ==
  ASSUME BusInv, NEW ready \in BOOLEAN, Clock(ready), s_state = 1, access.kind \in {"ram", "rom"}
  PROVE /\ request = Atomic!NoRequest /\ request' \in Atomic!Request
        /\ Store' = Store /\ din_r' = din_r
<1>1. ~memCycle
  <2>1. s_state \notin 2 .. 6 BY SMT
  <2>2. QED BY <2>1, Cycles
<1>2. memCycle'
  <2>1. s_state' \in 2 .. 6 BY WrapperStep, SMT
  <2>2. QED BY <2>1, Cycles
<1>3. request' \in Atomic!Request
  <2>1. BusInv' BY ClockKeeps
  <2>2. addr'.loc \in Ram \cup Rom
    <3>1. addr'.loc = access.loc BY Cycles
    <3>2. QED BY <3>1, AccessParts DEF BusInv, TypeOK
  <2>3. wr' \in BOOLEAN /\ access'.lanes \in SUBSET Lanes /\ access'.data \in Word
    <3>1. access' \in Access /\ wr' \in BOOLEAN BY <2>1 DEF BusInv, TypeOK
    <3>2. QED BY <3>1, AccessParts
  <2>4. request' = [loc |-> addr'.loc, write |-> wr', lanes |-> access'.lanes,
                    data |-> access'.data]
    BY <1>2 DEF request, memCycle
  <2>5. QED BY <2>2, <2>3, <2>4 DEF Atomic!Request, Atomic!Word, Word
<1>4. request = Atomic!NoRequest BY <1>1, Requests
<1>5. Store' = Store
  <2>1. ~selectRAM BY <1>1 DEF memCycle
  <2>2. QED BY <2>1, StoreKeeps
<1>6. din_r' = din_r BY ReplyStep
<1>7. QED BY <1>3, <1>4, <1>5, <1>6

(* The clock that ends one: the handshake has its word, and the slot is over. *)
LEMMA EndsOne ==
  ASSUME BusInv, NEW ready \in BOOLEAN, Clock(ready), memCycle, s_state = 6
  PROVE /\ request' = Atomic!NoRequest /\ Store' = Store
        /\ ~wr => din_r' = Store[request.loc]
        /\ wr /\ request.loc \in Ram =>
             \A b \in request.lanes : Store[request.loc][b] = request.data[b]
<1>1. TypeOK /\ Marked /\ Waits /\ Ends /\ ReadWord /\ WriteWord BY DEF BusInv
<1>2. done BY <1>1, SMT DEF Waits
<1>3. busPhase = 3 BY <1>1, <1>2, SMT DEF Ends, TypeOK
<1>4. ~sdram_slot_cpu_rd /\ ~sdram_slot_cpu_wr BY <1>1, <1>2, <1>3, SMT DEF Marked
<1>5. Store' = Store BY <1>4, StoreKeeps
<1>6. ~memCycle'
  <2>1. s_state' = 7 BY WrapperStep, SMT
  <2>2. s_state' \notin 2 .. 6 BY <2>1, SMT
  <2>3. QED BY <2>2, Cycles
<1>7. request' = Atomic!NoRequest BY <1>6 DEF request, memCycle, Atomic!NoRequest
<1>8. addr.loc \in Ram \cup Rom /\ request.loc = addr.loc /\ request.lanes = access.lanes
      /\ request.data = access.data
  BY OurPlace, Requests
<1>9. Store[request.loc] = mem[addr.loc] BY <1>8 DEF Store
<1>10. ASSUME ~wr PROVE din_r' = Store[request.loc]
  <2>1. cpu_sdram_rd_done BY <1>2, <1>10 DEF done
  <2>2. cpu_data = mem[addr.loc] BY <1>1, <1>10, <2>1 DEF ReadWord
  <2>3. din_r' = cpu_data BY <1>4, ReplyStep
  <2>4. QED BY <1>9, <2>2, <2>3
<1>11. ASSUME wr, request.loc \in Ram
       PROVE \A b \in request.lanes : Store[request.loc][b] = request.data[b]
  <2>1. cpu_sdram_wr_done BY <1>2, <1>11 DEF done
  <2>2. selectRAM
    <3>1. access \in Access /\ Ram \cap Rom = {} BY <1>1, PlacesAssumption DEF TypeOK
    <3>2. access.loc \in Ram BY <1>8, <1>11, OurPlace
    <3>3. access.kind \in {"ram", "rom"} BY Cycles
    <3>4. access.kind = "ram" BY <3>1, <3>2, <3>3, AccessParts
    <3>5. s_state \in 2 .. 6 BY SMT
    <3>6. QED BY <3>4, <3>5, Cycles
  <2>3. \A b \in access.lanes : mem[addr.loc][b] = access.data[b]
    BY <1>1, <1>11, <2>1, <2>2 DEF WriteWord
  <2>4. QED BY <1>8, <1>9, <2>3
<1>12. QED BY <1>5, <1>7, <1>10, <1>11

(* The clock in which a write reaches the chip. *)
LEMMA LandsOne ==
  ASSUME BusInv, NEW ready \in BOOLEAN, Clock(ready),
         busPhase = 1, sdram_slot_cpu_wr, selectRAM
  PROVE /\ memCycle /\ wr /\ s_state = 4 /\ request.loc \in Ram /\ request.write
        /\ Store' = [Store EXCEPT ![request.loc] =
                       [b \in Lanes |-> IF b \in request.lanes THEN request.data[b] ELSE @[b]]]
<1>1. memCycle /\ wr /\ s_state = 4 BY DEF BusInv, Marked
<1>2. addr.loc \in Ram BY <1>1, OurPlace
<1>3. /\ request.loc = addr.loc /\ request.lanes = access.lanes /\ request.data = access.data
      /\ (request.write <=> wr)
  BY <1>1, Requests
<1>4. mem' = [mem EXCEPT ![addr.loc] = Merged(mem[addr.loc], access.lanes, access.data)]
  BY MemStep
<1>5. mem \in [Location -> Word] /\ Ram \cup Rom \subseteq Location
  BY PlacesAssumption DEF BusInv, TypeOK
<1> DEFINE word == Merged(mem[addr.loc], access.lanes, access.data)
<1>6. \A l \in Ram \cup Rom : mem'[l] = IF l = addr.loc THEN word ELSE mem[l] BY <1>4, <1>5
<1>7. Store' = [Store EXCEPT ![addr.loc] = word]
  <2> HIDE DEF word
  <2>1. QED BY <1>2, <1>6 DEF Store
<1>8. Store[addr.loc] = mem[addr.loc] BY <1>2 DEF Store
<1>9. Store' = [Store EXCEPT ![request.loc] =
                  [b \in Lanes |-> IF b \in request.lanes THEN request.data[b]
                                                          ELSE Store[request.loc][b]]]
  BY <1>3, <1>7, <1>8 DEF Merged
<1>10. QED BY <1>1, <1>2, <1>3, <1>9

(* Every clock is one step of the atomic memory, or none. *)
LEMMA ClockRefines ==
  ASSUME BusInv, NEW ready \in BOOLEAN, Clock(ready)
  PROVE Atomic!Next \/ UNCHANGED <<Store, request, din_r>>
<1>1. TypeOK /\ Marked /\ Replied BY DEF BusInv
<1>2. s_state \in {0, 1, 2, 3, 4, 5, 6, 7} BY <1>1, SMT DEF TypeOK
<1>3. CASE s_state = 1 /\ access.kind \in {"ram", "rom"}
  BY <1>3, BeginsOne DEF Store, Atomic!Next, Atomic!Begin
<1>4. CASE memCycle /\ s_state = 6
  <2>1. request # Atomic!NoRequest /\ (request.write <=> wr) BY <1>4, Requests
  <2>2. CASE wr
    <3>1. Atomic!EndWrite
      BY <1>4, <2>1, <2>2, EndsOne DEF Store, Atomic!EndWrite, Atomic!Holds
    <3>2. QED BY <3>1 DEF Atomic!Next
  <2>3. CASE ~wr
    <3>1. Atomic!EndRead BY <1>4, <2>1, <2>3, EndsOne DEF Store, Atomic!EndRead
    <3>2. QED BY <3>1 DEF Atomic!Next
  <2>4. QED BY <2>2, <2>3
<1>5. CASE memCycle /\ s_state # 6
  <2>1. request' = request /\ request # Atomic!NoRequest BY <1>5, RequestKeeps, Requests
  <2>2. din_r' = din_r BY <1>5, ReplyStep
  <2>3. CASE busPhase = 1 /\ sdram_slot_cpu_wr /\ selectRAM
    <3>1. Atomic!Land BY <2>1, <2>2, <2>3, LandsOne DEF Store, Atomic!Land
    <3>2. QED BY <3>1 DEF Atomic!Next
  <2>4. CASE ~(busPhase = 1 /\ sdram_slot_cpu_wr /\ selectRAM)
    BY <2>1, <2>2, <2>4, StoreKeeps
  <2>5. QED BY <2>3, <2>4
<1>6. CASE ~memCycle /\ ~(s_state = 1 /\ access.kind \in {"ram", "rom"})
  <2>1. ~memCycle'
    <3>1. SUFFICES ASSUME memCycle' PROVE FALSE OBVIOUS
    <3>2. s_state = 1 BY <1>6, <3>1, Cycles
    <3>3. access.kind \in {"ram", "rom"} BY <3>1, Cycles
    <3>4. QED BY <1>6, <3>2, <3>3
  <2>2. request = Atomic!NoRequest /\ request' = Atomic!NoRequest
    BY <1>6, <2>1 DEF request, memCycle, Atomic!NoRequest
  <2>3. ~selectRAM BY <1>6 DEF memCycle
  <2>4. Store' = Store BY <2>3, StoreKeeps
  <2>5. ~sdram_slot_cpu_rd BY <1>1, <1>6 DEF Marked
  <2>6. din_r' = din_r BY <1>1, <1>6, <2>5, ReplyStep DEF Replied
  <2>7. QED BY <2>2, <2>4, <2>6
<1>7. QED BY <1>3, <1>4, <1>5, <1>6

(* Every RAM and ROM cycle is one read or write of an atomic memory, which a *)
(* read finds as the writes before it left it, whatever the video fetch, the *)
(* floppy fetch and the download do in the slots in between.                 *)
THEOREM Refinement == Spec => ImplementsAtomicMemory
<1>1. Init => Atomic!Init
  <2>1. SUFFICES ASSUME Init PROVE Atomic!Init OBVIOUS
  <2>2. BusInv BY <2>1, InitHolds
  <2>3. mem \in [Location -> Word] /\ din_r \in Word /\ Ram \cup Rom \subseteq Location
    BY <2>2, PlacesAssumption DEF BusInv, TypeOK
  <2>4. Store \in [Ram \cup Rom -> Word] BY <2>3 DEF Store
  <2>5. request = Atomic!NoRequest
    BY <2>1 DEF Init, request, selectRAM, selectROM, Atomic!NoRequest
  <2>6. QED BY <2>3, <2>4, <2>5 DEF Store, Atomic!Init, Atomic!Word, Word
<1>2. ASSUME BusInv, [Next]_vars PROVE [Atomic!Next]_<<Store, request, din_r>>
  <2>1. CASE Next
    <3>1. PICK ready \in BOOLEAN : Clock(ready) BY <2>1 DEF Next
    <3>2. QED BY <1>2, <3>1, ClockRefines
  <2>2. CASE UNCHANGED vars
    BY <2>2 DEF vars, sdramVars, cpuVars, Store, request, selectRAM, selectROM
  <2>3. QED BY <1>2, <2>1, <2>2
<1>3. QED
  BY InitHolds, StepKeeps, <1>1, <1>2, PTL
  DEF Spec, ImplementsAtomicMemory, Atomic!Spec, Store

=============================================================================
