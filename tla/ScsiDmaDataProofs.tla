-------------------------- MODULE ScsiDmaDataProofs --------------------------
(***************************************************************************)
(* What the CPU reads through the pseudo-DMA port is what the image holds, *)
(* and what it writes reaches the image: proofs about ScsiDma for drivers  *)
(* whose units stay inside their sector, with a device that opens no       *)
(* window without data (reads) and with words at even places (writes).     *)
(***************************************************************************)
EXTENDS ScsiDmaProofs

USE EmptyAssumption, SectorAssumption, RingAssumption, CommandAssumption, DriverAssumption

\* A unit of the driver does not straddle two sectors.
UnitsInside == \A u \in Units : u[2] + u[3] <= SectorBytes

reading == cmd_read /\ phase = "DATA_OUT"

\* The byte of the image at a place of the transfer.
ImageByte(n) == SectorAt(cmd.lba + place(n).blk)[place(n).off]

-----------------------------------------------------------------------------
(* The invariant behind the bytes read *)

DataKinds ==
  /\ rd_hps_blk \in Nat /\ lba \in Nat /\ sd_buff_sel \in {0, 1} /\ empties \in Nat
  /\ {io_rd, io_wr, wr_pending, old_wr, rd_busy, old_io_ack, filled, sd_buff_wr, buffer_wr,
      wm_beat2, store_low, dma_wr, icr_data} \subseteq BOOLEAN
  /\ {din, odr, odd_byte_r, dma_lowbyte} \subseteq Byte
  /\ rd_flush_pending = FALSE
  /\ hps \in [st : {"idle", "taken", "ack"}, op : {"read", "write"}, lba : Nat, done : BOOLEAN, owner : Nat]
  /\ buf \in [0 .. RingBlocks - 1 -> [Offset -> Byte]]
  /\ disk \in [Lba -> [Offset -> Byte]]

\* Before the data phase the block engine and the device are at rest.
AtRest ==
  phase = "CMD_IN" => /\ ~io_rd /\ ~io_wr /\ ~wr_pending /\ ~old_wr /\ ~rd_busy /\ ~old_io_ack /\ ~filled
                      /\ ~sd_buff_wr /\ ~buffer_wr /\ hps.st = "idle" /\ rd_hps_blk = 0

\* A read never asks the device for a write.
OnlyReads ==
  cmd_read => /\ ~io_wr /\ ~wr_pending /\ ~buffer_wr
              /\ hps.st # "idle" => hps.op = "read"

\* A request stays up until the device's window opens, and one fetch is in
\* flight at a time, for the sector after the frontier.
OneFetch ==
  reading =>
    /\ hps.st = "taken" => io_rd
    /\ old_io_ack => hps.st # "taken" /\ ~io_rd
    /\ sd_buff_wr => hps.st = "ack" /\ hps.done
    /\ filled => old_io_ack
    /\ io_rd \/ hps.st # "idle" \/ old_io_ack => rd_busy
    /\ rd_busy => io_rd \/ hps.st # "idle" \/ old_io_ack
    /\ rd_busy => rd_hps_blk - rd_cur_blk < RingBlocks

\* The window is for the sector at the frontier; when it closes that sector is
\* in its slot, and so are the sectors between the initiator and the frontier.
RingServes ==
  reading =>
    /\ lba = cmd.lba + rd_hps_blk
    /\ hps.st # "idle" \/ old_io_ack => hps.lba = lba
    /\ hps.st = "ack" /\ hps.done /\ ~sd_buff_wr => filled
    /\ hps.st = "idle" /\ old_io_ack => filled
    /\ filled => buf[rd_hps_blk % RingBlocks] = SectorAt(lba)
    /\ \A k \in rd_cur_blk .. rd_hps_blk - 1 : buf[k % RingBlocks] = SectorAt(cmd.lba + k)

\* The unit the CPU moves and the pulses due lie in the target's sector, and
\* that sector is in the ring when data is promised or pulses are due.
InSector ==
  /\ cpu.st # "off" /\ pc = "move" => (moved % SectorBytes) + size <= SectorBytes
  /\ dataPhase /\ due > 0 => data_cnt.off + due <= SectorBytes
  /\ reading /\ (due > 0 \/ cpu.st = "dtack") => rd_cur_blk < rd_hps_blk

\* With the pulses settled, the buffer outputs show the bytes at the target's
\* place.
Fresh ==
  reading /\ ~dma_ack /\ dma_settle \in {0, 1} /\ rd_cur_blk < rd_hps_blk =>
    \A j \in 0 .. 3 : data_cnt.off + j < SectorBytes =>
      q[here + j] = SectorAt(cmd.lba + rd_cur_blk)[data_cnt.off + j]

\* What the controller shows a CPU that has its DTACK, and what it keeps for
\* the second half of a longword.
Shown ==
  cmd_read =>
    /\ cpu.st = "dtack" => scsi_din_reg = IF cpu.word THEN <<ImageByte(moved), ImageByte(moved + 1)>>
                                                      ELSE <<ImageByte(moved), ImageByte(moved)>>
    /\ pc = "second" /\ ~begins => dma_second_word_data = <<ImageByte(moved), ImageByte(moved + 1)>>

Taken ==
  /\ ~cmd_read => taken.bytes = <<>>
  /\ taken.at \in Nat
  /\ DmaReadsServeDisk

DataInv == CountInv /\ DataKinds /\ AtRest /\ OnlyReads /\ OneFetch /\ RingServes /\ InSector /\ Fresh
           /\ Shown /\ Taken

-----------------------------------------------------------------------------
(* The engine, the device and the buffer *)

\* The registers of the block engine after a clock, as plain conditions.
LEMMA EngineMoves ==
  ASSUME Kinds, DataKinds, Next
  PROVE  /\ io_rd' <=> ~io_ack /\ (io_rd \/ startFetch)
         /\ io_wr' <=> ~io_ack /\ (io_wr \/ startFlush)
         /\ rd_busy' <=> ~ackFall /\ (rd_busy \/ startFetch)
         /\ wr_pending' <=> ~startFlush /\ (wr_pending \/ (req_wr /\ ~old_wr))
         /\ old_wr' <=> req_wr
         /\ old_io_ack' <=> io_ack
         /\ filled' <=> io_ack /\ (filled \/ sd_buff_wr)
         /\ rd_flush_pending' = FALSE
         /\ buffer_wr' <=> stb_ack /\ phase = "DATA_IN"
<1>1. BlockEngine /\ RingFrontier /\ SectorBuffer /\ rst = FALSE /\ rd_flush_pending = FALSE
  BY DEF Next, TargetClk, Kinds, DataKinds
<1>2. /\ io_rd' <=> ~io_ack /\ (io_rd \/ startFetch)
      /\ io_wr' <=> ~io_ack /\ (io_wr \/ startFlush)
      /\ rd_flush_pending' = FALSE
  BY <1>1, Zenon DEF BlockEngine
<1>3. /\ rd_busy' <=> ~ackFall /\ (rd_busy \/ startFetch)
      /\ wr_pending' <=> ~startFlush /\ (wr_pending \/ (req_wr /\ ~old_wr))
      /\ old_wr' <=> req_wr
  BY <1>1, Zenon DEF BlockEngine
<1>4. /\ old_io_ack' <=> io_ack
      /\ filled' <=> io_ack /\ (filled \/ sd_buff_wr)
      /\ buffer_wr' <=> stb_ack /\ phase = "DATA_IN"
  BY <1>1, Zenon DEF RingFrontier, SectorBuffer
<1> QED
  BY <1>2, <1>3, <1>4

\* How the request the device holds goes on, and when it touches the image.
LEMMA DeviceMoves ==
  ASSUME DataKinds, Next
  PROVE  /\ hps'.st = "taken" => \/ hps.st = "taken" /\ hps' = hps
                                 \/ /\ hps.st = "idle" /\ (io_rd \/ io_wr)
                                    /\ hps'.op = (IF io_wr THEN "write" ELSE "read")
                                    /\ hps'.lba = lba
         /\ hps'.st = "ack" => (hps.st = "taken" /\ ~hps'.done) \/ hps.st = "ack"
         /\ hps'.st = "idle" => \/ hps.st = "idle" /\ hps' = hps
                                \/ /\ hps.st = "ack" /\ ~sd_buff_wr
                                   /\ hps.done \/ (hps.op = "read" /\ empties < MaxEmpty)
         /\ hps.st = "idle" => hps'.st \in {"idle", "taken"}
         /\ hps.st # "idle" => hps'.op = hps.op /\ hps'.lba = hps.lba
         /\ sd_buff_wr' => /\ hps.st = "ack" /\ hps.op = "read"
                           /\ hps'.st = "ack" /\ hps'.done
         /\ hps'.st = "ack" /\ hps'.done /\ ~sd_buff_wr' =>
              hps.st = "ack" /\ (hps.done \/ (hps.op = "write" /\ HpsCollect))
         /\ UNCHANGED disk \/ (HpsCollect /\ hps.st = "ack" /\ hps.op = "write" /\ ~hps.done)
<1>1. HpsClk /\ hps \in [st : {"idle", "taken", "ack"}, op : {"read", "write"}, lba : Nat, done : BOOLEAN, owner : Nat]
  BY DEF Next, DataKinds
<1>2. CASE HpsQuiet
  BY <1>1, <1>2 DEF HpsQuiet
<1>3. CASE HpsPoll
  BY <1>1, <1>3 DEF HpsPoll
<1>4. CASE HpsOpenWindow
  BY <1>1, <1>4 DEF HpsOpenWindow, HpsAt
<1>5. CASE HpsStream
  BY <1>1, <1>5 DEF HpsStream, HpsAt
<1>6. CASE HpsCollect
  BY <1>1, <1>6 DEF HpsCollect, HpsAt
<1>7. CASE HpsCloseWindow
  BY <1>1, <1>7 DEF HpsCloseWindow, HpsAt
<1> QED
  BY <1>1, <1>2, <1>3, <1>4, <1>5, <1>6, <1>7 DEF HpsClk, HpsMove

LEMMA SlotKinds ==
  ASSUME Kinds, DataKinds
  PROVE  /\ hps_slot \in 0 .. RingBlocks - 1 /\ mac_slot \in 0 .. RingBlocks - 1
         /\ data_cnt.off \in Offset /\ data_cnt.blk \in Nat /\ storedByte \in Byte
         /\ \A l \in Nat : SectorAt(l) \in [Offset -> Byte]
<1>1. data_cnt.off \in Offset /\ data_cnt.blk \in Nat
  BY DEF Kinds, Count
<1>2. hps_slot \in 0 .. RingBlocks - 1
  BY DEF hps_slot, DataKinds
<1>3. mac_slot \in 0 .. RingBlocks - 1
  BY <1>1 DEF mac_slot, wrSlot
<1>4. storedByte \in Byte
  BY DEF storedByte, DataKinds
<1>5. \A l \in Nat : SectorAt(l) \in [Offset -> Byte]
  BY DEF SectorAt, DataKinds, Byte
<1> QED
  BY <1>1, <1>2, <1>3, <1>4, <1>5

LEMMA InitDataKinds == Init => DataKinds
<1> SUFFICES ASSUME Init PROVE DataKinds
  OBVIOUS
<1> USE DEF Init, TargetQuiet, HpsInit, NcrInit
<1>1. \A l \in Lba : image(l) \in [Offset -> Byte]
  BY DEF image, DiskByte, Byte
<1>2. cmd_write \in BOOLEAN
  BY DEF cmd_write
<1> QED
  BY <1>1, <1>2, ByteKinds DEF DataKinds

LEMMA StepDataKinds ==
  ASSUME Kinds, Kinds', DataKinds, Next
  PROVE  DataKinds'
<1>1. TargetClk /\ HpsClk /\ cmd.lba \in Nat /\ commands \in Nat
  BY LengthType DEF Next, Kinds
<1>2. rd_hps_blk' \in Nat /\ sd_buff_sel' \in {0, 1}
  BY <1>1 DEF TargetClk, RingFrontier, DataKinds
<1>3. lba' \in Nat
  BY <1>1 DEF TargetClk, Parameters, DataKinds
<1>4. {io_rd', io_wr', wr_pending', rd_busy'} \subseteq BOOLEAN /\ rd_flush_pending' = FALSE
  <2>1. /\ io_rd' \in BOOLEAN /\ io_wr' \in BOOLEAN /\ wr_pending' \in BOOLEAN /\ rd_busy' \in BOOLEAN
    BY <1>1, Zenon DEF TargetClk, BlockEngine
  <2> QED
    BY <2>1, EngineMoves
<1>5. {old_wr', old_io_ack', filled', buffer_wr'} \subseteq BOOLEAN
  <2>1. old_io_ack' \in BOOLEAN /\ filled' \in BOOLEAN /\ buffer_wr' \in BOOLEAN
    BY <1>1, Zenon DEF TargetClk, RingFrontier, io_ack, SectorBuffer
  <2>2. old_wr' \in BOOLEAN
    BY <1>1, Zenon DEF TargetClk, BlockEngine, req_wr
  <2> QED
    BY <2>1, <2>2
<1>6. {wm_beat2', store_low'} \subseteq BOOLEAN
  <2>1. wm_beat2' \in BOOLEAN /\ store_low' \in BOOLEAN
    BY <1>1, Zenon DEF TargetClk, BeatRole
  <2> QED
    BY <2>1
<1>7. {dma_wr', icr_data'} \subseteq BOOLEAN
  <2>1. dma_wr' \in BOOLEAN
    BY Zenon DEF Next, DmaCycles, wrStart
  <2>2. icr_data' = icr_data \/ icr_data' = FALSE
    BY CpuActions DEF Next, Wait, Arm, BeginCycle, BeginSecond, Assert, SeeDtack, EndCycle,
       ModeOff, WakeUp, ReadCsr, MoveAck, KeepRegs, regVars
  <2> QED
    BY <2>1, <2>2 DEF DataKinds
<1>8. {din', odr', odd_byte_r', dma_lowbyte'} \subseteq Byte
  <2>1. cpu.hi \in Byte /\ cpu.lo \in Byte /\ Blank \in Byte
    BY ByteKinds DEF Kinds, CpuCycle
  <2>2. odr' \in Byte /\ dma_lowbyte' \in Byte
    BY <2>1 DEF Next, DataOut, DmaCycles, DataKinds
  <2>3. din' \in Byte
    BY <2>1, <2>2 DEF Next, DataOut
  <2>4. odd_byte_r' \in Byte
    BY <1>1, <2>1 DEF TargetClk, BeatRole, DataKinds
  <2> QED
    BY <2>2, <2>3, <2>4
<1>9. /\ hps' \in [st : {"idle", "taken", "ack"}, op : {"read", "write"}, lba : Nat, done : BOOLEAN, owner : Nat]
      /\ sd_buff_wr' \in BOOLEAN /\ empties' \in Nat /\ disk' \in [Lba -> [Offset -> Byte]]
  <2>1. CASE HpsQuiet
    BY <2>1 DEF HpsQuiet, DataKinds
  <2>2. CASE HpsPoll
    BY <1>1, <2>2 DEF HpsPoll, DataKinds
  <2>3. CASE HpsOpenWindow
    BY <2>3 DEF HpsOpenWindow, HpsAt, DataKinds
  <2>4. CASE HpsStream
    BY <2>4 DEF HpsStream, HpsAt, DataKinds
  <2>5. CASE HpsCollect
    <3>1. buf[hps_slot] \in [Offset -> Byte]
      BY SlotKinds DEF DataKinds
    <3>2. disk' \in [Lba -> [Offset -> Byte]]
      BY <2>5, <3>1 DEF HpsCollect, DataKinds
    <3> QED
      BY <2>5, <3>2 DEF HpsCollect, HpsAt, DataKinds
  <2>6. CASE HpsCloseWindow
    <3>1. empties' \in Nat
      BY <2>6 DEF HpsCloseWindow, DataKinds
    <3>2. hps' = HpsAt("idle", hps.done) /\ sd_buff_wr' = FALSE /\ disk' = disk
      BY <2>6 DEF HpsCloseWindow
    <3> QED
      BY <3>1, <3>2 DEF HpsAt, DataKinds
  <2> QED
    BY <1>1, <2>1, <2>2, <2>3, <2>4, <2>5, <2>6 DEF HpsClk, HpsMove
<1>10. buf' \in [0 .. RingBlocks - 1 -> [Offset -> Byte]]
  <2>1. SectorAt(hps.lba) \in [Offset -> Byte] /\ buf \in [0 .. RingBlocks - 1 -> [Offset -> Byte]]
    BY SlotKinds DEF DataKinds
  <2> QED
    BY <1>1, <2>1, SlotKinds DEF TargetClk, SectorBuffer
<1> QED
  BY <1>2, <1>3, <1>4, <1>5, <1>6, <1>7, <1>8, <1>9, <1>10 DEF DataKinds
-----------------------------------------------------------------------------
(* The ring serves the reads *)

\* Where a block read comes from.
LEMMA ReadFrom ==
  ASSUME CountInv, Next
  PROVE  /\ cmd_read' = cmd_read /\ cmd_write' = cmd_write
         /\ reading' => \/ cmd_read /\ phase = "CMD_IN" /\ pc = "tcr" /\ pc' = "tcr"
                           /\ data_cnt' = Zero /\ rd_hps_blk' = 0 /\ lba' = cmd.lba
                        \/ reading /\ ~data_done
<1>1. cmd' = cmd /\ Kinds /\ Places
  BY LinesKept DEF CountInv
<1>2. cmd_read' = cmd_read /\ cmd_write' = cmd_write
  BY <1>1 DEF cmd_read, cmd_write
<1>3. ASSUME reading' PROVE \/ phase = "CMD_IN" /\ cmd_cpl
                            \/ phase = "DATA_OUT" /\ ~data_done
  BY <1>3, SentOnlyPolled DEF reading, dataPhase
<1>4. ASSUME phase = "CMD_IN", cmd_cpl
      PROVE  pc = "tcr" /\ pc' = "tcr" /\ data_cnt' = Zero /\ rd_hps_blk' = 0 /\ lba' = cmd.lba
  <2>1. ~transferPhase /\ ~dataPhase /\ pc = "tcr"
    BY <1>1, <1>4 DEF transferPhase, dataPhase, Places
  <2>2. pc' = "tcr"
    BY <2>1, PcMoves DEF polling
  <2>3. RingFrontier /\ Parameters
    BY DEF Next, TargetClk
  <2>4. rd_hps_blk' = 0 /\ lba' = cmd.lba
    BY <1>4, <2>1, <2>3 DEF RingFrontier, Parameters
  <2> QED
    BY <1>1, <2>1, <2>2, <2>4, CountMoves
<1> QED
  BY <1>2, <1>3, <1>4 DEF reading

LEMMA StepAtRest ==
  ASSUME CountInv, DataKinds, AtRest, Next
  PROVE  AtRest'
<1> SUFFICES ASSUME phase' = "CMD_IN" PROVE AtRest'
  BY DEF AtRest
<1>1. phase = "CMD_IN" /\ Kinds
  BY SentOnlyPolled DEF CountInv
<1>2. /\ ~io_rd /\ ~io_wr /\ ~wr_pending /\ ~old_wr /\ ~rd_busy /\ ~old_io_ack /\ ~filled
      /\ ~sd_buff_wr /\ ~buffer_wr /\ hps.st = "idle" /\ rd_hps_blk = 0
  BY <1>1 DEF AtRest
<1>3. ~io_ack /\ ~startFetch /\ ~startFlush /\ ~req_wr
  BY <1>1, <1>2 DEF io_ack, startFetch, startFlush, req_rd, req_wr
<1>4. hps'.st = "idle" /\ ~sd_buff_wr'
  <2>1. hps'.st \in {"idle", "taken"} /\ hps'.st # "taken"
    BY <1>2, DeviceMoves
  <2>2. ~sd_buff_wr'
    BY <1>2, DeviceMoves
  <2> QED
    BY <2>1, <2>2
<1>5. rd_hps_blk' = 0
  BY <1>1 DEF Next, TargetClk, RingFrontier, transferPhase, dataPhase
<1> QED
  BY <1>1, <1>2, <1>3, <1>4, <1>5, EngineMoves DEF AtRest

LEMMA StepOnlyReads ==
  ASSUME CountInv, DataKinds, OnlyReads, AtRest, Next
  PROVE  OnlyReads'
<1> SUFFICES ASSUME cmd_read' PROVE OnlyReads'
  BY DEF OnlyReads
<1>1. cmd_read /\ Kinds /\ Places
  BY ReadFrom DEF CountInv
<1>2. ~io_wr /\ ~wr_pending /\ (hps.st # "idle" => hps.op = "read")
  BY <1>1 DEF OnlyReads
<1>3. ~req_wr /\ ~startFlush
  BY <1>1, <1>2 DEF req_wr, cmd_read, cmd_write, startFlush
<1>4. ~io_wr' /\ ~wr_pending'
  BY <1>1, <1>2, <1>3, EngineMoves
<1>5. phase # "DATA_IN"
  BY <1>1 DEF Places, dataPhase, dataOf, AfterCommand, cmd_read
<1>6. ~buffer_wr'
  BY <1>1, <1>5, EngineMoves
<1>7. hps'.st # "idle" => hps'.op = "read"
  <2>1. CASE hps.st # "idle"
    BY <1>2, <2>1, DeviceMoves
  <2>2. CASE hps.st = "idle"
    BY <1>2, <2>2, DeviceMoves
  <2> QED
    BY <2>1, <2>2
<1> QED
  BY <1>4, <1>6, <1>7 DEF OnlyReads

\* While a read command is served the image stays as it is.
LEMMA ImageStays ==
  ASSUME CountInv, DataKinds, OnlyReads, Next, cmd_read
  PROVE  disk' = disk /\ \A l \in Nat : SectorAt(l)' = SectorAt(l)
<1>1. disk' = disk
  BY DeviceMoves DEF OnlyReads
<1> QED
  BY <1>1 DEF SectorAt

\* When the acknowledge of a fetch falls the device is idle and the request is
\* down, so neither a new request nor a new fetch starts at that clock.
LEMMA FetchEnds ==
  ASSUME DataKinds, OneFetch, reading
  PROVE  /\ ackFall => hps.st = "idle" /\ ~io_rd /\ rd_busy /\ ~startFetch
         /\ io_ack => rd_busy /\ ~ackFall
         /\ hps.st # "idle" => rd_busy /\ ~ackFall
         /\ io_ack <=> hps.st = "ack"
<1>1. hps.st \in {"idle", "taken", "ack"}
  BY DEF DataKinds
<1> QED
  BY <1>1 DEF OneFetch, reading, ackFall, io_ack, startFetch, bsy

\* How far the fetch frontier and the initiator's sector move.
LEMMA FrontierMoves ==
  ASSUME CountInv, DataKinds, Next, reading
  PROVE  /\ rd_hps_blk' = IF ackFall /\ filled THEN rd_hps_blk + 1 ELSE rd_hps_blk
         /\ lba' = IF ackFall THEN lba + 1 ELSE lba
         /\ rd_cur_blk \in Nat /\ rd_cur_blk' \in Nat /\ rd_cur_blk' >= rd_cur_blk
<1>1. RingFrontier /\ Parameters /\ rd_flush_pending = FALSE /\ transferPhase /\ data_cnt \in Count /\ Kinds
  BY DEF Next, TargetClk, DataKinds, reading, transferPhase, dataPhase, CountInv, Kinds
<1>2. rd_hps_blk' = IF ackFall /\ filled THEN rd_hps_blk + 1 ELSE rd_hps_blk
  BY <1>1 DEF RingFrontier, reading
<1>3. lba' = IF ackFall THEN lba + 1 ELSE lba
  BY <1>1 DEF Parameters, reading
<1>4. data_cnt' = data_cnt \/ data_cnt' = Bump(data_cnt)
  BY <1>1, CountMoves
<1>5. rd_cur_blk \in Nat /\ rd_cur_blk' \in Nat /\ rd_cur_blk' >= rd_cur_blk
  BY <1>1, <1>4 DEF Bump, Count, rd_cur_blk
<1> QED
  BY <1>2, <1>3, <1>5

LEMMA LessAhead ==
  ASSUME NEW h \in Nat, NEW c \in Nat, NEW d \in Nat, d >= c, h - c < RingBlocks
  PROVE  h - d < RingBlocks
  OBVIOUS

LEMMA StepOneFetch ==
  ASSUME CountInv, DataKinds, DataKinds', AtRest, OnlyReads, OneFetch, Next
  PROVE  OneFetch'
<1> SUFFICES ASSUME reading' PROVE OneFetch'
  BY DEF OneFetch
<1>0. Kinds
  BY DEF CountInv
<1>1. CASE phase = "CMD_IN"
  <2>1. /\ ~io_rd /\ ~io_wr /\ ~wr_pending /\ ~rd_busy /\ ~old_io_ack /\ ~filled
        /\ ~sd_buff_wr /\ hps.st = "idle"
    BY <1>1 DEF AtRest
  <2>2. ~io_ack /\ ~startFetch
    BY <1>1, <2>1 DEF io_ack, startFetch, req_rd
  <2>3. ~io_rd' /\ ~rd_busy' /\ ~old_io_ack' /\ ~filled'
    BY <1>0, <2>1, <2>2, EngineMoves
  <2>4. hps'.st = "idle" /\ ~sd_buff_wr'
    <3>1. hps'.st \in {"idle", "taken"} /\ hps'.st # "taken"
      BY <2>1, DeviceMoves
    <3>2. ~sd_buff_wr'
      BY <2>1, DeviceMoves
    <3> QED
      BY <3>1, <3>2
  <2> QED
    BY <2>3, <2>4 DEF OneFetch
<1>2. CASE reading
  <2>1. /\ hps.st = "taken" => io_rd
        /\ old_io_ack => hps.st # "taken" /\ ~io_rd
        /\ sd_buff_wr => hps.st = "ack" /\ hps.done
        /\ filled => old_io_ack
        /\ io_rd \/ hps.st # "idle" \/ old_io_ack => rd_busy
        /\ rd_busy => io_rd \/ hps.st # "idle" \/ old_io_ack
        /\ rd_busy => rd_hps_blk - rd_cur_blk < RingBlocks
        /\ ~io_wr
    BY <1>2 DEF OneFetch, OnlyReads, reading
  <2>2. hps.st \in {"idle", "taken", "ack"} /\ hps'.st \in {"idle", "taken", "ack"}
    BY DEF DataKinds
  <2>3. /\ ackFall => hps.st = "idle" /\ ~io_rd /\ rd_busy /\ ~startFetch
        /\ io_ack => rd_busy /\ ~ackFall
        /\ hps.st # "idle" => rd_busy /\ ~ackFall
        /\ io_ack <=> hps.st = "ack"
    BY <1>2, FetchEnds
  <2>4. /\ io_rd' <=> ~io_ack /\ (io_rd \/ startFetch)
        /\ rd_busy' <=> ~ackFall /\ (rd_busy \/ startFetch)
        /\ old_io_ack' <=> io_ack
        /\ filled' <=> io_ack /\ (filled \/ sd_buff_wr)
    BY <1>0, EngineMoves
  <2>5. hps'.st = "taken" => io_rd'
    <3>1. hps'.st = "taken" => hps.st # "ack" /\ io_rd
      BY <2>1, DeviceMoves
    <3> QED
      BY <2>3, <2>4, <3>1
  <2>6. old_io_ack' => hps'.st # "taken" /\ ~io_rd'
    BY <2>3, <2>4, DeviceMoves
  <2>7. sd_buff_wr' => hps'.st = "ack" /\ hps'.done
    BY DeviceMoves
  <2>8. filled' => old_io_ack'
    BY <2>4
  <2>9. ASSUME io_rd' \/ hps'.st # "idle" \/ old_io_ack' PROVE rd_busy'
    <3>1. CASE io_rd'
      BY <2>1, <2>3, <2>4, <3>1
    <3>2. CASE hps.st # "idle"
      BY <2>3, <2>4, <3>2
    <3>3. CASE hps'.st # "idle" /\ hps.st = "idle"
      <4>1. io_rd
        BY <2>1, <2>2, <3>3, DeviceMoves
      <4> QED
        BY <2>1, <2>3, <2>4, <4>1
    <3>4. CASE old_io_ack'
      BY <2>3, <2>4, <3>4
    <3> QED
      BY <2>9, <3>1, <3>2, <3>3, <3>4
  <2>10. ASSUME rd_busy' PROVE io_rd' \/ hps'.st # "idle" \/ old_io_ack'
    <3>1. ~ackFall /\ (rd_busy \/ startFetch)
      BY <2>4, <2>10
    <3>2. CASE io_ack
      BY <2>4, <3>2
    <3>3. CASE ~io_ack
      <4>1. ~old_io_ack
        BY <3>1, <3>3 DEF ackFall
      <4>2. CASE io_rd \/ startFetch
        BY <2>4, <3>3, <4>2
      <4>3. CASE ~io_rd /\ ~startFetch
        <5>1. hps.st = "taken"
          BY <2>1, <2>2, <2>3, <3>1, <3>3, <4>1, <4>3
        <5> QED
          BY <2>1, <4>3, <5>1
      <4> QED
        BY <4>2, <4>3
    <3> QED
      BY <3>2, <3>3
  <2>11. ASSUME rd_busy' PROVE rd_hps_blk' - rd_cur_blk' < RingBlocks
    <3>1. ~ackFall /\ (rd_busy \/ startFetch)
      BY <2>4, <2>11
    <3>2. rd_hps_blk - rd_cur_blk < RingBlocks
      BY <2>1, <3>1 DEF startFetch, req_rd
    <3>3. rd_hps_blk' = rd_hps_blk /\ rd_cur_blk \in Nat /\ rd_cur_blk' \in Nat /\ rd_cur_blk' >= rd_cur_blk
      BY <1>2, <3>1, FrontierMoves
    <3>4. rd_hps_blk \in Nat
      BY DEF DataKinds
    <3> QED
      BY <3>2, <3>3, <3>4, LessAhead
  <2> QED
    BY <2>5, <2>6, <2>7, <2>8, <2>9, <2>10, <2>11 DEF OneFetch
<1> QED
  BY <1>1, <1>2, ReadFrom
LEMMA OneRound ==
  ASSUME NEW R \in Nat, R > 1, NEW a \in Int, NEW b \in Int, R * a - R * b > 0
  PROVE  R * a - R * b >= R
<1>1. R * (a - b) > 0
  OBVIOUS
<1>2. a - b >= 1
  BY <1>1
<1> QED
  BY <1>2

\* Two sectors less than a ring apart lie in different slots.
LEMMA SlotsDiffer ==
  ASSUME NEW k \in Nat, NEW h \in Nat, k < h, h - k < RingBlocks
  PROVE  k % RingBlocks # h % RingBlocks
<1>1. k = RingBlocks * (k \div RingBlocks) + (k % RingBlocks) /\ k \div RingBlocks \in Nat
  OBVIOUS
<1>2. h = RingBlocks * (h \div RingBlocks) + (h % RingBlocks) /\ h \div RingBlocks \in Nat
  OBVIOUS
<1>3. ASSUME k % RingBlocks = h % RingBlocks PROVE FALSE
  <2>1. h - k = RingBlocks * (h \div RingBlocks) - RingBlocks * (k \div RingBlocks)
    BY <1>1, <1>2, <1>3
  <2>2. RingBlocks * (h \div RingBlocks) - RingBlocks * (k \div RingBlocks) > 0
    BY <2>1
  <2>3. RingBlocks * (h \div RingBlocks) - RingBlocks * (k \div RingBlocks) >= RingBlocks
    BY <1>1, <1>2, <2>2, OneRound
  <2> QED
    BY <2>1, <2>3
<1> QED
  BY <1>3

\* In a block read the buffer changes only at the slot of the fetch in flight.
LEMMA ReadFills ==
  ASSUME DataKinds, OneFetch, OnlyReads, reading, Next
  PROVE  /\ sd_buff_wr => /\ buf'[rd_hps_blk % RingBlocks] = SectorAt(hps.lba)
                          /\ \A s \in 0 .. RingBlocks - 1 :
                               s # rd_hps_blk % RingBlocks => buf'[s] = buf[s]
         /\ ~sd_buff_wr => buf' = buf
<1>1. sd_buff_wr => io_ack
  BY DEF OneFetch, io_ack, reading, bsy
<1>2. hps_slot = rd_hps_blk % RingBlocks /\ ~buffer_wr
  BY DEF hps_slot, cmd_write, cmd_read, reading, OnlyReads
<1>3. buf' = IF sd_buff_wr THEN [buf EXCEPT ![rd_hps_blk % RingBlocks] = SectorAt(hps.lba)] ELSE buf
  BY <1>1, <1>2 DEF Next, TargetClk, SectorBuffer
<1>4. buf \in [0 .. RingBlocks - 1 -> [Offset -> Byte]] /\ rd_hps_blk % RingBlocks \in 0 .. RingBlocks - 1
  BY DEF DataKinds
<1> QED
  BY <1>3, <1>4

\* The sector the initiator is in holds its image, already in the clock in
\* which the frontier passes it.
LEMMA SectorHeld ==
  ASSUME CountInv, DataKinds, OneFetch, RingServes, Next, reading,
         NEW k \in Nat, k >= rd_cur_blk, k < rd_hps_blk'
  PROVE  buf[k % RingBlocks] = SectorAt(cmd.lba + k)
<1>1. /\ lba = cmd.lba + rd_hps_blk
      /\ filled => buf[rd_hps_blk % RingBlocks] = SectorAt(lba)
      /\ \A n \in rd_cur_blk .. rd_hps_blk - 1 : buf[n % RingBlocks] = SectorAt(cmd.lba + n)
  BY DEF RingServes
<1>2. rd_hps_blk \in Nat /\ rd_cur_blk \in Nat
      /\ rd_hps_blk' = IF ackFall /\ filled THEN rd_hps_blk + 1 ELSE rd_hps_blk
  BY FrontierMoves DEF DataKinds
<1>3. CASE k < rd_hps_blk
  <2>1. k \in rd_cur_blk .. rd_hps_blk - 1
    BY <1>2, <1>3
  <2> QED
    BY <1>1, <2>1
<1>4. CASE k >= rd_hps_blk
  <2>1. k = rd_hps_blk /\ filled
    BY <1>2, <1>4
  <2> QED
    BY <1>1, <2>1
<1> QED
  BY <1>2, <1>3, <1>4

LEMMA StepRingServes ==
  ASSUME CountInv, DataKinds, DataKinds', AtRest, OnlyReads, OneFetch, OneFetch', RingServes, Next, MaxEmpty = 0
  PROVE  RingServes'
<1> SUFFICES ASSUME reading' PROVE RingServes'
  BY DEF RingServes
<1>0. Kinds /\ cmd' = cmd /\ cmd.lba \in Nat
  BY LinesKept, LengthType DEF CountInv
<1>1. CASE cmd_read /\ phase = "CMD_IN" /\ data_cnt' = Zero /\ rd_hps_blk' = 0 /\ lba' = cmd.lba
  <2>1. /\ ~old_io_ack /\ ~filled /\ ~sd_buff_wr /\ hps.st = "idle" /\ ~io_rd /\ ~io_wr
    BY <1>1 DEF AtRest
  <2>2. ~io_ack
    BY <2>1 DEF io_ack
  <2>3. ~old_io_ack' /\ ~filled'
    BY <1>0, <2>2, EngineMoves
  <2>4. hps'.st = "idle"
    <3>1. hps'.st \in {"idle", "taken"} /\ hps'.st # "taken"
      BY <2>1, DeviceMoves
    <3> QED
      BY <3>1
  <2>5. rd_cur_blk' = 0 /\ lba' = cmd'.lba + rd_hps_blk'
    BY <1>0, <1>1 DEF rd_cur_blk, Zero
  <2> QED
    BY <1>1, <2>3, <2>4, <2>5 DEF RingServes
<1>2. CASE reading
  <2>1. /\ lba = cmd.lba + rd_hps_blk
        /\ hps.st # "idle" \/ old_io_ack => hps.lba = lba
        /\ hps.st = "ack" /\ hps.done /\ ~sd_buff_wr => filled
        /\ hps.st = "idle" /\ old_io_ack => filled
        /\ filled => buf[rd_hps_blk % RingBlocks] = SectorAt(lba)
        /\ \A k \in rd_cur_blk .. rd_hps_blk - 1 : buf[k % RingBlocks] = SectorAt(cmd.lba + k)
    BY <1>2 DEF RingServes
  <2>2. hps.st \in {"idle", "taken", "ack"} /\ hps'.st \in {"idle", "taken", "ack"}
        /\ hps.lba \in Nat /\ lba \in Nat /\ rd_hps_blk \in Nat /\ rd_hps_blk' \in Nat /\ empties \in Nat
    BY DEF DataKinds
  <2>3. /\ ackFall => hps.st = "idle" /\ ~io_rd /\ rd_busy /\ ~startFetch /\ filled
        /\ io_ack => rd_busy /\ ~ackFall
        /\ hps.st # "idle" => rd_busy /\ ~ackFall
        /\ io_ack <=> hps.st = "ack"
    BY <1>2, <2>1, FetchEnds DEF ackFall
  <2>4. /\ rd_hps_blk' = IF ackFall THEN rd_hps_blk + 1 ELSE rd_hps_blk
        /\ lba' = IF ackFall THEN lba + 1 ELSE lba
        /\ rd_cur_blk \in Nat /\ rd_cur_blk' \in Nat /\ rd_cur_blk' >= rd_cur_blk
    BY <1>2, <2>3, FrontierMoves
  <2>5. \A l \in Nat : SectorAt(l)' = SectorAt(l)
    BY <1>2, ImageStays DEF reading
  <2>6. lba' = cmd'.lba + rd_hps_blk'
    BY <1>0, <2>1, <2>2, <2>4
  <2>14. old_io_ack' <=> io_ack
    BY <1>0, EngineMoves
  <2>15. filled' <=> io_ack /\ (filled \/ sd_buff_wr)
    BY <1>0, EngineMoves
  <2>16. ~io_wr /\ (hps.st # "idle" => hps.op = "read")
    BY <1>2 DEF OnlyReads, reading
  <2>7. ASSUME hps'.st # "idle" \/ old_io_ack' PROVE hps'.lba = lba'
    <3>1. CASE hps.st # "idle"
      BY <2>1, <2>3, <2>4, <3>1, DeviceMoves
    <3>2. CASE hps.st = "idle"
      <4>1. ~io_ack /\ ~old_io_ack'
        BY <2>3, <2>14, <3>2
      <4>2. hps'.st = "taken"
        BY <2>2, <2>7, <3>2, <4>1, DeviceMoves
      <4>3. io_rd /\ hps'.lba = lba
        BY <2>16, <3>2, <4>2, DeviceMoves
      <4>4. lba' = lba
        BY <2>3, <2>4, <4>3
      <4> QED
        BY <4>3, <4>4
    <3> QED
      BY <3>1, <3>2
  <2>8. ASSUME hps'.st = "ack", hps'.done, ~sd_buff_wr' PROVE filled'
    <3>1. hps.st = "ack" /\ hps.done
      BY <2>8, <2>16, DeviceMoves
    <3> QED
      BY <2>1, <2>3, <2>15, <3>1
  <2>9. ASSUME hps'.st = "idle", old_io_ack' PROVE filled'
    <3>1. io_ack /\ hps.st = "ack"
      BY <2>3, <2>9, <2>14
    <3>2. ~sd_buff_wr /\ (hps.done \/ empties < MaxEmpty)
      BY <2>9, <3>1, DeviceMoves
    <3>3. hps.done
      BY <2>2, <3>2, MaxEmpty = 0
    <3> QED
      BY <2>1, <2>15, <3>1, <3>2, <3>3
  <2>10. ASSUME filled' PROVE buf'[rd_hps_blk' % RingBlocks] = SectorAt(lba)'
    <3>1. io_ack /\ (filled \/ sd_buff_wr) /\ hps.lba = lba
      BY <2>1, <2>3, <2>10, <2>15
    <3>2. rd_hps_blk' = rd_hps_blk /\ lba' = lba
      BY <2>3, <2>4, <3>1
    <3>3. SectorAt(lba)' = SectorAt(lba)
      <4>1. disk' = disk
        BY <1>2, ImageStays DEF reading
      <4> QED
        BY <3>2, <4>1 DEF SectorAt
    <3>4. buf'[rd_hps_blk % RingBlocks] = SectorAt(lba)
      BY <1>2, <2>1, <3>1, ReadFills
    <3> QED
      BY <3>2, <3>3, <3>4
  <2>12. ASSUME NEW k \in rd_cur_blk' .. rd_hps_blk' - 1
         PROVE  buf'[k % RingBlocks] = SectorAt(cmd.lba + k)'
    <3>1. k \in Nat /\ k >= rd_cur_blk /\ k < rd_hps_blk'
      BY <2>2, <2>4
    <3>2. k % RingBlocks \in 0 .. RingBlocks - 1
      BY <3>1
    <3>3. buf[k % RingBlocks] = SectorAt(cmd.lba + k)
      BY <1>2, <3>1, SectorHeld
    <3>4. SectorAt(cmd.lba + k)' = SectorAt(cmd.lba + k)
      <4>1. disk' = disk
        BY <1>2, ImageStays DEF reading
      <4> QED
        BY <1>0, <4>1 DEF SectorAt
    <3>5. sd_buff_wr => k % RingBlocks # rd_hps_blk % RingBlocks
      <4> SUFFICES ASSUME sd_buff_wr PROVE k % RingBlocks # rd_hps_blk % RingBlocks
        OBVIOUS
      <4>1. hps.st = "ack" /\ rd_busy /\ ~ackFall
        BY <1>2, <2>3 DEF OneFetch
      <4>2. rd_hps_blk - rd_cur_blk < RingBlocks
        BY <1>2, <4>1 DEF OneFetch
      <4>3. k < rd_hps_blk
        BY <2>4, <3>1, <4>1
      <4>4. rd_hps_blk - k < RingBlocks
        BY <2>2, <2>4, <3>1, <4>2, LessAhead
      <4> QED
        BY <2>2, <3>1, <4>3, <4>4, SlotsDiffer
    <3> QED
      BY <1>2, <3>2, <3>3, <3>4, <3>5, ReadFills
  <2> QED
    BY <2>6, <2>7, <2>8, <2>9, <2>10, <2>12 DEF RingServes
<1> QED
  BY <1>1, <1>2, ReadFrom
-----------------------------------------------------------------------------
(* The bytes the controller shows *)

\* A clock in which the target is not in the middle of a pulse, or no pulse is
\* due, leaves its place.
LEMMA PlaceMoves ==
  ASSUME CountInv, Next, dataPhase
  PROVE  /\ dma_settle # 3 => data_cnt' = data_cnt
         /\ dma_settle = 3 /\ ~data_done => data_cnt' = Bump(data_cnt)
<1>1. Kinds /\ transferPhase /\ ~polling
  BY DEF CountInv, transferPhase, Places
<1>2. stb_adv <=> dma_settle = 3
  BY <1>1 DEF CountInv, Train
<1>3. ~data_done => ~data_complete
  BY DEF data_done
<1> QED
  BY <1>1, <1>2, <1>3, CountMoves

LEMMA DueMoves ==
  ASSUME CountInv, Next
  PROVE  /\ due \in Nat /\ due' \in Nat
         /\ ~begins' => due' = due - (IF dma_settle = 3 THEN 1 ELSE 0)
         /\ begins' => due = 0 /\ due' = size /\ dma_settle = 0
<1>1. left' \in Nat /\ due \in Nat /\ left' + One(dma_settle = 3) = due
  BY LeftMoves
<1>2. One(dma_settle = 3) = IF dma_settle = 3 THEN 1 ELSE 0
  BY DEF One
<1>3. left' = due - (IF dma_settle = 3 THEN 1 ELSE 0)
  BY <1>1, <1>2
<1>4. due' = left' + (IF begins' THEN unit' ELSE 0)
  BY DEF due
<1>5. begins' => /\ EndCycle /\ unit' = size /\ unit' \in Nat
  BY EndMoves
<1>6. EndCycle => due = 0 /\ dma_settle = 0
  <2>1. ASSUME EndCycle PROVE due = 0 /\ dma_settle = 0
    <3>1. cpu.st = "dtack"
      BY <2>1 DEF EndCycle
    <3>2. dma_ack_holdoff = 0 /\ ~dma_ack /\ dma_settle = 0 /\ ~begins
      BY <3>1 DEF CountInv, Train, dma_ack_busy, begins, over
    <3>3. left = 0
      BY <3>2 DEF left, One
    <3> QED
      BY <3>2, <3>3 DEF due
  <2> QED
    BY <2>1
<1>7. CASE begins'
  <2>1. left' = 0
    BY <1>3, <1>5, <1>6, <1>7
  <2> QED
    BY <1>1, <1>4, <1>5, <1>6, <1>7, <2>1
<1>8. CASE ~begins'
  <2>0. left' \in Nat /\ due \in Nat
    BY <1>1
  <2>1. due' = left' + 0
    BY <1>4, <1>8, Zenon
  <2> QED
    BY <1>3, <1>8, <2>0, <2>1
<1> QED
  BY <1>7, <1>8

\* A cycle that has its DTACK has it from a target with nothing due.
LEMMA AtDtack ==
  ASSUME CountInv, Next, cpu'.st = "dtack"
  PROVE  /\ cpu.st # "off" /\ SameCycle /\ pc' = pc /\ moved' = moved
         /\ cpu.st = "dtack" \/ (cpu.st = "wait" /\ cpu.timer = 0 /\ dreq)
         /\ ~dma_ack_busy /\ due = 0 /\ ~begins'
         /\ IF cpu.dir = "read" THEN old_dma_rd ELSE old_dma_wr
<1>1. Kinds /\ Cycle /\ cpu \in CpuCycle
  BY DEF CountInv, Kinds
<1>2. /\ cpu.st # "off" /\ SameCycle /\ pc' = pc /\ moved' = moved
      /\ cpu.st = "dtack" \/ (cpu.st = "wait" /\ cpu.timer = 0 /\ dreq)
  BY <1>1, CycleMoves, CycleStates DEF Cycle
<1>3. ~dma_ack_busy /\ ~begins
  BY <1>2 DEF CountInv, Train, dreq, begins, over
<1>4. due = 0
  <2>1. left = 0
    BY <1>3 DEF left, One, dma_ack_busy
  <2> QED
    BY <1>3, <2>1 DEF due
<1>5. ~begins'
  BY DEF begins, over
<1>6. IF cpu.dir = "read" THEN old_dma_rd ELSE old_dma_wr
  BY <1>1, <1>2 DEF Cycle
<1> QED
  BY <1>2, <1>3, <1>4, <1>5, <1>6

LEMMA StepInSector ==
  ASSUME CountInv, CountInv', DataKinds, InSector, Next, UnitsInside
  PROVE  InSector'
<1>0. Kinds /\ moved \in Nat /\ length \in Nat /\ data_cnt \in Count
  BY LengthType DEF CountInv, Kinds
<1>1. ASSUME cpu'.st # "off", pc' = "move"
      PROVE  (moved' % SectorBytes) + size' <= SectorBytes
  <2>1. CASE BeginCycle
    <3>1. <<cmd.op, size', moved % SectorBytes>> \in Units /\ moved' = moved
      BY <1>0, <2>1, CycleStates
    <3> QED
      BY <3>1, UnitsInside DEF UnitsInside
  <2>2. CASE ~BeginCycle
    <3>1. ~BeginSecond /\ ~EndCycle
      BY <1>0, <1>1, CycleStates
    <3>2. SameCycle /\ cpu.st # "off" /\ pc = "move" /\ moved' = moved
      BY <1>0, <1>1, <2>2, <3>1, CycleMoves DEF CountInv, Cycle
    <3> QED
      BY <3>2 DEF InSector, SameCycle, size
  <2> QED
    BY <2>1, <2>2
<1>2. due \in Nat /\ due' \in Nat
  BY DueMoves
<1>3. ASSUME dataPhase', due' > 0
      PROVE  dataPhase /\ data_cnt'.off + due' <= SectorBytes
             /\ (data_cnt'.blk = data_cnt.blk) /\ (begins' \/ due > 0)
  <2>1. dataPhase /\ ~data_done
    <3>1. ~(phase = "CMD_IN" /\ cmd_cpl)
      <4>1. CASE phase = "CMD_IN"
        <5>1. due = 0 /\ ~dataPhase
          BY <4>1 DEF CountInv, Places, dataPhase
        <5>2. ~begins'
          BY <5>1, EndMoves
        <5> QED
          BY <1>3, <5>1, <5>2, DueMoves
      <4> QED
        BY <4>1
    <3> QED
      BY <1>3, <3>1, SentOnlyPolled
  <2>2. CASE begins'
    <3>1. due = 0 /\ due' = size /\ dma_settle = 0 /\ pc = "move" /\ cpu.st # "off"
      BY <2>2, DueMoves, EndMoves DEF EndCycle
    <3>2. data_cnt' = data_cnt
      BY <2>1, <3>1, PlaceMoves
    <3>3. bytes(data_cnt) = moved
      <4>1. bytes(data_cnt) + 0 = moved + 0 /\ bytes(data_cnt) \in Nat
        BY <1>0, <2>1, <3>1, BytesType DEF CountInv, Counts, ahead
      <4> QED
        BY <1>0, <4>1
    <3>4. data_cnt.off = moved % SectorBytes
      BY <1>0, <3>3, PlaceOf DEF place
    <3> QED
      BY <2>1, <2>2, <3>1, <3>2, <3>4 DEF InSector
  <2>3. CASE ~begins' /\ dma_settle # 3
    <3>1. due' = due /\ data_cnt' = data_cnt
      BY <1>2, <2>1, <2>3, DueMoves, PlaceMoves
    <3> QED
      BY <1>3, <2>1, <3>1 DEF InSector
  <2>4. CASE ~begins' /\ dma_settle = 3
    <3>1. due' = due - 1 /\ data_cnt' = Bump(data_cnt)
      BY <1>2, <2>1, <2>4, DueMoves, PlaceMoves
    <3>2. data_cnt.off + due <= SectorBytes /\ due > 1 /\ data_cnt.off \in Nat
      BY <1>0, <1>2, <1>3, <2>1, <3>1 DEF InSector, Count, Offset
    <3>3. data_cnt.off + 1 # SectorBytes
      BY <1>2, <3>2
    <3>4. data_cnt' = [blk |-> data_cnt.blk, off |-> data_cnt.off + 1]
      BY <3>1, <3>3 DEF Bump
    <3> QED
      BY <1>2, <2>1, <3>1, <3>2, <3>4
  <2> QED
    BY <2>2, <2>3, <2>4
<1>4. ASSUME reading', due' > 0 \/ cpu'.st = "dtack" PROVE rd_cur_blk' < rd_hps_blk'
  <2>1. dataPhase'
    BY <1>4 DEF reading, dataPhase
  <2>2. reading
    <3>1. CASE pc = "tcr" /\ phase = "CMD_IN"
      <4>1. cpu'.st = "dtack" => cpu.st # "off"
        BY AtDtack
      <4>2. cpu'.st # "dtack"
        BY <3>1, <4>1 DEF CountInv, Cycle
      <4> QED
        BY <1>3, <1>4, <2>1, <3>1, <4>2 DEF dataPhase
    <3> QED
      BY <1>4, <3>1, ReadFrom
  <2>3. rd_hps_blk \in Nat /\ rd_hps_blk' \in Nat /\ rd_hps_blk' >= rd_hps_blk
    <3>1. rd_hps_blk' = rd_hps_blk + 1 \/ rd_hps_blk' = rd_hps_blk
      BY <2>2 DEF Next, TargetClk, RingFrontier, reading, transferPhase, dataPhase
    <3>2. rd_hps_blk \in Nat
      BY DEF DataKinds
    <3> QED
      BY <3>1, <3>2
  <2>4. CASE cpu'.st = "dtack"
    <3>1. dma_settle # 3
      BY <2>4, AtDtack DEF dma_ack_busy
    <3>2. rd_cur_blk' = rd_cur_blk
      BY <2>2, <3>1, PlaceMoves DEF rd_cur_blk, reading, dataPhase
    <3>3. cpu.st = "dtack" \/ dreq
      BY <2>4, AtDtack
    <3>4. rd_cur_blk < rd_hps_blk
      <4>1. dreq => ~io_busy
        BY DEF dreq, req
      <4>2. ~io_busy => ~(rd_cur_blk >= rd_hps_blk)
        BY <2>2 DEF io_busy, reading
      <4>3. rd_cur_blk \in Nat
        BY <1>0 DEF rd_cur_blk, Count
      <4> QED
        BY <2>2, <2>3, <3>3, <4>1, <4>2, <4>3 DEF InSector
    <3> QED
      BY <1>0, <2>3, <3>2, <3>4 DEF rd_cur_blk, Count
  <2>5. CASE due' > 0
    <3>1. rd_cur_blk' = rd_cur_blk /\ (begins' \/ due > 0)
      BY <1>3, <2>1, <2>5 DEF rd_cur_blk
    <3>2. begins' => cpu.st = "dtack"
      BY EndMoves DEF EndCycle
    <3>3. rd_cur_blk < rd_hps_blk
      BY <2>2, <3>1, <3>2 DEF InSector
    <3> QED
      BY <1>0, <2>3, <3>1, <3>3 DEF rd_cur_blk, Count
  <2> QED
    BY <1>4, <2>4, <2>5
<1> QED
  BY <1>1, <1>3, <1>4 DEF InSector
-----------------------------------------------------------------------------
(* What the buffer outputs show *)

LEMMA PlaceAhead ==
  ASSUME NEW c \in Count, NEW j \in Nat, c.off + j < SectorBytes
  PROVE  place(bytes(c) + j) = [blk |-> c.blk, off |-> c.off + j]
<1>1. c.blk \in Nat /\ c.off + j \in 0 .. SectorBytes - 1 /\ bytes(c) + j = c.blk * SectorBytes + (c.off + j)
  BY DEF Count, Offset, bytes
<1>2. /\ (c.blk * SectorBytes + (c.off + j)) \div SectorBytes = c.blk
      /\ (c.blk * SectorBytes + (c.off + j)) % SectorBytes = c.off + j
  BY <1>1, Divide, Zenon
<1> QED
  BY <1>1, <1>2, Zenon DEF place

LEMMA StepFresh ==
  ASSUME CountInv, DataKinds, OnlyReads, OneFetch, RingServes, Next
  PROVE  Fresh'
<1> SUFFICES ASSUME reading', ~dma_ack', dma_settle' \in {0, 1}, rd_cur_blk' < rd_hps_blk',
                    NEW j \in 0 .. 3, data_cnt'.off + j < SectorBytes
             PROVE  q'[here' + j] = SectorAt(cmd.lba + rd_cur_blk)'[data_cnt'.off + j]
  BY DEF Fresh
<1>1. Kinds /\ cmd' = cmd /\ cmd.lba \in Nat /\ data_cnt \in Count
  BY LinesKept, LengthType DEF CountInv, Kinds
<1>2. reading
  <2>1. ~(data_cnt' = Zero /\ rd_hps_blk' = 0)
    BY DEF rd_cur_blk, Zero
  <2> QED
    BY <2>1, ReadFrom
<1>3. data_cnt' = data_cnt
  <2>0. dma_settle' = IF dma_ack THEN 4 ELSE IF dma_settle # 0 THEN dma_settle - 1 ELSE 0
    BY <1>1, TrainMoves
  <2>1. dma_settle # 3
    BY <2>0
  <2> QED
    BY <1>2, <2>1, PlaceMoves DEF reading, dataPhase
<1> DEFINE word == data_cnt.blk * SectorBytes + data_cnt.off - here
<1>4. here \in {0, 1} /\ here' = here /\ data_cnt.blk \in Nat /\ data_cnt.off \in Nat
  BY <1>1, <1>3 DEF here, Count, Offset
<1>5. q'[here' + j] = RingByte(word + (here + j))
  <2>1. q' = [i \in 0 .. 5 |-> RingByte(word + i)]
    BY <1>2 DEF Next, ReadPath, reading
  <2>2. here + j \in 0 .. 5
    BY <1>4
  <2> QED
    BY <1>4, <2>1, <2>2
<1>6. word + (here + j) = data_cnt.blk * SectorBytes + (data_cnt.off + j)
  <2>1. data_cnt.blk * SectorBytes \in Nat
    BY <1>4
  <2> QED
    BY <1>4, <2>1
<1>7. RingByte(word + (here + j)) = buf[data_cnt.blk % RingBlocks][data_cnt.off + j]
  <2>1. data_cnt.off + j \in 0 .. SectorBytes - 1
    BY <1>3, <1>4
  <2>2. /\ (data_cnt.blk * SectorBytes + (data_cnt.off + j)) \div SectorBytes = data_cnt.blk
        /\ (data_cnt.blk * SectorBytes + (data_cnt.off + j)) % SectorBytes = data_cnt.off + j
    BY <1>4, <2>1, Divide, Zenon
  <2> QED
    BY <1>6, <2>2, Zenon DEF RingByte
<1>8. buf[data_cnt.blk % RingBlocks] = SectorAt(cmd.lba + data_cnt.blk)
  <2>1. data_cnt.blk >= rd_cur_blk /\ data_cnt.blk < rd_hps_blk'
    BY <1>3, <1>4 DEF rd_cur_blk
  <2> QED
    BY <1>2, <1>4, <2>1, SectorHeld
<1>9. SectorAt(cmd.lba + rd_cur_blk)' = SectorAt(cmd.lba + data_cnt.blk)
  <2>1. disk' = disk
    BY <1>2, ImageStays DEF reading
  <2> QED
    BY <1>1, <1>3, <2>1 DEF SectorAt, rd_cur_blk
<1> QED
  BY <1>3, <1>5, <1>7, <1>8, <1>9

\* With the pulses settled, the buffer outputs show the image from the place
\* of the target on.
LEMMA OutputsShow ==
  ASSUME CountInv, Fresh, reading, ~dma_ack, dma_settle = 0, rd_cur_blk < rd_hps_blk,
         NEW n \in Nat, bytes(data_cnt) = n, NEW j \in 0 .. 3, data_cnt.off + j < SectorBytes
  PROVE  q[here + j] = ImageByte(n + j)
<1>1. q[here + j] = SectorAt(cmd.lba + rd_cur_blk)[data_cnt.off + j]
  BY DEF Fresh
<1>2. place(n + j) = [blk |-> data_cnt.blk, off |-> data_cnt.off + j]
  BY PlaceAhead DEF CountInv, Kinds
<1> QED
  BY <1>1, <1>2 DEF ImageByte, rd_cur_blk

\* In a clock of a read command that leaves the CPU's count alone, the bytes
\* the image has there are the same.
LEMMA ImageByteStays ==
  ASSUME CountInv, DataKinds, OnlyReads, Next, cmd_read, moved' = moved
  PROVE  ImageByte(moved)' = ImageByte(moved) /\ ImageByte(moved + 1)' = ImageByte(moved + 1)
<1>1. disk' = disk /\ cmd' = cmd
  BY ImageStays, LinesKept DEF CountInv
<1> QED
  BY <1>1 DEF ImageByte, SectorAt, place

\* At DTACK the registered copy of rdata takes the bytes at the CPU's place.
LEMMA ShownAtDtack ==
  ASSUME CountInv, DataKinds, OnlyReads, InSector, Fresh, Shown, Next, cmd_read, cpu'.st = "dtack"
  PROVE  rdata = IF cpu.word THEN <<ImageByte(moved), ImageByte(moved + 1)>>
                             ELSE <<ImageByte(moved), ImageByte(moved)>>
<1>1. Kinds /\ Cycle /\ Places /\ Counts /\ moved \in Nat /\ data_cnt \in Count
  BY LengthType DEF CountInv, Kinds
<1>2. /\ cpu.st # "off"
      /\ cpu.st = "dtack" \/ dreq
      /\ ~dma_ack /\ dma_settle = 0 /\ due = 0 /\ ~begins
      /\ cpu.dir = "read" /\ old_dma_rd
  BY <1>1, AtDtack DEF Cycle, cmd_read, cmd_write, dma_ack_busy, begins, over
<1>3. /\ pc \in {"move", "second"} /\ (cpu.second <=> pc = "second") /\ (cpu.second => cpu.long)
      /\ (cpu.long => cpu.word) /\ (dma_word <=> cpu.word) /\ (dma_suppress_ack <=> cpu.second)
  BY <1>1, <1>2, Zenon DEF Cycle
<1>4. CASE pc = "second"
  BY <1>2, <1>3, <1>4 DEF Shown, rdata
<1>5. CASE pc = "move"
  <2>1. reading
    <3>1. phase = dataOf
      BY <1>1, <1>2, <1>5 DEF Places
    <3> QED
      BY <3>1 DEF dataOf, AfterCommand, reading, cmd_read
  <2>2. rd_cur_blk < rd_hps_blk
    <3>1. dreq => ~(rd_cur_blk >= rd_hps_blk)
      BY <2>1 DEF dreq, req, io_busy, reading
    <3>2. rd_cur_blk \in Nat /\ rd_hps_blk \in Nat
      BY <1>1 DEF rd_cur_blk, Count, DataKinds
    <3> QED
      BY <1>2, <2>1, <3>1, <3>2 DEF InSector
  <2>3. bytes(data_cnt) = moved
    <3>1. bytes(data_cnt) + 0 = moved + 0 /\ bytes(data_cnt) \in Nat
      BY <1>1, <1>2, <1>5, <2>1, BytesType DEF Counts, ahead, reading, dataPhase
    <3> QED
      BY <1>1, <3>1
  <2>4. data_cnt.off + size <= SectorBytes /\ data_cnt.off \in Nat
    <3>1. data_cnt.off = moved % SectorBytes
      BY <1>1, <2>3, PlaceOf DEF place
    <3>2. (moved % SectorBytes) + size <= SectorBytes
      BY <1>2, <1>5 DEF InSector
    <3>3. data_cnt.off \in Nat
      BY <1>1 DEF Count, Offset
    <3> QED
      BY <3>1, <3>2, <3>3
  <2>5. q[here + 0] = ImageByte(moved + 0)
    <3>1. data_cnt.off + 0 < SectorBytes
      BY <2>4 DEF size
    <3> QED
      BY <1>1, <1>2, <2>1, <2>2, <2>3, <3>1, OutputsShow
  <2>6. q[here] = ImageByte(moved)
    <3>1. here + 0 = here /\ moved + 0 = moved
      BY <1>1, <2>4 DEF here
    <3> QED
      BY <2>5, <3>1
  <2>7. cpu.word => q[here + 1] = ImageByte(moved + 1)
    <3> SUFFICES ASSUME cpu.word PROVE q[here + 1] = ImageByte(moved + 1)
      OBVIOUS
    <3>1. data_cnt.off + 1 < SectorBytes
      BY <2>4 DEF size
    <3> QED
      BY <1>1, <1>2, <2>1, <2>2, <2>3, <3>1, OutputsShow
  <2> QED
    BY <1>3, <1>5, <2>6, <2>7 DEF rdata, din_pair
<1> QED
  BY <1>3, <1>4, <1>5

\* When the train of a longword begins, the pair after the target's place is
\* the second half.
LEMMA SecondHalf ==
  ASSUME CountInv, DataKinds, OnlyReads, InSector, Fresh, Next, begins, pc = "second"
  PROVE  dma_second_word_data' = <<ImageByte(moved), ImageByte(moved + 1)>>
<1>1. /\ Kinds /\ Train /\ Cycle /\ Places /\ Counts /\ moved \in Nat /\ data_cnt \in Count /\ cmd_read
  BY LengthType DEF CountInv, Kinds, Cycle
<1>2. /\ over /\ old_dma_rd /\ dma_word /\ dma_longword /\ ~dma_suppress_ack /\ ~dma_second_word
  BY <1>1 DEF begins, Cycle, over, cmd_read, cmd_write
<1>3. trainStart /\ rdEnd /\ dma_en /\ dataPhase /\ ~dma_ack_busy
  <2>1. trainStart /\ dma_en /\ dataPhase /\ ~dma_ack_busy
    BY <1>1, TrainBegins
  <2> QED
    BY <1>2, <2>1 DEF rdEnd, i_dma_rd, over
<1>4. dma_second_word_data' = <<q[here + 2], q[here + 3]>>
  BY <1>2, <1>3 DEF Next, AckTrain, din_pair_next
<1>5. reading /\ ~dma_ack /\ dma_settle = 0 /\ dma_ack_holdoff = 0
  BY <1>1, <1>3 DEF reading, Places, dataOf, AfterCommand, cmd_read, dma_ack_busy
<1>6. due = 4
  <2>1. left = 0
    BY <1>5 DEF left, One
  <2>2. due = 0 + 4
    BY <1>2, <2>1, Zenon DEF due, unit
  <2> QED
    BY <2>2
<1>7. bytes(data_cnt) + 2 = moved /\ bytes(data_cnt) \in Nat
  <2>1. bytes(data_cnt) + 4 = moved + 2 /\ bytes(data_cnt) \in Nat
    BY <1>1, <1>3, <1>6, BytesType DEF Counts, ahead
  <2> QED
    BY <1>1, <2>1
<1>8. data_cnt.off + 4 <= SectorBytes /\ data_cnt.off \in Nat /\ rd_cur_blk < rd_hps_blk
  BY <1>1, <1>3, <1>5, <1>6 DEF InSector, Count, Offset
<1>9. /\ q[here + 2] = ImageByte(bytes(data_cnt) + 2)
      /\ q[here + 3] = ImageByte(bytes(data_cnt) + 3)
  <2>1. data_cnt.off + 2 < SectorBytes /\ data_cnt.off + 3 < SectorBytes
    BY <1>8
  <2> QED
    BY <1>5, <1>7, <1>8, <2>1, OutputsShow
<1>10. bytes(data_cnt) + 3 = moved + 1
  BY <1>7
<1> QED
  BY <1>4, <1>7, <1>9, <1>10

LEMMA StepShown ==
  ASSUME CountInv, DataKinds, OnlyReads, InSector, Fresh, Shown, Next
  PROVE  Shown'
<1>1. Kinds /\ Cycle /\ cmd' = cmd /\ moved \in Nat
  BY LinesKept, LengthType DEF CountInv
<1> SUFFICES ASSUME cmd_read PROVE Shown'
  BY <1>1 DEF Shown, cmd_read
<1>2. ASSUME cpu'.st = "dtack"
      PROVE  (scsi_din_reg = IF cpu.word THEN <<ImageByte(moved), ImageByte(moved + 1)>>
                                         ELSE <<ImageByte(moved), ImageByte(moved)>>)'
  <2>1. moved' = moved /\ (cpu'.word <=> cpu.word)
    BY <1>2, AtDtack DEF SameCycle
  <2>2. scsi_din_reg' = rdata
    BY DEF Next, ReadPath
  <2>3. scsi_din_reg' = IF cpu.word THEN <<ImageByte(moved), ImageByte(moved + 1)>>
                                    ELSE <<ImageByte(moved), ImageByte(moved)>>
    BY <1>2, <2>2, ShownAtDtack
  <2>4. ImageByte(moved)' = ImageByte(moved) /\ ImageByte(moved + 1)' = ImageByte(moved + 1)
    BY <2>1, ImageByteStays
  <2> QED
    BY <2>1, <2>3, <2>4
<1>3. ASSUME pc' = "second", ~begins'
      PROVE  (dma_second_word_data = <<ImageByte(moved), ImageByte(moved + 1)>>)'
  <2>1. ~EndCycle
    <3> SUFFICES ASSUME EndCycle PROVE FALSE
      OBVIOUS
    <3>1. moved' + ahead' = moved + ahead
      <4>1. moved' + ahead' = moved + ahead + 0
        BY <1>3, EndMoves, Zenon
      <4> QED
        BY <1>1, <4>1 DEF ahead
    <3>2. cpu.long /\ ~cpu.second /\ cpu.word /\ pc = "move"
      BY <1>1, <1>3 DEF EndCycle, Cycle
    <3>3. moved' = moved + 2 /\ ahead' = 2 /\ ahead = 0
      BY <1>3, <3>2 DEF EndCycle, ahead
    <3> QED
      BY <1>1, <3>1, <3>3
  <2>2. moved' = moved /\ pc = "second"
    BY <1>3, <2>1, CpuActions DEF Next, Wait, Arm, BeginCycle, BeginSecond, Assert, SeeDtack,
       ModeOff, WakeUp, ReadCsr, MoveAck
  <2>3. dma_second_word_data' = <<ImageByte(moved), ImageByte(moved + 1)>>
    <3>1. CASE begins
      BY <2>2, <3>1, SecondHalf
    <3>2. CASE ~begins
      <4>1. ~trainStart
        BY <1>1, <3>2, TrainBegins DEF CountInv
      <4>2. dma_second_word_data' = dma_second_word_data
        BY <4>1 DEF Next, AckTrain
      <4> QED
        BY <2>2, <3>2, <4>2 DEF Shown
    <3> QED
      BY <3>1, <3>2
  <2>4. ImageByte(moved)' = ImageByte(moved) /\ ImageByte(moved + 1)' = ImageByte(moved + 1)
    BY <2>2, ImageByteStays
  <2> QED
    BY <2>3, <2>4
<1> QED
  BY <1>2, <1>3 DEF Shown

LEMMA StepTaken ==
  ASSUME CountInv, DataKinds, OnlyReads, Shown, Taken, Next
  PROVE  Taken'
<1>1. Kinds /\ Cycle /\ cmd' = cmd /\ moved \in Nat
  BY LinesKept, LengthType DEF CountInv
<1>2. CASE EndCycle /\ cpu.dir = "read"
  <2>1. cmd_read /\ cpu.st = "dtack"
    BY <1>1, <1>2 DEF EndCycle, Cycle
  <2>2. taken' = [at |-> moved, bytes |-> IF cpu.word THEN scsi_din_reg ELSE <<scsi_din_reg[1]>>]
    BY <1>2 DEF EndCycle
  <2>3. scsi_din_reg = IF cpu.word THEN <<ImageByte(moved), ImageByte(moved + 1)>>
                                   ELSE <<ImageByte(moved), ImageByte(moved)>>
    BY <2>1 DEF Shown
  <2>4. taken'.at = moved
        /\ taken'.bytes = IF cpu.word THEN <<ImageByte(moved), ImageByte(moved + 1)>>
                                      ELSE <<ImageByte(moved)>>
    BY <2>2, <2>3
  <2>5. ASSUME NEW i \in 1 .. Len(taken'.bytes)
        PROVE  taken'.bytes[i] = ImageByte(moved + i - 1)
    <3>1. i = 1 \/ (cpu.word /\ i = 2)
      BY <2>4
    <3>2. moved + 1 - 1 = moved /\ moved + 2 - 1 = moved + 1
      BY <1>1
    <3>3. CASE i = 1
      BY <2>4, <3>2, <3>3
    <3>4. CASE cpu.word /\ i = 2
      BY <2>4, <3>2, <3>4
    <3> QED
      BY <3>1, <3>3, <3>4
  <2>6. disk' = disk
    BY <2>1, ImageStays
  <2>7. DmaReadsServeDisk'
    BY <1>1, <2>4, <2>5, <2>6 DEF DmaReadsServeDisk, ImageByte, SectorAt, place
  <2> QED
    BY <1>1, <2>1, <2>4, <2>7 DEF Taken, cmd_read
<1>3. CASE ~(EndCycle /\ cpu.dir = "read")
  <2>1. taken' = taken
    BY <1>3, CpuActions DEF Next, Wait, Arm, BeginCycle, BeginSecond, Assert, SeeDtack, EndCycle,
       ModeOff, WakeUp, ReadCsr, MoveAck
  <2>2. CASE cmd_read
    <3>1. disk' = disk
      BY <2>2, ImageStays
    <3> QED
      BY <1>1, <2>1, <3>1 DEF Taken, DmaReadsServeDisk, SectorAt, place, cmd_read
  <2>3. CASE ~cmd_read
    <3>1. taken'.bytes = <<>> /\ taken'.at \in Nat
      BY <2>1, <2>3 DEF Taken
    <3> QED
      BY <3>1 DEF Taken, DmaReadsServeDisk
  <2> QED
    BY <2>2, <2>3
<1> QED
  BY <1>2, <1>3

-----------------------------------------------------------------------------
(* The invariant and what follows from it *)

LEMMA InitData == Init => DataInv
<1> SUFFICES ASSUME Init PROVE DataInv
  OBVIOUS
<1>1. CountInv /\ DataKinds
  BY InitCount, InitDataKinds
<1> USE DEF Init, TargetQuiet, HpsInit, NcrInit
<1>2. cpu.st = "off" /\ pc = "tcr" /\ phase = "CMD_IN" /\ ~dataPhase /\ ~reading
  BY DEF Off, dataPhase, reading
<1>3. AtRest /\ OnlyReads
  BY DEF AtRest, OnlyReads
<1>4. OneFetch /\ RingServes /\ InSector /\ Fresh /\ Shown
  BY <1>2 DEF OneFetch, RingServes, InSector, Fresh, Shown
<1>5. Taken
  BY DEF Taken, DmaReadsServeDisk
<1> QED
  BY <1>1, <1>3, <1>4, <1>5 DEF DataInv

LEMMA StepData ==
  ASSUME MaxEmpty = 0, UnitsInside
  PROVE  DataInv /\ [Next]_vars => DataInv'
<1> SUFFICES ASSUME DataInv, [Next]_vars PROVE DataInv'
  OBVIOUS
<1>0. CountInv'
  BY StepCount DEF DataInv
<1>1. CASE Next
  <2> USE <1>0, <1>1 DEF DataInv
  <2>1. DataKinds'
    BY StepDataKinds DEF CountInv
  <2>2. AtRest' /\ OnlyReads' /\ Fresh' /\ Shown' /\ Taken'
    BY StepAtRest, StepOnlyReads, StepFresh, StepShown, StepTaken
  <2>3. OneFetch'
    BY <2>1, StepOneFetch
  <2>4. RingServes' /\ InSector'
    BY <2>1, <2>3, StepRingServes, StepInSector
  <2> QED
    BY <2>1, <2>2, <2>3, <2>4
<1>2. CASE UNCHANGED vars
  <2> USE <1>2 DEF DataInv, vars, busVars, hpsVars, shakeVars, engineVars, bufferVars, cycleVars,
          regVars, trainVars, irqVars, pathVars, driverVars
  <2>1. DataKinds'
    BY DEF DataKinds
  <2>2. /\ reading' = reading /\ cmd_read' = cmd_read /\ begins' = begins /\ due' = due
        /\ dataPhase' = dataPhase /\ size' = size /\ here' = here /\ rd_cur_blk' = rd_cur_blk
    BY DEF reading, cmd_read, begins, over, due, left, unit, dataPhase, size, here, rd_cur_blk
  <2>3. AtRest' /\ OnlyReads'
    BY <2>2 DEF AtRest, OnlyReads
  <2>4. OneFetch'
    BY <2>2 DEF OneFetch
  <2>5. RingServes'
    BY <2>2 DEF RingServes, SectorAt
  <2>6. InSector'
    BY <2>2 DEF InSector
  <2>7. Fresh'
    BY <2>2 DEF Fresh, SectorAt
  <2>8. Shown'
    BY <2>2 DEF Shown, ImageByte, SectorAt, place
  <2>9. Taken'
    BY <2>2 DEF Taken, DmaReadsServeDisk, SectorAt, place
  <2> QED
    BY <1>0, <2>1, <2>3, <2>4, <2>5, <2>6, <2>7, <2>8, <2>9
<1> QED
  BY <1>1, <1>2

\* The bytes, words and longwords a driver reads through the port are those of
\* the image, in order, whatever the mix of widths, the clock at which it
\* latches and the device's timing: a driver whose units stay inside their
\* sector, with a device that opens no window without data.
THEOREM DmaReadsRight ==
  ASSUME MaxEmpty = 0, UnitsInside
  PROVE  Spec => []DmaReadsServeDisk
<1>1. DataInv => DmaReadsServeDisk
  BY DEF DataInv, Taken
<1> QED
  BY <1>1, InitData, StepData, PTL DEF Spec

-----------------------------------------------------------------------------
(* The invariant behind the bytes written *)

\* A driver writes a word at an even place: the port takes the captured low
\* byte only for a byte at an odd one.
EvenWords == \A u \in Units : u[1] = "write" /\ u[2] = 2 => u[3] % 2 = 0

storing  == cmd_write /\ phase = "DATA_IN"
writing  == cmd_write /\ phase \in {"DATA_IN", "STATUS_OUT"}
inFlight == io_wr \/ hps.st # "idle" \/ old_io_ack
flushed  == lba - cmd.lba
edge     == req_wr /\ ~old_wr

\* The n-th byte the CPU sends, and the bytes of the k-th sector.
macByte(n)    == MacByte(commands, place(n))
sectorSent(k) == [o \in Offset |-> MacByte(commands, [blk |-> k, off |-> o])]

\* The driver has begun to answer the status byte.
answered == polling /\ (pc # "poll" \/ icr_ack \/ old_ack \/ stb_adv \/ status_sent \/ message_sent
                        \/ phase \in {"MESSAGE_OUT", "IDLE"})

\* A write cycle brings the bytes at the CPU's place; the controller has them
\* in its data register and its low byte one and two clocks into the cycle.
CycleBytes ==
  /\ dma_wr => old_dma_wr /\ cpu.st = "wait"
  /\ cmd_write /\ ~polling => icr_data
  /\ cmd_write /\ cpu.st # "off" =>
       /\ cpu.hi = macByte(moved)
       /\ cpu.word => cpu.lo = macByte(moved + 1) /\ (moved % SectorBytes) % 2 = 0
       /\ old_dma_wr => dma_lowbyte = cpu.lo
       /\ old_dma_wr /\ ~dma_wr => odr = cpu.hi

\* From the end of a cycle to the strobe of its first byte the data register
\* and the low byte hold that cycle; then the beat of the low byte has its copy.
unstored == begins \/ (dma_ack /\ dma_settle = 0) \/ (dma_settle = 4 /\ ~wm_beat2)
Beats ==
  storing =>
    /\ dma_ack_holdoff \in {0, 1, 2}
    /\ dma_ack_holdoff = 2 <=> dma_ack /\ dma_settle = 0 /\ dma_word
    /\ dma_ack_holdoff = 1 <=> dma_settle = 4 /\ ~wm_beat2 /\ dma_word
    /\ wm_beat2 => dma_settle \in {3, 4}
    /\ dma_settle = 3 => (dma_ack <=> wm_beat2)
    /\ dma_ack /\ dma_settle = 0 => cpu.st = "off"
    /\ unstored => /\ odr = MacByte(commands, data_cnt) /\ ~dma_wr
                   /\ cpu.st # "off" => ~old_dma_wr
                   /\ dma_word => /\ dma_lowbyte = macByte(bytes(data_cnt) + 1)
                                  /\ data_cnt.off % 2 = 0
    /\ wm_beat2 /\ dma_settle = 3 => /\ odd_byte_r = macByte(bytes(data_cnt) + 1)
                                     /\ data_cnt.off % 2 = 0
    /\ wm_beat2 /\ dma_settle = 4 => /\ odd_byte_r = MacByte(commands, data_cnt)
                                     /\ data_cnt.off % 2 = 1
    /\ dma_settle = 3 => storedByte = MacByte(commands, data_cnt)

\* A byte is stored in the clock in which the target counts it.
StoresCounted == buffer_wr <=> dma_settle = 3 /\ phase = "DATA_IN"

\* One flush is in flight at a time, and none is left once the driver answers
\* the status byte.
OneFlush ==
  cmd_write =>
    /\ ~io_rd /\ ~sd_buff_wr
    /\ hps.st = "taken" => io_wr
    /\ old_io_ack => hps.st # "taken" /\ ~io_wr
    /\ wr_pending \/ inFlight => writing /\ tlen # Zero
    /\ hps.st # "idle" \/ old_io_ack => hps.op = "write" /\ hps.lba = lba
    /\ answered => ~wr_pending /\ ~inFlight
    /\ phase = "CMD_IN" => sd_buff_sel = 0

\* The sectors sent are those flushed, the one in flight, the one queued and
\* the one whose end the engine has not seen yet: at most two, and one when a
\* byte comes in.
SectorsAddUp ==
  /\ lba >= cmd.lba /\ sd_buff_sel = flushed % 2
  /\ data_cnt.blk = flushed + One(wr_pending) + One(inFlight) + One(edge)
  /\ data_cnt.blk <= flushed + 2
  /\ wr_pending => inFlight \/ old_wr
  /\ phase = "DATA_IN" =>
       /\ due > 0 \/ cpu.st = "dtack" => data_cnt.blk <= flushed + 1
       /\ edge => dma_settle = 2 /\ due = 0
       /\ data_cnt.blk < tlen.blk \/ data_cnt = tlen
  /\ phase = "STATUS_OUT" => old_wr /\ data_cnt = tlen /\ (data_complete \/ status_sent)

\* Each sector not yet flushed is in its half of the buffer, and so is the part
\* of the next one that has come in.
HalvesHold ==
  /\ \A j \in flushed .. data_cnt.blk - 1 : buf[j % 2] = sectorSent(j)
  /\ phase = "DATA_IN" =>
       \A o \in 0 .. data_cnt.off - 1 : buf[wrSlot][o] = MacByte(commands, [blk |-> data_cnt.blk, off |-> o])

\* The image holds what was flushed, and the sector in flight once the device
\* has collected it.
ImageHolds ==
  /\ \A j \in 0 .. flushed - 1 : cmd.lba + j \in Lba => disk[cmd.lba + j] = sectorSent(j)
  /\ (hps.st = "ack" /\ hps.done) \/ (hps.st = "idle" /\ old_io_ack) =>
       (lba \in Lba => disk[lba] = sectorSent(flushed))

\* After the status byte the sectors of the command hold the bytes sent.
Arrived ==
  cmd_write /\ phase \in {"MESSAGE_OUT", "IDLE"} =>
    \A k \in 0 .. cmd.len.blk - 1 : cmd.lba + k \in Lba => disk[cmd.lba + k] = sectorSent(k)

FlushInv == CountInv /\ DataKinds /\ AtRest /\ InSector /\ CycleBytes /\ Beats /\ StoresCounted /\ OneFlush
            /\ (writing /\ tlen # Zero => SectorsAddUp)
WriteInv == FlushInv /\ (writing /\ tlen # Zero => HalvesHold /\ ImageHolds) /\ Arrived
DoneAnswered == pc = "done" => phase \in {"MESSAGE_OUT", "IDLE"}

-----------------------------------------------------------------------------
(* The stages of a train in a write *)

\* Nothing due, nothing on its way to the target.
LEMMA NothingOnTheWay ==
  ASSUME CountInv, due = 0
  PROVE  ~begins /\ ~dma_ack /\ dma_ack_holdoff = 0 /\ dma_settle # 3 /\ dma_settle # 4
<1>1. dma_ack_holdoff \in 0 .. 6 /\ dma_settle \in 0 .. 4
  BY DEF CountInv, Kinds, TypeOK
<1>2. /\ One(dma_ack) = IF dma_ack THEN 1 ELSE 0
      /\ One(dma_settle = 4) = IF dma_settle = 4 THEN 1 ELSE 0
      /\ One(dma_settle = 3) = IF dma_settle = 3 THEN 1 ELSE 0
  BY DEF One
<1>3. left \in Nat /\ unit \in {1, 2, 4}
  BY <1>1, <1>2 DEF left, unit
<1>4. ~begins
  <2>1. begins => due = left + unit
    BY DEF due
  <2> QED
    BY <1>3, <2>1
<1>5. left = 0
  <2>1. due = left + 0
    BY <1>4, Zenon DEF due
  <2> QED
    BY <1>3, <2>1
<1>6. ~dma_ack /\ dma_ack_holdoff = 0 /\ dma_settle # 3 /\ dma_settle # 4
  BY <1>1, <1>2, <1>5 DEF left
<1> QED
  BY <1>4, <1>6

\* Where a clock that takes data in comes from.
LEMMA StoringFrom ==
  ASSUME CountInv, Next, storing'
  PROVE  /\ cmd_write /\ cmd' = cmd /\ ~polling /\ ~polling'
         /\ \/ phase = "CMD_IN" /\ due = 0 /\ ~begins'
            \/ storing /\ ~data_done
<1>1. cmd' = cmd /\ Places /\ Kinds
  BY LinesKept DEF CountInv
<1>2. cmd_write
  BY <1>1 DEF storing, cmd_write
<1>3. (phase = "CMD_IN" /\ cmd_cpl) \/ (dataPhase /\ phase' = phase /\ ~data_done)
  BY SentOnlyPolled DEF storing, dataPhase
<1>4. CASE phase = "CMD_IN"
  <2>1. due = 0 /\ pc = "tcr" /\ ~dataPhase
    BY <1>1, <1>4 DEF Places, dataPhase
  <2>2. ~begins'
    BY <2>1, EndMoves
  <2>3. ~polling /\ ~polling'
    BY <2>1, PollMoves DEF polling
  <2> QED
    BY <1>1, <1>2, <1>4, <2>1, <2>2, <2>3
<1>5. CASE dataPhase /\ phase' = phase /\ ~data_done
  <2>1. storing
    BY <1>2, <1>5 DEF storing
  <2>2. ~polling
    BY <1>1, <1>5 DEF Places
  <2>3. ~(pc = "sleep" /\ irq_latch)
    BY <1>5 DEF CountInv, Interrupt, dataPhase
  <2> QED
    BY <1>1, <1>2, <1>5, <2>1, <2>2, <2>3, PollMoves
<1> QED
  BY <1>3, <1>4, <1>5

\* The registers of the write path after a clock in which data comes in.
LEMMA StageMoves ==
  ASSUME CountInv, CycleBytes, Next, storing
  PROVE  /\ ~i_dma_rd /\ ~rdStart /\ ~old_dma_rd
         /\ dma_settle' = IF dma_ack THEN 4 ELSE IF dma_settle # 0 THEN dma_settle - 1 ELSE 0
         /\ dma_ack' <=> IF dma_ack_holdoff # 0 THEN dma_ack_holdoff % 2 = 1 ELSE begins
         /\ dma_ack_holdoff' = IF dma_ack_holdoff # 0 THEN dma_ack_holdoff - 1
                               ELSE IF begins /\ dma_word THEN 2 ELSE 0
         /\ stb_ack <=> dma_settle = 4
         /\ wm_beat2' <=> IF dma_settle = 4 THEN ~wm_beat2 /\ dma_word ELSE wm_beat2
         /\ odd_byte_r' = IF dma_settle = 4 /\ ~wm_beat2 /\ dma_word THEN dma_lowbyte ELSE odd_byte_r
         /\ store_low' <=> dma_settle = 4 /\ wm_beat2
         /\ odr' = IF dma_wr THEN cpu.hi ELSE odr
         /\ dma_wr' <=> wrStart
         /\ ~wrStart => dma_word' = dma_word /\ dma_lowbyte' = dma_lowbyte
         /\ begins => ~dma_ack_busy
<1>1. Kinds /\ Train /\ Cycle /\ Places /\ Counts /\ cmd_write /\ phase = "DATA_IN" /\ dataPhase
  BY DEF CountInv, storing, dataPhase
<1>2. cpu \in CpuCycle /\ ~cmd_read
  BY <1>1 DEF Kinds, cmd_read, cmd_write
<1>3. ~i_dma_rd /\ ~rdStart /\ ~old_dma_rd
  BY <1>1, <1>2 DEF i_dma_rd, rdStart, Cycle
<1>4. begins => dma_en /\ bsr_pmatch /\ ~dma_ack_busy /\ holdoff = (IF dma_word THEN 2 ELSE 0)
  <2>1. begins => dma_en /\ bsr_pmatch /\ ~dma_ack_busy
    BY <1>1, TrainBegins
  <2>2. ~rdEnd
    BY <1>3 DEF rdEnd
  <2>3. holdoff = IF dma_word THEN 2 ELSE 0
    BY <2>2 DEF holdoff
  <2> QED
    BY <2>1, <2>3
<1>5. /\ dma_ack' <=> IF dma_ack_holdoff # 0 THEN dma_ack_holdoff % 2 = 1 ELSE begins
      /\ dma_ack_holdoff' = IF dma_ack_holdoff # 0 THEN dma_ack_holdoff - 1
                            ELSE IF begins THEN holdoff ELSE 0
  BY <1>1, <1>4, TrainMoves, TrainBegins
<1>6. dma_ack_holdoff' = IF dma_ack_holdoff # 0 THEN dma_ack_holdoff - 1
                         ELSE IF begins /\ dma_word THEN 2 ELSE 0
  BY <1>4, <1>5
<1>7. stb_ack <=> dma_settle = 4
  BY <1>1 DEF Train, Places
<1>8. /\ wm_beat2' <=> IF dma_settle = 4 THEN ~wm_beat2 /\ dma_word ELSE wm_beat2
      /\ odd_byte_r' = IF dma_settle = 4 /\ ~wm_beat2 /\ dma_word THEN dma_lowbyte ELSE odd_byte_r
      /\ store_low' <=> dma_settle = 4 /\ wm_beat2
  <2>1. BeatRole /\ ~rst
    BY <1>1 DEF Next, TargetClk, Kinds
  <2>2. wm_beat2' <=> IF stb_ack THEN ~wm_beat2 /\ dma_word ELSE wm_beat2
    BY <1>1, <2>1, Zenon DEF BeatRole
  <2>3. odd_byte_r' = IF stb_ack /\ ~wm_beat2 /\ dma_word THEN dma_lowbyte ELSE odd_byte_r
    BY <1>1, <2>1, Zenon DEF BeatRole
  <2>4. store_low' <=> stb_ack /\ wm_beat2
    BY <1>1, <2>1, Zenon DEF BeatRole
  <2> QED
    BY <1>7, <2>2, <2>3, <2>4
<1>9. odr' = IF dma_wr THEN cpu.hi ELSE odr
  BY DEF Next, DataOut
<1>10. dma_wr' <=> wrStart
  BY Zenon DEF Next, DmaCycles
<1>11. ~wrStart => dma_word' = dma_word /\ dma_lowbyte' = dma_lowbyte
  BY <1>3, Zenon DEF Next, DmaCycles
<1>12. dma_settle' = IF dma_ack THEN 4 ELSE IF dma_settle # 0 THEN dma_settle - 1 ELSE 0
  BY <1>1, TrainMoves
<1> QED
  BY <1>3, <1>4, <1>5, <1>6, <1>7, <1>8, <1>9, <1>10, <1>11, <1>12

LEMMA StepCycleBytes ==
  ASSUME CountInv, CycleBytes, Next, EvenWords
  PROVE  CycleBytes'
<1>1. Kinds /\ Cycle /\ cpu \in CpuCycle /\ cmd' = cmd /\ commands' = commands
  BY LinesKept DEF CountInv, Kinds
<1>2. (dma_wr' <=> wrStart) /\ (old_dma_wr' <=> i_dma_wr) /\ DmaCycles
  <2>1. dma_wr' <=> wrStart
    BY Zenon DEF Next, DmaCycles
  <2> QED
    BY <1>1, <2>1, LatchMoves DEF Next
<1>3. dma_wr' => old_dma_wr' /\ cpu'.st = "wait"
  <2> SUFFICES ASSUME wrStart PROVE i_dma_wr /\ cpu'.st = "wait"
    BY <1>2
  <2>1. cpu.st # "off" /\ cpu.dir = "write" /\ ~old_dma_wr /\ i_dma_wr
    BY DEF wrStart, i_dma_wr
  <2>2. pc \in {"move", "second"} /\ cpu.st = "wait" /\ cpu.timer # 0
    BY <1>1, <2>1 DEF Cycle, CpuCycle
  <2>3. ~BeginCycle /\ ~BeginSecond /\ ~EndCycle
    BY <1>1, <2>2, CycleStates
  <2>4. cpu'.st = "wait"
    BY <1>1, <2>2, <2>3, CycleMoves
  <2> QED
    BY <2>1, <2>4
<1>4. cmd_write' /\ ~polling' => icr_data'
  <2>1. ~WakeUp => icr_data' = icr_data
    BY CpuActions DEF Next, Wait, Arm, BeginCycle, BeginSecond, Assert, SeeDtack, EndCycle,
       ModeOff, ReadCsr, MoveAck, KeepRegs, regVars
  <2>2. WakeUp => polling'
    BY DEF WakeUp, polling
  <2> QED
    BY <1>1, <2>1, <2>2, PollMoves DEF CycleBytes, cmd_write
<1>5. ASSUME cmd_write', cpu'.st # "off"
      PROVE  /\ cpu'.hi = macByte(moved)'
             /\ cpu'.word => cpu'.lo = macByte(moved + 1)' /\ (moved' % SectorBytes) % 2 = 0
             /\ old_dma_wr' => dma_lowbyte' = cpu'.lo
             /\ old_dma_wr' /\ ~dma_wr' => odr' = cpu'.hi
  <2>1. cmd_write /\ ~cmd_read
    BY <1>1, <1>5 DEF cmd_write, cmd_read
  <2>2. moved' = moved => macByte(moved)' = macByte(moved) /\ macByte(moved + 1)' = macByte(moved + 1)
    BY <1>1 DEF macByte, place
  <2>3. CASE BeginCycle
    <3>1. /\ moved' = moved /\ cpu.st = "off"
          /\ cpu'.hi = macByte(moved) /\ (cpu'.word => cpu'.lo = macByte(moved + 1))
          /\ ~cpu'.long /\ <<"write", size', moved % SectorBytes>> \in Units
      BY <1>1, <2>1, <2>3, CycleStates DEF macByte, cmd_write
    <3>2. cpu'.word => (moved % SectorBytes) % 2 = 0
      <4> SUFFICES ASSUME cpu'.word PROVE (moved % SectorBytes) % 2 = 0
        OBVIOUS
      <4>1. size' = 2
        BY <3>1 DEF size
      <4>2. <<"write", 2, moved % SectorBytes>> \in Units
        BY <3>1, <4>1
      <4> QED
        BY <4>2 DEF EvenWords
    <3>3. ~old_dma_wr'
      BY <1>2, <3>1 DEF i_dma_wr
    <3> QED
      BY <2>2, <3>1, <3>2, <3>3
  <2>4. CASE ~BeginCycle
    <3>1. ~BeginSecond /\ ~EndCycle
      BY <1>1, <1>5, <2>1, CycleStates DEF Cycle
    <3>2. SameCycle /\ moved' = moved /\ cpu.st # "off"
      BY <1>1, <1>5, <2>4, <3>1, CycleMoves DEF Cycle
    <3>3. /\ cpu.hi = macByte(moved)
          /\ cpu.word => cpu.lo = macByte(moved + 1) /\ (moved % SectorBytes) % 2 = 0
          /\ old_dma_wr => dma_lowbyte = cpu.lo
          /\ old_dma_wr /\ ~dma_wr => odr = cpu.hi
      BY <2>1, <3>2 DEF CycleBytes
    <3>4. dma_lowbyte' = IF wrStart THEN cpu.lo ELSE dma_lowbyte
      BY <1>2 DEF DmaCycles
    <3>5. odr' = IF dma_wr THEN cpu.hi ELSE odr
      BY DEF Next, DataOut
    <3>6. i_dma_wr => wrStart \/ old_dma_wr
      BY DEF wrStart
    <3>7. old_dma_wr' => dma_lowbyte' = cpu'.lo
      BY <1>2, <3>2, <3>3, <3>4, <3>6 DEF SameCycle
    <3>8. old_dma_wr' /\ ~dma_wr' => odr' = cpu'.hi
      BY <1>2, <3>2, <3>3, <3>5, <3>6 DEF SameCycle
    <3> QED
      BY <2>2, <3>2, <3>3, <3>7, <3>8 DEF SameCycle
  <2> QED
    BY <2>3, <2>4
<1> QED
  BY <1>3, <1>4, <1>5 DEF CycleBytes

\* When a write cycle ends, the controller's registers hold its bytes, at the
\* target's place.
LEMMA BytesAtEnd ==
  ASSUME CountInv, CountInv', DataKinds, CycleBytes, Beats, Next, storing, ~data_done, begins'
  PROVE  /\ odr' = MacByte(commands, data_cnt') /\ ~dma_wr' /\ cpu'.st = "off"
         /\ dma_word' => /\ dma_lowbyte' = MacByte(commands, place(bytes(data_cnt') + 1))
                         /\ data_cnt'.off % 2 = 0
         /\ data_cnt' = data_cnt
         /\ dma_settle = 0 /\ ~dma_ack /\ dma_ack_holdoff = 0 /\ ~begins /\ ~wm_beat2
<1>1. /\ Kinds /\ Cycle /\ Counts /\ cmd_write /\ dataPhase /\ moved \in Nat /\ data_cnt \in Count
  BY LengthType DEF CountInv, Kinds, storing, dataPhase
<1>2. EndCycle /\ pc = "move" /\ due = 0 /\ dma_settle = 0 /\ cpu.st = "dtack" /\ cpu'.st = "off"
  BY <1>1, EndMoves, DueMoves, CycleStates
<1>3. dma_ack_holdoff = 0 /\ ~dma_ack /\ ~begins
  BY <1>2, NothingOnTheWay
<1>4. ~wm_beat2
  BY <1>2 DEF Beats
<1>5. old_dma_wr /\ ~dma_wr /\ (dma_word <=> cpu.word)
  BY <1>1, <1>2 DEF Cycle, CycleBytes, cmd_read, cmd_write
<1>6. /\ odr = macByte(moved)
      /\ cpu.word => dma_lowbyte = macByte(moved + 1) /\ (moved % SectorBytes) % 2 = 0
  BY <1>1, <1>2, <1>5 DEF CycleBytes
<1>7. bytes(data_cnt) = moved
  <2>1. bytes(data_cnt) + 0 = moved + 0 /\ bytes(data_cnt) \in Nat
    BY <1>1, <1>2, BytesType DEF Counts, ahead
  <2> QED
    BY <1>1, <2>1
<1>8. data_cnt' = data_cnt
  BY <1>1, <1>2, PlaceMoves
<1>9. ~wrStart
  BY <1>5 DEF wrStart
<1>10. odr' = odr /\ ~dma_wr' /\ dma_word' = dma_word /\ dma_lowbyte' = dma_lowbyte
  BY <1>5, <1>9, StageMoves
<1>11. place(moved) = data_cnt /\ data_cnt.off = moved % SectorBytes
  BY <1>1, <1>7, PlaceOf DEF place
<1> QED
  BY <1>2, <1>3, <1>4, <1>5, <1>6, <1>7, <1>8, <1>10, <1>11 DEF macByte

LEMMA StepBeats ==
  ASSUME CountInv, CountInv', DataKinds, DataKinds', CycleBytes, CycleBytes', Beats, InSector, Next
  PROVE  Beats'
<1> SUFFICES ASSUME storing' PROVE Beats'
  BY DEF Beats
<1>0. /\ cmd_write /\ ~polling /\ ~polling' /\ commands' = commands /\ cmd_write'
      /\ Kinds /\ Train /\ data_cnt \in Count /\ data_cnt' \in Count /\ dma_settle \in 0 .. 4
      /\ wm_beat2 \in BOOLEAN /\ dma_ack \in BOOLEAN /\ dma_word \in BOOLEAN
  BY StoringFrom, LinesKept DEF CountInv, Kinds, TypeOK, DataKinds, storing
<1>1. CASE phase = "CMD_IN" /\ due = 0 /\ ~begins'
  <2>0. ~begins /\ ~dma_ack /\ dma_ack_holdoff = 0 /\ dma_settle # 4
    BY <1>1, NothingOnTheWay
  <2>1. ~dma_ack' /\ dma_ack_holdoff' = 0 /\ dma_settle' # 3 /\ dma_settle' # 4
    <3>1. ~trainStart
      BY <2>0, TrainBegins DEF CountInv
    <3> QED
      BY <1>0, <2>0, <3>1, TrainMoves
  <2>2. ~wm_beat2'
    BY <1>1 DEF Next, TargetClk, BeatRole
  <2>3. ~unstored'
    BY <1>1, <2>1 DEF unstored
  <2> QED
    BY <2>1, <2>2, <2>3 DEF Beats
<1>2. CASE storing /\ ~data_done
  <2>0. dataPhase /\ Beats /\ phase = "DATA_IN"
    BY <1>2 DEF storing, dataPhase
  <2>1. /\ dma_ack_holdoff \in {0, 1, 2}
        /\ dma_ack_holdoff = 2 <=> dma_ack /\ dma_settle = 0 /\ dma_word
        /\ dma_ack_holdoff = 1 <=> dma_settle = 4 /\ ~wm_beat2 /\ dma_word
        /\ wm_beat2 => dma_settle \in {3, 4}
        /\ dma_settle = 3 => (dma_ack <=> wm_beat2)
        /\ dma_ack /\ dma_settle = 0 => cpu.st = "off"
    BY <1>2 DEF Beats
  <2>2. unstored => /\ odr = MacByte(commands, data_cnt) /\ ~dma_wr
                    /\ cpu.st # "off" => ~old_dma_wr
                    /\ dma_word => /\ dma_lowbyte = macByte(bytes(data_cnt) + 1)
                                   /\ data_cnt.off % 2 = 0
    BY <1>2 DEF Beats
  <2>3. /\ dma_settle' = IF dma_ack THEN 4 ELSE IF dma_settle # 0 THEN dma_settle - 1 ELSE 0
        /\ dma_ack' <=> IF dma_ack_holdoff # 0 THEN dma_ack_holdoff % 2 = 1 ELSE begins
        /\ dma_ack_holdoff' = IF dma_ack_holdoff # 0 THEN dma_ack_holdoff - 1
                              ELSE IF begins /\ dma_word THEN 2 ELSE 0
        /\ wm_beat2' <=> IF dma_settle = 4 THEN ~wm_beat2 /\ dma_word ELSE wm_beat2
        /\ odd_byte_r' = IF dma_settle = 4 /\ ~wm_beat2 /\ dma_word THEN dma_lowbyte ELSE odd_byte_r
        /\ store_low' <=> dma_settle = 4 /\ wm_beat2
        /\ odr' = IF dma_wr THEN cpu.hi ELSE odr
        /\ dma_wr' <=> wrStart
        /\ ~wrStart => dma_word' = dma_word /\ dma_lowbyte' = dma_lowbyte
        /\ begins => ~dma_ack_busy
    BY <1>2, StageMoves
  <2>4. /\ dma_settle # 3 => data_cnt' = data_cnt
        /\ dma_settle = 3 => data_cnt' = Bump(data_cnt)
    BY <1>2, <2>0, PlaceMoves
  <2>5. begins => ~dma_ack /\ dma_ack_holdoff = 0 /\ dma_settle = 0
    BY <2>3 DEF dma_ack_busy
  <2>6. begins' => dma_settle = 0 /\ ~dma_ack /\ ~begins
    BY <1>2, BytesAtEnd
  <2>7. data_cnt' = data_cnt => macByte(bytes(data_cnt) + 1)' = macByte(bytes(data_cnt) + 1)
    BY <1>0 DEF macByte, bytes, place
  <2>8. CASE ~begins /\ ~dma_ack /\ dma_settle # 3 /\ dma_settle # 4
    <3>1. dma_ack_holdoff = 0 /\ ~wm_beat2
      BY <2>1, <2>8
    <3>2. ~dma_ack' /\ dma_ack_holdoff' = 0 /\ ~wm_beat2'
      BY <2>3, <2>8, <3>1
    <3>3. dma_settle' # 3 /\ dma_settle' # 4
      BY <1>0, <2>3, <2>8
    <3>4. begins' => /\ odr' = MacByte(commands, data_cnt') /\ ~dma_wr' /\ cpu'.st = "off"
                     /\ dma_word' => /\ dma_lowbyte' = MacByte(commands, place(bytes(data_cnt') + 1))
                                     /\ data_cnt'.off % 2 = 0
      BY <1>2, BytesAtEnd
    <3> QED
      BY <1>0, <3>2, <3>3, <3>4 DEF Beats, unstored, macByte, bytes
  <2>9. CASE begins
    <3>1. ~dma_ack /\ dma_ack_holdoff = 0 /\ dma_settle = 0 /\ ~wm_beat2 /\ unstored
      BY <2>1, <2>5, <2>9 DEF unstored
    <3>2. dma_ack' /\ dma_settle' = 0 /\ ~wm_beat2' /\ dma_ack_holdoff' = (IF dma_word THEN 2 ELSE 0)
      BY <2>3, <2>9, <3>1
    <3>3. cpu.st = "off" /\ gap = MinGap
      BY <2>9 DEF begins, over, CountInv, Cycle
    <3>4. cpu'.st = "off" /\ ~wrStart
      <4>1. ~BeginCycle /\ ~BeginSecond /\ ~EndCycle
        BY <3>3 DEF BeginCycle, BeginSecond, EndCycle
      <4>2. cpu' = cpu
        BY <1>0, <3>3, <4>1, CycleMoves
      <4> QED
        BY <3>3, <4>2 DEF wrStart, i_dma_wr
    <3>5. /\ odr' = odr /\ ~dma_wr' /\ dma_word' = dma_word /\ dma_lowbyte' = dma_lowbyte
          /\ data_cnt' = data_cnt
      BY <2>2, <2>3, <2>4, <3>1, <3>4
    <3> QED
      BY <1>0, <2>2, <2>7, <3>1, <3>2, <3>4, <3>5 DEF Beats, unstored
  <2>10. CASE dma_ack /\ dma_settle = 0
    <3>1. unstored /\ cpu.st = "off" /\ ~wm_beat2 /\ ~begins /\ ~begins'
      BY <2>1, <2>5, <2>6, <2>10 DEF unstored
    <3>2. dma_ack_holdoff = IF dma_word THEN 2 ELSE 0
      BY <2>1, <2>10
    <3>3. dma_settle' = 4 /\ ~dma_ack' /\ ~wm_beat2' /\ dma_ack_holdoff' = (IF dma_word THEN 1 ELSE 0)
      BY <2>3, <2>10, <3>1, <3>2
    <3>4. ~wrStart /\ ~old_dma_wr'
      BY <1>0, <3>1, LatchMoves DEF wrStart, i_dma_wr
    <3>5. /\ odr' = odr /\ ~dma_wr' /\ dma_word' = dma_word /\ dma_lowbyte' = dma_lowbyte
          /\ data_cnt' = data_cnt
      BY <2>2, <2>3, <2>4, <2>10, <3>1, <3>4
    <3> QED
      BY <1>0, <2>2, <2>7, <3>1, <3>3, <3>4, <3>5 DEF Beats, unstored
  <2>11. CASE dma_settle = 4 /\ ~wm_beat2
    <3>1. unstored /\ ~begins /\ ~begins' /\ ~dma_ack
      BY <1>0, <2>5, <2>6, <2>11 DEF unstored, Train
    <3>2. dma_ack_holdoff = IF dma_word THEN 1 ELSE 0
      BY <2>1, <2>11
    <3>3. dma_settle' = 3 /\ (dma_ack' <=> dma_word) /\ (wm_beat2' <=> dma_word) /\ dma_ack_holdoff' = 0
      BY <2>3, <2>11, <3>1, <3>2
    <3>4. odr' = MacByte(commands, data_cnt) /\ data_cnt' = data_cnt /\ ~store_low'
      BY <2>2, <2>3, <2>4, <2>11, <3>1
    <3>5. storedByte' = MacByte(commands, data_cnt)
      <4>1. din' = IF ~icr_data' THEN Blank
                   ELSE IF dma_ack_holdoff' = 1 /\ dma_word' THEN dma_lowbyte' ELSE odr'
        BY DEF Next, DataOut
      <4>2. icr_data'
        BY <1>0 DEF CycleBytes
      <4> QED
        BY <3>3, <3>4, <4>1, <4>2 DEF storedByte
    <3>6. wm_beat2' => odd_byte_r' = macByte(bytes(data_cnt) + 1) /\ data_cnt.off % 2 = 0
      BY <2>2, <2>3, <2>11, <3>1, <3>3
    <3>7. ~unstored'
      BY <3>1, <3>3 DEF unstored
    <3> QED
      BY <1>0, <2>7, <3>3, <3>4, <3>5, <3>6, <3>7 DEF Beats
  <2>12. CASE dma_settle = 3
    <3>1. ~begins /\ ~begins' /\ dma_ack_holdoff = 0
      BY <2>1, <2>5, <2>6, <2>12
    <3>2. /\ ~dma_ack' /\ dma_ack_holdoff' = 0 /\ (wm_beat2' <=> wm_beat2)
          /\ dma_settle' = IF wm_beat2 THEN 4 ELSE 2
      BY <2>1, <2>3, <2>12, <3>1
    <3>3. ~unstored'
      BY <3>1, <3>2 DEF unstored
    <3>4. wm_beat2' => odd_byte_r' = MacByte(commands, data_cnt') /\ data_cnt'.off % 2 = 1
      <4> SUFFICES ASSUME wm_beat2 PROVE odd_byte_r' = MacByte(commands, data_cnt') /\ data_cnt'.off % 2 = 1
        BY <3>2
      <4>1. odd_byte_r' = macByte(bytes(data_cnt) + 1) /\ data_cnt.off % 2 = 0
        BY <1>2, <2>3, <2>12 DEF Beats
      <4>2. data_cnt' = Bump(data_cnt) /\ bytes(data_cnt') = bytes(data_cnt) + 1
        BY <1>0, <2>4, <2>12, BytesBump
      <4>3. place(bytes(data_cnt) + 1) = data_cnt'
        BY <1>0, <4>2, PlaceOf
      <4>4. due >= 2 /\ due \in Nat
        <5>1. dma_ack
          BY <2>1, <2>12
        <5>2. One(dma_ack) = 1 /\ One(dma_settle = 3) = 1 /\ One(dma_settle = 4) = 0
          BY <2>12, <5>1 DEF One
        <5>3. left = 2
          BY <3>1, <5>2 DEF left
        <5>4. due = left + 0
          BY <3>1, Zenon DEF due
        <5> QED
          BY <5>3, <5>4
      <4>5. data_cnt.off + due <= SectorBytes /\ data_cnt.off \in Nat
        BY <1>0, <2>0, <4>4 DEF InSector, Count, Offset
      <4>6. data_cnt'.off = data_cnt.off + 1
        BY <4>2, <4>4, <4>5 DEF Bump
      <4> QED
        BY <4>1, <4>3, <4>5, <4>6 DEF macByte
    <3> QED
      BY <1>0, <3>1, <3>2, <3>3, <3>4 DEF Beats
  <2>13. CASE dma_settle = 4 /\ wm_beat2
    <3>1. ~begins /\ ~begins' /\ ~dma_ack /\ dma_ack_holdoff = 0
      BY <1>0, <2>1, <2>5, <2>6, <2>13 DEF Train
    <3>2. dma_settle' = 3 /\ ~dma_ack' /\ ~wm_beat2' /\ dma_ack_holdoff' = 0
      BY <2>3, <2>13, <3>1
    <3>3. /\ store_low' /\ odd_byte_r' = odd_byte_r /\ data_cnt' = data_cnt
          /\ odd_byte_r = MacByte(commands, data_cnt) /\ data_cnt.off % 2 = 1
      BY <1>2, <2>3, <2>4, <2>13 DEF Beats
    <3>4. storedByte' = MacByte(commands, data_cnt)
      BY <3>3 DEF storedByte
    <3>5. ~unstored'
      BY <3>1, <3>2 DEF unstored
    <3> QED
      BY <1>0, <3>2, <3>3, <3>4, <3>5 DEF Beats
  <2>14. dma_ack => dma_settle \in {0, 3}
    BY <1>0 DEF Train
  <2> QED
    BY <2>8, <2>9, <2>10, <2>11, <2>12, <2>13, <2>14
<1> QED
  BY <1>1, <1>2, StoringFrom

LEMMA StepStoresCounted ==
  ASSUME CountInv, CountInv', DataKinds, DataKinds', StoresCounted, Next
  PROVE  StoresCounted'
<1>1. Kinds /\ Train /\ Places /\ Counts
  BY DEF CountInv
<1>2. buffer_wr' <=> stb_ack /\ phase = "DATA_IN"
  BY <1>1, EngineMoves
<1>3. dma_settle' = IF dma_ack THEN 4 ELSE IF dma_settle # 0 THEN dma_settle - 1 ELSE 0
  BY <1>1, TrainMoves
<1>4. dma_settle \in 0 .. 4 /\ (dma_ack => dma_settle \in {0, 3})
  BY <1>1 DEF Kinds, TypeOK, Train
<1>5. dma_settle' = 3 <=> dma_settle = 4
  BY <1>3, <1>4
<1>6. CASE phase = "DATA_IN" /\ phase' = "DATA_IN"
  <2>1. stb_ack <=> dma_settle = 4
    BY <1>1, <1>6 DEF Train, Places, dataPhase
  <2> QED
    BY <1>2, <1>5, <1>6, <2>1 DEF StoresCounted
<1>7. CASE phase = "DATA_IN" /\ phase' # "DATA_IN"
  <2>1. data_done /\ dataPhase
    BY <1>1, <1>7, PhaseMoves DEF dataPhase
  <2>2. due = 0
    <3>1. bytes(data_cnt) = length
      BY <2>1, DoneMeans
    <3>2. bytes(data_cnt) + due = moved + ahead /\ moved + ahead <= length
      BY <1>1, <2>1 DEF Counts, CountInv, InBounds
    <3>3. due \in Nat /\ length \in Nat
      BY <1>1, DueMoves, LengthType
    <3> QED
      BY <3>1, <3>2, <3>3
  <2>3. dma_settle # 4
    BY <2>2, NothingOnTheWay
  <2>4. ~stb_ack
    BY <1>1, <2>1, <2>3 DEF Train, Places
  <2> QED
    BY <1>2, <1>7, <2>4 DEF StoresCounted
<1>8. CASE phase # "DATA_IN"
  <2>1. ASSUME phase' = "DATA_IN" PROVE dma_settle' # 3
    <3>1. phase = "CMD_IN"
      BY <1>8, <2>1, SentOnlyPolled DEF dataPhase
    <3>2. due = 0
      BY <1>1, <3>1 DEF Places
    <3> QED
      BY <1>5, <3>2, NothingOnTheWay
  <2> QED
    BY <1>2, <1>8, <2>1 DEF StoresCounted
<1> QED
  BY <1>6, <1>7, <1>8

-----------------------------------------------------------------------------
(* One flush after the other *)

\* Where a write phase comes from.
LEMMA WritingFrom ==
  ASSUME CountInv, Next, writing'
  PROVE  /\ cmd' = cmd /\ cmd_write /\ commands' = commands
         /\ \/ phase = "CMD_IN" /\ cmd_cpl /\ phase' = "DATA_IN" /\ ~polling /\ due = 0
            \/ /\ writing /\ tlen' = tlen
               /\ \/ phase = "DATA_IN" /\ phase' = "DATA_IN" /\ ~data_done
                  \/ phase = "DATA_IN" /\ phase' = "STATUS_OUT" /\ data_done
                  \/ phase = "STATUS_OUT" /\ phase' = "STATUS_OUT" /\ ~status_sent
<1>1. Kinds /\ Places /\ cmd' = cmd /\ commands' = commands /\ phase \in Phases
  BY LinesKept DEF CountInv, Kinds
<1>2. cmd_write /\ dataOf = "DATA_IN" /\ phase' \in {"DATA_IN", "STATUS_OUT"}
  BY <1>1 DEF writing, cmd_write, dataOf, AfterCommand
<1>3. CASE phase = "CMD_IN"
  <2>1. cmd_cpl /\ phase' = "DATA_IN"
    BY <1>1, <1>2, <1>3, PhaseMoves
  <2> QED
    BY <1>1, <1>2, <1>3, <2>1 DEF Places, polling
<1>4. CASE dataPhase
  BY <1>1, <1>2, <1>4, PhaseMoves DEF Places, writing, dataPhase
<1>5. CASE phase = "STATUS_OUT"
  BY <1>1, <1>2, <1>5, PhaseMoves DEF writing
<1>6. CASE phase \in {"MESSAGE_OUT", "IDLE"}
  BY <1>1, <1>2, <1>6, PhaseMoves
<1> QED
  BY <1>1, <1>3, <1>4, <1>5, <1>6 DEF Phases, dataPhase

\* Nothing asked for, nothing in flight: nothing comes.
LEMMA NothingComes ==
  ASSUME Kinds, DataKinds, Next, ~io_rd, ~io_wr, ~wr_pending, ~edge, hps.st = "idle"
  PROVE  ~wr_pending' /\ ~inFlight'
<1>1. ~io_ack /\ ~startFlush
  BY DEF io_ack, startFlush
<1>2. ~wr_pending' /\ ~io_wr' /\ ~old_io_ack'
  BY <1>1, EngineMoves DEF edge
<1>3. hps'.st = "idle"
  BY DeviceMoves
<1> QED
  BY <1>2, <1>3 DEF inFlight

\* What is in flight after a clock was in flight before it, or was queued.
LEMMA FlushFrom ==
  ASSUME Kinds, DataKinds, OneFlush, Next, cmd_write
  PROVE  /\ inFlight' => inFlight \/ startFlush
         /\ wr_pending' => wr_pending \/ edge
<1>1. ~io_rd
  BY DEF OneFlush
<1>2. /\ io_wr' <=> ~io_ack /\ (io_wr \/ startFlush)
      /\ old_io_ack' <=> io_ack
      /\ wr_pending' => wr_pending \/ edge
  BY EngineMoves DEF edge
<1>3. hps'.st # "idle" => hps.st # "idle" \/ io_wr
  <2>1. hps.st = "idle" => hps'.st \in {"idle", "taken"}
    BY DeviceMoves
  <2>2. hps'.st = "taken" => hps.st = "taken" \/ io_rd \/ io_wr
    BY DeviceMoves
  <2> QED
    BY <1>1, <2>1, <2>2
<1> QED
  BY <1>2, <1>3 DEF inFlight, io_ack

\* The engine serves one flush after the other.
LEMMA FlushMoves ==
  ASSUME CountInv, DataKinds, OneFlush, writing, Next
  PROVE  /\ io_ack <=> hps.st = "ack"
         /\ ackFall => inFlight /\ ~io_wr /\ hps.st = "idle" /\ old_io_ack
         /\ inFlight' <=> (inFlight /\ ~ackFall) \/ startFlush
         /\ startFlush /\ inFlight => ackFall
         /\ wr_pending' <=> ~startFlush /\ (wr_pending \/ edge)
         /\ wr_pending /\ ~startFlush => inFlight'
         /\ lba' = lba + One(ackFall)
         /\ sd_buff_sel' = IF ackFall THEN 1 - sd_buff_sel ELSE sd_buff_sel
<1>1. Kinds /\ bsy /\ cmd_write /\ ~io_rd /\ rd_flush_pending = FALSE
  BY DEF CountInv, DataKinds, OneFlush, writing, bsy
<1>2. hps.st \in {"idle", "taken", "ack"}
  BY DEF DataKinds
<1>3. io_ack <=> hps.st = "ack"
  BY <1>1 DEF io_ack
<1>4. (hps.st = "taken" => io_wr) /\ (old_io_ack => hps.st # "taken" /\ ~io_wr)
  BY <1>1 DEF OneFlush
<1>5. ackFall => inFlight /\ ~io_wr /\ hps.st = "idle" /\ old_io_ack
  BY <1>2, <1>3, <1>4 DEF ackFall, inFlight
<1>6. /\ io_wr' <=> ~io_ack /\ (io_wr \/ startFlush)
      /\ old_io_ack' <=> io_ack
      /\ wr_pending' <=> ~startFlush /\ (wr_pending \/ edge)
  BY <1>1, EngineMoves DEF edge
<1>7. ASSUME inFlight, ~ackFall PROVE inFlight'
  <2>1. CASE io_wr \/ hps.st = "ack" \/ old_io_ack
    BY <1>3, <1>6, <1>7, <2>1 DEF inFlight, ackFall
  <2>2. CASE hps.st = "taken"
    BY <1>3, <1>4, <1>6, <2>2 DEF inFlight
  <2> QED
    BY <1>2, <1>7, <2>1, <2>2 DEF inFlight
<1>8. startFlush => inFlight'
  BY <1>6 DEF startFlush, inFlight
<1>9. ASSUME inFlight', ackFall PROVE startFlush
  <2>1. ~io_ack /\ ~io_wr /\ hps.st = "idle"
    BY <1>5, <1>9 DEF ackFall
  <2>2. hps'.st = "idle" /\ ~old_io_ack'
    BY <1>1, <1>6, <2>1, DeviceMoves
  <2> QED
    BY <1>6, <1>9, <2>1, <2>2 DEF inFlight
<1>10. inFlight' => inFlight \/ startFlush
  BY <1>1, FlushFrom
<1>11. startFlush /\ inFlight => ackFall
  BY <1>2, <1>3, <1>4 DEF startFlush, inFlight, ackFall
<1>12. wr_pending /\ ~startFlush => inFlight'
  BY <1>6, <1>3 DEF startFlush, inFlight, io_ack
<1>13. lba' = lba + One(ackFall)
  <2>1. lba' = IF ackFall THEN lba + 1 ELSE lba
    BY <1>1 DEF Next, TargetClk, Parameters, writing
  <2>2. One(ackFall) = IF ackFall THEN 1 ELSE 0
    BY DEF One
  <2>3. lba \in Nat
    BY DEF DataKinds
  <2> QED
    BY <2>1, <2>2, <2>3
<1>14. sd_buff_sel' = IF ackFall THEN 1 - sd_buff_sel ELSE sd_buff_sel
  BY <1>1 DEF Next, TargetClk, RingFrontier
<1> QED
  BY <1>3, <1>5, <1>6, <1>7, <1>8, <1>9, <1>10, <1>11, <1>12, <1>13, <1>14

\* The status phase of a write with data has no edge of req_wr, and an edge
\* belongs to such a write.
LEMMA EdgeInside ==
  ASSUME writing /\ tlen # Zero => SectorsAddUp
  PROVE  /\ edge => writing /\ tlen # Zero
         /\ edge => phase = "DATA_IN"
<1>1. edge => writing /\ tlen # Zero
  BY DEF edge, req_wr, writing, data_len
<1>2. phase = "STATUS_OUT" => ~edge
  BY <1>1 DEF SectorsAddUp, edge
<1> QED
  BY <1>1, <1>2 DEF writing

\* A driver that begins to answer the status byte has seen a target with no
\* flush left.
LEMMA AnsweredFrom ==
  ASSUME CountInv, DataKinds, OneFlush, writing /\ tlen # Zero => SectorsAddUp, Next, cmd_write, answered'
  PROVE  ~io_rd /\ ~io_wr /\ ~wr_pending /\ ~edge /\ hps.st = "idle"
<1>1. /\ Kinds /\ Train /\ Places /\ Interrupt /\ polling' /\ ~io_rd /\ phase \in Phases
      /\ hps.st \in {"idle", "taken", "ack"}
      /\ hps.st = "taken" => io_wr
  BY DEF CountInv, answered, OneFlush, Kinds, DataKinds
<1>2. polling \/ (pc = "sleep" /\ irq_latch /\ ~polling)
  BY <1>1, PollMoves
<1>3. ~dataPhase /\ phase # "CMD_IN" /\ ~edge
  <2>1. ~dataPhase /\ phase # "CMD_IN"
    BY <1>1, <1>2 DEF Places, Interrupt, polling, dataPhase
  <2> QED
    BY <2>1, EdgeInside DEF dataPhase
<1>4. CASE answered
  BY <1>1, <1>3, <1>4 DEF OneFlush, inFlight
<1>5. CASE polling /\ ~answered
  <2>1. /\ pc = "poll" /\ ~icr_ack /\ ~old_ack /\ ~stb_adv /\ ~status_sent /\ ~message_sent
        /\ phase = "STATUS_OUT" /\ ~ack
    BY <1>1, <1>3, <1>5 DEF answered, Phases, dataPhase, Train
  <2>2. /\ ~old_ack' /\ ~stb_adv' /\ ~status_sent' /\ ~message_sent' /\ phase' = "STATUS_OUT"
    BY <1>1, <2>1, TrainMoves, PhaseMoves
  <2>3. pc' # "poll" \/ icr_ack'
    BY <2>2, <1>1 DEF answered
  <2>4. ReadCsr /\ csr_req # icr_ack
    BY <2>1, <2>3, CpuActions DEF Next, Wait, Arm, BeginCycle, BeginSecond, Assert, SeeDtack, EndCycle,
       ModeOff, WakeUp, ReadCsr, MoveAck, KeepRegs, regVars, Places, CountInv, Cycle
  <2>5. csr_req
    <3>1. csr_req \in BOOLEAN
      BY DEF csr_req
    <3>2. icr_ack = FALSE
      BY <1>1, <2>1 DEF Kinds
    <3> QED
      BY <2>4, <3>1, <3>2
  <2>6. ~io_busy
    BY <2>1, <2>5 DEF csr_req, req_bus, dataPhase
  <2>7. ~io_wr /\ ~io_ack /\ ~wr_pending
    BY <2>1, <2>6 DEF io_busy, dataPhase
  <2>8. hps.st = "idle"
    BY <1>1, <2>1, <2>7 DEF io_ack, bsy
  <2> QED
    BY <1>1, <1>3, <2>7, <2>8
<1>6. CASE pc = "sleep" /\ irq_latch /\ ~polling
  <2>1. phase = "STATUS_OUT" /\ due = 0
    BY <1>1, <1>3, <1>6 DEF Interrupt, CountInv, Counts
  <2>2. ~dma_ack /\ dma_settle # 3 /\ dma_settle # 4
    BY <2>1, NothingOnTheWay
  <2>3. ~icr_ack /\ ~ack /\ ~old_ack /\ ~stb_adv /\ ~status_sent /\ ~message_sent
    BY <1>1, <1>6, <2>2 DEF Train, Places
  <2>4. /\ ~old_ack' /\ ~stb_adv' /\ ~status_sent' /\ ~message_sent' /\ phase' = "STATUS_OUT"
    BY <1>1, <2>1, <2>3, TrainMoves, PhaseMoves
  <2>5. pc' = "poll" /\ ~icr_ack'
    <3>1. WakeUp
      BY <1>1, <1>6, CpuActions DEF Next, Wait, Arm, BeginCycle, BeginSecond, Assert, SeeDtack, EndCycle,
         ModeOff, ReadCsr, MoveAck, polling, CountInv, Cycle
    <3> QED
      BY <2>3, <3>1 DEF WakeUp
  <2> QED
    BY <2>4, <2>5 DEF answered
<1> QED
  BY <1>2, <1>4, <1>5, <1>6

LEMMA StepOneFlush ==
  ASSUME CountInv, DataKinds, AtRest, OneFlush, writing /\ tlen # Zero => SectorsAddUp, Next
  PROVE  OneFlush'
<1> SUFFICES ASSUME cmd_write' PROVE OneFlush'
  BY DEF OneFlush
<1>1. /\ Kinds /\ Places /\ cmd_write /\ ~io_rd /\ ~sd_buff_wr /\ phase \in Phases
      /\ hps.st \in {"idle", "taken", "ack"}
  BY LinesKept DEF CountInv, Kinds, cmd_write, OneFlush, DataKinds
<1>2. /\ hps.st = "taken" => io_wr
      /\ old_io_ack => hps.st # "taken" /\ ~io_wr
      /\ wr_pending \/ inFlight => writing /\ tlen # Zero
      /\ hps.st # "idle" \/ old_io_ack => hps.op = "write" /\ hps.lba = lba
      /\ answered => ~wr_pending /\ ~inFlight
  BY <1>1 DEF OneFlush
<1>3. /\ io_rd' <=> ~io_ack /\ (io_rd \/ startFetch)
      /\ io_wr' <=> ~io_ack /\ (io_wr \/ startFlush)
      /\ old_io_ack' <=> io_ack
  BY <1>1, EngineMoves
<1>4. ~io_rd' /\ ~sd_buff_wr'
  <2>1. ~startFetch
    BY <1>1 DEF startFetch, req_rd, cmd_read, cmd_write
  <2>2. ~sd_buff_wr'
    BY <1>2, DeviceMoves
  <2> QED
    BY <1>1, <1>3, <2>1, <2>2
<1>5. hps'.st = "taken" => io_wr'
  <2> SUFFICES ASSUME hps'.st = "taken" PROVE io_wr'
    OBVIOUS
  <2>1. (hps.st = "taken" \/ hps.st = "idle") /\ io_wr
    BY <1>1, <1>2, DeviceMoves
  <2> QED
    BY <1>3, <2>1 DEF io_ack
<1>6. old_io_ack' => hps'.st # "taken" /\ ~io_wr'
  BY <1>3, DeviceMoves DEF io_ack
<1>7. ASSUME wr_pending' \/ inFlight' PROVE writing /\ tlen # Zero /\ writing' /\ tlen' # Zero
  <2>1. wr_pending \/ inFlight \/ edge
    BY <1>1, <1>7, FlushFrom DEF startFlush
  <2>2. writing /\ tlen # Zero
    BY <1>2, <2>1, EdgeInside
  <2>3. ~(phase = "STATUS_OUT" /\ status_sent)
    <3>1. ASSUME phase = "STATUS_OUT", status_sent PROVE FALSE
      <4>1. answered
        BY <1>1, <3>1 DEF Places, answered
      <4> QED
        BY <1>2, <2>1, <3>1, <4>1, EdgeInside
    <3> QED
      BY <3>1
  <2>4. phase' \in {"DATA_IN", "STATUS_OUT"}
    BY <1>1, <2>2, <2>3, PhaseMoves DEF writing, dataPhase
  <2>5. tlen' = tlen
    BY <1>1, <2>2, PhaseMoves DEF writing
  <2> QED
    BY <2>2, <2>4, <2>5 DEF writing
<1>8. ASSUME hps'.st # "idle" \/ old_io_ack' PROVE hps'.op = "write" /\ hps'.lba = lba'
  <2>1. writing
    BY <1>7, <1>8 DEF inFlight
  <2>2. ~ackFall
    <3>1. ASSUME ackFall PROVE FALSE
      <4>1. ~io_ack /\ ~io_wr /\ hps.st = "idle"
        BY <2>1, <3>1, FlushMoves DEF ackFall
      <4> QED
        BY <1>1, <1>3, <1>8, <4>1, DeviceMoves
    <3> QED
      BY <3>1
  <2>3. lba' = lba
    <3>1. One(ackFall) = 0
      BY <2>2 DEF One
    <3>2. lba' = lba + One(ackFall) /\ lba \in Nat
      BY <2>1, FlushMoves DEF DataKinds
    <3>3. lba' = lba + 0
      BY <3>1, <3>2, Zenon
    <3> QED
      BY <3>2, <3>3
  <2>4. CASE hps.st # "idle"
    BY <1>2, <2>3, <2>4, DeviceMoves
  <2>5. CASE hps.st = "idle"
    <3>1. hps'.st = "taken"
      BY <1>3, <1>8, <2>5, DeviceMoves DEF io_ack
    <3>2. hps'.op = (IF io_wr THEN "write" ELSE "read") /\ hps'.lba = lba /\ io_wr
      BY <1>1, <2>5, <3>1, DeviceMoves
    <3> QED
      BY <2>3, <3>2
  <2> QED
    BY <2>4, <2>5
<1>9. ASSUME answered' PROVE ~wr_pending' /\ ~inFlight'
  BY <1>1, <1>9, AnsweredFrom, NothingComes
<1>10. phase' = "CMD_IN" => sd_buff_sel' = 0
  <2> SUFFICES ASSUME phase' = "CMD_IN" PROVE sd_buff_sel' = 0
    OBVIOUS
  <2>1. phase = "CMD_IN"
    BY SentOnlyPolled
  <2>2. ~ackFall /\ sd_buff_sel = 0
    BY <1>1, <2>1 DEF AtRest, OneFlush, ackFall
  <2> QED
    BY <2>2 DEF Next, TargetClk, RingFrontier
<1> QED
  BY <1>4, <1>5, <1>6, <1>7, <1>8, <1>9, <1>10 DEF OneFlush

-----------------------------------------------------------------------------
(* Sectors sent and sectors flushed *)

LEMMA WriteLength ==
  ASSUME CountInv, DataKinds, cmd_write
  PROVE  /\ cmd.len \in Count /\ cmd.len.off = 0 /\ cmd.len.blk \in Nat /\ cmd.lba \in Nat /\ lba \in Nat
         /\ data_cnt \in Count /\ data_cnt.blk \in Nat /\ data_cnt.off \in Offset
         /\ writing => tlen = cmd.len
<1>1. Kinds /\ Places /\ cmd \in Commands
  BY DEF CountInv, Kinds
<1>2. cmd.len \in Count /\ cmd.lba \in Nat
  BY <1>1, LengthType
<1>3. cmd.len.off = 0
  BY <1>1 DEF cmd_write
<1> QED
  BY <1>1, <1>2, <1>3 DEF Places, Kinds, DataKinds, Count, writing

\* A bump carries exactly at the end of a sector.
LEMMA BumpCarries ==
  ASSUME NEW n \in Count
  PROVE  /\ Bump(n).off = 0 <=> Bump(n).blk = n.blk + 1
         /\ Bump(n).off # 0 <=> Bump(n).blk = n.blk
         /\ Bump(n).off = 0 => n.off # 0 /\ n.off = SectorBytes - 1
         /\ Bump(n).off # 0 => Bump(n).off = n.off + 1
         /\ Bump(n) \in Count /\ Bump(n) # Zero
  BY DEF Bump, Count, Offset, Zero

\* A pulse counted in a write: it is due, and if it ends a sector it is the
\* last one due.
LEMMA PulseCounted ==
  ASSUME CountInv, InSector, Next, phase = "DATA_IN", dma_settle = 3
  PROVE  /\ due > 0 /\ due \in Nat /\ ~begins' /\ due' = due - 1 /\ cpu'.st # "dtack"
         /\ data_cnt.off = SectorBytes - 1 => due' = 0 /\ dma_settle' = 2
<1>1. dataPhase /\ Kinds /\ data_cnt.off \in Nat
  BY DEF dataPhase, CountInv, Kinds, Count, Offset
<1>2. due \in Nat /\ due' \in Nat /\ left' \in Nat /\ left' + One(dma_settle = 3) = due
  BY LeftMoves, DueMoves
<1>3. One(dma_settle = 3) = 1
  BY DEF One
<1>4. due > 0
  BY <1>2, <1>3
<1>5. ~begins' /\ due' = due - 1
  BY DueMoves
<1>6. cpu'.st # "dtack"
  BY AtDtack DEF dma_ack_busy
<1>7. ASSUME data_cnt.off = SectorBytes - 1 PROVE due' = 0 /\ dma_settle' = 2
  <2>1. due = 1
    BY <1>1, <1>2, <1>4, <1>7 DEF InSector
  <2>2. ~dma_ack
    <3>1. ASSUME dma_ack PROVE FALSE
      <4>1. One(dma_ack) = 1 /\ One(dma_settle = 3) = 1 /\ One(dma_settle = 4) = 0
        BY <3>1 DEF One
      <4>2. dma_ack_holdoff \in 0 .. 6
        BY <1>1 DEF Kinds, TypeOK
      <4>3. left >= 2 /\ left \in Nat
        BY <4>1, <4>2 DEF left
      <4>4. due = left + (IF begins THEN unit ELSE 0) /\ unit \in {1, 2, 4}
        BY DEF due, unit
      <4>5. due >= 2
        <5>1. CASE begins
          <6>1. due = left + unit
            BY <4>4, <5>1, Zenon
          <6> QED
            BY <4>3, <4>4, <6>1
        <5>2. CASE ~begins
          <6>1. due = left + 0
            BY <4>4, <5>2, Zenon
          <6> QED
            BY <4>3, <6>1
        <5> QED
          BY <5>1, <5>2
      <4> QED
        BY <2>1, <4>5
    <3> QED
      BY <3>1
  <2>3. dma_settle' = 2
    BY <1>1, <2>2, TrainMoves
  <2> QED
    BY <1>2, <1>5, <2>1, <2>3
<1> QED
  BY <1>2, <1>4, <1>5, <1>6, <1>7

\* What the byte counter of a write does.
LEMMA WriteCounts ==
  ASSUME CountInv, InSector, Next, writing, writing', tlen # Zero, SectorsAddUp
  PROVE  /\ phase' = "DATA_IN" => phase = "DATA_IN" /\ ~data_done
         /\ phase' = "DATA_IN" /\ dma_settle = 3 => data_cnt' = Bump(data_cnt)
         /\ phase' = "STATUS_OUT" \/ dma_settle # 3 => data_cnt' = data_cnt
         /\ phase' = "STATUS_OUT" => data_cnt = tlen /\ (data_complete' \/ status_sent')
         /\ phase = "DATA_IN" /\ phase' = "STATUS_OUT" => dma_settle # 3
<1>1. Kinds /\ Train /\ Counts /\ Places
  BY DEF CountInv
<1>2. CASE phase = "DATA_IN" /\ phase' = "DATA_IN" /\ ~data_done
  BY <1>2, PlaceMoves DEF dataPhase
<1>3. CASE phase = "DATA_IN" /\ phase' = "STATUS_OUT" /\ data_done
  <2>1. dataPhase /\ ~polling /\ data_complete /\ data_cnt = tlen
    BY <1>1, <1>3 DEF dataPhase, Counts, Places, data_done, data_len
  <2>2. due = 0
    <3>1. bytes(data_cnt) = length
      BY <1>3, <2>1, DoneMeans
    <3>2. bytes(data_cnt) + due = moved + ahead /\ moved + ahead <= length
      BY <1>1, <2>1 DEF Counts, CountInv, InBounds
    <3>3. due \in Nat /\ length \in Nat
      BY <1>1, DueMoves, LengthType
    <3> QED
      BY <3>1, <3>2, <3>3
  <2>3. ~stb_adv /\ dma_settle # 3
    BY <1>1, <2>1, <2>2, NothingOnTheWay DEF Train
  <2>4. data_cnt' = data_cnt /\ data_complete' = data_complete
    BY <1>1, <1>3, <2>3, CountMoves DEF transferPhase, dataPhase
  <2> QED
    BY <1>3, <2>1, <2>3, <2>4
<1>4. CASE phase = "STATUS_OUT" /\ phase' = "STATUS_OUT" /\ ~status_sent
  <2>1. data_complete /\ data_cnt = tlen /\ transferPhase
    BY <1>4 DEF SectorsAddUp, transferPhase
  <2>2. data_cnt' = data_cnt /\ (~stb_adv => data_complete' = data_complete)
    <3>1. CASE stb_adv
      BY <1>1, <2>1, <3>1, CountMoves
    <3>2. CASE ~stb_adv
      BY <1>1, <2>1, <3>2, CountMoves
    <3> QED
      BY <3>1, <3>2
  <2>3. stb_adv => status_sent'
    BY <1>1, <1>4, PhaseMoves
  <2> QED
    BY <1>4, <2>1, <2>2, <2>3
<1> QED
  BY <1>2, <1>3, <1>4, WritingFrom DEF writing

\* Before a byte comes in there is room for it: the target promises data only
\* when at most one sector waits, and the promise holds until the next byte.
LEMMA RoomStays ==
  ASSUME CountInv, DataKinds, OneFlush, SectorsAddUp, Next, storing, flushed \in Nat,
         due' > 0 \/ cpu'.st = "dtack"
  PROVE  data_cnt.blk <= flushed + 1
<1>1. data_cnt.blk \in Nat /\ Kinds /\ cmd_write /\ phase = "DATA_IN"
  BY WriteLength DEF storing, CountInv
<1>2. due > 0 \/ cpu.st = "dtack" \/ dreq
  <2>1. CASE cpu'.st = "dtack"
    BY <2>1, AtDtack
  <2>2. CASE due' > 0
    <3>1. begins' => cpu.st = "dtack"
      BY EndMoves DEF EndCycle
    <3>2. ~begins' => due > 0
      BY <2>2, DueMoves
    <3> QED
      BY <3>1, <3>2
  <2> QED
    BY <2>1, <2>2
<1>3. CASE due > 0 \/ cpu.st = "dtack"
  BY <1>1, <1>3 DEF SectorsAddUp
<1>4. CASE dreq
  <2>1. dma_settle = 0 /\ ~io_busy
    BY <1>4 DEF dreq, dma_ack_busy, req
  <2>2. ~edge
    BY <1>1, <2>1 DEF SectorsAddUp
  <2>3. ~(wr_pending /\ wrSlot = sd_buff_sel)
    BY <1>1, <2>1 DEF io_busy
  <2>4. data_cnt.blk = flushed + 2 => wrSlot = sd_buff_sel
    <3>1. sd_buff_sel = flushed % 2
      BY DEF SectorsAddUp
    <3> HIDE DEF flushed
    <3> QED
      BY <3>1 DEF wrSlot
  <2>5. data_cnt.blk <= flushed + 2
        /\ data_cnt.blk = flushed + One(wr_pending) + One(inFlight) + One(edge)
    BY DEF SectorsAddUp
  <2> HIDE DEF flushed
  <2>6. CASE wr_pending
    <3>1. data_cnt.blk # flushed + 2
      BY <2>3, <2>4, <2>6
    <3> QED
      BY <1>1, <2>5, <3>1
  <2>7. CASE ~wr_pending
    <3>1. One(wr_pending) = 0 /\ One(edge) = 0 /\ One(inFlight) \in {0, 1}
      BY <2>2, <2>7 DEF One
    <3> QED
      BY <1>1, <2>5, <3>1
  <2> QED
    BY <2>6, <2>7
<1> QED
  BY <1>2, <1>3, <1>4

LEMMA StepAddsUp ==
  ASSUME CountInv, CountInv', DataKinds, DataKinds', AtRest, InSector, OneFlush,
         writing /\ tlen # Zero => SectorsAddUp, Next, writing', tlen' # Zero
  PROVE  SectorsAddUp'
<1>0. /\ Kinds /\ Kinds' /\ Places /\ cmd_write /\ cmd' = cmd /\ lba' \in Nat /\ lba \in Nat
      /\ cmd.lba \in Nat /\ cmd.len \in Count /\ cmd.len.off = 0 /\ cmd.len.blk \in Nat
      /\ tlen' = cmd.len /\ data_cnt \in Count /\ data_cnt' \in Count
      /\ data_cnt.blk \in Nat /\ data_cnt'.blk \in Nat /\ data_cnt.off \in Offset
  <2>1. cmd_write /\ cmd' = cmd
    BY WritingFrom
  <2>2. tlen' = cmd'.len /\ data_cnt' \in Count /\ Places
    BY DEF CountInv, Places, writing, Kinds
  <2>3. data_cnt'.blk \in Nat
    BY <2>2 DEF Count
  <2> QED
    BY <2>1, <2>2, <2>3, WriteLength DEF CountInv, DataKinds
<1>1. CASE phase = "CMD_IN" /\ cmd_cpl /\ phase' = "DATA_IN" /\ ~polling /\ due = 0
  <2>1. ~io_rd /\ ~io_wr /\ ~wr_pending /\ hps.st = "idle" /\ ~old_io_ack /\ sd_buff_sel = 0
    BY <1>0, <1>1 DEF AtRest, OneFlush
  <2>2. ~wr_pending' /\ ~inFlight'
    <3>1. ~edge
      BY <1>1 DEF edge, req_wr
    <3> QED
      BY <1>0, <2>1, <3>1, NothingComes
  <2>3. data_cnt' = Zero /\ lba' = cmd.lba /\ sd_buff_sel' = 0
    <3>1. data_cnt' = Zero
      BY <1>0, <1>1, CountMoves DEF transferPhase, dataPhase
    <3>2. lba' = cmd.lba
      BY <1>1 DEF Next, TargetClk, Parameters
    <3>3. sd_buff_sel' = 0
      BY <2>1 DEF Next, TargetClk, RingFrontier, ackFall
    <3> QED
      BY <3>1, <3>2, <3>3
  <2>4. 0 < cmd.len.blk
    BY <1>0 DEF Count, Zero
  <2>5. flushed' = 0 /\ data_cnt'.blk = 0 /\ ~edge' /\ One(wr_pending') = 0 /\ One(inFlight') = 0 /\ One(edge') = 0
    <3>1. flushed' = 0
      BY <1>0, <2>3 DEF flushed
    <3>2. ~req_wr'
      BY <1>1, <2>3 DEF req_wr
    <3>3. ~edge'
      BY <3>2 DEF edge
    <3> QED
      BY <2>2, <2>3, <3>1, <3>3 DEF Zero, One
  <2>6. lba' >= cmd'.lba /\ sd_buff_sel' = flushed' % 2
    BY <1>0, <2>3, <2>5
  <2> HIDE DEF flushed, edge, inFlight
  <2> QED
    BY <1>0, <1>1, <2>2, <2>4, <2>5, <2>6 DEF SectorsAddUp
<1>2. CASE writing /\ tlen' = tlen
  <2>1. SectorsAddUp /\ tlen # Zero
    BY <1>2
  <2>2. One(ackFall) \in {0, 1} /\ lba' = lba + One(ackFall) /\ lba >= cmd.lba
    BY <1>2, <2>1, FlushMoves DEF One, SectorsAddUp
  <2>3. flushed \in Nat /\ flushed' \in Nat /\ flushed' = flushed + One(ackFall)
    BY <1>0, <2>2 DEF flushed
  <2>4. lba' >= cmd'.lba /\ sd_buff_sel' = flushed' % 2
    <3>1. lba' >= cmd'.lba
      BY <1>0, <2>2
    <3>2. sd_buff_sel = flushed % 2
      BY <2>1 DEF SectorsAddUp
    <3>3. CASE ackFall
      <4>1. flushed' = flushed + 1 /\ sd_buff_sel' = 1 - sd_buff_sel
        BY <1>2, <2>3, <3>3, FlushMoves DEF One
      <4> HIDE DEF flushed
      <4> QED
        BY <2>3, <3>1, <3>2, <4>1
    <3>4. CASE ~ackFall
      <4>1. One(ackFall) = 0 /\ sd_buff_sel' = sd_buff_sel
        BY <1>2, <3>4, FlushMoves DEF One
      <4> HIDE DEF flushed
      <4> QED
        BY <2>3, <3>1, <3>2, <4>1
    <3> QED
      BY <3>3, <3>4
  <2>5. data_cnt.blk = flushed' + One(wr_pending') + One(inFlight')
    <3>1. data_cnt.blk = flushed + One(wr_pending) + One(inFlight) + One(edge)
      BY <2>1 DEF SectorsAddUp
    <3>2. /\ ackFall => inFlight
          /\ inFlight' <=> (inFlight /\ ~ackFall) \/ startFlush
          /\ startFlush /\ inFlight => ackFall
          /\ wr_pending' <=> ~startFlush /\ (wr_pending \/ edge)
          /\ startFlush => wr_pending
      BY <1>2, FlushMoves DEF startFlush
    <3>3. ~(edge /\ wr_pending)
      BY <1>0, <2>1, <2>3 DEF SectorsAddUp, edge, One
    <3> HIDE DEF flushed, edge, inFlight, ackFall, startFlush
    <3>4. One(wr_pending) + One(inFlight) + One(edge) = One(ackFall) + One(wr_pending') + One(inFlight')
      BY <3>2, <3>3 DEF One
    <3>5. /\ One(wr_pending) \in {0, 1} /\ One(inFlight) \in {0, 1} /\ One(edge) \in {0, 1}
          /\ One(wr_pending') \in {0, 1} /\ One(inFlight') \in {0, 1}
      BY DEF One
    <3> QED
      BY <2>2, <2>3, <3>1, <3>4, <3>5
  <2>6. wr_pending' => inFlight' \/ old_wr'
    BY <1>0, <1>2, FlushMoves, EngineMoves DEF edge
  <2>7. old_wr' <=> req_wr
    BY <1>0, EngineMoves
  <2> HIDE DEF flushed
  <2>8. CASE phase' = "DATA_IN"
    <3>1. phase = "DATA_IN" /\ ~data_done /\ data_cnt.blk < tlen.blk /\ cmd_write /\ storing
      BY <1>0, <1>2, <2>1, <2>8, WriteCounts DEF SectorsAddUp, data_done, data_len, Counts, CountInv, dataPhase, storing
    <3>2. CASE dma_settle = 3
      <4>1. data_cnt' = Bump(data_cnt)
        BY <1>2, <2>1, <2>8, <3>2, WriteCounts
      <4>2. due > 0 /\ cpu'.st # "dtack" /\ (data_cnt.off = SectorBytes - 1 => due' = 0 /\ dma_settle' = 2)
        BY <3>1, <3>2, PulseCounted
      <4>3. data_cnt.blk <= flushed + 1 /\ ~edge
        BY <2>1, <3>1, <3>2, <4>2 DEF SectorsAddUp
      <4>4. CASE Bump(data_cnt).off = 0
        <5>1. /\ data_cnt'.blk = data_cnt.blk + 1 /\ data_cnt'.off = 0 /\ data_cnt' # Zero
              /\ data_cnt.off # 0 /\ data_cnt.off = SectorBytes - 1
          BY <1>0, <4>1, <4>4, BumpCarries
        <5>2. edge'
          <6>1. ~req_wr
            BY <3>1, <5>1 DEF req_wr
          <6>2. req_wr'
            BY <2>8, <5>1, writing' DEF req_wr, data_len, writing
          <6> QED
            BY <2>7, <6>1, <6>2 DEF edge
        <5>3. One(edge') = 1
          BY <5>2 DEF One
        <5>4. data_cnt'.blk = flushed' + One(wr_pending') + One(inFlight') + One(edge')
          <6>1. One(wr_pending') \in Nat /\ One(inFlight') \in Nat
            BY DEF One
          <6> QED
            BY <1>0, <2>3, <2>5, <5>1, <5>3, <6>1
        <5>5. data_cnt'.blk <= flushed' + 2
          BY <1>0, <2>2, <2>3, <4>3, <5>1
        <5>6. data_cnt'.blk < tlen'.blk \/ data_cnt' = tlen'
          <6>1. data_cnt'.blk <= cmd.len.blk
            BY <1>0, <1>2, <3>1, <5>1
          <6>2. data_cnt' = [blk |-> data_cnt'.blk, off |-> 0] /\ cmd.len = [blk |-> cmd.len.blk, off |-> 0]
            BY <1>0, <5>1 DEF Count
          <6> QED
            BY <1>0, <6>1, <6>2
        <5>7. due' = 0 /\ dma_settle' = 2
          BY <4>2, <5>1
        <5> HIDE DEF due, edge, inFlight
        <5> QED
          BY <2>4, <2>6, <2>8, <4>2, <5>4, <5>5, <5>6, <5>7 DEF SectorsAddUp
      <4>5. CASE Bump(data_cnt).off # 0
        <5>1. data_cnt'.blk = data_cnt.blk /\ data_cnt'.off # 0
          BY <1>0, <4>1, <4>5, BumpCarries
        <5>2. ~edge'
          BY <2>8, <5>1 DEF edge, req_wr
        <5>3. One(edge') = 0
          BY <5>2 DEF One
        <5>4. data_cnt'.blk = flushed' + One(wr_pending') + One(inFlight') + One(edge')
          <6>1. One(wr_pending') \in Nat /\ One(inFlight') \in Nat
            BY DEF One
          <6> QED
            BY <1>0, <2>3, <2>5, <5>1, <5>3, <6>1
        <5>5. data_cnt'.blk <= flushed' + 1
          BY <1>0, <2>2, <2>3, <4>3, <5>1
        <5>6. data_cnt'.blk < tlen'.blk
          BY <1>2, <3>1, <5>1
        <5>7. data_cnt'.blk <= flushed' + 2
          BY <1>0, <2>3, <5>5
        <5> HIDE DEF due, edge, inFlight
        <5> QED
          BY <2>4, <2>6, <2>8, <5>2, <5>4, <5>5, <5>6, <5>7 DEF SectorsAddUp
      <4> QED
        BY <4>4, <4>5
    <3>3. CASE dma_settle # 3
      <4>1. data_cnt' = data_cnt
        BY <1>2, <2>1, <3>3, WriteCounts
      <4>2. ~edge'
        <5>1. req_wr' => req_wr
          BY <1>2, <2>1, <2>8, <3>1, <4>1 DEF req_wr, data_len
        <5> QED
          BY <2>7, <5>1 DEF edge
      <4>3. One(edge') = 0
        BY <4>2 DEF One
      <4>4. data_cnt'.blk = flushed' + One(wr_pending') + One(inFlight') + One(edge')
        <5>1. One(wr_pending') \in Nat /\ One(inFlight') \in Nat
          BY DEF One
        <5> QED
          BY <1>0, <2>3, <2>5, <4>1, <4>3, <5>1
      <4>5. data_cnt'.blk <= flushed' + 2
        <5>1. data_cnt.blk <= flushed + 2
          BY <2>1 DEF SectorsAddUp
        <5> QED
          BY <1>0, <2>2, <2>3, <4>1, <5>1
      <4>6. due' > 0 \/ cpu'.st = "dtack" => data_cnt'.blk <= flushed' + 1
        <5> SUFFICES ASSUME due' > 0 \/ cpu'.st = "dtack" PROVE data_cnt'.blk <= flushed' + 1
          OBVIOUS
        <5>1. data_cnt.blk <= flushed + 1
          BY <2>1, <2>3, <3>1, RoomStays
        <5> QED
          BY <1>0, <2>2, <2>3, <4>1, <5>1
      <4>7. data_cnt'.blk < tlen'.blk
        BY <1>2, <3>1, <4>1
      <4> HIDE DEF due, edge, inFlight
      <4> QED
        BY <2>4, <2>6, <2>8, <4>2, <4>4, <4>5, <4>6, <4>7 DEF SectorsAddUp
    <3> QED
      BY <3>2, <3>3
  <2>9. CASE phase' = "STATUS_OUT"
    <3>1. data_cnt' = data_cnt /\ data_cnt = tlen /\ (data_complete' \/ status_sent')
      BY <1>2, <2>1, <2>9, WriteCounts
    <3>2. req_wr
      BY <1>0, <1>2, <2>1, <3>1 DEF req_wr, writing, data_len
    <3>3. old_wr' /\ ~edge'
      BY <2>7, <3>2 DEF edge
    <3>4. One(edge') = 0
      BY <3>3 DEF One
    <3>5. data_cnt'.blk = flushed' + One(wr_pending') + One(inFlight') + One(edge')
      <4>1. One(wr_pending') \in Nat /\ One(inFlight') \in Nat
        BY DEF One
      <4> QED
        BY <1>0, <2>3, <2>5, <3>1, <3>4, <4>1
    <3>6. data_cnt'.blk <= flushed' + 2
      <4>1. data_cnt.blk <= flushed + 2
        BY <2>1 DEF SectorsAddUp
      <4> QED
        BY <1>0, <2>2, <2>3, <3>1, <4>1
    <3> HIDE DEF due, edge, inFlight
    <3> QED
      BY <1>2, <2>4, <2>6, <2>9, <3>1, <3>3, <3>5, <3>6 DEF SectorsAddUp
  <2> QED
    BY <2>8, <2>9, writing' DEF writing
<1> QED
  BY <1>1, <1>2, WritingFrom

\* A sector in flight is one the driver has sent, so it is in the command.
LEMMA FlushInside ==
  ASSUME CountInv, DataKinds, writing, tlen # Zero, SectorsAddUp, inFlight
  PROVE  /\ flushed \in Nat /\ lba = cmd.lba + flushed
         /\ flushed < data_cnt.blk /\ flushed < cmd.len.blk
<1>1. /\ lba \in Nat /\ cmd.lba \in Nat /\ data_cnt.blk \in Nat /\ cmd.len.blk \in Nat /\ tlen = cmd.len
      /\ cmd_write
  BY WriteLength DEF writing
<1>2. flushed \in Nat /\ lba = cmd.lba + flushed
  BY <1>1 DEF SectorsAddUp, flushed
<1>3. flushed < data_cnt.blk
  <2>1. data_cnt.blk = flushed + One(wr_pending) + One(inFlight) + One(edge)
    BY DEF SectorsAddUp
  <2>2. One(inFlight) = 1 /\ One(wr_pending) \in Nat /\ One(edge) \in Nat
    BY DEF One
  <2>3. data_cnt.blk = flushed + One(wr_pending) + 1 + One(edge)
    BY <2>1, <2>2, Zenon
  <2> HIDE DEF flushed, edge, One
  <2> QED
    BY <1>1, <1>2, <2>2, <2>3
<1>4. data_cnt.blk <= tlen.blk
  <2>1. data_cnt.blk < tlen.blk \/ data_cnt = tlen
    BY DEF SectorsAddUp, writing
  <2> QED
    BY <1>1, <2>1
<1> QED
  BY <1>1, <1>2, <1>3, <1>4

-----------------------------------------------------------------------------
(* The bytes on their way to the image *)

\* In a write the buffer changes only by the byte of the CPU, stored at the
\* target's place in the clock in which the target counts it.
LEMMA WriteStores ==
  ASSUME CountInv, DataKinds, Beats, StoresCounted, OneFlush, writing, Next
  PROVE  /\ wrSlot \in {0, 1} /\ {0, 1} \subseteq 0 .. RingBlocks - 1
         /\ phase = "DATA_IN" /\ dma_settle = 3 =>
              /\ buf'[wrSlot] = [buf[wrSlot] EXCEPT ![data_cnt.off] = MacByte(commands, data_cnt)]
              /\ \A s \in {0, 1} : s # wrSlot => buf'[s] = buf[s]
         /\ phase # "DATA_IN" \/ dma_settle # 3 => buf' = buf
<1>1. ~sd_buff_wr /\ data_cnt.blk \in Nat /\ buf \in [0 .. RingBlocks - 1 -> [Offset -> Byte]]
  BY WriteLength DEF OneFlush, writing, DataKinds
<1>2. wrSlot \in {0, 1} /\ {0, 1} \subseteq 0 .. RingBlocks - 1
  BY <1>1 DEF wrSlot
<1>3. phase = "DATA_IN" => mac_slot = wrSlot
  BY DEF mac_slot
<1>4. buf' = IF buffer_wr THEN [buf EXCEPT ![mac_slot][data_cnt.off] = storedByte] ELSE buf
  BY <1>1 DEF Next, TargetClk, SectorBuffer
<1>5. phase = "DATA_IN" /\ dma_settle = 3 => storedByte = MacByte(commands, data_cnt)
  BY DEF Beats, storing, writing
<1> HIDE DEF mac_slot, wrSlot
<1> QED
  BY <1>1, <1>2, <1>3, <1>4, <1>5 DEF StoresCounted

LEMMA StepHalves ==
  ASSUME CountInv, CountInv', DataKinds, DataKinds', InSector, Beats, StoresCounted, OneFlush,
         writing /\ tlen # Zero => SectorsAddUp /\ HalvesHold, Next, writing', tlen' # Zero
  PROVE  HalvesHold'
<1>0. /\ Kinds /\ cmd_write /\ cmd' = cmd /\ commands' = commands
      /\ lba \in Nat /\ cmd.lba \in Nat /\ lba' \in Nat /\ data_cnt \in Count /\ data_cnt' \in Count
      /\ data_cnt.blk \in Nat /\ data_cnt'.blk \in Nat /\ data_cnt.off \in Offset
  <2>1. cmd_write /\ cmd' = cmd /\ commands' = commands
    BY WritingFrom
  <2>2. data_cnt' \in Count
    BY DEF CountInv, Kinds
  <2> QED
    BY <2>1, <2>2, WriteLength DEF Count, CountInv, DataKinds
<1>1. CASE phase = "CMD_IN" /\ cmd_cpl /\ phase' = "DATA_IN" /\ ~polling /\ due = 0
  <2>1. data_cnt' = Zero /\ lba' = cmd.lba
    BY <1>0, <1>1, CountMoves DEF transferPhase, dataPhase, Next, TargetClk, Parameters
  <2>2. flushed' = 0 /\ data_cnt'.blk = 0 /\ data_cnt'.off = 0
    BY <1>0, <2>1 DEF flushed, Zero
  <2> HIDE DEF flushed
  <2> QED
    BY <2>2 DEF HalvesHold
<1>2. CASE writing /\ tlen' = tlen
  <2>1. SectorsAddUp /\ HalvesHold /\ tlen # Zero
    BY <1>2
  <2>2. flushed \in Nat /\ flushed' \in Nat /\ flushed' >= flushed
    <3>1. lba' = lba + One(ackFall) /\ lba >= cmd.lba
      BY <1>2, <2>1, FlushMoves DEF SectorsAddUp
    <3>2. One(ackFall) \in Nat
      BY DEF One
    <3> QED
      BY <1>0, <3>1, <3>2 DEF flushed
  <2>3. \A k : sectorSent(k)' = sectorSent(k)
    BY <1>0 DEF sectorSent
  <2>4. phase = "DATA_IN" /\ dma_settle = 3 => data_cnt.blk <= flushed + 1
    <3> SUFFICES ASSUME phase = "DATA_IN", dma_settle = 3 PROVE data_cnt.blk <= flushed + 1
      OBVIOUS
    <3>1. due > 0
      BY PulseCounted
    <3> QED
      BY <2>1, <3>1 DEF SectorsAddUp
  <2> HIDE DEF flushed
  <2>5. ASSUME NEW j \in flushed .. data_cnt.blk - 1 PROVE buf'[j % 2] = sectorSent(j)
    <3>1. j \in Nat /\ buf[j % 2] = sectorSent(j) /\ j <= data_cnt.blk - 1 /\ j >= flushed
      BY <1>0, <2>1, <2>2 DEF HalvesHold
    <3>2. CASE phase = "DATA_IN" /\ dma_settle = 3
      <4>1. j + 1 = data_cnt.blk
        BY <1>0, <2>2, <2>4, <3>1, <3>2
      <4>2. j % 2 # wrSlot /\ j % 2 \in {0, 1}
        BY <1>0, <3>1, <4>1 DEF wrSlot
      <4> QED
        BY <1>2, <3>1, <3>2, <4>2, WriteStores
    <3>3. CASE ~(phase = "DATA_IN" /\ dma_settle = 3)
      BY <1>2, <3>1, <3>3, WriteStores
    <3> QED
      BY <3>2, <3>3
  <2>6. wrSlot \in {0, 1} /\ buf'[wrSlot] \in [Offset -> Byte] /\ buf[wrSlot] \in [Offset -> Byte]
    BY <1>2, WriteStores DEF DataKinds
  <2>7. ASSUME phase = "DATA_IN", NEW o \in 0 .. data_cnt.off - 1
        PROVE  buf'[wrSlot][o] = MacByte(commands, [blk |-> data_cnt.blk, off |-> o])
    <3>1. o \in Offset /\ o # data_cnt.off
      BY <1>0 DEF Offset
    <3>2. buf[wrSlot][o] = MacByte(commands, [blk |-> data_cnt.blk, off |-> o])
      BY <2>1, <2>7 DEF HalvesHold
    <3>3. CASE dma_settle = 3
      <4>1. buf'[wrSlot] = [buf[wrSlot] EXCEPT ![data_cnt.off] = MacByte(commands, data_cnt)]
        BY <1>2, <2>7, <3>3, WriteStores
      <4> QED
        BY <2>6, <3>1, <3>2, <4>1
    <3>4. CASE dma_settle # 3
      BY <1>2, <3>2, <3>4, WriteStores
    <3> QED
      BY <3>3, <3>4
  <2>8. CASE phase' = "DATA_IN" /\ dma_settle = 3
    <3>1. phase = "DATA_IN" /\ data_cnt' = Bump(data_cnt)
      BY <1>2, <2>1, <2>8, WriteCounts
    <3>2. buf'[wrSlot][data_cnt.off] = MacByte(commands, data_cnt)
      <4>1. buf'[wrSlot] = [buf[wrSlot] EXCEPT ![data_cnt.off] = MacByte(commands, data_cnt)]
        BY <1>2, <2>8, <3>1, WriteStores
      <4> QED
        BY <1>0, <2>6, <4>1
    <3>3. data_cnt = [blk |-> data_cnt.blk, off |-> data_cnt.off]
      BY <1>0 DEF Count
    <3>4. CASE Bump(data_cnt).off = 0
      <4>1. data_cnt'.blk = data_cnt.blk + 1 /\ data_cnt'.off = 0 /\ data_cnt.off = SectorBytes - 1
        BY <1>0, <3>1, <3>4, BumpCarries
      <4>2. \A o \in Offset : buf'[wrSlot][o] = MacByte(commands, [blk |-> data_cnt.blk, off |-> o])
        <5> TAKE o \in Offset
        <5>1. o \in 0 .. data_cnt.off - 1 \/ o = data_cnt.off
          BY <1>0, <4>1 DEF Offset
        <5> QED
          BY <2>7, <3>1, <3>2, <3>3, <5>1
      <4>3. buf'[wrSlot] = sectorSent(data_cnt.blk)
        BY <2>6, <4>2 DEF sectorSent
      <4>4. \A j \in flushed' .. data_cnt'.blk - 1 : buf'[j % 2] = sectorSent(j)'
        <5> TAKE j \in flushed' .. data_cnt'.blk - 1
        <5>1. j \in flushed .. data_cnt.blk - 1 \/ j = data_cnt.blk
          BY <1>0, <2>2, <4>1
        <5> QED
          BY <2>3, <2>5, <4>3, <5>1 DEF wrSlot
      <4> QED
        BY <4>1, <4>4 DEF HalvesHold
    <3>5. CASE Bump(data_cnt).off # 0
      <4>1. data_cnt'.blk = data_cnt.blk /\ data_cnt'.off = data_cnt.off + 1
        BY <1>0, <3>1, <3>5, BumpCarries
      <4>2. wrSlot' = wrSlot
        BY <4>1 DEF wrSlot
      <4>3. \A j \in flushed' .. data_cnt'.blk - 1 : buf'[j % 2] = sectorSent(j)'
        <5> TAKE j \in flushed' .. data_cnt'.blk - 1
        <5>1. j \in flushed .. data_cnt.blk - 1
          BY <1>0, <2>2, <4>1
        <5> QED
          BY <2>3, <2>5, <5>1
      <4>4. ASSUME NEW o \in 0 .. data_cnt'.off - 1
            PROVE  buf'[wrSlot'][o] = MacByte(commands, [blk |-> data_cnt.blk, off |-> o])
        <5>1. o \in 0 .. data_cnt.off - 1 \/ o = data_cnt.off
          BY <1>0, <4>1 DEF Offset
        <5>2. buf'[wrSlot][o] = MacByte(commands, [blk |-> data_cnt.blk, off |-> o])
          BY <2>7, <3>1, <3>2, <3>3, <5>1
        <5> QED
          BY <4>2, <5>2
      <4> QED
        BY <1>0, <4>1, <4>3, <4>4 DEF HalvesHold
    <3> QED
      BY <3>4, <3>5
  <2>9. CASE phase' = "STATUS_OUT" \/ dma_settle # 3
    <3>1. data_cnt' = data_cnt /\ wrSlot' = wrSlot
      <4>1. data_cnt' = data_cnt
        BY <1>2, <2>1, <2>9, WriteCounts
      <4> QED
        BY <4>1 DEF wrSlot
    <3>2. \A j \in flushed' .. data_cnt'.blk - 1 : buf'[j % 2] = sectorSent(j)'
      <4> TAKE j \in flushed' .. data_cnt'.blk - 1
      <4>1. j \in flushed .. data_cnt.blk - 1
        BY <1>0, <2>2, <3>1
      <4> QED
        BY <2>3, <2>5, <4>1
    <3>3. phase' = "DATA_IN" => phase = "DATA_IN"
      BY <1>2, <2>1, WriteCounts
    <3> QED
      BY <1>0, <2>7, <3>1, <3>2, <3>3 DEF HalvesHold
  <2> QED
    BY <2>8, <2>9, writing' DEF writing
<1> QED
  BY <1>1, <1>2, WritingFrom

\* What a device that serves a write does to the image.
LEMMA CollectMoves ==
  ASSUME DataKinds, Next, hps.op = "write", hps.st # "idle"
  PROVE  /\ hps'.st = "ack" /\ hps'.done =>
              hps.st = "ack" /\ ((hps.done /\ disk' = disk) \/ HpsCollect)
         /\ hps'.st = "idle" => hps.st = "ack" /\ hps.done /\ disk' = disk
<1>1. HpsClk /\ hps \in [st : {"idle", "taken", "ack"}, op : {"read", "write"}, lba : Nat, done : BOOLEAN, owner : Nat]
  BY DEF Next, DataKinds
<1>2. CASE HpsQuiet
  BY <1>1, <1>2 DEF HpsQuiet
<1>3. CASE HpsPoll
  BY <1>1, <1>3 DEF HpsPoll
<1>4. CASE HpsOpenWindow
  BY <1>1, <1>4 DEF HpsOpenWindow, HpsAt
<1>5. CASE HpsStream
  BY <1>1, <1>5 DEF HpsStream, HpsAt
<1>6. CASE HpsCollect
  BY <1>1, <1>6 DEF HpsCollect, HpsAt
<1>7. CASE HpsCloseWindow
  BY <1>1, <1>7 DEF HpsCloseWindow, HpsAt
<1> QED
  BY <1>1, <1>2, <1>3, <1>4, <1>5, <1>6, <1>7 DEF HpsClk, HpsMove

\* A clock changes the image at most at the sector in flight, and then to the
\* bytes sent for it.
LEMMA ImageMoves ==
  ASSUME CountInv, DataKinds, OneFlush, Next, writing, tlen # Zero, SectorsAddUp, HalvesHold
  PROVE  /\ disk' = disk \/ HpsCollect
         /\ HpsCollect =>
              /\ inFlight /\ lba = cmd.lba + flushed
              /\ lba \in Lba => disk'[lba] = sectorSent(flushed)
              /\ \A l \in Lba : l # lba => disk'[l] = disk[l]
<1>1. disk' = disk \/ HpsCollect
  BY DeviceMoves
<1>2. ASSUME HpsCollect
      PROVE  /\ inFlight /\ lba = cmd.lba + flushed
             /\ lba \in Lba => disk'[lba] = sectorSent(flushed)
             /\ \A l \in Lba : l # lba => disk'[l] = disk[l]
  <2>1. inFlight /\ hps.lba = lba /\ cmd_write
    BY <1>2 DEF HpsCollect, OneFlush, inFlight, writing
  <2>2. flushed \in Nat /\ lba = cmd.lba + flushed /\ flushed < data_cnt.blk
    BY <2>1, FlushInside
  <2>3. hps_slot = flushed % 2
    BY <2>1 DEF hps_slot, SectorsAddUp
  <2>4. buf[flushed % 2] = sectorSent(flushed)
    <3>1. data_cnt.blk \in Nat
      BY <2>1, WriteLength
    <3> HIDE DEF flushed
    <3>2. flushed \in flushed .. data_cnt.blk - 1
      BY <2>2, <3>1
    <3> QED
      BY <3>2 DEF HalvesHold
  <2>5. disk \in [Lba -> [Offset -> Byte]]
    BY DEF DataKinds
  <2> HIDE DEF flushed
  <2> QED
    BY <1>2, <2>1, <2>2, <2>3, <2>4, <2>5 DEF HpsCollect
<1> QED
  BY <1>1, <1>2

LEMMA StepImage ==
  ASSUME CountInv, DataKinds, DataKinds', AtRest, OneFlush,
         writing /\ tlen # Zero => SectorsAddUp /\ HalvesHold /\ ImageHolds,
         Next, writing', tlen' # Zero
  PROVE  ImageHolds'
<1>0. /\ Kinds /\ cmd_write /\ cmd' = cmd /\ commands' = commands /\ lba \in Nat /\ cmd.lba \in Nat
      /\ lba' \in Nat
  BY WritingFrom, WriteLength DEF CountInv, DataKinds
<1>1. CASE phase = "CMD_IN" /\ cmd_cpl /\ phase' = "DATA_IN" /\ ~polling /\ due = 0
  <2>1. lba' = cmd.lba
    BY <1>1 DEF Next, TargetClk, Parameters
  <2>2. flushed' = 0
    BY <1>0, <2>1 DEF flushed
  <2>3. ~inFlight'
    <3>1. ~edge /\ ~io_rd /\ ~io_wr /\ ~wr_pending /\ hps.st = "idle"
      BY <1>1 DEF AtRest, edge, req_wr
    <3> QED
      BY <1>0, <3>1, NothingComes
  <2> HIDE DEF flushed
  <2> QED
    BY <2>2, <2>3 DEF ImageHolds, inFlight
<1>2. CASE writing /\ tlen' = tlen
  <2>1. SectorsAddUp /\ tlen # Zero /\ HalvesHold /\ ImageHolds
    BY <1>2
  <2>2. lba' = lba + One(ackFall) /\ One(ackFall) \in {0, 1} /\ lba >= cmd.lba
    BY <1>2, <2>1, FlushMoves DEF One, SectorsAddUp
  <2>3. flushed \in Nat /\ flushed' = flushed + One(ackFall)
    BY <1>0, <2>2 DEF flushed
  <2>4. \A k : sectorSent(k)' = sectorSent(k)
    BY <1>0 DEF sectorSent
  <2>5. /\ disk' = disk \/ HpsCollect
        /\ HpsCollect => /\ lba = cmd.lba + flushed
                         /\ lba \in Lba => disk'[lba] = sectorSent(flushed)
                         /\ \A l \in Lba : l # lba => disk'[l] = disk[l]
    BY <1>2, <2>1, ImageMoves
  <2> HIDE DEF flushed
  <2>6. \A j \in 0 .. flushed - 1 : cmd.lba + j \in Lba => disk'[cmd.lba + j] = sectorSent(j)
    <3> TAKE j \in 0 .. flushed - 1
    <3>1. cmd.lba + j # cmd.lba + flushed
      BY <1>0, <2>3
    <3> QED
      BY <2>1, <2>5, <3>1 DEF ImageHolds
  <2>7. CASE ackFall
    <3>1. hps.st = "idle" /\ old_io_ack /\ inFlight /\ ~io_ack
      BY <1>2, <2>7, FlushMoves DEF ackFall
    <3>2. disk' = disk /\ lba = cmd.lba + flushed
      BY <1>2, <2>1, <2>5, <3>1, FlushInside DEF HpsCollect
    <3>3. lba \in Lba => disk'[lba] = sectorSent(flushed)
      BY <2>1, <3>1, <3>2 DEF ImageHolds
    <3>4. \A j \in 0 .. flushed' - 1 : cmd'.lba + j \in Lba => disk'[cmd'.lba + j] = sectorSent(j)'
      <4> TAKE j \in 0 .. flushed' - 1
      <4>1. One(ackFall) = 1
        BY <2>7 DEF One
      <4>2. j \in 0 .. flushed - 1 \/ j = flushed
        BY <2>3, <4>1
      <4> QED
        BY <1>0, <2>4, <2>6, <3>2, <3>3, <4>2
    <3>5. ~old_io_ack' /\ hps'.st # "ack"
      BY <1>0, <3>1, EngineMoves, DeviceMoves
    <3> QED
      BY <3>4, <3>5 DEF ImageHolds
  <2>8. CASE ~ackFall
    <3>1. lba' = lba /\ flushed' = flushed
      <4>1. One(ackFall) = 0
        BY <2>8 DEF One
      <4> QED
        BY <1>0, <2>2, <2>3, <4>1
    <3>2. \A j \in 0 .. flushed' - 1 : cmd'.lba + j \in Lba => disk'[cmd'.lba + j] = sectorSent(j)'
      BY <1>0, <2>4, <2>6, <3>1
    <3>3. ASSUME (hps'.st = "ack" /\ hps'.done) \/ (hps'.st = "idle" /\ old_io_ack'), lba \in Lba
          PROVE  disk'[lba] = sectorSent(flushed)
      <4>1. hps.st # "idle"
        BY <1>0, <3>3, EngineMoves, DeviceMoves DEF io_ack
      <4>2. hps.op = "write"
        BY <1>0, <4>1 DEF OneFlush
      <4>3. (hps.st = "ack" /\ hps.done /\ disk' = disk) \/ HpsCollect
        BY <3>3, <4>1, <4>2, CollectMoves
      <4> QED
        BY <2>1, <2>5, <3>3, <4>3 DEF ImageHolds
    <3> QED
      BY <2>4, <3>1, <3>2, <3>3 DEF ImageHolds
  <2> QED
    BY <2>7, <2>8
<1> QED
  BY <1>1, <1>2, WritingFrom

LEMMA StepArrived ==
  ASSUME CountInv, DataKinds, OneFlush, writing /\ tlen # Zero => SectorsAddUp /\ HalvesHold /\ ImageHolds,
         Arrived, Next
  PROVE  Arrived'
<1> SUFFICES ASSUME cmd_write', phase' \in {"MESSAGE_OUT", "IDLE"}
             PROVE  \A k \in 0 .. cmd'.len.blk - 1 :
                      cmd'.lba + k \in Lba => disk'[cmd'.lba + k] = sectorSent(k)'
  BY DEF Arrived
<1>1. /\ Kinds /\ Places /\ cmd_write /\ cmd' = cmd /\ commands' = commands /\ phase \in Phases
      /\ hps.st \in {"idle", "taken", "ack"}
  BY LinesKept DEF CountInv, Kinds, cmd_write, DataKinds
<1>2. (phase = "STATUS_OUT" /\ status_sent) \/ phase \in {"MESSAGE_OUT", "IDLE"}
  <2>1. dataOf = "DATA_IN"
    BY <1>1 DEF dataOf, AfterCommand, cmd_write
  <2> QED
    BY <1>1, <2>1, PhaseMoves DEF Phases, dataPhase
<1>3. answered
  BY <1>1, <1>2 DEF Places, answered
<1>4. ~wr_pending /\ ~inFlight
  BY <1>1, <1>3 DEF OneFlush
<1>5. disk' = disk
  BY <1>4, DeviceMoves DEF inFlight
<1>6. \A k : sectorSent(k)' = sectorSent(k)
  BY <1>1 DEF sectorSent
<1>7. CASE phase \in {"MESSAGE_OUT", "IDLE"}
  BY <1>1, <1>5, <1>6, <1>7 DEF Arrived
<1>8. CASE phase = "STATUS_OUT" /\ status_sent
  <2>1. writing /\ tlen = cmd.len /\ cmd.len \in Count /\ lba \in Nat /\ cmd.lba \in Nat /\ cmd.len.blk \in Nat
    BY <1>1, <1>8, WriteLength DEF writing
  <2>2. CASE tlen = Zero
    <3>1. cmd.len.blk = 0
      BY <2>1, <2>2 DEF Zero
    <3> QED
      BY <1>1, <3>1
  <2>3. CASE tlen # Zero
    <3>1. SectorsAddUp /\ ImageHolds
      BY <2>1, <2>3
    <3>2. flushed \in Nat
      BY <2>1, <3>1 DEF SectorsAddUp, flushed
    <3>3. cmd.len.blk = flushed
      <4>1. ~edge /\ data_cnt = tlen
        BY <1>8, <3>1 DEF SectorsAddUp, edge
      <4>2. One(wr_pending) = 0 /\ One(inFlight) = 0 /\ One(edge) = 0
        BY <1>4, <4>1 DEF One
      <4>3. data_cnt.blk = flushed + One(wr_pending) + One(inFlight) + One(edge)
        BY <3>1 DEF SectorsAddUp
      <4> HIDE DEF flushed, inFlight, edge
      <4> QED
        BY <2>1, <3>2, <4>1, <4>2, <4>3
    <3> HIDE DEF flushed
    <3> QED
      BY <1>1, <1>5, <1>6, <3>1, <3>3 DEF ImageHolds
  <2> QED
    BY <2>2, <2>3
<1> QED
  BY <1>2, <1>7, <1>8

-----------------------------------------------------------------------------
(* The invariant and what follows from it *)

LEMMA InitWrite == Init => WriteInv /\ DoneAnswered
<1> SUFFICES ASSUME Init PROVE WriteInv /\ DoneAnswered
  OBVIOUS
<1>1. CountInv /\ DataKinds
  BY InitCount, InitDataKinds
<1> USE DEF Init, TargetQuiet, HpsInit, NcrInit
<1>2. cpu.st = "off" /\ pc = "tcr" /\ phase = "CMD_IN" /\ ~dataPhase /\ ~writing /\ ~storing /\ ~polling
  BY DEF Off, dataPhase, writing, storing, polling
<1>3. AtRest /\ InSector
  BY <1>2 DEF AtRest, InSector, reading
<1>4. CycleBytes /\ Beats /\ StoresCounted
  BY <1>2 DEF CycleBytes, Beats, StoresCounted
<1>5. OneFlush
  BY <1>2 DEF OneFlush, inFlight, answered
<1>6. Arrived /\ DoneAnswered
  BY <1>2 DEF Arrived, DoneAnswered
<1> QED
  BY <1>1, <1>2, <1>3, <1>4, <1>5, <1>6 DEF WriteInv, FlushInv

LEMMA StepDone ==
  ASSUME CountInv, DoneAnswered, Next
  PROVE  DoneAnswered'
<1> SUFFICES ASSUME pc' = "done" PROVE phase' \in {"MESSAGE_OUT", "IDLE"}
  BY DEF DoneAnswered
<1>1. Kinds
  BY DEF CountInv
<1>2. pc = "done" \/ phase = "MESSAGE_OUT"
  BY CpuActions DEF Next, Wait, Arm, BeginCycle, BeginSecond, Assert, SeeDtack, EndCycle,
     ModeOff, WakeUp, ReadCsr, MoveAck, KeepRegs
<1> QED
  BY <1>1, <1>2, PhaseMoves DEF DoneAnswered

LEMMA StepWrite ==
  ASSUME UnitsInside, EvenWords
  PROVE  WriteInv /\ DoneAnswered /\ [Next]_vars => WriteInv' /\ DoneAnswered'
<1> SUFFICES ASSUME WriteInv, DoneAnswered, [Next]_vars PROVE WriteInv' /\ DoneAnswered'
  OBVIOUS
<1>0. CountInv'
  BY StepCount DEF WriteInv, FlushInv
<1>1. CASE Next
  <2> USE <1>0, <1>1 DEF WriteInv, FlushInv
  <2>1. DataKinds'
    BY StepDataKinds DEF CountInv
  <2>2. AtRest' /\ InSector' /\ CycleBytes' /\ DoneAnswered'
    BY StepAtRest, StepInSector, StepCycleBytes, StepDone
  <2>3. Beats' /\ StoresCounted' /\ OneFlush'
    BY <2>1, <2>2, StepBeats, StepStoresCounted, StepOneFlush
  <2>4. writing' /\ tlen' # Zero => SectorsAddUp' /\ HalvesHold' /\ ImageHolds'
    BY <2>1, StepAddsUp, StepHalves, StepImage
  <2>5. Arrived'
    BY StepArrived
  <2> QED
    BY <2>1, <2>2, <2>3, <2>4, <2>5
<1>2. CASE UNCHANGED vars
  <2> USE <1>2 DEF WriteInv, FlushInv, vars, busVars, hpsVars, shakeVars, engineVars, bufferVars, cycleVars,
          regVars, trainVars, irqVars, pathVars, driverVars
  <2>1. DataKinds' /\ AtRest'
    BY DEF DataKinds, AtRest
  <2>2. /\ reading' = reading /\ cmd_write' = cmd_write /\ writing' = writing /\ storing' = storing
        /\ begins' = begins /\ due' = due /\ dataPhase' = dataPhase /\ size' = size
        /\ inFlight' = inFlight /\ flushed' = flushed /\ edge' = edge /\ wrSlot' = wrSlot
        /\ polling' = polling /\ answered' = answered /\ rd_cur_blk' = rd_cur_blk
    BY DEF reading, cmd_read, cmd_write, writing, storing, begins, over, due, left, unit, dataPhase, size,
       inFlight, flushed, edge, req_wr, data_len, wrSlot, polling, answered, rd_cur_blk
  <2>3. \A n : sectorSent(n)' = sectorSent(n) /\ macByte(n)' = macByte(n)
    BY DEF sectorSent, macByte, place
  <2>4. InSector' /\ OneFlush'
    BY <2>2 DEF InSector, OneFlush
  <2>5. CycleBytes'
    BY <2>2 DEF CycleBytes, macByte, place
  <2>6. Beats'
    BY <2>2 DEF Beats, unstored, macByte, place, bytes, storedByte
  <2>7. StoresCounted' /\ DoneAnswered'
    BY DEF StoresCounted, DoneAnswered
  <2>8. SectorsAddUp => SectorsAddUp'
    BY <2>2 DEF SectorsAddUp
  <2>9. HalvesHold => HalvesHold'
    BY <2>2, <2>3 DEF HalvesHold
  <2>10. ImageHolds => ImageHolds'
    BY <2>2, <2>3 DEF ImageHolds
  <2>11. Arrived'
    BY <2>2, <2>3 DEF Arrived
  <2> QED
    BY <1>0, <2>1, <2>2, <2>4, <2>5, <2>6, <2>7, <2>8, <2>9, <2>10, <2>11
<1> QED
  BY <1>1, <1>2

\* When the driver of a write has its completion, every sector of the command
\* holds the bytes the CPU sent for it, in order, whatever the mix of bytes and
\* words, the clocks between them and the device's timing: a driver whose units
\* stay inside their sector and that writes a word at an even place.
THEOREM DmaWritesArrive ==
  ASSUME UnitsInside, EvenWords
  PROVE  Spec => []DmaWritesReachDisk
<1>1. WriteInv /\ DoneAnswered => DmaWritesReachDisk
  <2> SUFFICES ASSUME WriteInv, DoneAnswered, pc = "done", cmd_write,
                      NEW k \in 0 .. cmd.len.blk - 1, NEW o \in Offset, cmd.lba + k \in Lba
               PROVE  disk[cmd.lba + k][o] = MacByte(commands, [blk |-> k, off |-> o])
    BY DEF DmaWritesReachDisk
  <2>1. disk[cmd.lba + k] = sectorSent(k)
    BY DEF WriteInv, Arrived, DoneAnswered
  <2> QED
    BY <2>1 DEF sectorSent
<1> QED
  BY <1>1, InitWrite, StepWrite, PTL DEF Spec
=============================================================================
