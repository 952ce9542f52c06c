----------------------------- MODULE ScsiTarget -----------------------------
(***************************************************************************)
(* One disk target of the SCSI bus, rtl/scsi.v, clock by clock.            *)
(*                                                                         *)
(* The target is synchronous logic: at every clock each always-block of    *)
(* the source computes the next value of its registers from the current    *)
(* ones.  Each block is an operator that fixes the primed value of its     *)
(* registers, the combinational wires are state functions, and TargetClk   *)
(* is one clock of the whole target.                                       *)
(*                                                                         *)
(* Byte counters are kept the way the code slices them: data_cnt[31:9] is  *)
(* data_cnt.blk and data_cnt[8:0] is data_cnt.off, with SectorBytes        *)
(* standing for 512.  A command block is a record: the operation its       *)
(* opcode decodes to, the number of CDB bytes its group needs (NoEnd for   *)
(* the groups that no cmd*_cpl wire recognises), the first sector and the  *)
(* length of the data phase.                                               *)
(***************************************************************************)
EXTENDS Integers

CONSTANTS
  SectorBytes,   \* bytes in a sector (512 in the code)
  RingBlocks,    \* sectors in the read ring: 1 << RING_LOG
  Lba,           \* the sector addresses of the disk image
  Commands,      \* the command blocks an initiator may send
  NoEnd          \* CDB length of the groups that never complete

VARIABLES
  \* inputs of the target
  ack, rst, sel, \* SCSI control lines driven by the initiator
  cdb,           \* the command block the initiator is sending
  din,           \* the byte the initiator drives
  dma_word, dma_lowbyte, \* the controller's word latch and low byte (dbg_dma_*)
  hps,           \* the block device: [st, op, lba, done, owner]
  disk,          \* the disk image behind it
  sd_buff_wr,    \* the block device strobes a sector into the buffer
  \* SCSI handshake
  phase, old_ack, stb_ack, stb_adv, cmd_cnt, cmd, status,
  status_sent, message_sent, data_cnt, data_complete, lba, tlen,
  \* block I/O engine
  io_rd, io_wr, wr_pending, old_wr, rd_busy, rd_flush_pending,
  old_io_ack, sd_buff_sel, rd_hps_blk, filled,
  \* sector buffer
  buffer_wr, buf,
  \* role of the next beat of a word
  odd_byte_r, wm_beat2, store_low

busVars    == <<ack, rst, sel, cdb, din, dma_word, dma_lowbyte>>
hpsVars    == <<hps, disk, sd_buff_wr>>
shakeVars  == <<phase, old_ack, stb_ack, stb_adv, cmd_cnt, cmd, status,
                status_sent, message_sent, data_cnt, data_complete, lba, tlen>>
engineVars == <<io_rd, io_wr, wr_pending, old_wr, rd_busy, rd_flush_pending,
                old_io_ack, sd_buff_sel, rd_hps_blk, filled>>
bufferVars == <<buffer_wr, buf, odd_byte_r, wm_beat2, store_low>>

ASSUME SectorAssumption == SectorBytes \in Nat /\ SectorBytes > 1
ASSUME RingAssumption   == RingBlocks \in Nat /\ RingBlocks > 1

Phases == {"IDLE", "CMD_IN", "DATA_OUT", "DATA_IN", "STATUS_OUT", "MESSAGE_OUT"}
Ops    == {"read", "write", "reply", "param", "none", "bad"}
Offset == 0 .. SectorBytes - 1
Count  == [blk : Nat, off : Offset]
Zero   == [blk |-> 0, off |-> 0]
CommandBlock == [op : Ops, bytes : (Nat \ {0}) \cup {NoEnd}, lba : Nat, len : Count]

ASSUME CommandAssumption ==
  /\ Lba \subseteq Nat
  /\ Commands \subseteq CommandBlock
  /\ \A c \in Commands : c.op \in {"read", "write"} => c.len.off = 0

\* A byte is known by where it comes from: the image, the n-th command's data
\* phase, the buffer's power-up contents, or a device that has nothing to send.
Blank          == <<"blank">>
PastEnd        == <<"past end">>
DiskByte(l, o) == <<"disk", l, o>>
MacByte(n, p)  == <<"mac", n, p>>
Byte == {Blank, PastEnd} \cup ({"disk"} \X Nat \X Offset) \cup ({"mac"} \X Nat \X Count)

\* data_cnt + 1 across the [31:9] / [8:0] boundary
Bump(n) == IF n.off + 1 = SectorBytes THEN [blk |-> n.blk + 1, off |-> 0]
                                      ELSE [blk |-> n.blk, off |-> n.off + 1]

-----------------------------------------------------------------------------
(* Wires *)

bsy       == phase # "IDLE"
cmd_read  == cmd.op = "read"
cmd_write == cmd.op = "write"
cmd_cpl   == cmd.bytes # NoEnd /\ cmd_cnt = cmd.bytes

\* The controller shows a target the acknowledge of its slot only while that
\* target is busy.
io_ack  == hps.st = "ack" /\ bsy
ackFall == old_io_ack /\ ~io_ack

dataPhase     == phase \in {"DATA_OUT", "DATA_IN"}
transferPhase == dataPhase \/ phase \in {"STATUS_OUT", "MESSAGE_OUT"}

data_len            == tlen
data_done           == data_complete \/ data_len = Zero
data_phase_complete == dataPhase /\ data_done

rd_cur_blk == data_cnt.blk
wrSlot     == data_cnt.blk % 2

\* mutants: no stall at the fetch frontier; wr_pending is not part of busy;
\* the status byte does not wait for a queued flush
io_busyNoReadStall ==
  \/ phase = "DATA_IN" /\ (io_wr \/ io_ack \/ wr_pending) /\ wrSlot = sd_buff_sel
  \/ ~dataPhase /\ (io_rd \/ io_wr \/ io_ack \/ wr_pending)

io_busyNoPending ==
  \/ phase = "DATA_OUT" /\ cmd_read /\ rd_cur_blk >= rd_hps_blk
  \/ phase = "DATA_IN" /\ (io_wr \/ io_ack) /\ wrSlot = sd_buff_sel
  \/ ~dataPhase /\ (io_rd \/ io_wr \/ io_ack)

\* Is the block engine in the way of the next byte?
io_busy ==
  \/ phase = "DATA_OUT" /\ cmd_read /\ rd_cur_blk >= rd_hps_blk
  \/ phase = "DATA_IN" /\ (io_wr \/ io_ack \/ wr_pending) /\ wrSlot = sd_buff_sel
  \/ ~dataPhase /\ (io_rd \/ io_wr \/ io_ack \/ wr_pending)

\* REQ as the pseudo-DMA path sees it, and REQ as CSR and BSR show it
req == bsy /\ ~ack /\ ~io_busy /\ ~data_phase_complete

req_bus ==
  /\ bsy /\ ~ack /\ ~data_phase_complete
  /\ \/ phase = "DATA_OUT" /\ (~cmd_read \/ rd_cur_blk < rd_hps_blk)
     \/ phase = "DATA_IN"
     \/ ~dataPhase /\ ~io_busy

\* mutants: the ring-space test is off by one; fetches run past the end
req_rdOneMore ==
  /\ phase = "DATA_OUT" /\ cmd_read /\ data_len # Zero /\ ~data_complete
  /\ rd_hps_blk < tlen.blk
  /\ rd_hps_blk - rd_cur_blk <= RingBlocks

req_rdPastEnd ==
  /\ phase = "DATA_OUT" /\ cmd_read /\ data_len # Zero /\ ~data_complete
  /\ rd_hps_blk - rd_cur_blk < RingBlocks

req_rd ==
  /\ phase = "DATA_OUT" /\ cmd_read /\ data_len # Zero /\ ~data_complete
  /\ rd_hps_blk < tlen.blk
  /\ rd_hps_blk - rd_cur_blk < RingBlocks

\* mutant: a zero-length write flushes too
req_wrZeroLength ==
  /\ \/ phase = "DATA_IN" /\ data_cnt.off = 0 /\ data_cnt # Zero
     \/ phase = "STATUS_OUT"
  /\ cmd_write

req_wr ==
  /\ \/ phase = "DATA_IN" /\ data_cnt.off = 0 /\ data_cnt # Zero
     \/ phase = "STATUS_OUT"
  /\ cmd_write /\ data_len # Zero

\* The buffer slot the block device reads or fills
hps_slot == IF cmd_write THEN sd_buff_sel ELSE rd_hps_blk % RingBlocks
\* The slot on the initiator's side
mac_slot == IF phase = "DATA_IN" THEN wrSlot ELSE data_cnt.blk % RingBlocks

-----------------------------------------------------------------------------
(* The always-blocks *)

AckEdges ==
  /\ old_ack' = ack
  /\ stb_ack' = (ack /\ ~old_ack)
  /\ stb_adv' = (old_ack /\ ~ack)

\* The opcode is decoded from the first CDB byte as soon as it is stored, so
\* until then a new command is still decoded as the previous one.
CommandBytes ==
  /\ cmd' = IF stb_ack /\ phase = "CMD_IN" /\ cmd_cnt = 0 THEN cdb ELSE cmd
  /\ cmd_cnt' = IF ~bsy THEN 0
                ELSE IF stb_adv /\ phase = "CMD_IN" /\ cmd_cnt # 15 THEN cmd_cnt + 1
                ELSE cmd_cnt

\* mutant: the byte after the last one completes the transfer
DataCountOneMore ==
  IF ~transferPhase
  THEN data_cnt' = Zero /\ data_complete' = FALSE
  ELSE IF stb_adv
  THEN /\ data_cnt' = IF data_complete THEN data_cnt ELSE Bump(data_cnt)
       /\ data_complete' = (data_cnt = data_len)
  ELSE UNCHANGED <<data_cnt, data_complete>>

DataCount ==
  IF ~transferPhase
  THEN data_cnt' = Zero /\ data_complete' = FALSE
  ELSE IF stb_adv
  THEN /\ data_cnt' = IF data_complete THEN data_cnt ELSE Bump(data_cnt)
       /\ data_complete' = (Bump(data_cnt) = data_len)
  ELSE UNCHANGED <<data_cnt, data_complete>>

SentFlags ==
  /\ status_sent'  = (phase = "STATUS_OUT" /\ (stb_adv \/ status_sent))
  /\ message_sent' = (phase = "MESSAGE_OUT" /\ (stb_adv \/ message_sent))

Parameters ==
  IF cmd_cpl /\ phase = "CMD_IN"
  THEN lba' = cmd.lba /\ tlen' = cmd.len
  ELSE /\ lba' = IF ackFall /\ ~rd_flush_pending THEN lba + 1 ELSE lba
       /\ tlen' = tlen

\* mutants: a sector is credited when its window opens; the write half runs on
RingFrontierEarly ==
  /\ old_io_ack' = io_ack
  /\ sd_buff_sel' = IF ~bsy THEN 0 ELSE IF ackFall THEN 1 - sd_buff_sel ELSE sd_buff_sel
  /\ rd_hps_blk' = IF ~transferPhase THEN 0
                   ELSE IF io_ack /\ ~old_io_ack /\ cmd_read /\ ~rd_flush_pending
                   THEN rd_hps_blk + 1 ELSE rd_hps_blk
  /\ filled' = (io_ack /\ (filled \/ sd_buff_wr))

RingFrontierNoWrap ==
  /\ old_io_ack' = io_ack
  /\ sd_buff_sel' = IF ~bsy THEN 0 ELSE IF ackFall THEN 1 + sd_buff_sel ELSE sd_buff_sel
  /\ rd_hps_blk' = IF ~transferPhase THEN 0
                   ELSE IF ackFall /\ cmd_read /\ filled /\ ~rd_flush_pending
                   THEN rd_hps_blk + 1 ELSE rd_hps_blk
  /\ filled' = (io_ack /\ (filled \/ sd_buff_wr))

RingFrontier ==
  /\ old_io_ack' = io_ack
  /\ sd_buff_sel' = IF ~bsy THEN 0 ELSE IF ackFall THEN 1 - sd_buff_sel ELSE sd_buff_sel
  /\ rd_hps_blk' = IF ~transferPhase THEN 0
                   ELSE IF ackFall /\ cmd_read /\ filled /\ ~rd_flush_pending
                   THEN rd_hps_blk + 1 ELSE rd_hps_blk
  /\ filled' = (io_ack /\ (filled \/ sd_buff_wr))

startFetch == ~io_ack /\ req_rd /\ ~io_rd /\ ~rd_busy
startFlush == ~io_ack /\ wr_pending /\ ~io_wr

\* mutant: only a window with data ends a fetch
BlockEngineStuck ==
  /\ rd_flush_pending' = IF rst THEN rd_flush_pending \/ io_rd \/ rd_busy
                         ELSE rd_flush_pending /\ ~ackFall
  /\ io_rd' = (~rst /\ ~io_ack /\ (io_rd \/ startFetch))
  /\ rd_busy' = (~rst /\ ~(ackFall /\ filled) /\ (rd_busy \/ startFetch))
  /\ io_wr' = (~rst /\ ~io_ack /\ (io_wr \/ startFlush))
  /\ wr_pending' = (~rst /\ ~startFlush /\ (wr_pending \/ (req_wr /\ ~old_wr)))
  /\ old_wr' = (~rst /\ req_wr)

BlockEngine ==
  IF rst
  THEN /\ rd_flush_pending' = (rd_flush_pending \/ io_rd \/ rd_busy)
       /\ io_rd' = FALSE /\ io_wr' = FALSE /\ rd_busy' = FALSE
       /\ wr_pending' = FALSE /\ old_wr' = FALSE
  ELSE /\ rd_flush_pending' = (rd_flush_pending /\ ~ackFall)
       /\ io_rd' = (~io_ack /\ (io_rd \/ startFetch))
       /\ rd_busy' = (~ackFall /\ (rd_busy \/ startFetch))
       /\ io_wr' = (~io_ack /\ (io_wr \/ startFlush))
       /\ wr_pending' = (~startFlush /\ (wr_pending \/ (req_wr /\ ~old_wr)))
       /\ old_wr' = req_wr

\* What the block device streams for a sector; past the image it has nothing
SectorAt(l) == IF l \in Lba THEN disk[l] ELSE [o \in Offset |-> PastEnd]

\* What a stored byte is taken from.  Only the buffer of the odd bytes has the
\* choice between the byte on the bus and the captured low byte of a word.
storedByte == IF store_low /\ data_cnt.off % 2 = 1 THEN odd_byte_r ELSE din

\* Both ports of the buffer: a strobed sector fills the fetch slot, a stored
\* byte lands at the initiator's place.
SectorBuffer ==
  /\ buffer_wr' = (stb_ack /\ phase = "DATA_IN")
  /\ LET after == IF sd_buff_wr /\ io_ack THEN [buf EXCEPT ![hps_slot] = SectorAt(hps.lba)]
                                          ELSE buf
     IN  buf' = IF buffer_wr THEN [after EXCEPT ![mac_slot][data_cnt.off] = storedByte]
                             ELSE after

\* In word mode the low byte of a word is captured at its first beat.
BeatRole ==
  LET beat == ~rst /\ phase = "DATA_IN" /\ stb_ack
  IN  /\ store_low'  = (beat /\ wm_beat2)
      /\ wm_beat2'   = (~rst /\ phase = "DATA_IN" /\ IF stb_ack THEN ~wm_beat2 /\ dma_word
                                                              ELSE wm_beat2)
      /\ odd_byte_r' = IF rst THEN Blank
                       ELSE IF beat /\ ~wm_beat2 /\ dma_word THEN dma_lowbyte ELSE odd_byte_r

\* Where a complete command goes: data to the initiator, data from it, or
\* straight to the status byte.
AfterCommand(c) == IF c.op \in {"read", "reply"} THEN "DATA_OUT"
                   ELSE IF c.op \in {"write", "param"} THEN "DATA_IN"
                   ELSE "STATUS_OUT"

PhaseFsm ==
  /\ phase' = IF rst THEN "IDLE"
              ELSE IF phase = "IDLE" /\ sel THEN "CMD_IN"
              ELSE IF phase = "CMD_IN" /\ cmd_cpl THEN AfterCommand(cmd)
              ELSE IF data_phase_complete THEN "STATUS_OUT"
              ELSE IF phase = "STATUS_OUT" /\ status_sent THEN "MESSAGE_OUT"
              ELSE IF phase = "MESSAGE_OUT" /\ message_sent THEN "IDLE"
              ELSE phase
  /\ status' = IF ~rst /\ phase = "CMD_IN" /\ cmd_cpl
               THEN IF cmd.op = "bad" THEN "CHECK_CONDITION" ELSE "OK"
               ELSE status

TargetClk ==
  /\ AckEdges /\ CommandBytes /\ DataCount /\ SentFlags /\ Parameters
  /\ RingFrontier /\ BlockEngine /\ SectorBuffer /\ BeatRole /\ PhaseFsm

\* The CDB registers power up as zeros: opcode 00 is TEST UNIT READY
PowerUpCmd == [op |-> "none", bytes |-> NoEnd, lba |-> 0, len |-> Zero]

\* Nothing in flight: the registers that do not hold the command
TargetQuiet ==
  /\ status = "OK"
  /\ old_ack = FALSE /\ stb_ack = FALSE /\ stb_adv = FALSE
  /\ status_sent = FALSE /\ message_sent = FALSE
  /\ data_cnt = Zero /\ data_complete = FALSE /\ lba = 0 /\ tlen = Zero
  /\ io_rd = FALSE /\ io_wr = FALSE /\ wr_pending = FALSE /\ old_wr = FALSE
  /\ rd_busy = FALSE /\ rd_flush_pending = FALSE /\ old_io_ack = FALSE
  /\ sd_buff_sel = 0 /\ rd_hps_blk = 0 /\ filled = FALSE /\ buffer_wr = FALSE
  /\ buf = [s \in 0 .. RingBlocks - 1 |-> [o \in Offset |-> Blank]]
  /\ odd_byte_r = Blank /\ wm_beat2 = FALSE /\ store_low = FALSE

TargetInit == phase = "IDLE" /\ cmd = PowerUpCmd /\ cmd_cnt = 0 /\ TargetQuiet
=============================================================================
