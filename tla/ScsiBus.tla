------------------------------- MODULE ScsiBus -------------------------------
(***************************************************************************)
(* The disk target of ScsiTarget between its two partners:                 *)
(*                                                                         *)
(*  - the block device of HpsDevice,                                       *)
(*  - an initiator that moves one byte per REQ/ACK pulse, selects the      *)
(*    target, and may reset the bus at any moment.                         *)
(*                                                                         *)
(* The three are clocked together: a step is one clock of all of them, in  *)
(* which the partners choose what they do.                                 *)
(***************************************************************************)
EXTENDS HpsDevice

CONSTANTS
  Settle,       \* clocks the initiator waits after an ACK pulse
  Polled,       \* TRUE: paces on the CSR's REQ; FALSE: on the DMA REQ
  Overlap,      \* may a selection come while the device still works?
  MaxCommands,  \* bound: dialogs started
  MaxResets     \* bound: bus resets

VARIABLES
  settle,       \* clocks left of the settle window
  sent,         \* bytes the initiator has clocked in this data phase
  resets        \* bus resets so far

iniVars == <<settle, sent, commands, resets>>
vars == <<busVars, hpsVars, shakeVars, engineVars, bufferVars, iniVars, empties>>

ASSUME BusAssumption ==
  /\ Settle \in Nat /\ Settle > 2
  /\ Polled \in BOOLEAN /\ Overlap \in BOOLEAN
  /\ {MaxCommands, MaxResets} \subseteq Nat

-----------------------------------------------------------------------------
(* The initiator *)

byteReady == IF Polled THEN req_bus ELSE req
countdown == settle' = IF settle = 0 THEN 0 ELSE settle - 1

IniWait ==
  /\ countdown
  /\ UNCHANGED <<busVars, sent, commands, resets>>

Select ==
  /\ ~bsy /\ ~rst /\ ~sel /\ settle = 0 /\ commands < MaxCommands
  /\ Overlap \/ hps.st = "idle"
  /\ sel' = TRUE /\ cdb' \in Commands /\ commands' = commands + 1
  /\ sent' = Zero /\ settle' = Settle
  /\ UNCHANGED <<ack, rst, din, resets>>

ReleaseSel ==
  /\ sel /\ bsy
  /\ sel' = FALSE /\ countdown
  /\ UNCHANGED <<ack, rst, cdb, din, sent, commands, resets>>

RaiseAck ==
  /\ ~ack /\ ~rst /\ ~sel /\ settle = 0 /\ byteReady
  /\ ack' = TRUE
  /\ IF dataPhase THEN din' = MacByte(commands, sent) /\ sent' = Bump(sent)
                  ELSE UNCHANGED <<din, sent>>
  /\ UNCHANGED <<rst, sel, cdb, settle, commands, resets>>

DropAck ==
  /\ ack
  /\ ack' = FALSE /\ settle' = Settle
  /\ UNCHANGED <<rst, sel, cdb, din, sent, commands, resets>>

RaiseReset ==
  /\ ~rst /\ resets < MaxResets /\ bsy
  /\ rst' = TRUE /\ ack' = FALSE /\ sel' = FALSE
  /\ resets' = resets + 1 /\ settle' = Settle
  /\ UNCHANGED <<cdb, din, sent, commands>>

DropReset ==
  /\ rst /\ settle = 0
  /\ rst' = FALSE /\ settle' = Settle
  /\ UNCHANGED <<ack, sel, cdb, din, sent, commands, resets>>

IniMove == ReleaseSel \/ RaiseAck \/ DropAck \/ DropReset
IniClk  == IniWait \/ Select \/ RaiseReset \/ IniMove

-----------------------------------------------------------------------------
Init ==
  /\ TargetInit /\ HpsInit
  /\ ack = FALSE /\ rst = FALSE /\ sel = FALSE /\ din = MacByte(0, Zero)
  /\ cdb = PowerUpCmd
  /\ dma_word = FALSE /\ dma_lowbyte = Blank
  /\ settle = 0 /\ sent = Zero /\ resets = 0

\* This initiator moves single bytes: the word latch of the controller is off.
Next == TargetClk /\ HpsClk /\ IniClk /\ UNCHANGED <<dma_word, dma_lowbyte>>

Spec == Init /\ [][Next]_vars

\* The clock runs, the device answers what it has taken, and the initiator
\* follows the handshake.  Selecting and resetting stay free choices.
Fairness == /\ WF_vars(Next)
            /\ WF_vars(Next /\ HpsMove)
            /\ WF_vars(Next /\ IniMove)
FairSpec == Spec /\ Fairness

-----------------------------------------------------------------------------
(* Properties *)

BusType    == /\ ack \in BOOLEAN /\ rst \in BOOLEAN /\ sel \in BOOLEAN
              /\ cdb \in CommandBlock /\ din \in Byte
              /\ dma_word \in BOOLEAN /\ dma_lowbyte \in Byte
HpsType    == /\ hps \in [st : {"idle", "taken", "ack"}, op : {"read", "write"},
                          lba : Nat, done : BOOLEAN, owner : Nat]
              /\ disk \in [Lba -> [Offset -> Byte]] /\ sd_buff_wr \in BOOLEAN
ShakeType  == /\ phase \in Phases /\ status \in {"OK", "CHECK_CONDITION"}
              /\ old_ack \in BOOLEAN /\ stb_ack \in BOOLEAN /\ stb_adv \in BOOLEAN
              /\ cmd_cnt \in 0 .. 15 /\ cmd \in CommandBlock
              /\ status_sent \in BOOLEAN /\ message_sent \in BOOLEAN
              /\ data_cnt \in Count /\ data_complete \in BOOLEAN
              /\ lba \in Nat /\ tlen \in Count
EngineType == /\ io_rd \in BOOLEAN /\ io_wr \in BOOLEAN /\ wr_pending \in BOOLEAN
              /\ old_wr \in BOOLEAN /\ rd_busy \in BOOLEAN /\ rd_flush_pending \in BOOLEAN
              /\ old_io_ack \in BOOLEAN /\ sd_buff_sel \in {0, 1}
              /\ rd_hps_blk \in Nat /\ filled \in BOOLEAN
BufferType == /\ buffer_wr \in BOOLEAN
              /\ buf \in [0 .. RingBlocks - 1 -> [Offset -> Byte]]
              /\ odd_byte_r \in Byte /\ wm_beat2 \in BOOLEAN /\ store_low \in BOOLEAN
IniType    == /\ settle \in 0 .. Settle /\ sent \in Count
              /\ commands \in Nat /\ resets \in Nat /\ empties \in Nat

\* Every register holds a value of its kind, the write half stays one bit and
\* the CDB counter stays in its four bits.
TypeOK == BusType /\ HpsType /\ ShakeType /\ EngineType /\ BufferType /\ IniType

\* "rd_hps_blk >= rd_cur_blk is invariant ... so the subtraction never
\* underflows" (the comment at req_rd): the initiator never passes the fetch
\* frontier of a block read, whatever the device and bus resets do.
FrontierHolds == phase = "DATA_OUT" /\ cmd_read => rd_cur_blk <= rd_hps_blk

\* The ring never holds more sectors ahead of the initiator than it has
\* slots: a fetch never lands on the sector being read.
RingNotOverrun == phase = "DATA_OUT" /\ cmd_read => rd_hps_blk - rd_cur_blk <= RingBlocks

\* Every byte the initiator takes of a block read is the byte of the sector
\* it asked for, not a stale slot, a skipped sector or an aborted fetch.
ReadServesDisk ==
  ack /\ phase = "DATA_OUT" /\ cmd_read =>
    buf[rd_cur_blk % RingBlocks] = SectorAt(cmd.lba + rd_cur_blk)

\* When a write command says "command complete", every sector it covers holds
\* the bytes the initiator sent for it, in order.  After a bus reset it need not:
\* the acknowledge of an aborted command takes a new write's request back.
WriteReachesDisk ==
  phase = "MESSAGE_OUT" /\ cmd_write /\ resets = 0 =>
    \A k \in 0 .. cmd.len.blk - 1 :
      cmd.lba + k \in Lba =>
        disk[cmd.lba + k] = [o \in Offset |-> MacByte(commands, [blk |-> k, off |-> o])]

\* A sector changes only while the device works for a write command whose
\* range contains it; after a bus reset also for a write that was aborted.
InRange(l, c) == l \in c.lba .. c.lba + c.len.blk - 1
WritesStayInRange ==
  [][\A l \in Lba : disk'[l] # disk[l] /\ resets = 0 => cmd_write /\ InRange(l, cmd)]_vars

\* The device is never asked for a sector outside the command being served:
\* one fetch per sector and none past the end, one flush per sector.
RequestsStayInRange ==
  [][hps.st = "idle" /\ hps'.st = "taken" =>
       (cmd_read \/ cmd_write) /\ InRange(hps'.lba, cmd)]_vars

\* The status and message bytes are not offered while a fetch or a flush of
\* the command is still in flight.
StatusAfterIO ==
  phase \in {"STATUS_OUT", "MESSAGE_OUT"} /\ byteReady =>
    ~io_rd /\ ~io_wr /\ ~wr_pending /\ (hps.st = "idle" \/ hps.owner # commands)

\* Initiator and target agree on the number of bytes moved: no ACK pulse is
\* counted twice or lost, and the data phase, if the command has one, is
\* exactly as long as data_len.
toMove == IF AfterCommand(cmd) = "STATUS_OUT" THEN Zero ELSE data_len
CountsAgree ==
  /\ phase \in {"STATUS_OUT", "MESSAGE_OUT"} => sent = toMove
  /\ dataPhase /\ settle = 0 /\ ~ack => sent = data_cnt

\* A dialog whose CDB has an end is itself ended: the target gives the bus back, in
\* every command class, and also when the dialog before it was endless and needed a
\* bus reset.  No cmd*_cpl wire recognises the groups 3, 4, 6 and 7 (scsi.v:802-813):
\* their CDBs keep the target in CMD_IN, asking for bytes, until the bus is reset.
BusIsFreed == bsy /\ cdb.bytes # NoEnd ~> ~bsy

-----------------------------------------------------------------------------
(* The inductive invariant behind FrontierHolds *)

\* The edges of a pulse reach the target while the initiator is still in its
\* settle window, so no pulse begins on top of the previous one.
PulsesApart ==
  /\ ~ack /\ old_ack => settle = Settle
  /\ ~ack /\ stb_adv => settle >= Settle - 1
  /\ stb_adv => ~ack /\ ~old_ack

\* The pulse of the last CDB byte is over when the command is complete, so it
\* is not counted in the data phase that follows.
CommandEndsQuiet ==
  phase = "CMD_IN" /\ cmd_cpl => ~ack /\ ~old_ack /\ settle > 0

\* A pulse in a block read is for a sector that has been fetched.
PulseIsServed ==
  phase = "DATA_OUT" /\ cmd_read /\ (ack \/ old_ack \/ stb_adv) => rd_cur_blk < rd_hps_blk

FrontierInv == TypeOK /\ PulsesApart /\ CommandEndsQuiet /\ PulseIsServed /\ FrontierHolds

=============================================================================
