---------------------------- MODULE ScsiBusProofs ----------------------------
(***************************************************************************)
(* Proofs about ScsiBus, for every sector size, ring depth, set of         *)
(* commands, settle time above two clocks and bound: types, the frontier,  *)
(* the counts, the order of status and I/O; that what an initiator reads   *)
(* is what the image holds, if it selects an idle device, and that what it *)
(* writes reaches the image, if it paces itself on the DMA request and as  *)
(* long as no bus reset came.                                              *)
(***************************************************************************)
EXTENDS ScsiBus, TLAPS

USE EmptyAssumption, SectorAssumption, RingAssumption, CommandAssumption, BusAssumption

LEMMA BumpType == ASSUME NEW n \in Count PROVE Bump(n) \in Count
  BY DEF Bump, Count, Offset

LEMMA ZeroType == Zero \in Count
  BY DEF Zero, Count, Offset

LEMMA ByteTypes ==
  /\ Blank \in Byte /\ PastEnd \in Byte
  /\ \A l \in Nat, o \in Offset : DiskByte(l, o) \in Byte
  /\ \A n \in Nat, p \in Count : MacByte(n, p) \in Byte
<1>1. \A l \in Nat, o \in Offset : DiskByte(l, o) \in {"disk"} \X Nat \X Offset
  BY DEF DiskByte
<1>2. \A n \in Nat, p \in Count : MacByte(n, p) \in {"mac"} \X Nat \X Count
  BY DEF MacByte
<1> QED
  BY <1>1, <1>2 DEF Byte

LEMMA InitType == Init => TypeOK
<1> SUFFICES ASSUME Init PROVE TypeOK
  OBVIOUS
<1>1. PowerUpCmd \in CommandBlock
  BY ZeroType DEF PowerUpCmd, CommandBlock, Ops
<1>2. BusType
  BY <1>1, ZeroType, ByteTypes DEF Init, BusType
<1>3. HpsType
  <2>1. \A l \in Lba : image(l) \in [Offset -> Byte]
    BY ByteTypes DEF image
  <2> QED
    BY <2>1 DEF Init, HpsInit, HpsType
<1>4. ShakeType
  <2>1. 0 \in 0 .. 15 /\ 0 \in Nat /\ "IDLE" \in Phases
    BY DEF Phases
  <2> QED
    BY <1>1, <2>1, ZeroType, Zenon DEF Init, TargetInit, TargetQuiet, ShakeType
<1>5. EngineType
  BY DEF Init, TargetInit, TargetQuiet, EngineType
<1>6. BufferType
  BY ByteTypes DEF Init, TargetInit, TargetQuiet, BufferType
<1>7. IniType
  BY ZeroType DEF Init, HpsInit, IniType
<1> QED
  BY <1>2, <1>3, <1>4, <1>5, <1>6, <1>7 DEF TypeOK

LEMMA StepType == TypeOK /\ [Next]_vars => TypeOK'
<1> SUFFICES ASSUME TypeOK, [Next]_vars PROVE TypeOK'
  OBVIOUS
<1>1. CASE UNCHANGED vars
  BY <1>1 DEF TypeOK, BusType, HpsType, ShakeType, EngineType, BufferType, IniType,
     vars, busVars, hpsVars, shakeVars, engineVars, bufferVars, iniVars
<1>2. CASE Next
  <2> USE <1>2
  <2>1. BusType'
    <3>1. MacByte(commands, sent) \in Byte
      BY ByteTypes DEF TypeOK, IniType
    <3>2. Commands \subseteq CommandBlock
      BY CommandAssumption
    <3> QED
      BY <3>1, <3>2 DEF TypeOK, BusType, Next, IniClk, IniWait, IniMove, Select, ReleaseSel, RaiseAck,
       DropAck, RaiseReset, DropReset, busVars
  <2>2. HpsType'
    <3>1. CASE HpsQuiet
      BY <3>1 DEF HpsQuiet, TypeOK, HpsType
    <3>2. CASE HpsPoll
      BY <3>2 DEF HpsPoll, TypeOK, HpsType, ShakeType, IniType
    <3>3. CASE HpsOpenWindow
      BY <3>3 DEF HpsOpenWindow, HpsAt, TypeOK, HpsType
    <3>4. CASE HpsStream
      BY <3>4 DEF HpsStream, HpsAt, TypeOK, HpsType
    <3>5. CASE HpsCollect
      <4>1. hps_slot \in 0 .. RingBlocks - 1
        BY DEF hps_slot, TypeOK, EngineType
      <4> QED
        BY <3>5, <4>1 DEF HpsCollect, HpsAt, TypeOK, HpsType, BufferType
    <3>6. CASE HpsCloseWindow
      BY <3>6 DEF HpsCloseWindow, HpsAt, TypeOK, HpsType
    <3> QED
      BY <3>1, <3>2, <3>3, <3>4, <3>5, <3>6 DEF Next, HpsClk, HpsMove
  <2>3. ShakeType'
    <3>1. /\ old_ack' \in BOOLEAN /\ stb_ack' \in BOOLEAN /\ stb_adv' \in BOOLEAN
          /\ status_sent' \in BOOLEAN /\ message_sent' \in BOOLEAN
      BY DEF Next, TargetClk, AckEdges, SentFlags, TypeOK, BusType
    <3>2. cmd_cnt' \in 0 .. 15 /\ cmd' \in CommandBlock
      BY DEF Next, TargetClk, CommandBytes, TypeOK, ShakeType, BusType
    <3>3. data_cnt' \in Count /\ data_complete' \in BOOLEAN
      BY BumpType, ZeroType DEF Next, TargetClk, DataCount, TypeOK, ShakeType
    <3>4. lba' \in Nat /\ tlen' \in Count
      BY DEF Next, TargetClk, Parameters, TypeOK, ShakeType, CommandBlock
    <3>5. phase' \in Phases /\ status' \in {"OK", "CHECK_CONDITION"}
      BY DEF Next, TargetClk, PhaseFsm, AfterCommand, data_phase_complete, TypeOK, ShakeType, Phases, dataPhase
    <3> QED
      BY <3>1, <3>2, <3>3, <3>4, <3>5 DEF ShakeType
  <2>4. EngineType'
    <3>1. sd_buff_sel' \in {0, 1} /\ rd_hps_blk' \in Nat
      BY DEF Next, TargetClk, RingFrontier, TypeOK, EngineType
    <3>2. old_io_ack' \in BOOLEAN /\ filled' \in BOOLEAN
      BY DEF Next, TargetClk, RingFrontier, io_ack, TypeOK, EngineType, HpsType
    <3>3. /\ io_rd' \in BOOLEAN /\ io_wr' \in BOOLEAN /\ wr_pending' \in BOOLEAN
          /\ rd_busy' \in BOOLEAN /\ rd_flush_pending' \in BOOLEAN
      BY DEF Next, TargetClk, BlockEngine, TypeOK, EngineType
    <3>4. old_wr' \in BOOLEAN
      BY DEF Next, TargetClk, BlockEngine, req_wr, TypeOK, EngineType
    <3> QED
      BY <3>1, <3>2, <3>3, <3>4 DEF EngineType
  <2>5. BufferType'
    <3>1. SectorAt(hps.lba) \in [Offset -> Byte]
      BY ByteTypes DEF SectorAt, TypeOK, HpsType
    <3>2. storedByte \in Byte
      BY DEF storedByte, TypeOK, BusType, BufferType
    <3>3. buffer_wr' \in BOOLEAN /\ buf' \in [0 .. RingBlocks - 1 -> [Offset -> Byte]]
      BY <3>1, <3>2 DEF Next, TargetClk, SectorBuffer, TypeOK, BufferType
    <3>4. wm_beat2' \in BOOLEAN /\ store_low' \in BOOLEAN
      BY DEF Next, TargetClk, BeatRole, TypeOK, BufferType
    <3>5. odd_byte_r' \in Byte
      BY ByteTypes DEF Next, TargetClk, BeatRole, TypeOK, BufferType, BusType
    <3> QED
      BY <3>3, <3>4, <3>5 DEF BufferType
  <2>6. IniType'
    <3>1. empties' \in Nat
      <4>1. empties' = empties \/ empties' = empties + 1
        BY Zenon DEF Next, HpsClk, HpsMove, HpsQuiet, HpsPoll, HpsOpenWindow, HpsStream,
           HpsCollect, HpsCloseWindow
      <4> QED
        BY <4>1 DEF TypeOK, IniType
    <3> QED
      BY <3>1, BumpType, ZeroType DEF Next, IniClk, IniWait, IniMove, Select, ReleaseSel,
         RaiseAck, DropAck, RaiseReset, DropReset, countdown, TypeOK, IniType
  <2> QED
    BY <2>1, <2>2, <2>3, <2>4, <2>5, <2>6 DEF TypeOK
<1> QED
  BY <1>1, <1>2

\* Every register keeps a value of its kind, whatever the three parties do.
THEOREM TypeCorrect == Spec => []TypeOK
  BY InitType, StepType, PTL DEF Spec

-----------------------------------------------------------------------------
(* The initiator never passes the fetch frontier *)

LEMMA InitFrontier == Init => FrontierInv
<1> SUFFICES ASSUME Init PROVE FrontierInv
  OBVIOUS
<1>1. TypeOK
  BY InitType
<1>2. PulsesApart /\ CommandEndsQuiet /\ PulseIsServed /\ FrontierHolds
  BY DEF Init, TargetInit, TargetQuiet, PulsesApart, CommandEndsQuiet, PulseIsServed, FrontierHolds
<1> QED
  BY <1>1, <1>2 DEF FrontierInv

\* What the initiator's choices do to ack and to the settle window.
LEMMA AckMoves ==
  ASSUME TypeOK, IniClk
  PROVE  /\ ~ack /\ ack' => settle = 0 /\ byteReady
         /\ ack /\ ~ack' => settle' = Settle
         /\ settle' >= settle - 1
<1> USE DEF TypeOK, IniType
<1>1. CASE IniWait
  BY <1>1 DEF IniWait, countdown, busVars
<1>2. CASE Select
  BY <1>2 DEF Select
<1>3. CASE RaiseReset
  BY <1>3 DEF RaiseReset
<1>4. CASE ReleaseSel
  BY <1>4 DEF ReleaseSel, countdown
<1>5. CASE RaiseAck
  BY <1>5 DEF RaiseAck
<1>6. CASE DropAck
  BY <1>6 DEF DropAck
<1>7. CASE DropReset
  BY <1>7 DEF DropReset
<1> QED
  BY <1>1, <1>2, <1>3, <1>4, <1>5, <1>6, <1>7 DEF IniClk, IniMove

LEMMA StepFrontier == FrontierInv /\ [Next]_vars => FrontierInv'
<1> SUFFICES ASSUME FrontierInv, [Next]_vars PROVE FrontierInv'
  OBVIOUS
<1>1. TypeOK /\ TypeOK'
  BY StepType DEF FrontierInv
<1>2. CASE UNCHANGED vars
  <2>1. UNCHANGED <<phase, cmd, cmd_cnt, ack, old_ack, stb_adv, settle, data_cnt, rd_hps_blk>>
    BY <1>2 DEF vars, busVars, shakeVars, engineVars, iniVars
  <2>2. PulsesApart'
    BY <2>1 DEF FrontierInv, PulsesApart
  <2>3. CommandEndsQuiet'
    BY <2>1 DEF FrontierInv, CommandEndsQuiet, cmd_cpl
  <2>4. PulseIsServed' /\ FrontierHolds'
    BY <2>1 DEF FrontierInv, PulseIsServed, FrontierHolds, cmd_read, rd_cur_blk
  <2> QED
    BY <1>1, <2>2, <2>3, <2>4 DEF FrontierInv
<1>3. CASE Next
  <2> USE <1>1
  <2>1. TargetClk /\ IniClk
    BY <1>3 DEF Next
  <2>2. /\ ~ack /\ ack' => settle = 0 /\ byteReady
        /\ ack /\ ~ack' => settle' = Settle
        /\ settle' >= settle - 1
    BY <2>1, AckMoves
  <2>3. old_ack' = ack /\ stb_adv' = (old_ack /\ ~ack)
    BY <2>1 DEF TargetClk, AckEdges
  <2>4. PulsesApart
    BY DEF FrontierInv
  <2>5. settle \in 0 .. Settle /\ settle' \in 0 .. Settle
    BY DEF TypeOK, IniType
  <2>6. ~ack /\ ack' => ~old_ack /\ ~stb_adv
    BY <2>2, <2>4, <2>5 DEF PulsesApart
  <2>7. PulsesApart'
    BY <2>2, <2>3, <2>4, <2>5, <2>6 DEF PulsesApart
  <2>8. CommandEndsQuiet'
    <3> SUFFICES ASSUME phase' = "CMD_IN", cmd_cpl'
                 PROVE  ~ack' /\ ~old_ack' /\ settle' > 0
      BY DEF CommandEndsQuiet
    <3>1. cmd_cnt' # 0
      BY DEF cmd_cpl, TypeOK, ShakeType, CommandBlock
    <3>2. bsy
      BY <2>1, <3>1 DEF TargetClk, CommandBytes
    <3>3. phase = "CMD_IN" /\ ~cmd_cpl
      BY <2>1, <3>2 DEF TargetClk, PhaseFsm, AfterCommand, bsy
    <3>4. stb_adv
      <4> SUFFICES ASSUME ~stb_adv PROVE FALSE
        OBVIOUS
      <4>1. cmd_cnt' = cmd_cnt
        BY <2>1, <3>2 DEF TargetClk, CommandBytes
      <4>2. cmd' = cmd
        BY <2>1, <3>1, <4>1 DEF TargetClk, CommandBytes
      <4> QED
        BY <3>3, <4>1, <4>2 DEF cmd_cpl
    <3> QED
      BY <2>2, <2>3, <2>4, <2>5, <3>4 DEF PulsesApart
  <2>9. PulseIsServed' /\ FrontierHolds'
    <3> SUFFICES ASSUME phase' = "DATA_OUT", cmd_read'
                 PROVE  /\ ack' \/ old_ack' \/ stb_adv' => rd_cur_blk' < rd_hps_blk'
                        /\ rd_cur_blk' <= rd_hps_blk'
      BY DEF PulseIsServed, FrontierHolds
    <3>1. \/ phase = "CMD_IN" /\ cmd_cpl
          \/ phase = "DATA_OUT" /\ ~rst
      BY <2>1 DEF TargetClk, PhaseFsm
    <3>2. CASE phase = "CMD_IN" /\ cmd_cpl
      <4>1. data_cnt' = Zero /\ rd_hps_blk' = 0
        BY <2>1, <3>2 DEF TargetClk, DataCount, RingFrontier, transferPhase, dataPhase
      <4>2. ~ack /\ ~old_ack /\ settle > 0
        BY <3>2 DEF FrontierInv, CommandEndsQuiet
      <4>3. settle # 0
        BY <2>5, <4>2
      <4>4. ~ack' /\ ~old_ack' /\ ~stb_adv'
        BY <2>2, <2>3, <4>2, <4>3, Zenon
      <4> QED
        BY <4>1, <4>4 DEF rd_cur_blk, Zero
    <3>3. CASE phase = "DATA_OUT" /\ ~rst
      <4>1. cmd_read
        BY <2>1, <3>3 DEF TargetClk, CommandBytes, cmd_read
      <4>2. /\ rd_hps_blk \in Nat /\ rd_hps_blk' \in Nat /\ rd_hps_blk' >= rd_hps_blk
            /\ data_cnt \in Count
        BY <2>1, <3>3 DEF TargetClk, RingFrontier, transferPhase, dataPhase, TypeOK,
           EngineType, ShakeType
      <4>3. /\ rd_cur_blk <= rd_hps_blk
            /\ ack \/ old_ack \/ stb_adv => rd_cur_blk < rd_hps_blk
        BY <3>3, <4>1 DEF FrontierInv, PulseIsServed, FrontierHolds
      <4>4. ~ack /\ ack' => rd_cur_blk < rd_hps_blk
        BY <2>2, <3>3, <4>1, <4>2 DEF byteReady, req, req_bus, io_busy, rd_cur_blk, Count, dataPhase
      <4>5. CASE stb_adv
        <5>1. ~ack /\ ~old_ack /\ ~ack'
          BY <2>4, <2>6, <4>5 DEF PulsesApart
        <5>2. data_cnt' = data_cnt \/ data_cnt' = Bump(data_cnt)
          BY <2>1, <3>3, <4>5 DEF TargetClk, DataCount, transferPhase, dataPhase
        <5>3. rd_cur_blk' <= rd_cur_blk + 1
          BY <4>2, <5>2 DEF Bump, Count, rd_cur_blk
        <5>4. rd_cur_blk \in Nat /\ rd_cur_blk' \in Nat
          BY <4>2, <5>2, BumpType DEF Count, rd_cur_blk
        <5>5. rd_cur_blk' <= rd_hps_blk'
          BY <4>2, <4>3, <4>5, <5>3, <5>4
        <5>6. ~ack' /\ ~old_ack' /\ ~stb_adv'
          BY <2>3, <5>1, Zenon
        <5> QED
          BY <5>5, <5>6
      <4>6. CASE ~stb_adv
        <5>1. data_cnt' = data_cnt
          BY <2>1, <3>3, <4>6 DEF TargetClk, DataCount, transferPhase, dataPhase
        <5>2. rd_cur_blk' = rd_cur_blk /\ rd_cur_blk \in Nat
          BY <4>2, <5>1 DEF Count, rd_cur_blk
        <5>3. rd_cur_blk' <= rd_hps_blk'
          BY <4>2, <4>3, <5>2
        <5>4. ack' \/ old_ack' \/ stb_adv' => rd_cur_blk < rd_hps_blk
          BY <2>3, <4>3, <4>4, Zenon
        <5> QED
          BY <4>2, <5>2, <5>3, <5>4
      <4> QED
        BY <4>5, <4>6
    <3> QED
      BY <3>1, <3>2, <3>3
  <2> QED
    BY <2>7, <2>8, <2>9 DEF FrontierInv
<1> QED
  BY <1>2, <1>3

\* rd_hps_blk >= rd_cur_blk throughout a block read, for every ring depth and
\* every interleaving with the device's windows and with bus resets, provided
\* the initiator leaves more than two clocks between pulses.
THEOREM FrontierCorrect == Spec => []FrontierHolds
<1>1. FrontierInv => FrontierHolds
  BY DEF FrontierInv
<1> QED
  BY <1>1, InitFrontier, StepFrontier, PTL DEF Spec
-----------------------------------------------------------------------------
(* Initiator and target count the same bytes *)

Pulse == ack \/ old_ack \/ stb_adv

\* Which data phase a command has.
PhaseFits ==
  /\ phase = "DATA_OUT" => cmd.op \in {"read", "reply"}
  /\ phase = "DATA_IN"  => cmd.op \in {"write", "param"}

\* From the selection to the first data pulse nothing has been moved, during a
\* pulse the initiator is one byte ahead, and a pulse begins for a byte that
\* is due.
BytesMoved ==
  /\ (~bsy /\ sel) \/ phase = "CMD_IN" => sent = Zero
  /\ dataPhase => IF Pulse THEN ~data_done /\ sent = Bump(data_cnt) ELSE sent = data_cnt
  /\ dataPhase /\ data_done => data_cnt = data_len
  /\ phase \in {"STATUS_OUT", "MESSAGE_OUT"} => sent = toMove

\* SEL is held until the target answers, ACK is used in between, and the pulse
\* of a status or message byte is over when the byte counts as sent.
InTurn ==
  /\ rst => ~ack /\ ~sel
  /\ ~bsy => ~ack
  /\ sel => ~Pulse /\ (phase = "IDLE" \/ (phase = "CMD_IN" /\ cmd_cnt = 0))
  /\ (phase = "STATUS_OUT" /\ status_sent) \/ (phase = "MESSAGE_OUT" /\ message_sent) =>
       ~Pulse /\ settle > 0

CountInv == FrontierInv /\ PhaseFits /\ InTurn /\ BytesMoved

\* A pulse runs its course, and the next one begins after the settle window.
LEMMA PulseStep ==
  ASSUME FrontierInv, Next
  PROVE  /\ stb_adv => ~Pulse'
         /\ Pulse /\ ~stb_adv => Pulse'
         /\ ~Pulse /\ Pulse' => ack' /\ settle = 0 /\ byteReady
         /\ ~Pulse /\ settle > 0 => ~Pulse'
         /\ settle = 0 /\ ~ack => ~Pulse
<1>1. /\ ~ack /\ ack' => settle = 0 /\ byteReady
      /\ ack /\ ~ack' => settle' = Settle
      /\ settle' >= settle - 1
  BY AckMoves DEF FrontierInv, Next
<1>2. (old_ack' <=> ack) /\ (stb_adv' <=> old_ack /\ ~ack)
  BY DEF Next, TargetClk, AckEdges
<1>3. PulsesApart /\ settle \in 0 .. Settle
  BY DEF FrontierInv, TypeOK, IniType
<1> QED
  BY <1>1, <1>2, <1>3 DEF PulsesApart, Pulse

\* Where a phase comes from.
LEMMA PhaseFrom ==
  ASSUME Next
  PROVE  /\ phase' = "CMD_IN" => (phase = "IDLE" /\ sel) \/ (phase = "CMD_IN" /\ ~cmd_cpl)
         /\ phase' = "DATA_OUT" => \/ phase = "CMD_IN" /\ cmd_cpl /\ cmd.op \in {"read", "reply"}
                                   \/ phase = "DATA_OUT" /\ ~data_phase_complete
         /\ phase' = "DATA_IN" => \/ phase = "CMD_IN" /\ cmd_cpl /\ cmd.op \in {"write", "param"}
                                  \/ phase = "DATA_IN" /\ ~data_phase_complete
         /\ phase' = "STATUS_OUT" => \/ phase = "CMD_IN" /\ cmd_cpl
                                        /\ AfterCommand(cmd) = "STATUS_OUT"
                                     \/ dataPhase /\ data_phase_complete
                                     \/ phase = "STATUS_OUT" /\ ~status_sent
         /\ phase' = "MESSAGE_OUT" => \/ phase = "STATUS_OUT" /\ status_sent
                                      \/ phase = "MESSAGE_OUT" /\ ~message_sent
         /\ phase' # "IDLE" => ~rst
         /\ phase' = "IDLE" => rst \/ (phase = "IDLE" /\ ~sel)
                                   \/ (phase = "MESSAGE_OUT" /\ message_sent)
                                   \/ phase \notin Phases
  BY DEF Next, TargetClk, PhaseFsm, AfterCommand, data_phase_complete, dataPhase, Phases

\* What a clock outside the command phase leaves of the command.
LEMMA CommandKept ==
  ASSUME TypeOK, Next
  PROVE  /\ phase # "CMD_IN" \/ cmd_cpl => cmd' = cmd
         /\ phase # "CMD_IN" \/ ~cmd_cpl => tlen' = tlen
         /\ phase = "CMD_IN" /\ cmd_cpl => tlen' = cmd.len /\ lba' = cmd.lba
<1>1. cmd_cpl => cmd_cnt # 0
  BY DEF cmd_cpl, TypeOK, ShakeType, CommandBlock
<1> QED
  BY <1>1 DEF Next, TargetClk, CommandBytes, Parameters

\* What the initiator has sent changes with a selection and a data pulse.
LEMMA SentMoves ==
  ASSUME TypeOK, IniClk
  PROVE  /\ sent' = sent \/ (sent' = Zero /\ sel' /\ ~sel /\ ~bsy)
                         \/ (sent' = Bump(sent) /\ dataPhase /\ ~ack /\ ack')
         /\ dataPhase /\ ~ack /\ ack' => sent' = Bump(sent)
         /\ sel' => sel \/ (~bsy /\ sent' = Zero /\ settle = 0)
         /\ ~ack /\ ack' => ~sel /\ ~rst /\ ~sel' /\ ~rst'
         /\ ~rst /\ rst' => ~ack' /\ ~sel'
         /\ ~sel /\ sel' => ~rst /\ ~rst' /\ ack' = ack
  BY DEF IniClk, IniMove, IniWait, Select, RaiseReset, ReleaseSel, RaiseAck, DropAck, DropReset,
     busVars, TypeOK, BusType

LEMMA InitCount == Init => CountInv
<1> SUFFICES ASSUME Init PROVE CountInv
  OBVIOUS
<1>1. FrontierInv
  BY InitFrontier
<1>2. phase = "IDLE" /\ ~sel
  BY DEF Init, TargetInit
<1>3. PhaseFits /\ BytesMoved /\ InTurn
  BY <1>2 DEF Init, PhaseFits, BytesMoved, InTurn, bsy, dataPhase
<1> QED
  BY <1>1, <1>3 DEF CountInv

LEMMA StepCount == CountInv /\ [Next]_vars => CountInv'
<1> SUFFICES ASSUME CountInv, [Next]_vars PROVE CountInv'
  OBVIOUS
<1>1. FrontierInv /\ FrontierInv'
  BY StepFrontier DEF CountInv
<1>2. TypeOK /\ TypeOK'
  BY <1>1 DEF FrontierInv
<1>3. CASE UNCHANGED vars
  <2>1. PhaseFits' /\ BytesMoved' /\ InTurn'
    BY <1>3 DEF InTurn, CountInv, PhaseFits, BytesMoved, Pulse, bsy, dataPhase, data_done, data_len, toMove,
       AfterCommand, vars, busVars, shakeVars, iniVars
  <2> QED
    BY <1>1, <2>1 DEF CountInv
<1>4. CASE Next
  <2> USE <1>2, <1>4
  <2>1. PhaseFits'
    BY PhaseFrom, CommandKept DEF CountInv, PhaseFits
  <2>2. BytesMoved /\ InTurn /\ IniClk /\ TargetClk
    BY DEF CountInv, Next
  <2>7. InTurn'
    <3>1. /\ rst' => ~ack' /\ ~sel'
          /\ ~bsy' => ~ack'
      <4>1. rst' => ~ack' /\ ~sel'
        BY <2>2, SentMoves DEF InTurn, TypeOK, BusType
      <4>2. ASSUME ~bsy' PROVE ~ack'
        <5>1. CASE rst
          BY <2>2, <5>1, SentMoves DEF InTurn
        <5>2. CASE ~bsy
          BY <1>1, <2>2, <5>2, AckMoves DEF InTurn, byteReady, req, req_bus
        <5>3. CASE phase = "MESSAGE_OUT" /\ message_sent
          BY <1>1, <2>2, <5>3, PulseStep DEF InTurn, Pulse
        <5> QED
          BY <4>2, <5>1, <5>2, <5>3, PhaseFrom DEF bsy, TypeOK, ShakeType
      <4> QED
        BY <4>1, <4>2
    <3>2. ASSUME sel' PROVE ~Pulse' /\ (phase' = "IDLE" \/ (phase' = "CMD_IN" /\ cmd_cnt' = 0))
      <4>1. CASE sel
        <5>1. ~Pulse /\ ~rst /\ (phase = "IDLE" \/ (phase = "CMD_IN" /\ cmd_cnt = 0))
          BY <2>2, <4>1 DEF InTurn
        <5>2. ~Pulse'
          BY <1>1, <2>2, <4>1, <5>1, PulseStep, SentMoves DEF Pulse
        <5>3. cmd_cnt' = 0
          BY <2>2, <5>1 DEF TargetClk, CommandBytes, bsy, Pulse
        <5>4. ~cmd_cpl \/ phase = "IDLE"
          BY <5>1 DEF cmd_cpl, TypeOK, ShakeType, CommandBlock
        <5>5. phase' \in {"IDLE", "CMD_IN"}
          BY <2>2, <5>1, <5>4 DEF TargetClk, PhaseFsm, data_phase_complete, dataPhase
        <5> QED
          BY <5>2, <5>3, <5>5
      <4>2. CASE ~sel
        <5>1. ~bsy /\ settle = 0 /\ ack' = ack
          BY <2>2, <3>2, <4>2, SentMoves
        <5>2. ~Pulse /\ ~ack'
          BY <1>1, <2>2, <5>1, PulseStep DEF InTurn
        <5>3. ~Pulse'
          BY <1>1, <5>2, PulseStep
        <5>4. phase' = "IDLE"
          BY <2>2, <4>2, <5>1 DEF TargetClk, PhaseFsm, bsy, data_phase_complete, dataPhase
        <5> QED
          BY <5>3, <5>4
      <4> QED
        BY <4>1, <4>2
    <3>3. ASSUME \/ phase' = "STATUS_OUT" /\ status_sent'
                 \/ phase' = "MESSAGE_OUT" /\ message_sent'
          PROVE ~Pulse' /\ settle' > 0
      <4>1. stb_adv
        <5> SUFFICES ASSUME ~stb_adv PROVE FALSE
          OBVIOUS
        <5>1. /\ status_sent' <=> phase = "STATUS_OUT" /\ status_sent
              /\ message_sent' <=> phase = "MESSAGE_OUT" /\ message_sent
          BY <2>2 DEF TargetClk, SentFlags, TypeOK, ShakeType
        <5> QED
          BY <3>3, <5>1, PhaseFrom DEF dataPhase
      <4>2. settle >= Settle - 1 /\ settle \in 0 .. Settle /\ settle' \in 0 .. Settle
        BY <1>1, <4>1 DEF FrontierInv, PulsesApart, TypeOK, IniType
      <4>3. settle' >= settle - 1
        BY <2>2, AckMoves
      <4> QED
        BY <1>1, <4>1, <4>2, <4>3, PulseStep
    <3> QED
      BY <3>1, <3>2, <3>3 DEF InTurn
  <2>3. ASSUME (~bsy' /\ sel') \/ phase' = "CMD_IN" PROVE sent' = Zero
    <3>1. CASE phase' = "CMD_IN"
      <4>1. sent = Zero /\ ~dataPhase
        BY <2>2, <3>1, PhaseFrom DEF BytesMoved, bsy, dataPhase
      <4> QED
        BY <2>2, <4>1, SentMoves
    <3>2. CASE ~bsy' /\ sel'
      <4>1. CASE sel /\ ~bsy
        BY <2>2, <4>1, SentMoves DEF BytesMoved, bsy, dataPhase
      <4>2. CASE sel /\ bsy
        <5>1. phase = "CMD_IN" /\ ~rst /\ ~(cmd_cpl /\ phase = "CMD_IN")
          BY <2>2, <4>2 DEF InTurn, bsy, cmd_cpl, TypeOK, ShakeType, CommandBlock
        <5> QED
          BY <2>2, <3>2, <5>1, PhaseFrom DEF bsy, TypeOK, ShakeType
      <4>3. CASE ~sel
        BY <2>2, <3>2, <4>3, SentMoves
      <4> QED
        BY <4>1, <4>2, <4>3
    <3> QED
      BY <2>3, <3>1, <3>2
  <2>4. ASSUME dataPhase'
        PROVE  /\ IF Pulse' THEN ~data_done' /\ sent' = Bump(data_cnt') ELSE sent' = data_cnt'
               /\ data_done' => data_cnt' = data_len'
    <3>1. CASE phase = "CMD_IN"
      <4>1. cmd_cpl
        BY <2>4, <3>1, PhaseFrom DEF dataPhase
      <4>2. ~Pulse'
        BY <1>1, <3>1, <4>1, PulseStep DEF FrontierInv, CommandEndsQuiet, PulsesApart, Pulse
      <4>3. data_cnt' = Zero /\ ~data_complete'
        BY <2>2, <3>1 DEF TargetClk, DataCount, transferPhase, dataPhase
      <4>4. sent' = Zero
        BY <2>2, <3>1, SentMoves DEF BytesMoved, dataPhase, bsy
      <4> QED
        BY <4>2, <4>3, <4>4 DEF data_done
    <3>2. CASE dataPhase /\ phase' = phase /\ ~data_done
      <4>1. data_len' = data_len
        BY <3>2, CommandKept DEF dataPhase, data_len
      <4>2. sent' = IF ~ack /\ ack' THEN Bump(sent) ELSE sent
        BY <2>2, <3>2, SentMoves DEF dataPhase, bsy
      <4>3. CASE stb_adv
        <5>1. data_cnt' = Bump(data_cnt) /\ (data_complete' <=> Bump(data_cnt) = data_len)
          BY <2>2, <3>2, <4>3 DEF TargetClk, DataCount, transferPhase, data_done
        <5>2. ~Pulse' /\ sent = Bump(data_cnt) /\ ~ack'
          BY <1>1, <2>2, <3>2, <4>3, PulseStep DEF BytesMoved, Pulse
        <5>3. data_done' => data_cnt' = data_len'
          BY <3>2, <4>1, <5>1 DEF data_done
        <5>4. sent' = data_cnt'
          BY <4>2, <5>1, <5>2
        <5> QED
          BY <5>2, <5>3, <5>4
      <4>4. CASE ~stb_adv
        <5>1. data_cnt' = data_cnt /\ data_complete' = data_complete
          BY <2>2, <3>2, <4>4 DEF TargetClk, DataCount, transferPhase
        <5>2. ~data_done'
          BY <3>2, <4>1, <5>1 DEF data_done
        <5>3. CASE Pulse
          <6>1. Pulse' /\ ~(~ack /\ ack')
            BY <1>1, <4>4, <5>3, PulseStep, AckMoves DEF FrontierInv, PulsesApart, Pulse, TypeOK, IniType, Next
          <6>2. sent' = sent /\ sent = Bump(data_cnt)
            BY <2>2, <3>2, <4>2, <5>3, <6>1 DEF BytesMoved
          <6> QED
            BY <5>1, <5>2, <6>1, <6>2
        <5>4. CASE ~Pulse
          <6>1. (Pulse' <=> ack') /\ ~ack
            BY <1>1, <5>4, PulseStep DEF Pulse
          <6>2. sent = data_cnt
            BY <2>2, <3>2, <5>4 DEF BytesMoved
          <6>3. Pulse' => sent' = Bump(data_cnt')
            BY <4>2, <5>1, <6>1, <6>2
          <6>4. ~Pulse' => sent' = data_cnt'
            BY <4>2, <5>1, <6>1, <6>2
          <6> QED
            BY <5>2, <6>3, <6>4
        <5> QED
          BY <5>3, <5>4
      <4> QED
        BY <4>3, <4>4
    <3> QED
      BY <2>4, <3>1, <3>2, PhaseFrom DEF dataPhase, data_phase_complete
  <2>5. ASSUME phase' \in {"STATUS_OUT", "MESSAGE_OUT"} PROVE sent' = toMove'
    <3>1. CASE phase = "CMD_IN"
      <4>1. cmd_cpl /\ AfterCommand(cmd) = "STATUS_OUT" /\ cmd' = cmd
        BY <2>5, <3>1, PhaseFrom, CommandKept DEF dataPhase
      <4>2. sent' = Zero
        BY <2>2, <3>1, SentMoves DEF BytesMoved, dataPhase, bsy
      <4> QED
        BY <4>1, <4>2 DEF toMove, AfterCommand
    <3>2. CASE dataPhase
      <4>1. data_done /\ ~Pulse
        BY <2>2, <2>5, <3>2, PhaseFrom DEF dataPhase, data_phase_complete, BytesMoved
      <4>2. sent = data_len
        BY <2>2, <3>2, <4>1 DEF BytesMoved
      <4>3. ~byteReady
        BY <3>2, <4>1 DEF byteReady, req, req_bus, data_phase_complete
      <4>4. sent' = sent
        BY <1>1, <2>2, <3>2, <4>1, <4>3, SentMoves, AckMoves DEF bsy, dataPhase
      <4>5. cmd' = cmd /\ tlen' = tlen
        BY <3>2, CommandKept DEF dataPhase
      <4>6. AfterCommand(cmd) # "STATUS_OUT"
        BY <3>2 DEF CountInv, PhaseFits, AfterCommand, dataPhase
      <4> QED
        BY <4>2, <4>4, <4>5, <4>6 DEF toMove, AfterCommand, data_len
    <3>3. CASE phase \in {"STATUS_OUT", "MESSAGE_OUT"}
      <4>1. sent' = sent
        BY <2>2, <3>3, SentMoves DEF bsy, dataPhase
      <4>2. cmd' = cmd /\ tlen' = tlen
        BY <3>3, CommandKept
      <4> QED
        BY <2>2, <3>3, <4>1, <4>2 DEF BytesMoved, toMove, AfterCommand, data_len
    <3> QED
      BY <2>5, <3>1, <3>2, <3>3, PhaseFrom DEF dataPhase
  <2>6. BytesMoved'
    BY <2>3, <2>4, <2>5 DEF BytesMoved
  <2> QED
    BY <1>1, <2>1, <2>6, <2>7 DEF CountInv
<1> QED
  BY <1>3, <1>4

\* The data phase is as long as data_len, byte for byte: no pulse is counted
\* twice or lost, however the device and the bus resets fall.
THEOREM CountsCorrect == Spec => []CountsAgree
<1>1. ASSUME CountInv PROVE CountsAgree
  <2>1. FrontierInv /\ BytesMoved
    BY <1>1 DEF CountInv
  <2>2. settle = 0 /\ ~ack => ~Pulse
    BY <2>1 DEF FrontierInv, PulsesApart, Pulse, TypeOK, IniType
  <2> QED
    BY <2>1, <2>2 DEF BytesMoved, CountsAgree
<1> QED
  BY <1>1, InitCount, StepCount, PTL DEF Spec
-----------------------------------------------------------------------------
(* The block device and the end of a dialog *)

\* How the request the device holds goes on, and when it touches the image.
LEMMA DeviceMoves ==
  ASSUME TypeOK, HpsClk
  PROVE  /\ hps'.st = "taken" => \/ hps.st = "taken" /\ hps' = hps
                                 \/ /\ hps.st = "idle" /\ (io_rd \/ io_wr)
                                    /\ hps'.op = (IF io_wr THEN "write" ELSE "read")
                                    /\ hps'.lba = lba /\ hps'.owner = commands
         /\ hps'.st = "ack" => (hps.st = "taken" /\ ~hps'.done) \/ hps.st = "ack"
         /\ hps'.st = "idle" => \/ hps.st = "idle" /\ hps' = hps
                                \/ /\ hps.st = "ack" /\ ~sd_buff_wr
                                   /\ hps.done \/ (hps.op = "read" /\ empties < MaxEmpty)
         /\ hps.st # "idle" => hps'.op = hps.op /\ hps'.lba = hps.lba /\ hps'.owner = hps.owner
         /\ sd_buff_wr' => /\ hps.st = "ack" /\ hps.op = "read"
                           /\ hps'.st = "ack" /\ hps'.done
         /\ hps'.st = "ack" /\ hps'.done /\ ~sd_buff_wr' =>
              hps.st = "ack" /\ (hps.done \/ hps.op = "write")
         /\ UNCHANGED disk \/ (HpsCollect /\ hps.st = "ack" /\ hps.op = "write")
<1> USE DEF TypeOK, HpsType
<1>1. CASE HpsQuiet
  BY <1>1 DEF HpsQuiet
<1>2. CASE HpsPoll
  BY <1>2 DEF HpsPoll
<1>3. CASE HpsOpenWindow
  BY <1>3 DEF HpsOpenWindow, HpsAt
<1>4. CASE HpsStream
  BY <1>4 DEF HpsStream, HpsAt
<1>5. CASE HpsCollect
  BY <1>5 DEF HpsCollect, HpsAt
<1>6. CASE HpsCloseWindow
  BY <1>6 DEF HpsCloseWindow, HpsAt
<1> QED
  BY <1>1, <1>2, <1>3, <1>4, <1>5, <1>6 DEF HpsClk, HpsMove

\* A request the device has taken for the running command stays up until the
\* acknowledge; a request of an earlier one carries an older number.
OwnerInv ==
  /\ CountInv
  /\ hps.owner <= commands
  /\ (bsy \/ sel) /\ hps.st = "taken" /\ hps.owner = commands => io_rd \/ io_wr

LEMMA InitOwner == Init => OwnerInv
<1> SUFFICES ASSUME Init PROVE OwnerInv
  OBVIOUS
<1>1. hps.owner <= commands /\ hps.st # "taken"
  BY DEF Init, HpsInit
<1> QED
  BY <1>1, InitCount DEF OwnerInv

LEMMA StepOwner == OwnerInv /\ [Next]_vars => OwnerInv'
<1> SUFFICES ASSUME OwnerInv, [Next]_vars PROVE OwnerInv'
  OBVIOUS
<1>1. CountInv /\ CountInv' /\ TypeOK /\ InTurn
  BY StepCount DEF OwnerInv, CountInv, FrontierInv
<1>2. CASE UNCHANGED vars
  BY <1>1, <1>2 DEF OwnerInv, bsy, vars, busVars, hpsVars, shakeVars, engineVars, iniVars
<1>3. CASE Next
  <2>1. IniClk /\ TargetClk /\ HpsClk
    BY <1>3 DEF Next
  <2>2. /\ commands' = commands \/ (commands' = commands + 1 /\ ~bsy /\ ~sel)
        /\ sel' => sel \/ commands' = commands + 1
        /\ ~rst \/ ~sel'
    BY <1>1, <2>1 DEF IniClk, IniMove, IniWait, Select, RaiseReset, ReleaseSel, RaiseAck, DropAck,
       DropReset, busVars, InTurn
  <2>3. hps.owner \in Nat /\ commands \in Nat /\ hps'.owner \in {hps.owner, commands}
    <3>1. hps'.st \in {"idle", "taken", "ack"}
      BY <1>3, <1>1, StepType DEF TypeOK, HpsType
    <3> QED
      BY <1>1, <2>1, <3>1, DeviceMoves DEF TypeOK, HpsType, IniType
  <2>4. hps'.owner <= commands'
    BY <2>2, <2>3 DEF OwnerInv
  <2>5. ASSUME bsy' \/ sel', hps'.st = "taken", hps'.owner = commands'
        PROVE  io_rd' \/ io_wr'
    <3>1. commands' = commands /\ hps'.owner = commands
      BY <2>2, <2>3, <2>5 DEF OwnerInv
    <3>2. ~rst /\ (bsy \/ sel)
      <4>1. CASE sel'
        <5>1. commands' # commands + 1
          BY <2>3, <3>1
        <5> QED
          BY <2>2, <4>1, <5>1
      <4>2. CASE bsy'
        BY <2>1, <4>2 DEF TargetClk, PhaseFsm, bsy, data_phase_complete, dataPhase
      <4> QED
        BY <2>5, <4>1, <4>2
    <3>3. ~io_ack /\ (io_rd \/ io_wr)
      BY <1>1, <2>1, <2>5, <3>1, <3>2, DeviceMoves DEF OwnerInv, io_ack
    <3> QED
      BY <2>1, <3>2, <3>3 DEF TargetClk, BlockEngine
  <2> QED
    BY <1>1, <2>4, <2>5 DEF OwnerInv
<1> QED
  BY <1>2, <1>3

\* The status and message bytes are offered only when the engine's requests
\* are down and the device holds none of the running command.
THEOREM StatusComesLast == Spec => []StatusAfterIO
<1>1. ASSUME OwnerInv PROVE StatusAfterIO
  <2> SUFFICES ASSUME phase \in {"STATUS_OUT", "MESSAGE_OUT"}, byteReady
               PROVE  ~io_rd /\ ~io_wr /\ ~wr_pending /\ (hps.st = "idle" \/ hps.owner # commands)
    BY DEF StatusAfterIO
  <2>1. ~io_rd /\ ~io_wr /\ ~wr_pending /\ ~io_ack
    BY DEF byteReady, req, req_bus, io_busy, dataPhase
  <2>2. hps.st \in {"idle", "taken", "ack"}
    BY <1>1 DEF OwnerInv, CountInv, FrontierInv, TypeOK, HpsType
  <2> QED
    BY <1>1, <2>1, <2>2 DEF OwnerInv, io_ack, bsy
<1> QED
  BY <1>1, InitOwner, StepOwner, PTL DEF Spec

-----------------------------------------------------------------------------
(* What an initiator reads *)

\* No request of an earlier command is in flight when a command begins: the
\* initiator waits for the device, or no command was ever aborted.
Exclusive == ~Overlap \/ resets = 0

LinesOff == ~io_rd /\ ~io_wr /\ ~wr_pending /\ ~rd_busy
Still    == LinesOff /\ hps.st = "idle" /\ ~old_io_ack

\* Between two commands and while a command block comes in, nothing moves in
\* the block engine; of an aborted command only the device itself may go on.
BetweenCommands ==
  /\ ~bsy => LinesOff /\ (old_io_ack => settle >= Settle - 1)
  /\ ~bsy /\ resets = 0 => Still
  /\ rst /\ bsy => settle = Settle /\ resets > 0
  /\ (sel /\ ~bsy) \/ phase = "CMD_IN" => Still
  /\ phase = "MESSAGE_OUT" /\ (Pulse \/ message_sent) => Still

\* A request stays up until the device's window opens.
RequestHeld ==
  /\ bsy /\ hps.st = "taken" => io_rd \/ io_wr
  /\ bsy /\ rd_busy => io_rd \/ hps.st # "idle" \/ old_io_ack
  /\ old_io_ack => hps.st # "taken" /\ ~io_rd /\ ~io_wr
  /\ filled => old_io_ack
  /\ sd_buff_wr => hps.st = "ack" /\ hps.done
  /\ phase = "DATA_OUT" => ~buffer_wr

QuietInv == CountInv /\ (Exclusive => BetweenCommands /\ RequestHeld)

\* One fetch is in flight at a time, for the sector after the frontier, and
\* only while the ring has a free slot.
OneFetch ==
  /\ ~io_wr /\ ~wr_pending
  /\ io_rd \/ hps.st # "idle" \/ old_io_ack => rd_busy
  /\ rd_busy => rd_hps_blk - rd_cur_blk < RingBlocks /\ rd_hps_blk < tlen.blk
  /\ rd_hps_blk - rd_cur_blk <= RingBlocks

\* The window is for the sector at the frontier; when it closes that sector is
\* in its slot.
RightSector ==
  /\ lba = cmd.lba + rd_hps_blk
  /\ hps.st # "idle" \/ old_io_ack => hps.op = "read" /\ hps.lba = lba
  /\ hps.st = "ack" /\ hps.done /\ ~sd_buff_wr => filled
  /\ hps.st = "idle" /\ old_io_ack => filled
  /\ filled => buf[rd_hps_blk % RingBlocks] = SectorAt(lba)

\* The sectors between the initiator and the frontier are in their slots.
RingHolds ==
  \A k \in rd_cur_blk .. rd_hps_blk - 1 : buf[k % RingBlocks] = SectorAt(cmd.lba + k)

reading == phase = "DATA_OUT" /\ cmd_read

RingInv == QuietInv /\ (Exclusive /\ reading => OneFetch)
ReadInv == RingInv /\ (Exclusive /\ MaxEmpty = 0 /\ reading => RightSector /\ RingHolds)

-----------------------------------------------------------------------------
(* Between two commands *)

\* The registers of the block engine after a clock, as plain conditions.
LEMMA EngineMoves ==
  ASSUME TypeOK, TargetClk
  PROVE  /\ io_rd' <=> ~rst /\ ~io_ack /\ (io_rd \/ startFetch)
         /\ io_wr' <=> ~rst /\ ~io_ack /\ (io_wr \/ startFlush)
         /\ rd_busy' <=> ~rst /\ ~ackFall /\ (rd_busy \/ startFetch)
         /\ wr_pending' <=> ~rst /\ ~startFlush /\ (wr_pending \/ (req_wr /\ ~old_wr))
         /\ old_io_ack' <=> io_ack
         /\ filled' <=> io_ack /\ (filled \/ sd_buff_wr)
<1>1. BlockEngine /\ RingFrontier
  BY DEF TargetClk
<1>2. /\ io_rd' <=> ~rst /\ ~io_ack /\ (io_rd \/ startFetch)
      /\ io_wr' <=> ~rst /\ ~io_ack /\ (io_wr \/ startFlush)
  BY <1>1, Zenon DEF BlockEngine
<1>3. /\ rd_busy' <=> ~rst /\ ~ackFall /\ (rd_busy \/ startFetch)
      /\ wr_pending' <=> ~rst /\ ~startFlush /\ (wr_pending \/ (req_wr /\ ~old_wr))
  BY <1>1, Zenon DEF BlockEngine
<1>4. (old_io_ack' <=> io_ack) /\ (filled' <=> io_ack /\ (filled \/ sd_buff_wr))
  BY <1>1, Zenon DEF RingFrontier
<1> QED
  BY <1>2, <1>3, <1>4

\* Outside the phases that ask for sectors, an engine with its lines down and
\* an idle device stay as they are.
LEMMA StillStays ==
  ASSUME TypeOK, Next, phase \notin {"DATA_OUT", "DATA_IN", "STATUS_OUT"}, hps.st = "idle",
         ~io_rd, ~io_wr, ~wr_pending, rd_busy => old_io_ack
  PROVE  Still'
<1>1. ~io_ack /\ ~req_rd /\ ~req_wr
  BY DEF io_ack, req_rd, req_wr
<1>2. ~startFetch /\ ~startFlush /\ (rd_busy => ackFall)
  BY <1>1 DEF startFetch, startFlush, ackFall
<1>3. ~io_rd' /\ ~io_wr' /\ ~rd_busy' /\ ~wr_pending' /\ ~old_io_ack'
  BY <1>1, <1>2, EngineMoves DEF Next
<1>4. hps' = hps
  BY DeviceMoves, StepType DEF Next, TypeOK, HpsType
<1> QED
  BY <1>3, <1>4 DEF Still, LinesOff

\* What the initiator's choices do to the reset and to the settle window.
LEMMA ResetMoves ==
  ASSUME TypeOK, IniClk
  PROVE  /\ resets' >= resets
         /\ ~rst /\ rst' => settle' = Settle /\ resets' = resets + 1
         /\ ~sel /\ sel' => ~bsy /\ settle = 0 /\ (Overlap \/ hps.st = "idle")
  BY DEF IniClk, IniMove, IniWait, Select, RaiseReset, ReleaseSel, RaiseAck, DropAck, DropReset,
     busVars, TypeOK, IniType

LEMMA InitQuiet == Init => QuietInv
<1> SUFFICES ASSUME Init PROVE QuietInv
  OBVIOUS
<1>1. CountInv
  BY InitCount
<1>2. BetweenCommands /\ RequestHeld
  BY DEF Init, TargetInit, TargetQuiet, HpsInit, BetweenCommands, RequestHeld, Still, LinesOff, bsy
<1> QED
  BY <1>1, <1>2 DEF QuietInv

LEMMA StepBetween ==
  ASSUME QuietInv, Next, Exclusive, Exclusive'
  PROVE  BetweenCommands'
<1>1. BetweenCommands /\ RequestHeld /\ TypeOK /\ FrontierInv /\ InTurn
  BY DEF QuietInv, CountInv, FrontierInv
<1>2. TargetClk /\ IniClk /\ HpsClk
  BY DEF Next
<1> USE <1>1
<1>3. settle \in 0 .. Settle /\ settle' \in 0 .. Settle /\ resets \in Nat /\ resets' \in Nat
  BY StepType DEF TypeOK, IniType
<1>4. settle' >= settle - 1 /\ resets' >= resets
  BY <1>2, AckMoves, ResetMoves
<1>5. ASSUME Still, phase \notin {"DATA_OUT", "DATA_IN", "STATUS_OUT"} PROVE Still'
  BY <1>5, StillStays DEF Still, LinesOff
<1>6. ASSUME ~bsy'
      PROVE  /\ LinesOff' /\ (old_io_ack' => settle' >= Settle - 1)
             /\ resets' = 0 => Still'
  <2>1. CASE rst /\ bsy
    <3>1. LinesOff'
      BY <1>2, <2>1, EngineMoves DEF LinesOff
    <3>2. settle = Settle /\ resets > 0
      BY <2>1 DEF BetweenCommands
    <3> QED
      BY <1>3, <1>4, <3>1, <3>2
  <2>2. CASE ~bsy
    <3>1. LinesOff /\ ~io_ack /\ ~req_rd /\ ~req_wr
      BY <2>2 DEF BetweenCommands, io_ack, req_rd, req_wr, bsy
    <3>2. LinesOff' /\ ~old_io_ack'
      BY <1>2, <3>1, EngineMoves DEF LinesOff, startFetch, startFlush
    <3>3. ASSUME resets' = 0 PROVE Still'
      <4>1. Still
        BY <1>3, <1>4, <2>2, <3>3 DEF BetweenCommands
      <4> QED
        BY <1>5, <2>2, <4>1 DEF bsy
    <3> QED
      BY <3>2, <3>3
  <2>3. CASE phase = "MESSAGE_OUT" /\ message_sent
    <3>1. Still'
      BY <1>5, <2>3 DEF BetweenCommands
    <3> QED
      BY <3>1 DEF Still
  <2> QED
    BY <1>6, <2>1, <2>2, <2>3, PhaseFrom DEF bsy, TypeOK, ShakeType
<1>7. rst' /\ bsy' => settle' = Settle /\ resets' > 0
  BY <1>2, <1>3, PhaseFrom, ResetMoves DEF bsy
<1>8. ASSUME (sel' /\ ~bsy') \/ phase' = "CMD_IN" PROVE Still'
  <2>1. CASE sel \/ phase = "CMD_IN"
    <3>1. (phase = "IDLE" /\ sel) \/ phase = "CMD_IN"
      BY <2>1 DEF InTurn
    <3> QED
      BY <1>5, <3>1 DEF BetweenCommands, bsy
  <2>2. CASE ~sel /\ phase # "CMD_IN"
    <3>1. sel' /\ ~bsy /\ settle = 0 /\ (Overlap \/ hps.st = "idle")
      BY <1>2, <1>8, <2>2, PhaseFrom, ResetMoves
    <3>2. Still
      <4>1. LinesOff /\ ~old_io_ack
        BY <1>3, <3>1 DEF BetweenCommands
      <4> QED
        BY <3>1, <4>1 DEF Exclusive, BetweenCommands, Still
    <3> QED
      BY <1>5, <3>1, <3>2 DEF bsy
  <2> QED
    BY <2>1, <2>2
<1>9. ASSUME phase' = "MESSAGE_OUT", Pulse' \/ message_sent' PROVE Still'
  <2>1. message_sent' <=> phase = "MESSAGE_OUT" /\ (stb_adv \/ message_sent)
    BY <1>2, Zenon DEF TargetClk, SentFlags
  <2>2. phase = "MESSAGE_OUT" /\ ~message_sent
    <3>1. CASE phase = "STATUS_OUT" /\ status_sent
      BY <1>9, <2>1, <3>1, PulseStep DEF InTurn
    <3> QED
      BY <1>9, <3>1, PhaseFrom
  <2>3. CASE Pulse
    BY <1>5, <2>2, <2>3 DEF BetweenCommands
  <2>4. CASE ~Pulse
    <3>1. byteReady
      BY <1>9, <2>1, <2>2, <2>4, PulseStep DEF Pulse
    <3>2. ~io_rd /\ ~io_wr /\ ~wr_pending /\ ~io_ack
      BY <2>2, <3>1 DEF byteReady, req, req_bus, io_busy, dataPhase
    <3>3. hps.st = "idle"
      BY <2>2, <3>2 DEF RequestHeld, io_ack, bsy, TypeOK, HpsType
    <3>4. rd_busy => old_io_ack
      BY <2>2, <3>2, <3>3 DEF RequestHeld, bsy
    <3> QED
      BY <2>2, <3>2, <3>3, <3>4, StillStays
  <2> QED
    BY <2>3, <2>4
<1> QED
  BY <1>6, <1>7, <1>8, <1>9 DEF BetweenCommands

LEMMA StepHeld ==
  ASSUME QuietInv, Next, Exclusive
  PROVE  RequestHeld'
<1>1. BetweenCommands /\ RequestHeld /\ TypeOK
  BY DEF QuietInv, CountInv, FrontierInv
<1>2. TargetClk /\ IniClk /\ HpsClk
  BY DEF Next
<1> USE <1>1
<1>3. hps.st \in {"idle", "taken", "ack"} /\ hps'.st \in {"idle", "taken", "ack"}
  BY StepType DEF TypeOK, HpsType
<1>4. bsy' => ~rst /\ (bsy \/ (~bsy /\ sel))
  <2>1. bsy' => ~rst
    BY PhaseFrom DEF bsy
  <2>2. bsy' => bsy \/ sel
    BY <1>2 DEF TargetClk, PhaseFsm, bsy, data_phase_complete, dataPhase
  <2> QED
    BY <2>1, <2>2
<1>5. ASSUME bsy', hps'.st = "taken" PROVE io_rd' \/ io_wr'
  <2>1. (io_rd \/ io_wr) /\ ~io_ack
    BY <1>2, <1>4, <1>5, DeviceMoves DEF BetweenCommands, RequestHeld, Still, io_ack
  <2> QED
    BY <1>2, <1>4, <1>5, <2>1, EngineMoves
<1>6. ASSUME bsy', rd_busy' PROVE io_rd' \/ hps'.st # "idle" \/ old_io_ack'
  <2>1. ~ackFall /\ (rd_busy \/ startFetch)
    BY <1>2, <1>6, EngineMoves
  <2>2. CASE startFetch
    BY <1>2, <1>4, <1>6, <2>2, EngineMoves DEF startFetch
  <2>3. CASE rd_busy
    <3>1. bsy
      BY <2>3 DEF BetweenCommands, LinesOff
    <3>2. CASE io_ack
      BY <1>2, <3>2, EngineMoves
    <3>3. CASE ~io_ack
      <4>1. hps.st # "ack" /\ ~old_io_ack
        BY <2>1, <3>1, <3>3 DEF io_ack, ackFall
      <4>2. io_rd \/ hps.st = "taken"
        BY <1>3, <2>3, <3>1, <4>1 DEF RequestHeld
      <4>3. CASE io_rd
        BY <1>2, <1>4, <1>6, <3>3, <4>3, EngineMoves
      <4>4. CASE hps.st = "taken"
        BY <1>2, <4>4, DeviceMoves
      <4> QED
        BY <4>2, <4>3, <4>4
    <3> QED
      BY <3>2, <3>3
  <2> QED
    BY <2>1, <2>2, <2>3
<1>7. old_io_ack' => hps'.st # "taken" /\ ~io_rd' /\ ~io_wr'
  BY <1>2, EngineMoves, DeviceMoves DEF io_ack
<1>8. (filled' => old_io_ack') /\ (sd_buff_wr' => hps'.st = "ack" /\ hps'.done)
  BY <1>2, EngineMoves, DeviceMoves
<1>9. phase' = "DATA_OUT" => ~buffer_wr'
  BY <1>2, PhaseFrom DEF TargetClk, SectorBuffer
<1> QED
  BY <1>5, <1>6, <1>7, <1>8, <1>9 DEF RequestHeld

LEMMA StepQuiet == QuietInv /\ [Next]_vars => QuietInv'
<1> SUFFICES ASSUME QuietInv, [Next]_vars PROVE QuietInv'
  OBVIOUS
<1>1. CountInv /\ CountInv' /\ TypeOK
  BY StepCount DEF QuietInv, CountInv, FrontierInv
<1>2. CASE UNCHANGED vars
  <2>1. (Exclusive' => Exclusive) /\ (BetweenCommands => BetweenCommands')
        /\ (RequestHeld => RequestHeld')
    BY <1>2 DEF Exclusive, BetweenCommands, RequestHeld, Still, LinesOff, Pulse, bsy,
       vars, busVars, hpsVars, shakeVars, engineVars, bufferVars, iniVars
  <2> QED
    BY <1>1, <2>1 DEF QuietInv
<1>3. CASE Next
  <2>1. Exclusive' => Exclusive
    BY <1>1, <1>3, ResetMoves, StepType DEF Exclusive, Next, TypeOK, IniType
  <2> QED
    BY <1>1, <1>3, <2>1, StepBetween, StepHeld DEF QuietInv
<1> QED
  BY <1>2, <1>3

-----------------------------------------------------------------------------
(* The read ring *)

\* Where a block read comes from, and that it keeps its command.
LEMMA ReadFrom ==
  ASSUME TypeOK, Next, reading'
  PROVE  /\ cmd' = cmd /\ ~rst
         /\ \/ phase = "CMD_IN" /\ cmd_cpl
            \/ reading /\ tlen' = tlen
<1>1. ~rst /\ (\/ phase = "CMD_IN" /\ cmd_cpl
               \/ phase = "DATA_OUT" /\ ~data_phase_complete)
  BY PhaseFrom DEF reading
<1>2. cmd' = cmd
  BY <1>1, CommandKept
<1>3. phase = "DATA_OUT" => tlen' = tlen
  BY CommandKept
<1> QED
  BY <1>1, <1>2, <1>3 DEF reading, cmd_read

\* The initiator's sector only moves up during the transfer.
LEMMA CursorUp ==
  ASSUME TypeOK, Next, reading
  PROVE  rd_cur_blk \in Nat /\ rd_cur_blk' \in Nat /\ rd_cur_blk' >= rd_cur_blk
<1>1. data_cnt' = data_cnt \/ data_cnt' = Bump(data_cnt)
  BY DEF reading, Next, TargetClk, DataCount, transferPhase, dataPhase
<1>2. data_cnt \in Count
  BY DEF TypeOK, ShakeType
<1> QED
  BY <1>1, <1>2 DEF Bump, Count, rd_cur_blk

\* When the acknowledge of a fetch falls the device is idle and the request is
\* down, so neither a new request nor a new fetch starts at that clock.
LEMMA FetchEnds ==
  ASSUME TypeOK, RequestHeld, OneFetch, reading
  PROVE  /\ ackFall => hps.st = "idle" /\ ~io_rd /\ rd_busy /\ ~startFetch
         /\ io_ack => rd_busy /\ ~ackFall
         /\ hps.st # "idle" => rd_busy /\ ~ackFall
         /\ io_ack <=> hps.st = "ack"
<1>1. hps.st \in {"idle", "taken", "ack"}
  BY DEF TypeOK, HpsType
<1> QED
  BY <1>1 DEF RequestHeld, OneFetch, reading, ackFall, io_ack, startFetch, bsy

\* How far the fetch frontier moves.
LEMMA FrontierMoves ==
  ASSUME TypeOK, TargetClk, reading
  PROVE  rd_hps_blk' = IF ackFall /\ filled /\ ~rd_flush_pending THEN rd_hps_blk + 1 ELSE rd_hps_blk
  BY DEF TargetClk, RingFrontier, reading, transferPhase, dataPhase

LEMMA LessAhead ==
  ASSUME NEW h \in Nat, NEW c \in Nat, NEW d \in Nat, d >= c, h - c <= RingBlocks
  PROVE  h - d <= RingBlocks
  OBVIOUS

LEMMA StepOneFetch ==
  ASSUME QuietInv, Exclusive, reading => OneFetch, Next, reading'
  PROVE  OneFetch'
<1>1. BetweenCommands /\ RequestHeld /\ TypeOK /\ TypeOK'
  BY StepType DEF QuietInv, CountInv, FrontierInv
<1>2. TargetClk /\ HpsClk
  BY DEF Next
<1> USE <1>1
<1>3. CASE phase = "CMD_IN" /\ cmd_cpl
  <2>1. Still'
    BY <1>3, StillStays DEF BetweenCommands, Still, LinesOff
  <2>2. rd_hps_blk' = 0 /\ data_cnt' = Zero
    BY <1>2, <1>3 DEF TargetClk, RingFrontier, DataCount, transferPhase, dataPhase
  <2> QED
    BY <2>1, <2>2 DEF OneFetch, Still, LinesOff, Zero, rd_cur_blk
<1>4. CASE reading /\ tlen' = tlen
  <2>1. OneFetch /\ ~rst /\ ~req_wr
    BY <1>4, ReadFrom DEF reading, req_wr
  <2>2. ~io_wr' /\ ~wr_pending'
    BY <1>2, <2>1, EngineMoves DEF OneFetch, startFlush
  <2>3. rd_busy' <=> ~ackFall /\ (rd_busy \/ startFetch)
    BY <1>2, <2>1, EngineMoves
  <2>4. ASSUME io_rd' \/ hps'.st # "idle" \/ old_io_ack' PROVE rd_busy'
    <3>1. CASE io_rd'
      <4>1. io_rd \/ startFetch
        BY <1>2, <3>1, EngineMoves
      <4>2. ~ackFall /\ (rd_busy \/ startFetch)
        BY <1>4, <2>1, <4>1, FetchEnds DEF OneFetch
      <4> QED
        BY <2>3, <4>2
    <3>2. CASE hps'.st # "idle"
      <4>1. CASE hps.st # "idle"
        BY <1>4, <2>1, <2>3, <4>1, FetchEnds
      <4>2. CASE hps.st = "idle"
        <5>1. hps'.st = "taken" \/ hps'.st = "ack"
          BY <3>2 DEF TypeOK, HpsType
        <5>2. io_rd
          BY <1>2, <2>1, <4>2, <5>1, DeviceMoves DEF OneFetch
        <5> QED
          BY <1>4, <2>1, <2>3, <5>2, FetchEnds DEF OneFetch
      <4> QED
        BY <4>1, <4>2
    <3>3. CASE old_io_ack'
      BY <1>2, <1>4, <2>1, <2>3, <3>3, EngineMoves, FetchEnds
    <3> QED
      BY <2>4, <3>1, <3>2, <3>3
  <2>5. rd_hps_blk' = (IF ackFall /\ filled /\ ~rd_flush_pending THEN rd_hps_blk + 1 ELSE rd_hps_blk)
        /\ rd_hps_blk \in Nat /\ rd_hps_blk' \in Nat
    BY <1>2, <1>4, FrontierMoves DEF TypeOK, EngineType
  <2>6. rd_cur_blk \in Nat /\ rd_cur_blk' \in Nat /\ rd_cur_blk' >= rd_cur_blk
    BY <1>4, CursorUp
  <2>7. rd_busy \/ startFetch => rd_hps_blk - rd_cur_blk < RingBlocks /\ rd_hps_blk < tlen.blk
    BY <2>1 DEF OneFetch, startFetch, req_rd
  <2>8. rd_busy' => rd_hps_blk' - rd_cur_blk' < RingBlocks /\ rd_hps_blk' < tlen'.blk
    BY <1>4, <2>3, <2>5, <2>6, <2>7
  <2>9. rd_hps_blk' - rd_cur_blk' <= RingBlocks
    <3>1. rd_hps_blk' = rd_hps_blk \/ (rd_hps_blk' = rd_hps_blk + 1 /\ ackFall)
      BY <2>5
    <3>2. ackFall => rd_hps_blk - rd_cur_blk < RingBlocks
      BY <1>4, <2>1, <2>7, FetchEnds
    <3>3. rd_hps_blk - rd_cur_blk <= RingBlocks
      BY <2>1 DEF OneFetch
    <3> HIDE DEF rd_cur_blk
    <3>4. rd_hps_blk' - rd_cur_blk <= RingBlocks
      BY <2>5, <2>6, <3>1, <3>2, <3>3
    <3> QED
      BY <2>5, <2>6, <3>4, LessAhead
  <2> QED
    BY <2>2, <2>4, <2>8, <2>9 DEF OneFetch
<1> QED
  BY <1>3, <1>4, ReadFrom

LEMMA InitRing == Init => RingInv
<1>1. ASSUME Init PROVE ~reading
  BY <1>1 DEF Init, TargetInit, reading
<1> QED
  BY <1>1, InitQuiet DEF RingInv

LEMMA StepRing == RingInv /\ [Next]_vars => RingInv'
<1> SUFFICES ASSUME RingInv, [Next]_vars PROVE RingInv'
  OBVIOUS
<1>1. QuietInv /\ QuietInv' /\ TypeOK
  BY StepQuiet DEF RingInv, QuietInv, CountInv, FrontierInv
<1>2. CASE UNCHANGED vars
  <2>1. (Exclusive' => Exclusive) /\ (reading' => reading) /\ (OneFetch => OneFetch')
    BY <1>2 DEF Exclusive, reading, cmd_read, OneFetch, rd_cur_blk,
       vars, hpsVars, shakeVars, engineVars, iniVars
  <2> QED
    BY <1>1, <2>1 DEF RingInv
<1>3. CASE Next
  <2>1. Exclusive' => Exclusive
    BY <1>1, <1>3, ResetMoves, StepType DEF Exclusive, Next, TypeOK, IniType
  <2> QED
    BY <1>1, <1>3, <2>1, StepOneFetch DEF RingInv
<1> QED
  BY <1>2, <1>3

\* For every ring depth, sector size and transfer length the ring never holds
\* more sectors ahead of the initiator than it has slots, while the initiator
\* selects an idle device only or has never reset the bus.
THEOREM RingBounded == Spec => [](Exclusive => RingNotOverrun)
<1>1. RingInv => (Exclusive => RingNotOverrun)
  BY DEF RingInv, OneFetch, RingNotOverrun, reading
<1> QED
  BY <1>1, InitRing, StepRing, PTL DEF Spec

-----------------------------------------------------------------------------
(* The sectors served *)

LEMMA OneRound ==
  ASSUME NEW R \in Nat, R > 1, NEW a \in Int, NEW b \in Int, R * a - R * b > 0
  PROVE  R * a - R * b >= R
<1>1. R * (a - b) > 0
  OBVIOUS
<1>2. a - b >= 1
  BY <1>1
<1> QED
  BY <1>2

\* Two sectors less than a ring apart lie in different slots.
LEMMA SlotsDiffer ==
  ASSUME NEW R \in Nat, R > 1, NEW k \in Nat, NEW h \in Nat, k < h, h - k < R
  PROVE  k % R # h % R
<1>1. k = R * (k \div R) + (k % R) /\ k \div R \in Nat
  OBVIOUS
<1>2. h = R * (h \div R) + (h % R) /\ h \div R \in Nat
  OBVIOUS
<1>3. ASSUME k % R = h % R PROVE FALSE
  <2>1. h - k = R * (h \div R) - R * (k \div R)
    BY <1>1, <1>2, <1>3
  <2>2. R * (h \div R) - R * (k \div R) > 0
    BY <2>1
  <2>3. R * (h \div R) - R * (k \div R) >= R
    BY <1>1, <1>2, <2>2, OneRound
  <2> QED
    BY <2>1, <2>3
<1> QED
  BY <1>3

\* While a fetch is served the device reads, so the image does not change.
LEMMA ImageStays ==
  ASSUME TypeOK, Next, hps.st # "idle" => hps.op = "read"
  PROVE  disk' = disk /\ \A l \in Nat : SectorAt(l)' = SectorAt(l)
<1>1. disk' = disk
  BY DeviceMoves DEF Next
<1> QED
  BY <1>1 DEF SectorAt

\* In a block read the buffer changes only at the slot of the fetch in flight.
LEMMA ReadFills ==
  ASSUME TypeOK, RequestHeld, reading, Next
  PROVE  /\ sd_buff_wr => /\ buf'[rd_hps_blk % RingBlocks] = SectorAt(hps.lba)
                          /\ \A s \in 0 .. RingBlocks - 1 :
                               s # rd_hps_blk % RingBlocks => buf'[s] = buf[s]
         /\ ~sd_buff_wr => buf' = buf
<1>1. sd_buff_wr => io_ack
  BY DEF RequestHeld, io_ack, reading, bsy
<1>2. hps_slot = rd_hps_blk % RingBlocks
  BY DEF hps_slot, cmd_write, cmd_read, reading
<1>3. buf' = IF sd_buff_wr THEN [buf EXCEPT ![rd_hps_blk % RingBlocks] = SectorAt(hps.lba)] ELSE buf
  BY <1>1, <1>2 DEF Next, TargetClk, SectorBuffer, RequestHeld, reading
<1>4. buf \in [0 .. RingBlocks - 1 -> [Offset -> Byte]] /\ rd_hps_blk % RingBlocks \in 0 .. RingBlocks - 1
  BY DEF TypeOK, BufferType, EngineType
<1> QED
  BY <1>3, <1>4

LEMMA StepServed ==
  ASSUME ReadInv, Next, Exclusive, reading', MaxEmpty = 0
  PROVE  RightSector' /\ RingHolds'
<1>1. BetweenCommands /\ RequestHeld /\ TypeOK /\ TypeOK'
  BY StepType DEF ReadInv, RingInv, QuietInv, CountInv, FrontierInv
<1>2. TargetClk /\ HpsClk
  BY DEF Next
<1> USE <1>1
<1>3. CASE phase = "CMD_IN" /\ cmd_cpl
  <2>1. Still'
    BY <1>3, StillStays DEF BetweenCommands, Still, LinesOff
  <2>2. rd_hps_blk' = 0 /\ data_cnt' = Zero /\ lba' = cmd.lba /\ cmd' = cmd
    BY <1>2, <1>3, ReadFrom DEF TargetClk, RingFrontier, DataCount, transferPhase, dataPhase, Parameters
  <2>3. ~io_ack /\ ~filled'
    BY <1>2, <1>3, EngineMoves DEF BetweenCommands, Still, io_ack
  <2>4. cmd.lba \in Nat
    BY DEF TypeOK, ShakeType, CommandBlock
  <2>5. RightSector'
    BY <2>1, <2>2, <2>3, <2>4 DEF RightSector, Still
  <2>6. RingHolds'
    BY <2>2 DEF RingHolds, rd_cur_blk, Zero
  <2> QED
    BY <2>5, <2>6
<1>4. CASE reading /\ tlen' = tlen
  <2>1. OneFetch /\ RightSector /\ RingHolds /\ ~rst /\ cmd' = cmd
    BY <1>4, ReadFrom DEF ReadInv, RingInv
  <2>2. hps.st \in {"idle", "taken", "ack"} /\ hps'.st \in {"idle", "taken", "ack"}
        /\ hps.lba \in Nat /\ lba \in Nat /\ cmd.lba \in Nat
        /\ rd_hps_blk \in Nat /\ rd_hps_blk' \in Nat
    BY DEF TypeOK, HpsType, ShakeType, EngineType, CommandBlock
  <2>3. /\ ackFall => hps.st = "idle" /\ ~io_rd /\ rd_busy /\ ~startFetch /\ filled
        /\ io_ack => rd_busy /\ ~ackFall
        /\ hps.st # "idle" => rd_busy /\ ~ackFall
        /\ io_ack <=> hps.st = "ack"
    BY <1>4, <2>1, FetchEnds DEF RightSector, ackFall
  <2>4. /\ rd_hps_blk' = IF ackFall /\ ~rd_flush_pending THEN rd_hps_blk + 1 ELSE rd_hps_blk
        /\ lba' = IF ackFall /\ ~rd_flush_pending THEN lba + 1 ELSE lba
    BY <1>2, <1>4, <2>3, FrontierMoves DEF TargetClk, Parameters, reading
  <2>5. /\ disk' = disk
        /\ \A l \in Nat : SectorAt(l)' = SectorAt(l)
    BY <2>1, ImageStays DEF RightSector
  <2>6. lba' = cmd'.lba + rd_hps_blk'
    BY <2>1, <2>2, <2>4 DEF RightSector
  <2>7. ASSUME hps'.st # "idle" \/ old_io_ack' PROVE hps'.op = "read" /\ hps'.lba = lba'
    <3>1. CASE hps.st # "idle"
      BY <1>2, <2>1, <2>3, <2>4, <3>1, DeviceMoves DEF RightSector
    <3>2. CASE hps.st = "idle"
      <4>1. ~io_ack /\ ~old_io_ack'
        BY <1>2, <2>3, <3>2, EngineMoves
      <4>2. hps'.st = "taken"
        BY <1>2, <2>2, <2>7, <3>2, <4>1, DeviceMoves
      <4>3. io_rd /\ ~io_wr /\ hps'.op = "read" /\ hps'.lba = lba
        BY <1>2, <2>1, <3>2, <4>2, DeviceMoves DEF OneFetch
      <4> QED
        BY <2>3, <2>4, <4>3
    <3> QED
      BY <3>1, <3>2
  <2>8. ASSUME hps'.st = "ack", hps'.done, ~sd_buff_wr' PROVE filled'
    <3>1. hps.st = "ack" /\ hps.done
      BY <1>2, <2>1, <2>8, DeviceMoves DEF RightSector
    <3> QED
      BY <1>2, <2>1, <2>3, <3>1, EngineMoves DEF RightSector
  <2>9. ASSUME hps'.st = "idle", old_io_ack' PROVE filled'
    <3>1. io_ack /\ hps.st = "ack"
      BY <1>2, <2>3, <2>9, EngineMoves
    <3>2. ~sd_buff_wr /\ (hps.done \/ empties < MaxEmpty)
      BY <1>2, <2>9, <3>1, DeviceMoves
    <3>3. hps.done
      BY <3>2, MaxEmpty = 0 DEF TypeOK, IniType
    <3> QED
      BY <1>2, <2>1, <3>1, <3>2, <3>3, EngineMoves DEF RightSector
  <2>10. ASSUME filled' PROVE buf'[rd_hps_blk' % RingBlocks] = SectorAt(lba)'
    <3>1. io_ack /\ (filled \/ sd_buff_wr) /\ hps.lba = lba
      BY <1>2, <2>1, <2>3, <2>10, EngineMoves DEF RightSector
    <3>2. rd_hps_blk' = rd_hps_blk /\ lba' = lba /\ SectorAt(lba)' = SectorAt(lba)
      BY <2>2, <2>3, <2>4, <2>5, <3>1 DEF SectorAt
    <3>3. buf'[rd_hps_blk % RingBlocks] = SectorAt(lba)
      BY <1>4, <2>1, <3>1, ReadFills DEF RightSector
    <3> QED
      BY <3>2, <3>3
  <2>11. RightSector'
    BY <2>6, <2>7, <2>8, <2>9, <2>10 DEF RightSector
  <2>12. ASSUME NEW k \in rd_cur_blk' .. rd_hps_blk' - 1
         PROVE  buf'[k % RingBlocks] = SectorAt(cmd.lba + k)'
    <3>1. k \in Nat /\ k >= rd_cur_blk /\ rd_cur_blk \in Nat
      BY <1>4, <2>2, CursorUp
    <3>2. SectorAt(cmd.lba + k)' = SectorAt(cmd.lba + k) /\ k % RingBlocks \in 0 .. RingBlocks - 1
      BY <2>1, <2>2, <2>5, <3>1 DEF SectorAt
    <3>3. CASE k < rd_hps_blk
      <4>1. buf[k % RingBlocks] = SectorAt(cmd.lba + k)
        BY <2>1, <2>2, <3>1, <3>3 DEF RingHolds
      <4>2. CASE sd_buff_wr
        <5>1. rd_busy
          BY <2>3, <4>2 DEF RequestHeld
        <5>2. rd_hps_blk - k < RingBlocks
          BY <2>1, <2>2, <3>1, <5>1 DEF OneFetch
        <5>3. k % RingBlocks # rd_hps_blk % RingBlocks
          BY <2>2, <3>1, <3>3, <5>2, SlotsDiffer
        <5> QED
          BY <1>4, <3>2, <4>1, <4>2, <5>3, ReadFills
      <4>3. CASE ~sd_buff_wr
        BY <1>4, <3>2, <4>1, <4>3, ReadFills
      <4> QED
        BY <4>2, <4>3
    <3>4. CASE k >= rd_hps_blk
      <4>1. ackFall /\ k = rd_hps_blk
        BY <2>2, <2>4, <3>1, <3>4
      <4>2. filled /\ ~sd_buff_wr
        BY <2>3, <4>1 DEF RequestHeld
      <4>3. buf'[k % RingBlocks] = SectorAt(cmd.lba + k)
        BY <1>4, <2>1, <4>1, <4>2, ReadFills DEF RightSector
      <4> QED
        BY <3>2, <4>3
    <3> QED
      BY <2>2, <3>1, <3>3, <3>4
  <2>13. RingHolds'
    BY <2>1, <2>12 DEF RingHolds
  <2> QED
    BY <2>11, <2>13
<1> QED
  BY <1>3, <1>4, ReadFrom

LEMMA InitRead == Init => ReadInv
<1>1. ASSUME Init PROVE ~reading
  BY <1>1 DEF Init, TargetInit, reading
<1> QED
  BY <1>1, InitRing DEF ReadInv

LEMMA StepRead == ReadInv /\ [Next]_vars => ReadInv'
<1> SUFFICES ASSUME ReadInv, [Next]_vars PROVE ReadInv'
  OBVIOUS
<1>1. RingInv /\ RingInv' /\ TypeOK
  BY StepRing DEF ReadInv, RingInv, QuietInv, CountInv, FrontierInv
<1>2. CASE UNCHANGED vars
  <2>1. (Exclusive' => Exclusive) /\ (reading' => reading) /\ (RightSector => RightSector')
        /\ (RingHolds => RingHolds')
    BY <1>2 DEF Exclusive, reading, cmd_read, RightSector, RingHolds, rd_cur_blk, SectorAt,
       vars, hpsVars, shakeVars, engineVars, bufferVars, iniVars
  <2> QED
    BY <1>1, <2>1 DEF ReadInv
<1>3. CASE Next
  <2>1. Exclusive' => Exclusive
    BY <1>1, <1>3, ResetMoves, StepType DEF Exclusive, Next, TypeOK, IniType
  <2> QED
    BY <1>1, <1>3, <2>1, StepServed DEF ReadInv
<1> QED
  BY <1>2, <1>3

\* Every byte taken of a block read is the byte of the sector asked for, for
\* every ring depth and transfer length, provided no window comes without data
\* and the initiator selects an idle device only or has never reset the bus.
THEOREM ReadsAreServed ==
  ASSUME MaxEmpty = 0 PROVE Spec => [](Exclusive => ReadServesDisk)
<1>1. ASSUME ReadInv PROVE Exclusive => ReadServesDisk
  <2> SUFFICES ASSUME Exclusive, reading, ack
               PROVE  buf[rd_cur_blk % RingBlocks] = SectorAt(cmd.lba + rd_cur_blk)
    BY DEF ReadServesDisk, reading
  <2>1. FrontierInv /\ RingHolds
    BY <1>1, MaxEmpty = 0 DEF ReadInv, RingInv, QuietInv, CountInv
  <2>2. rd_cur_blk \in Nat /\ rd_hps_blk \in Nat
    BY <2>1 DEF FrontierInv, TypeOK, ShakeType, EngineType, Count, rd_cur_blk
  <2>3. rd_cur_blk < rd_hps_blk
    BY <2>1 DEF FrontierInv, PulseIsServed, reading
  <2> QED
    BY <2>1, <2>2, <2>3 DEF RingHolds
<1> QED
  BY <1>1, InitRead, StepRead, PTL DEF Spec

-----------------------------------------------------------------------------
(* The sectors asked for *)

\* The target holds a command that was sent to it and its length; reads are
\* asked for in the data phase of a read only, and writes are asked for only
\* if some command writes.
Served ==
  /\ {cdb, cmd} \subseteq Commands \cup {PowerUpCmd}
  /\ dataPhase => tlen = cmd.len
  /\ io_wr \/ wr_pending => \E c \in Commands : c.op = "write"
  /\ Exclusive /\ io_rd => reading

ServedInv == ReadInv /\ Served

LEMMA InitServed == Init => ServedInv
<1>1. ASSUME Init PROVE Served
  BY <1>1 DEF Init, TargetInit, TargetQuiet, Served, dataPhase
<1> QED
  BY <1>1, InitRead DEF ServedInv

LEMMA StepServes == ServedInv /\ [Next]_vars => ServedInv'
<1> SUFFICES ASSUME ServedInv, [Next]_vars PROVE ServedInv'
  OBVIOUS
<1>1. ReadInv /\ ReadInv' /\ TypeOK /\ Served /\ RingInv /\ QuietInv /\ CountInv /\ FrontierInv
  BY StepRead DEF ServedInv, ReadInv, RingInv, QuietInv, CountInv, FrontierInv
<1>2. CASE UNCHANGED vars
  <2>1. Served'
    BY <1>1, <1>2 DEF Served, Exclusive, reading, cmd_read, dataPhase,
       vars, busVars, shakeVars, engineVars, iniVars
  <2> QED
    BY <1>1, <2>1 DEF ServedInv
<1>3. CASE Next
  <2> USE <1>1
  <2>1. TargetClk /\ IniClk
    BY <1>3 DEF Next
  <2>2. {cdb', cmd'} \subseteq Commands \cup {PowerUpCmd}
    <3>1. cdb' = cdb \/ cdb' \in Commands
      BY <2>1 DEF IniClk, IniMove, IniWait, Select, RaiseReset, ReleaseSel, RaiseAck, DropAck,
         DropReset, busVars
    <3>2. cmd' = cmd \/ cmd' = cdb
      BY <2>1 DEF TargetClk, CommandBytes
    <3> QED
      BY <3>1, <3>2 DEF Served
  <2>3. ASSUME dataPhase' PROVE tlen' = cmd'.len
    <3>1. (phase = "CMD_IN" /\ cmd_cpl) \/ dataPhase
      BY <1>3, <2>3, PhaseFrom DEF dataPhase
    <3> QED
      BY <1>3, <3>1, CommandKept DEF Served, dataPhase
  <2>4. ASSUME io_wr' \/ wr_pending' PROVE \E c \in Commands : c.op = "write"
    <3>1. io_wr \/ wr_pending \/ req_wr
      BY <2>1, <2>4, EngineMoves DEF startFlush
    <3>2. req_wr => cmd \in Commands /\ cmd.op = "write"
      BY DEF req_wr, cmd_write, Served, PowerUpCmd
    <3> QED
      BY <3>1, <3>2 DEF Served
  <2>5. ASSUME Exclusive', io_rd' PROVE reading'
    <3>1. Exclusive
      BY <1>3, <2>5, ResetMoves, StepType DEF Exclusive, Next, TypeOK, IniType
    <3>2. (io_rd \/ startFetch) /\ ~rst
      BY <2>1, <2>5, EngineMoves
    <3>3. reading /\ (rd_busy \/ startFetch)
      BY <3>1, <3>2 DEF Served, RingInv, OneFetch, startFetch, req_rd, reading
    <3>4. OneFetch /\ rd_cur_blk <= rd_hps_blk
      BY <3>1, <3>3 DEF RingInv, FrontierInv, FrontierHolds, reading
    <3>5. rd_hps_blk < tlen.blk
      BY <3>3, <3>4 DEF OneFetch, startFetch, req_rd
    <3>6. ~data_done
      <4>1. data_done => data_cnt = tlen
        BY <3>3 DEF CountInv, BytesMoved, reading, dataPhase, data_len
      <4>2. tlen.blk \in Nat /\ rd_hps_blk \in Nat /\ rd_cur_blk \in Nat
        BY DEF TypeOK, ShakeType, EngineType, Count, rd_cur_blk
      <4> QED
        BY <3>4, <3>5, <4>1, <4>2 DEF rd_cur_blk
    <3>7. phase' = "DATA_OUT"
      BY <2>1, <3>2, <3>3, <3>6 DEF TargetClk, PhaseFsm, data_phase_complete, reading
    <3> QED
      BY <1>3, <3>3, <3>7, CommandKept DEF reading, cmd_read
  <2> QED
    BY <2>2, <2>3, <2>4, <2>5 DEF ServedInv, Served
<1> QED
  BY <1>2, <1>3

\* An initiator that only reads, and waits for the device before it selects,
\* never makes the target ask for a sector outside the command, whenever it
\* resets the bus.
THEOREM FetchesStayInRange ==
  ASSUME MaxEmpty = 0, ~Overlap, \A c \in Commands : c.op # "write"
  PROVE  Spec => RequestsStayInRange
<1>1. ASSUME ServedInv, [Next]_vars, hps.st = "idle", hps'.st = "taken"
      PROVE  (cmd_read \/ cmd_write) /\ InRange(hps'.lba, cmd)
  <2>1. Next /\ TypeOK /\ Exclusive
    <3>1. Exclusive /\ TypeOK
      BY <1>1 DEF Exclusive, ServedInv, ReadInv, RingInv, QuietInv, CountInv, FrontierInv
    <3>2. hps' # hps
      BY <1>1
    <3> QED
      BY <1>1, <3>1, <3>2 DEF vars, hpsVars
  <2>2. io_rd /\ ~io_wr /\ hps'.lba = lba
    <3>1. ~io_wr
      BY <1>1 DEF ServedInv, Served
    <3> QED
      BY <1>1, <2>1, <3>1, DeviceMoves DEF Next
  <2>3. reading /\ RightSector /\ OneFetch /\ tlen = cmd.len
    BY <1>1, <2>1, <2>2 DEF ServedInv, ReadInv, RingInv, Served, reading, dataPhase
  <2>4. rd_hps_blk < cmd.len.blk /\ lba = cmd.lba + rd_hps_blk
    BY <2>2, <2>3 DEF OneFetch, RightSector
  <2>5. rd_hps_blk \in Nat /\ cmd.lba \in Nat /\ cmd.len.blk \in Nat
    BY <2>1 DEF TypeOK, EngineType, ShakeType, CommandBlock, Count
  <2> QED
    BY <2>2, <2>3, <2>4, <2>5 DEF InRange, reading
<1> QED
  BY <1>1, InitServed, StepServes, PTL DEF Spec, RequestsStayInRange

-----------------------------------------------------------------------------
(* What an initiator writes *)

writing  == cmd_write /\ phase \in {"DATA_IN", "STATUS_OUT"}
inFlight == io_wr \/ hps.st # "idle" \/ old_io_ack
flushed  == lba - cmd.lba
edge     == req_wr /\ ~old_wr
One(b)   == IF b THEN 1 ELSE 0

\* The bytes the initiator sends for the k-th sector of its command.
sectorSent(k) == [o \in Offset |-> MacByte(commands, [blk |-> k, off |-> o])]

\* No reset so far, and the buffer takes the byte on the bus: this initiator
\* has no word beats.
PlainBus ==
  /\ rst => resets > 0
  /\ resets = 0 => ~rd_flush_pending
  /\ ~dma_word /\ ~wm_beat2 /\ ~store_low
  /\ stb_ack => old_ack
  /\ buffer_wr => old_ack \/ stb_adv
  /\ sd_buff_wr => hps.op = "read"

\* Only a write command asks for flushes, it asks for none if it has no
\* sectors, and none is left when its status byte is taken.
FlushesBelong ==
  /\ io_wr \/ wr_pending \/ (hps.st # "idle" /\ hps.op = "write") => writing /\ tlen # Zero
  /\ writing => ~io_rd /\ tlen = cmd.len /\ cmd \in Commands
  /\ writing /\ (hps.st # "idle" \/ old_io_ack) => hps.op = "write" /\ hps.lba = lba
  /\ phase = "STATUS_OUT" /\ cmd_write /\ (Pulse \/ status_sent) => ~wr_pending /\ ~inFlight
  /\ phase = "MESSAGE_OUT" /\ cmd_write => ~wr_pending /\ ~inFlight
  /\ phase = "CMD_IN" => sd_buff_sel = 0

\* The sectors sent are those flushed, the one in flight, the one queued and
\* the one whose end the engine has not seen yet: at most two, and one when a
\* byte comes in.
SectorsAddUp ==
  /\ lba >= cmd.lba /\ sd_buff_sel = flushed % 2
  /\ data_cnt.blk = flushed + One(wr_pending) + One(inFlight) + One(edge)
  /\ data_cnt.blk <= flushed + 2
  /\ wr_pending => inFlight \/ old_wr
  /\ phase = "DATA_IN" =>
       /\ Pulse => data_cnt.blk <= flushed + 1
       /\ edge => ~Pulse /\ settle > 0
       /\ data_cnt.blk < tlen.blk \/ data_cnt = tlen
       /\ data_cnt = tlen => data_done
  /\ phase = "STATUS_OUT" => old_wr /\ data_cnt = tlen /\ (data_complete \/ status_sent)

\* Each sector not yet flushed is in its half of the buffer, and so is the part
\* of the next one that has come in.
HalvesHold ==
  /\ \A j \in flushed .. data_cnt.blk - 1 : buf[j % 2] = sectorSent(j)
  /\ phase = "DATA_IN" =>
       /\ \A o \in 0 .. data_cnt.off - 1 : buf[wrSlot][o] = MacByte(commands, [blk |-> data_cnt.blk, off |-> o])
       /\ Pulse => din = MacByte(commands, data_cnt)
       /\ Pulse /\ (old_ack \/ ~ack) /\ ~stb_ack /\ ~buffer_wr =>
            buf[wrSlot][data_cnt.off] = MacByte(commands, data_cnt)
  /\ phase = "STATUS_OUT" => ~buffer_wr

\* The image holds what was flushed, and the sector in flight once the device
\* has collected it.
ImageHolds ==
  /\ \A j \in 0 .. flushed - 1 : cmd.lba + j \in Lba => disk[cmd.lba + j] = sectorSent(j)
  /\ (hps.st = "ack" /\ hps.done) \/ (hps.st = "idle" /\ old_io_ack) =>
       (lba \in Lba => disk[lba] = sectorSent(flushed))

FlushInv == ReadInv /\ Served /\ PlainBus
            /\ (resets = 0 => /\ FlushesBelong
                              /\ writing /\ tlen # Zero => SectorsAddUp)
WriteInv == FlushInv /\ (resets = 0 => WriteReachesDisk
                                       /\ (writing /\ tlen # Zero => HalvesHold /\ ImageHolds))

-----------------------------------------------------------------------------
(* The bus of this initiator *)

\* A clock without a reset that leaves a write going keeps what it is about.
LEMMA PlainStep == PlainBus /\ TypeOK /\ PulsesApart /\ Next => PlainBus'
<1> SUFFICES ASSUME PlainBus, TypeOK, PulsesApart, Next PROVE PlainBus'
  OBVIOUS
<1>1. TargetClk /\ IniClk /\ HpsClk /\ UNCHANGED <<dma_word, dma_lowbyte>>
  BY DEF Next
<1>2. resets \in Nat /\ resets' \in Nat /\ resets' >= resets
  BY <1>1, StepType, ResetMoves DEF TypeOK, IniType
<1>3. rst' => resets' > 0
  BY <1>1, <1>2, ResetMoves DEF PlainBus
<1>4. ASSUME resets' = 0 PROVE ~rd_flush_pending'
  <2>1. ~rst /\ ~rd_flush_pending
    BY <1>2, <1>4 DEF PlainBus
  <2> QED
    BY <1>1, <2>1, Zenon DEF TargetClk, BlockEngine
<1>5. ~dma_word' /\ ~wm_beat2' /\ ~store_low'
  BY <1>1 DEF TargetClk, BeatRole, PlainBus
<1>6. stb_ack' => old_ack'
  BY <1>1 DEF TargetClk, AckEdges
<1>7. buffer_wr' => old_ack' \/ stb_adv'
  <2>1. buffer_wr' => stb_ack
    BY <1>1 DEF TargetClk, SectorBuffer
  <2>2. (old_ack' <=> ack) /\ (stb_adv' <=> old_ack /\ ~ack)
    BY <1>1 DEF TargetClk, AckEdges
  <2> QED
    BY <2>1, <2>2 DEF PlainBus
<1>8. sd_buff_wr' => hps'.op = "read"
  BY <1>1, DeviceMoves
<1> QED
  BY <1>3, <1>4, <1>5, <1>6, <1>7, <1>8 DEF PlainBus

\* Where a write phase comes from.
LEMMA WritingFrom ==
  ASSUME QuietInv, Next, writing'
  PROVE  /\ ~rst /\ cmd' = cmd /\ cmd_write
         /\ \/ phase = "CMD_IN" /\ cmd_cpl /\ phase' = "DATA_IN"
            \/ /\ writing /\ tlen' = tlen /\ commands' = commands
               /\ \/ phase = "DATA_IN" /\ phase' = "DATA_IN" /\ ~data_done
                  \/ phase = "DATA_IN" /\ phase' = "STATUS_OUT" /\ data_done
                  \/ phase = "STATUS_OUT" /\ phase' = "STATUS_OUT" /\ ~status_sent
<1>1. TypeOK /\ PhaseFits
  BY DEF QuietInv, CountInv, FrontierInv
<1>2. ~rst /\ \/ phase = "CMD_IN" /\ cmd_cpl /\ phase' = "DATA_IN"
              \/ phase = "CMD_IN" /\ cmd_cpl /\ AfterCommand(cmd) = "STATUS_OUT"
              \/ phase = "DATA_IN" /\ phase' = "DATA_IN" /\ ~data_done
              \/ dataPhase /\ phase' = "STATUS_OUT" /\ data_done
              \/ phase = "STATUS_OUT" /\ phase' = "STATUS_OUT" /\ ~status_sent
  BY PhaseFrom DEF writing, data_phase_complete, dataPhase
<1>3. cmd' = cmd /\ cmd_write
  BY <1>1, <1>2, CommandKept DEF writing, cmd_write, dataPhase
<1>4. phase = "DATA_OUT" => ~cmd_write
  BY <1>1 DEF PhaseFits, cmd_write
<1>5. AfterCommand(cmd) = "DATA_IN"
  BY <1>3 DEF AfterCommand, cmd_write
<1>6. bsy => commands' = commands
  BY DEF Next, IniClk, IniMove, IniWait, Select, RaiseReset, ReleaseSel, RaiseAck, DropAck, DropReset
<1>7. phase \in {"DATA_IN", "STATUS_OUT"} => tlen' = tlen /\ commands' = commands
  BY <1>1, <1>6, CommandKept DEF bsy
<1> QED
  BY <1>2, <1>3, <1>4, <1>5, <1>7 DEF writing, dataPhase

-----------------------------------------------------------------------------
(* The block engine in a write *)

\* Nothing asked for, nothing in flight: nothing comes.
LEMMA NothingComes ==
  ASSUME TypeOK, Next, ~io_rd, ~io_wr, ~wr_pending, ~edge, hps.st = "idle"
  PROVE  ~wr_pending' /\ ~inFlight'
<1>1. ~io_ack /\ ~startFlush
  BY DEF io_ack, startFlush
<1>2. ~wr_pending' /\ ~io_wr' /\ ~old_io_ack'
  BY <1>1, EngineMoves DEF Next, edge
<1>3. hps'.st = "idle"
  BY DeviceMoves, StepType DEF Next, TypeOK, HpsType
<1> QED
  BY <1>2, <1>3 DEF inFlight

\* The engine serves one flush after the other.
LEMMA FlushMoves ==
  ASSUME TypeOK, RequestHeld, PlainBus, FlushesBelong, resets = 0, writing, Next
  PROVE  /\ io_ack <=> hps.st = "ack"
         /\ ackFall => inFlight /\ ~io_wr /\ hps.st = "idle" /\ old_io_ack
         /\ inFlight' <=> (inFlight /\ ~ackFall) \/ startFlush
         /\ startFlush /\ inFlight => ackFall
         /\ wr_pending' <=> ~startFlush /\ (wr_pending \/ edge)
         /\ wr_pending /\ ~startFlush => inFlight'
         /\ lba' = lba + One(ackFall)
         /\ sd_buff_sel' = IF ackFall THEN 1 - sd_buff_sel ELSE sd_buff_sel
         /\ old_wr' <=> req_wr
<1>1. TargetClk /\ HpsClk
  BY DEF Next
<1>2. ~rst /\ ~io_rd /\ ~rd_flush_pending /\ bsy
  BY DEF PlainBus, FlushesBelong, writing, bsy
<1>3. hps.st \in {"idle", "taken", "ack"} /\ hps'.st \in {"idle", "taken", "ack"}
  BY StepType DEF TypeOK, HpsType
<1>4. io_ack <=> hps.st = "ack"
  BY <1>2 DEF io_ack
<1>5. ackFall => inFlight /\ ~io_wr /\ hps.st = "idle" /\ old_io_ack
  BY <1>3, <1>4 DEF ackFall, RequestHeld, inFlight
<1>6. (io_wr' <=> ~io_ack /\ (io_wr \/ startFlush)) /\ (old_io_ack' <=> io_ack)
  BY <1>1, <1>2, EngineMoves
<1>7. ASSUME inFlight, ~ackFall PROVE inFlight'
  <2>1. CASE io_wr \/ hps.st = "ack" \/ old_io_ack
    BY <1>4, <1>6, <1>7, <2>1 DEF inFlight, ackFall
  <2>2. CASE hps.st = "taken"
    BY <1>1, <2>2, DeviceMoves DEF inFlight
  <2> QED
    BY <1>3, <1>7, <2>1, <2>2 DEF inFlight
<1>8. startFlush => inFlight'
  BY <1>6 DEF startFlush, inFlight
<1>9. ASSUME inFlight' PROVE (inFlight /\ ~ackFall) \/ startFlush
  <2>1. CASE io_wr'
    BY <1>5, <1>6, <2>1 DEF inFlight
  <2>2. CASE old_io_ack'
    BY <1>4, <1>6, <2>2 DEF inFlight, ackFall
  <2>3. CASE hps'.st # "idle"
    <3>1. CASE hps.st # "idle"
      BY <1>5, <3>1 DEF inFlight
    <3>2. CASE hps.st = "idle"
      <4>1. io_wr
        BY <1>1, <1>2, <1>3, <2>3, <3>2, DeviceMoves
      <4> QED
        BY <1>5, <4>1 DEF inFlight
    <3> QED
      BY <3>1, <3>2
  <2> QED
    BY <1>9, <2>1, <2>2, <2>3 DEF inFlight
<1>10. startFlush /\ inFlight => ackFall
  BY <1>2, <1>3, <1>4 DEF startFlush, inFlight, ackFall, RequestHeld
<1>11. wr_pending' <=> ~startFlush /\ (wr_pending \/ edge)
  BY <1>1, <1>2, EngineMoves DEF edge
<1>12. wr_pending /\ ~startFlush => inFlight'
  BY <1>6 DEF startFlush, inFlight
<1>13. lba' = lba + One(ackFall)
  BY <1>1, <1>2 DEF TargetClk, Parameters, One, writing, TypeOK, ShakeType
<1>14. sd_buff_sel' = IF ackFall THEN 1 - sd_buff_sel ELSE sd_buff_sel
  BY <1>1, <1>2 DEF TargetClk, RingFrontier
<1>15. old_wr' <=> req_wr
  <2>1. req_wr \in BOOLEAN
    BY DEF req_wr
  <2> QED
    BY <1>1, <1>2, <2>1 DEF TargetClk, BlockEngine
<1> QED
  BY <1>4, <1>5, <1>7, <1>8, <1>9, <1>10, <1>11, <1>12, <1>13, <1>14, <1>15

\* The parts of FlushInv that a step from an unreset state starts from.
LEMMA FlushParts ==
  ASSUME FlushInv, resets = 0
  PROVE  /\ TypeOK /\ FrontierInv /\ CountInv /\ QuietInv /\ BetweenCommands /\ RequestHeld
         /\ Served /\ PlainBus /\ FlushesBelong /\ InTurn /\ BytesMoved /\ PhaseFits
         /\ Exclusive
  BY DEF FlushInv, ReadInv, RingInv, QuietInv, CountInv, FrontierInv, Exclusive

\* An edge of req_wr belongs to a write in progress that has sectors, and the
\* status phase has none.
LEMMA EdgeInside ==
  ASSUME FlushInv, resets = 0
  PROVE  /\ edge => writing /\ tlen # Zero
         /\ phase = "STATUS_OUT" => ~edge
         /\ phase = "MESSAGE_OUT" => ~edge
<1>1. edge => writing /\ tlen # Zero
  BY DEF edge, req_wr, writing, data_len
<1>2. phase = "STATUS_OUT" => ~edge
  BY <1>1 DEF FlushInv, SectorsAddUp, edge
<1>3. phase = "MESSAGE_OUT" => ~edge
  BY <1>1 DEF writing
<1> QED
  BY <1>1, <1>2, <1>3

LEMMA StepBelongs ==
  ASSUME FlushInv, Next, resets = 0
  PROVE  FlushesBelong'
<1> USE FlushParts, EdgeInside
<1>1. TargetClk /\ HpsClk /\ IniClk
  BY DEF Next
<1>2. hps.st \in {"idle", "taken", "ack"} /\ hps'.st \in {"idle", "taken", "ack"}
  BY StepType DEF TypeOK, HpsType
<1>3. ASSUME io_wr' \/ wr_pending' \/ (hps'.st # "idle" /\ hps'.op = "write")
      PROVE  writing' /\ tlen' # Zero
  <2>1. io_wr \/ wr_pending \/ edge \/ (hps.st # "idle" /\ hps.op = "write")
    <3>1. CASE io_wr'
      BY <1>1, <3>1, EngineMoves DEF startFlush
    <3>2. CASE wr_pending'
      BY <1>1, <3>2, EngineMoves DEF edge
    <3>3. CASE hps'.st # "idle" /\ hps'.op = "write"
      BY <1>1, <1>2, <3>3, DeviceMoves
    <3> QED
      BY <1>3, <3>1, <3>2, <3>3
  <2>2. writing /\ tlen # Zero
    BY <2>1 DEF FlushesBelong
  <2>3. ~(phase = "STATUS_OUT" /\ status_sent)
    BY <2>1, <2>2 DEF FlushesBelong, inFlight, writing
  <2>4. ~rst
    BY DEF PlainBus
  <2>5. phase' \in {"DATA_IN", "STATUS_OUT"}
    BY <1>1, <2>2, <2>3, <2>4 DEF TargetClk, PhaseFsm, writing, data_phase_complete, dataPhase
  <2> QED
    BY <2>2, <2>5, CommandKept DEF writing, cmd_write
<1>4. ASSUME writing' PROVE ~io_rd' /\ tlen' = cmd'.len /\ cmd' \in Commands
  <2>1. cmd' \in Commands
    BY <1>4, WritingFrom DEF Served, PowerUpCmd, cmd_write
  <2>2. CASE phase = "CMD_IN" /\ cmd_cpl
    <3>1. Still'
      BY <2>2, StillStays DEF BetweenCommands, Still, LinesOff
    <3>2. tlen' = cmd.len /\ cmd' = cmd
      BY <2>2, CommandKept
    <3> QED
      BY <2>1, <3>1, <3>2 DEF Still, LinesOff
  <2>3. CASE writing
    <3>1. ~startFetch
      BY <2>3 DEF writing, startFetch, req_rd
    <3> QED
      BY <1>1, <1>4, <2>1, <2>3, <3>1, EngineMoves, WritingFrom DEF FlushesBelong, writing
  <2> QED
    BY <1>4, <2>2, <2>3, WritingFrom
<1>5. ASSUME writing', hps'.st # "idle" \/ old_io_ack' PROVE hps'.op = "write" /\ hps'.lba = lba'
  <2>1. CASE phase = "CMD_IN" /\ cmd_cpl
    <3>1. Still'
      BY <2>1, StillStays DEF BetweenCommands, Still, LinesOff
    <3> QED
      BY <1>5, <3>1 DEF Still
  <2>2. CASE writing
    <3>1. old_io_ack' <=> io_ack
      BY <1>1, EngineMoves
    <3>2. ~ackFall
      <4>1. CASE hps.st = "idle"
        <5>1. ~io_ack
          BY <4>1 DEF io_ack
        <5>2. io_rd \/ io_wr
          BY <1>1, <1>2, <1>5, <3>1, <4>1, <5>1, DeviceMoves
        <5> QED
          BY <5>2 DEF RequestHeld, ackFall
      <4>2. CASE hps.st # "idle"
        BY <2>2, <4>2, FlushMoves
      <4> QED
        BY <4>1, <4>2
    <3>3. lba' = lba
      BY <2>2, <3>2, FlushMoves DEF One, TypeOK, ShakeType
    <3>4. CASE hps.st # "idle"
      BY <1>1, <2>2, <3>3, <3>4, DeviceMoves DEF FlushesBelong
    <3>5. CASE hps.st = "idle"
      <4>1. ~io_ack /\ hps'.st = "taken"
        BY <1>1, <1>2, <1>5, <3>1, <3>5, DeviceMoves DEF io_ack
      <4>2. io_wr /\ hps'.op = "write" /\ hps'.lba = lba
        BY <1>1, <2>2, <3>5, <4>1, DeviceMoves DEF FlushesBelong
      <4> QED
        BY <3>3, <4>2
    <3> QED
      BY <3>4, <3>5
  <2> QED
    BY <1>5, <2>1, <2>2, WritingFrom
<1>6. ASSUME phase' = "STATUS_OUT", cmd_write', Pulse' \/ status_sent'
      PROVE  ~wr_pending' /\ ~inFlight'
  <2>1. writing'
    BY <1>6 DEF writing, cmd_write
  <2>2. status_sent' <=> phase = "STATUS_OUT" /\ (stb_adv \/ status_sent)
    BY <1>1, Zenon DEF TargetClk, SentFlags
  <2>3. CASE phase = "DATA_IN" /\ data_done
    <3>1. ~Pulse /\ ~byteReady
      BY <2>3 DEF BytesMoved, dataPhase, byteReady, req, req_bus, data_phase_complete
    <3> QED
      BY <1>6, <2>2, <2>3, <3>1, PulseStep
  <2>4. CASE phase = "STATUS_OUT" /\ ~status_sent /\ writing
    <3>1. CASE Pulse
      <4>1. ~wr_pending /\ ~inFlight /\ ~io_rd
        BY <2>4, <3>1 DEF FlushesBelong, writing
      <4> QED
        BY <2>4, <4>1, NothingComes DEF inFlight
    <3>2. CASE ~Pulse
      <4>1. byteReady
        BY <1>6, <2>2, <2>4, <3>2, PulseStep DEF Pulse
      <4>2. ~io_rd /\ ~io_wr /\ ~wr_pending /\ ~io_ack
        BY <2>4, <4>1 DEF byteReady, req, req_bus, io_busy, dataPhase
      <4>3. hps.st = "idle"
        BY <1>2, <2>4, <4>2 DEF RequestHeld, io_ack, bsy
      <4> QED
        BY <2>4, <4>2, <4>3, NothingComes
    <3> QED
      BY <3>1, <3>2
  <2> QED
    BY <1>6, <2>1, <2>3, <2>4, WritingFrom
<1>7. ASSUME phase' = "MESSAGE_OUT", cmd_write' PROVE ~wr_pending' /\ ~inFlight'
  <2>1. (phase = "STATUS_OUT" /\ status_sent) \/ phase = "MESSAGE_OUT"
    BY <1>7, PhaseFrom
  <2>2. cmd_write
    BY <1>7, <2>1, CommandKept DEF cmd_write
  <2>3. ~wr_pending /\ ~inFlight /\ ~io_rd
    BY <2>1, <2>2 DEF FlushesBelong, writing, Served, reading
  <2> QED
    BY <2>1, <2>3, NothingComes DEF inFlight
<1>8. phase' = "CMD_IN" => sd_buff_sel' = 0
  <2>1. phase = "CMD_IN" => ~ackFall
    BY DEF BetweenCommands, Still, ackFall
  <2> QED
    BY <1>1, <2>1, PhaseFrom DEF TargetClk, RingFrontier, bsy, FlushesBelong
<1> QED
  BY <1>3, <1>4, <1>5, <1>6, <1>7, <1>8 DEF FlushesBelong

-----------------------------------------------------------------------------
(* Sectors sent and sectors flushed *)

LEMMA WriteLength ==
  ASSUME FlushInv, resets = 0, writing \/ (phase = "CMD_IN" /\ cmd_write)
  PROVE  cmd.len.off = 0 /\ cmd.len \in Count /\ cmd.lba \in Nat
<1>1. cmd \in Commands
  BY DEF FlushInv, FlushesBelong, Served, PowerUpCmd, cmd_write
<1>2. cmd \in CommandBlock
  BY <1>1
<1> QED
  BY <1>1, <1>2 DEF CommandBlock, writing, cmd_write

\* How the byte counter of a write moves: it carries into the next sector only
\* from the last byte of one, and nothing moves it in the status phase.
LEMMA CountMoves ==
  ASSUME FlushInv, Next, resets = 0, writing, writing', tlen # Zero, SectorsAddUp
  PROVE  /\ phase' = "DATA_IN" /\ stb_adv =>
              /\ data_cnt' = Bump(data_cnt) /\ (data_complete' <=> Bump(data_cnt) = tlen)
              /\ ~edge /\ ~Pulse' /\ Pulse
         /\ phase' = "STATUS_OUT" \/ ~stb_adv => data_cnt' = data_cnt
         /\ phase' = "STATUS_OUT" => data_cnt = tlen /\ (data_complete' \/ status_sent')
         /\ phase' = "DATA_IN" => phase = "DATA_IN" /\ ~data_done
<1> USE FlushParts
<1>1. TargetClk /\ IniClk
  BY DEF Next
<1>2. CASE phase = "DATA_IN" /\ phase' = "DATA_IN" /\ ~data_done
  <2>1. stb_adv => Pulse /\ ~edge /\ ~Pulse'
    BY <1>2, PulseStep DEF SectorsAddUp, Pulse
  <2>2. stb_adv => data_cnt' = Bump(data_cnt) /\ (data_complete' <=> Bump(data_cnt) = tlen)
    BY <1>1, <1>2 DEF TargetClk, DataCount, transferPhase, dataPhase, data_done, data_len
  <2>3. ~stb_adv => data_cnt' = data_cnt
    BY <1>1, <1>2 DEF TargetClk, DataCount, transferPhase, dataPhase
  <2> QED
    BY <1>2, <2>1, <2>2, <2>3
<1>3. CASE phase = "DATA_IN" /\ phase' = "STATUS_OUT" /\ data_done
  <2>1. ~stb_adv /\ data_cnt = tlen /\ data_complete
    BY <1>3 DEF BytesMoved, dataPhase, Pulse, data_done, data_len
  <2>2. data_cnt' = data_cnt /\ data_complete' = data_complete
    BY <1>1, <1>3, <2>1 DEF TargetClk, DataCount, transferPhase, dataPhase
  <2> QED
    BY <1>3, <2>1, <2>2
<1>4. CASE phase = "STATUS_OUT" /\ phase' = "STATUS_OUT" /\ ~status_sent
  <2>1. data_complete /\ data_cnt = tlen
    BY <1>4 DEF SectorsAddUp
  <2>2. data_cnt' = data_cnt /\ (~stb_adv => data_complete' = data_complete)
    BY <1>1, <1>4, <2>1 DEF TargetClk, DataCount, transferPhase
  <2>3. stb_adv => status_sent'
    BY <1>1, <1>4 DEF TargetClk, SentFlags
  <2> QED
    BY <1>4, <2>1, <2>2, <2>3
<1> QED
  BY <1>2, <1>3, <1>4, WritingFrom DEF writing

\* A bump carries exactly at the end of a sector.
LEMMA BumpCarries ==
  ASSUME NEW n \in Count
  PROVE  /\ Bump(n).off = 0 <=> Bump(n).blk = n.blk + 1
         /\ Bump(n).off # 0 <=> Bump(n).blk = n.blk
         /\ Bump(n).off = 0 => n.off # 0 /\ n.off = SectorBytes - 1
         /\ Bump(n).off # 0 => Bump(n).off = n.off + 1
         /\ Bump(n) \in Count /\ Bump(n) # Zero
  BY DEF Bump, Count, Offset, Zero

LEMMA StepAddsUp ==
  ASSUME FlushInv, Next, resets = 0, writing', tlen' # Zero, ~Polled
  PROVE  SectorsAddUp'
<1> USE FlushParts
<1>1. TargetClk /\ HpsClk /\ IniClk
  BY DEF Next
<1>2. TypeOK'
  BY StepType
<1>3. CASE phase = "CMD_IN" /\ cmd_cpl /\ phase' = "DATA_IN"
  <2>1. Still'
    BY <1>3, StillStays DEF BetweenCommands, Still, LinesOff
  <2>2. lba' = cmd.lba /\ tlen' = cmd.len /\ cmd' = cmd /\ data_cnt' = Zero
    BY <1>1, <1>3, CommandKept, WritingFrom DEF TargetClk, DataCount, transferPhase, dataPhase
  <2>3. sd_buff_sel' = 0
    <3>1. ~ackFall
      BY <1>3 DEF BetweenCommands, Still, ackFall
    <3> QED
      BY <1>1, <1>3, <3>1 DEF TargetClk, RingFrontier, bsy, FlushesBelong
  <2>4. cmd.lba \in Nat /\ cmd.len \in Count /\ cmd.len.off = 0 /\ cmd.len # Zero
    BY <1>3, <2>2, WriteLength, WritingFrom
  <2>5. 0 < cmd.len.blk
    BY <2>4 DEF Count, Zero
  <2>6. flushed' = 0 /\ data_cnt'.blk = 0 /\ data_cnt' # tlen' /\ ~edge'
    <3>1. flushed' = 0
      BY <2>2, <2>4 DEF flushed
    <3>2. data_cnt'.blk = 0 /\ data_cnt' # tlen'
      BY <2>2, <2>4 DEF Zero
    <3>3. ~req_wr'
      BY <1>3, <2>2 DEF req_wr
    <3> QED
      BY <3>1, <3>2, <3>3 DEF edge
  <2>7. ~wr_pending' /\ ~inFlight'
    BY <2>1 DEF Still, LinesOff, inFlight
  <2>8. data_cnt'.blk < tlen'.blk
    BY <2>2, <2>5, <2>6
  <2> QED
    BY <1>3, <2>2, <2>3, <2>4, <2>6, <2>7, <2>8 DEF SectorsAddUp, One
<1>4. CASE writing /\ tlen' = tlen /\ commands' = commands
  <2>1. SectorsAddUp /\ tlen # Zero /\ cmd' = cmd
    BY <1>4, WritingFrom DEF FlushInv
  <2>2. /\ lba \in Nat /\ cmd.lba \in Nat /\ lba' \in Nat
        /\ data_cnt \in Count /\ data_cnt' \in Count /\ tlen \in Count /\ tlen.off = 0
        /\ data_cnt.blk \in Nat /\ data_cnt'.blk \in Nat /\ tlen.blk \in Nat
        /\ sd_buff_sel \in {0, 1}
    BY <1>2, <1>4, WriteLength DEF TypeOK, ShakeType, EngineType, Count, FlushesBelong
  <2>3. flushed \in Nat /\ flushed' = flushed + One(ackFall)
    <3>1. lba' = lba + One(ackFall) /\ lba >= cmd.lba
      BY <1>4, <2>1, FlushMoves DEF SectorsAddUp
    <3>2. One(ackFall) \in Nat
      BY DEF One
    <3> QED
      BY <2>1, <2>2, <3>1, <3>2 DEF flushed
  <2>4. lba' >= cmd'.lba /\ sd_buff_sel' = flushed' % 2
    <3>1. lba' >= cmd'.lba
      BY <1>4, <2>1, <2>2, FlushMoves DEF SectorsAddUp, One
    <3>2. CASE ackFall
      <4>1. flushed' = flushed + 1 /\ sd_buff_sel' = 1 - sd_buff_sel /\ sd_buff_sel = flushed % 2
        BY <1>4, <2>1, <2>3, <3>2, FlushMoves DEF One, SectorsAddUp
      <4> HIDE DEF flushed
      <4> QED
        BY <2>3, <3>1, <4>1
    <3>3. CASE ~ackFall
      <4>1. flushed' = flushed /\ sd_buff_sel' = sd_buff_sel
        BY <1>4, <2>1, <2>3, <3>3, FlushMoves DEF One
      <4> QED
        BY <2>1, <3>1, <4>1 DEF SectorsAddUp
    <3> QED
      BY <3>2, <3>3
  <2>5. edge => ~wr_pending
    BY <2>1, <2>2, <2>3 DEF SectorsAddUp, edge, One
  <2>6. data_cnt.blk = flushed' + One(wr_pending') + One(inFlight')
    <3>1. data_cnt.blk = flushed + One(wr_pending) + One(inFlight) + One(edge)
      BY <2>1 DEF SectorsAddUp
    <3>2. CASE ackFall
      <4>1. inFlight /\ (inFlight' <=> startFlush) /\ (wr_pending' <=> ~startFlush /\ (wr_pending \/ edge))
        BY <1>4, <3>2, FlushMoves
      <4>2. startFlush => wr_pending
        BY DEF startFlush
      <4> QED
        BY <2>2, <2>3, <2>5, <3>1, <3>2, <4>1, <4>2 DEF One
    <3>3. CASE ~ackFall
      <4>1. /\ inFlight' <=> inFlight \/ startFlush
            /\ wr_pending' <=> ~startFlush /\ (wr_pending \/ edge)
            /\ startFlush => ~inFlight
        BY <1>4, <3>3, FlushMoves
      <4>2. startFlush => wr_pending
        BY DEF startFlush
      <4> QED
        BY <2>2, <2>3, <2>5, <3>1, <3>3, <4>1, <4>2 DEF One
    <3> QED
      BY <3>2, <3>3
  <2>7. wr_pending' => inFlight' \/ old_wr'
    BY <1>4, FlushMoves DEF edge
  <2>8. CASE phase' = "DATA_IN"
    <3>1. phase = "DATA_IN" /\ ~data_done /\ data_cnt.blk < tlen.blk /\ cmd_write
      BY <1>4, <2>1, <2>8, CountMoves DEF SectorsAddUp, writing
    <3>2. CASE stb_adv
      <4>1. /\ data_cnt' = Bump(data_cnt) /\ (data_complete' <=> Bump(data_cnt) = tlen)
            /\ ~edge /\ ~Pulse' /\ Pulse
        BY <1>4, <2>1, <2>8, <3>2, CountMoves
      <4>2. settle' > 0
        <5>1. settle >= Settle - 1 /\ settle \in 0 .. Settle /\ settle' \in 0 .. Settle
          BY <1>2, <3>2 DEF FrontierInv, PulsesApart, TypeOK, IniType
        <5> QED
          BY <1>1, <5>1, AckMoves
      <4>3. CASE Bump(data_cnt).off = 0
        <5>1. data_cnt'.blk = data_cnt.blk + 1 /\ data_cnt'.off = 0 /\ data_cnt' # Zero /\ data_cnt.off # 0
          BY <2>2, <4>1, <4>3, BumpCarries
        <5>2. edge'
          BY <1>4, <2>1, <2>8, <3>1, <5>1, FlushMoves DEF edge, req_wr, data_len, cmd_write
        <5>3. data_cnt.blk <= flushed + 1
          BY <2>1, <3>1, <4>1 DEF SectorsAddUp
        <5>4. data_cnt'.blk <= flushed' + 2
          BY <2>2, <2>3, <5>1, <5>3 DEF One
        <5>5. data_cnt'.blk < tlen'.blk \/ data_cnt' = tlen'
          BY <1>4, <2>2, <3>1, <5>1 DEF Count
        <5>6. data_cnt' = tlen' => data_done'
          BY <1>4, <4>1 DEF data_done
        <5>7. data_cnt'.blk = flushed' + One(wr_pending') + One(inFlight') + One(edge')
          BY <2>2, <2>3, <2>6, <5>1, <5>2 DEF One
        <5> QED
          BY <2>4, <2>7, <2>8, <4>1, <4>2, <5>4, <5>5, <5>6, <5>7 DEF SectorsAddUp
      <4>4. CASE Bump(data_cnt).off # 0
        <5>1. data_cnt'.blk = data_cnt.blk /\ data_cnt'.off # 0
          BY <2>2, <4>1, <4>4, BumpCarries
        <5>2. ~edge'
          BY <2>8, <5>1 DEF edge, req_wr
        <5>3. data_cnt'.blk <= flushed' + 2
          BY <2>1, <2>2, <2>3, <5>1 DEF One, SectorsAddUp
        <5>4. data_cnt'.blk < tlen'.blk /\ data_cnt' # tlen'
          BY <1>4, <2>2, <3>1, <5>1
        <5>5. data_cnt'.blk = flushed' + One(wr_pending') + One(inFlight') + One(edge')
          BY <2>2, <2>3, <2>6, <5>1, <5>2 DEF One
        <5> QED
          BY <2>4, <2>7, <2>8, <4>1, <5>2, <5>3, <5>4, <5>5 DEF SectorsAddUp
      <4> QED
        BY <4>3, <4>4
    <3>3. CASE ~stb_adv
      <4>1. data_cnt' = data_cnt
        BY <1>4, <2>1, <3>3, CountMoves
      <4>2. ~edge'
        BY <1>4, <2>8, <3>1, <4>1, FlushMoves DEF edge, req_wr, data_len, cmd_write
      <4>3. data_cnt'.blk <= flushed' + 2
        BY <2>1, <2>2, <2>3, <4>1 DEF One, SectorsAddUp
      <4>4. data_cnt'.blk < tlen'.blk /\ data_cnt' # tlen'
        BY <1>4, <2>2, <3>1, <4>1
      <4>5. data_cnt'.blk = flushed' + One(wr_pending') + One(inFlight') + One(edge')
        BY <2>2, <2>3, <2>6, <4>1, <4>2 DEF One
      <4>6. ASSUME Pulse' PROVE data_cnt'.blk <= flushed' + 1
        <5>1. CASE Pulse
          <6>1. data_cnt.blk <= flushed + 1
            BY <2>1, <3>1, <5>1 DEF SectorsAddUp
          <6> QED
            BY <2>2, <2>3, <4>1, <6>1 DEF One
        <5>2. CASE ~Pulse
          <6>1. byteReady /\ settle = 0
            BY <4>6, <5>2, PulseStep
          <6>2. ~edge
            BY <2>1, <3>1, <6>1 DEF SectorsAddUp
          <6>3. ~(wr_pending /\ wrSlot = sd_buff_sel)
            BY <3>1, <6>1 DEF byteReady, req, io_busy
          <6>4. data_cnt.blk = flushed + 2 => wrSlot = sd_buff_sel
            <7>1. sd_buff_sel = flushed % 2
              BY <2>1 DEF SectorsAddUp
            <7> HIDE DEF flushed
            <7> QED
              BY <2>3, <7>1 DEF wrSlot
          <6>5. data_cnt.blk <= flushed + 2
                /\ data_cnt.blk = flushed + One(wr_pending) + One(inFlight) + One(edge)
            BY <2>1 DEF SectorsAddUp
          <6>6. data_cnt.blk <= flushed + 1
            BY <2>2, <2>3, <6>2, <6>3, <6>4, <6>5 DEF One
          <6> QED
            BY <2>2, <2>3, <4>1, <6>6 DEF One
        <5> QED
          BY <5>1, <5>2
      <4> QED
        BY <2>4, <2>7, <2>8, <4>2, <4>3, <4>4, <4>5, <4>6 DEF SectorsAddUp
    <3> QED
      BY <3>2, <3>3
  <2>9. CASE phase' = "STATUS_OUT"
    <3>1. data_cnt' = data_cnt /\ data_cnt = tlen /\ (data_complete' \/ status_sent')
      BY <1>4, <2>1, <2>9, CountMoves
    <3>2. req_wr
      <4>1. phase = "DATA_IN" \/ phase = "STATUS_OUT"
        BY <1>4 DEF writing
      <4> QED
        BY <1>4, <2>1, <2>2, <3>1, <4>1 DEF req_wr, writing, data_len
    <3>3. old_wr' /\ ~edge'
      BY <1>4, <3>2, FlushMoves DEF edge
    <3>4. data_cnt'.blk = flushed' + One(wr_pending') + One(inFlight') + One(edge')
      BY <2>2, <2>3, <2>6, <3>1, <3>3 DEF One
    <3>5. data_cnt'.blk <= flushed' + 2
      BY <2>1, <2>2, <2>3, <3>1 DEF One, SectorsAddUp
    <3> QED
      BY <1>4, <2>4, <2>7, <2>9, <3>1, <3>3, <3>4, <3>5 DEF SectorsAddUp
  <2> QED
    BY <2>8, <2>9 DEF writing
<1> QED
  BY <1>3, <1>4, WritingFrom

LEMMA InitFlush == Init => FlushInv
<1> SUFFICES ASSUME Init PROVE FlushInv
  OBVIOUS
<1>1. ReadInv /\ Served
  BY InitServed DEF ServedInv
<1>2. PlainBus
  BY DEF Init, TargetInit, TargetQuiet, HpsInit, PlainBus
<1>3. FlushesBelong
  BY DEF Init, TargetInit, TargetQuiet, HpsInit, FlushesBelong, writing, inFlight
<1>4. ~writing
  BY DEF Init, TargetInit, writing
<1> QED
  BY <1>1, <1>2, <1>3, <1>4 DEF FlushInv

LEMMA StepFlush ==
  ASSUME ~Polled PROVE FlushInv /\ [Next]_vars => FlushInv'
<1> SUFFICES ASSUME FlushInv, [Next]_vars PROVE FlushInv'
  OBVIOUS
<1>1. ReadInv' /\ Served' /\ PlainBus /\ TypeOK /\ PulsesApart
  BY StepServes DEF FlushInv, ServedInv, ReadInv, RingInv, QuietInv, CountInv, FrontierInv
<1>2. CASE UNCHANGED vars /\ UNCHANGED <<dma_word, dma_lowbyte>>
  <2>1. PlainBus'
    BY <1>1, <1>2 DEF PlainBus, vars, busVars, hpsVars, shakeVars, engineVars, bufferVars, iniVars
  <2>2. FlushesBelong => FlushesBelong'
    BY <1>2 DEF FlushesBelong, writing, inFlight, cmd_write, Pulse, vars, busVars, hpsVars, shakeVars,
       engineVars, iniVars
  <2>3. SectorsAddUp => SectorsAddUp'
    BY <1>2 DEF SectorsAddUp, flushed, inFlight, edge, One, req_wr, cmd_write, Pulse, data_done, data_len,
       vars, busVars, hpsVars, shakeVars, engineVars, iniVars
  <2>4. (writing' => writing) /\ tlen' = tlen /\ resets' = resets
    BY <1>2 DEF writing, cmd_write, vars, shakeVars, iniVars
  <2> QED
    BY <1>1, <2>1, <2>2, <2>3, <2>4 DEF FlushInv
<1>3. CASE Next
  <2>1. PlainBus'
    BY <1>1, <1>3, PlainStep
  <2>2. resets' = 0 => resets = 0
    BY <1>1, <1>3, ResetMoves, StepType DEF Next, TypeOK, IniType
  <2> QED
    BY <1>1, <1>3, <2>1, <2>2, StepBelongs, StepAddsUp DEF FlushInv
<1>4. UNCHANGED vars => UNCHANGED <<dma_word, dma_lowbyte>>
  BY DEF vars, busVars
<1> QED
  BY <1>2, <1>3, <1>4

\* A sector in flight is one the initiator has sent, so it is in the command.
LEMMA FlushInside ==
  ASSUME FlushInv, resets = 0, writing, tlen # Zero, inFlight
  PROVE  /\ flushed \in Nat /\ lba = cmd.lba + flushed
         /\ flushed < data_cnt.blk /\ flushed < cmd.len.blk
<1> USE FlushParts
<1>1. SectorsAddUp
  BY DEF FlushInv
<1>2. /\ lba \in Nat /\ cmd.lba \in Nat /\ data_cnt.blk \in Nat /\ tlen.blk \in Nat /\ tlen = cmd.len
  BY WriteLength DEF TypeOK, ShakeType, Count, FlushesBelong
<1>3. flushed \in Nat /\ lba = cmd.lba + flushed
  BY <1>1, <1>2 DEF SectorsAddUp, flushed
<1>4. flushed < data_cnt.blk
  <2>1. data_cnt.blk = flushed + One(wr_pending) + One(inFlight) + One(edge)
    BY <1>1 DEF SectorsAddUp
  <2> QED
    BY <1>2, <1>3, <2>1 DEF One
<1>5. data_cnt.blk <= tlen.blk
  <2>1. data_cnt.blk < tlen.blk \/ data_cnt = tlen
    BY <1>1 DEF SectorsAddUp, writing
  <2> QED
    BY <1>2, <2>1
<1> QED
  BY <1>2, <1>3, <1>4, <1>5

\* Before the first bus reset a sector of the image changes only while a write
\* command that covers it is served, for every image, command set and device.
THEOREM WritesInRange == ASSUME ~Polled PROVE Spec => WritesStayInRange
<1>1. ASSUME FlushInv, [Next]_vars, NEW l \in Lba, disk'[l] # disk[l], resets = 0
      PROVE  cmd_write /\ InRange(l, cmd)
  <2>1. Next /\ TypeOK
    BY <1>1, FlushParts DEF vars, hpsVars
  <2>2. HpsCollect /\ hps.st = "ack" /\ hps.op = "write"
    BY <1>1, <2>1, DeviceMoves DEF Next
  <2>3. writing /\ tlen # Zero /\ inFlight /\ hps.lba = lba
    BY <1>1, <2>2, FlushParts DEF FlushesBelong, inFlight
  <2>4. l = lba
    <3>1. disk \in [Lba -> [Offset -> Byte]]
      BY <2>1 DEF TypeOK, HpsType
    <3> QED
      BY <1>1, <2>2, <2>3, <3>1 DEF HpsCollect
  <2>5. flushed \in Nat /\ lba = cmd.lba + flushed /\ flushed < cmd.len.blk
    BY <1>1, <2>3, FlushInside
  <2>6. cmd.lba \in Nat /\ cmd.len.blk \in Nat
    BY <1>1, <2>3, WriteLength DEF Count
  <2> QED
    BY <2>3, <2>4, <2>5, <2>6 DEF InRange, writing
<1>2. FlushInv /\ [Next]_vars =>
        [\A l \in Lba : disk'[l] # disk[l] /\ resets = 0 => cmd_write /\ InRange(l, cmd)]_vars
  BY <1>1
<1> QED
  BY <1>2, InitFlush, StepFlush, PTL DEF Spec, WritesStayInRange

-----------------------------------------------------------------------------
(* The bytes on their way to the image *)

\* In a write the buffer changes only by the byte on the bus, stored at the
\* initiator's place during its pulse.
LEMMA WriteStores ==
  ASSUME FlushInv, resets = 0, writing, tlen # Zero, HalvesHold, Next
  PROVE  /\ buffer_wr => phase = "DATA_IN" /\ Pulse
         /\ buffer_wr => /\ buf'[wrSlot] = [buf[wrSlot] EXCEPT ![data_cnt.off] = din]
                         /\ \A s \in {0, 1} : s # wrSlot => buf'[s] = buf[s]
         /\ ~buffer_wr => buf' = buf
<1> USE FlushParts
<1>1. ~sd_buff_wr
  BY DEF RequestHeld, PlainBus, FlushesBelong
<1>2. buffer_wr => phase = "DATA_IN" /\ Pulse
  BY DEF HalvesHold, PlainBus, Pulse, writing
<1>3. storedByte = din
  BY DEF storedByte, PlainBus
<1>4. buf' = IF buffer_wr THEN [buf EXCEPT ![wrSlot][data_cnt.off] = din] ELSE buf
  BY <1>1, <1>2, <1>3 DEF Next, TargetClk, SectorBuffer, mac_slot
<1>5. buf \in [0 .. RingBlocks - 1 -> [Offset -> Byte]]
  BY DEF TypeOK, BufferType
<1>6. wrSlot \in {0, 1} /\ {0, 1} \subseteq 0 .. RingBlocks - 1
  BY DEF TypeOK, ShakeType, Count, wrSlot
<1> QED
  BY <1>2, <1>4, <1>5, <1>6

\* The pulse that ends has left its byte in the buffer.
LEMMA ByteStored ==
  ASSUME FlushInv, resets = 0, writing, tlen # Zero, HalvesHold, Next, phase = "DATA_IN", stb_adv
  PROVE  buf'[wrSlot][data_cnt.off] = MacByte(commands, data_cnt)
<1> USE FlushParts
<1>1. Pulse /\ ~ack /\ ~old_ack /\ ~stb_ack
  BY DEF Pulse, FrontierInv, PulsesApart, PlainBus
<1>2. buf \in [0 .. RingBlocks - 1 -> [Offset -> Byte]] /\ data_cnt.off \in Offset
      /\ wrSlot \in 0 .. RingBlocks - 1
  BY DEF TypeOK, BufferType, ShakeType, Count, wrSlot
<1>3. CASE buffer_wr
  BY <1>1, <1>2, <1>3, WriteStores DEF HalvesHold
<1>4. CASE ~buffer_wr
  BY <1>1, <1>4, WriteStores DEF HalvesHold
<1> QED
  BY <1>3, <1>4

LEMMA StepHalves ==
  ASSUME FlushInv, Next, resets = 0, writing /\ tlen # Zero => HalvesHold,
         writing', tlen' # Zero, ~Polled
  PROVE  HalvesHold'
<1> USE FlushParts
<1>1. TargetClk /\ HpsClk /\ IniClk
  BY DEF Next
<1>2. TypeOK'
  BY StepType
<1>3. CASE phase = "CMD_IN" /\ cmd_cpl /\ phase' = "DATA_IN"
  <2>1. lba' = cmd.lba /\ cmd' = cmd /\ data_cnt' = Zero
    BY <1>1, <1>3, CommandKept, WritingFrom DEF TargetClk, DataCount, transferPhase, dataPhase
  <2>2. ~Pulse'
    BY <1>3, PulseStep DEF FrontierInv, CommandEndsQuiet, PulsesApart, Pulse
  <2>3. flushed' = 0 /\ data_cnt'.blk = 0 /\ data_cnt'.off = 0
    BY <2>1, <1>2 DEF flushed, Zero, TypeOK, ShakeType, CommandBlock
  <2> QED
    BY <1>3, <2>2, <2>3 DEF HalvesHold
<1>4. CASE writing /\ tlen' = tlen /\ commands' = commands
  <2>1. SectorsAddUp /\ tlen # Zero /\ cmd' = cmd /\ HalvesHold
    BY <1>4, WritingFrom DEF FlushInv
  <2>2. /\ lba \in Nat /\ cmd.lba \in Nat /\ data_cnt \in Count /\ data_cnt' \in Count
        /\ data_cnt.blk \in Nat /\ data_cnt'.blk \in Nat
        /\ data_cnt.off \in Offset /\ data_cnt'.off \in Offset
    BY <1>2, <1>4, WriteLength DEF TypeOK, ShakeType, Count
  <2>3. flushed \in Nat /\ flushed' \in Nat /\ flushed' >= flushed
    <3>1. lba' = lba + One(ackFall) /\ lba >= cmd.lba
      BY <1>4, <2>1, FlushMoves DEF SectorsAddUp
    <3>2. One(ackFall) \in Nat
      BY DEF One
    <3> QED
      BY <2>1, <2>2, <3>1, <3>2 DEF flushed
  <2>4. buf' \in [0 .. RingBlocks - 1 -> [Offset -> Byte]] /\ {0, 1} \subseteq 0 .. RingBlocks - 1
    BY <1>2 DEF TypeOK, BufferType
  <2>5. \A k : sectorSent(k)' = sectorSent(k)
    BY <1>4 DEF sectorSent
  <2>6. buffer_wr => phase = "DATA_IN" /\ Pulse /\ data_cnt.blk <= flushed + 1
    BY <1>4, <2>1, WriteStores DEF SectorsAddUp
  <2>7. ASSUME NEW j \in flushed .. data_cnt.blk - 1 PROVE buf'[j % 2] = sectorSent(j)
    <3>1. j \in Nat /\ buf[j % 2] = sectorSent(j)
      BY <2>1, <2>2, <2>3 DEF HalvesHold
    <3>2. CASE buffer_wr
      <4>1. j + 1 = data_cnt.blk
        BY <2>2, <2>3, <2>6, <2>7, <3>1, <3>2
      <4>2. j % 2 # wrSlot /\ j % 2 \in {0, 1}
        BY <2>2, <3>1, <4>1 DEF wrSlot
      <4> QED
        BY <1>4, <2>1, <3>1, <3>2, <4>2, WriteStores
    <3>3. CASE ~buffer_wr
      BY <1>4, <2>1, <3>1, <3>3, WriteStores
    <3> QED
      BY <3>2, <3>3
  <2>8. wrSlot \in {0, 1} /\ buf'[wrSlot] \in [Offset -> Byte]
    BY <2>2, <2>4 DEF wrSlot
  <2>9. ASSUME phase = "DATA_IN", NEW o \in 0 .. data_cnt.off - 1
        PROVE  buf'[wrSlot][o] = MacByte(commands, [blk |-> data_cnt.blk, off |-> o])
    <3>1. o \in Offset /\ o # data_cnt.off
      BY <2>2 DEF Offset
    <3>2. buf[wrSlot][o] = MacByte(commands, [blk |-> data_cnt.blk, off |-> o])
      BY <2>1, <2>9, <3>1 DEF HalvesHold
    <3>3. buf[wrSlot] \in [Offset -> Byte]
      BY <2>4, <2>8 DEF TypeOK, BufferType
    <3> QED
      BY <1>4, <2>1, <3>1, <3>2, <3>3, WriteStores
  <2>10. CASE phase' = "STATUS_OUT"
    <3>1. data_cnt' = data_cnt
      BY <1>4, <2>1, <2>10, CountMoves
    <3>2. \A j \in flushed' .. data_cnt'.blk - 1 : buf'[j % 2] = sectorSent(j)'
      BY <2>2, <2>3, <2>5, <2>7, <3>1
    <3>3. ~buffer_wr'
      <4>1. phase = "DATA_IN" => ~Pulse
        BY <1>4, <2>1, <2>10, WritingFrom DEF BytesMoved, dataPhase
      <4> QED
        BY <1>1, <4>1 DEF TargetClk, SectorBuffer, PlainBus, Pulse
    <3> QED
      BY <2>10, <3>2, <3>3 DEF HalvesHold
  <2>11. CASE phase' = "DATA_IN" /\ stb_adv
    <3>1. phase = "DATA_IN" /\ data_cnt' = Bump(data_cnt) /\ ~Pulse'
      BY <1>4, <2>1, <2>11, CountMoves
    <3>2. buf'[wrSlot][data_cnt.off] = MacByte(commands, data_cnt)
      BY <1>4, <2>1, <2>11, <3>1, ByteStored
    <3>3. data_cnt = [blk |-> data_cnt.blk, off |-> data_cnt.off]
      BY <2>2 DEF Count
    <3>4. CASE Bump(data_cnt).off = 0
      <4>1. data_cnt'.blk = data_cnt.blk + 1 /\ data_cnt'.off = 0 /\ data_cnt.off = SectorBytes - 1
        BY <2>2, <3>1, <3>4, BumpCarries
      <4>2. \A o \in Offset : buf'[wrSlot][o] = MacByte(commands, [blk |-> data_cnt.blk, off |-> o])
        BY <2>2, <2>9, <3>1, <3>2, <3>3, <4>1 DEF Offset
      <4>3. buf'[wrSlot] = sectorSent(data_cnt.blk)
        BY <2>8, <4>2 DEF sectorSent
      <4>4. \A j \in flushed' .. data_cnt'.blk - 1 : buf'[j % 2] = sectorSent(j)'
        <5> TAKE j \in flushed' .. data_cnt'.blk - 1
        <5>1. j \in flushed .. data_cnt.blk - 1 \/ j = data_cnt.blk
          BY <2>2, <2>3, <4>1
        <5> QED
          BY <2>5, <2>7, <4>3, <5>1 DEF wrSlot
      <4> QED
        BY <2>11, <3>1, <4>1, <4>4 DEF HalvesHold
    <3>5. CASE Bump(data_cnt).off # 0
      <4>1. data_cnt'.blk = data_cnt.blk /\ data_cnt'.off = data_cnt.off + 1
        BY <2>2, <3>1, <3>5, BumpCarries
      <4>2. wrSlot' = wrSlot
        BY <4>1 DEF wrSlot
      <4>3. \A j \in flushed' .. data_cnt'.blk - 1 : buf'[j % 2] = sectorSent(j)'
        BY <2>2, <2>3, <2>5, <2>7, <4>1
      <4>4. ASSUME NEW o \in 0 .. data_cnt'.off - 1
            PROVE  buf'[wrSlot'][o] = MacByte(commands, [blk |-> data_cnt.blk, off |-> o])
        <5>1. o \in Offset /\ (o \in 0 .. data_cnt.off - 1 \/ o = data_cnt.off)
          BY <2>2, <4>1 DEF Offset
        <5>2. buf'[wrSlot][o] = MacByte(commands, [blk |-> data_cnt.blk, off |-> o])
          BY <2>9, <3>1, <3>2, <3>3, <5>1
        <5> QED
          BY <4>2, <5>2
      <4> QED
        BY <1>4, <2>11, <3>1, <4>1, <4>3, <4>4 DEF HalvesHold
    <3> QED
      BY <3>4, <3>5
  <2>12. CASE phase' = "DATA_IN" /\ ~stb_adv
    <3>1. phase = "DATA_IN" /\ data_cnt' = data_cnt /\ wrSlot' = wrSlot
      BY <1>4, <2>1, <2>12, CountMoves DEF wrSlot
    <3>2. \A j \in flushed' .. data_cnt'.blk - 1 : buf'[j % 2] = sectorSent(j)'
      BY <2>2, <2>3, <2>5, <2>7, <3>1
    <3>3. ASSUME NEW o \in 0 .. data_cnt'.off - 1
          PROVE  buf'[wrSlot'][o] = MacByte(commands, [blk |-> data_cnt.blk, off |-> o])
      <4>1. o \in Offset
        BY <2>2, <3>1 DEF Offset
      <4> QED
        BY <2>9, <3>1, <4>1
    <3>4. ASSUME Pulse' PROVE din' = MacByte(commands, data_cnt)
      <4>1. CASE Pulse
        <5>1. ~(~ack /\ ack')
          BY <1>1, <4>1, AckMoves DEF FrontierInv, PulsesApart, Pulse, TypeOK, IniType
        <5>2. din' = din
          BY <1>1, <5>1 DEF IniClk, IniMove, IniWait, Select, RaiseReset, ReleaseSel, RaiseAck, DropAck,
             DropReset, busVars
        <5> QED
          BY <2>1, <3>1, <4>1, <5>2 DEF HalvesHold
      <4>2. CASE ~Pulse
        <5>1. ~ack /\ ack'
          BY <3>4, <4>2, PulseStep DEF Pulse
        <5>2. din' = MacByte(commands, sent)
          BY <1>1, <3>1, <5>1 DEF IniClk, IniMove, IniWait, Select, RaiseReset, ReleaseSel, RaiseAck,
             DropAck, DropReset, busVars, dataPhase
        <5>3. sent = data_cnt
          BY <3>1, <4>2 DEF BytesMoved, dataPhase
        <5> QED
          BY <5>2, <5>3
      <4> QED
        BY <4>1, <4>2
    <3>5. ASSUME Pulse', old_ack' \/ ~ack', ~stb_ack', ~buffer_wr'
          PROVE  buf'[wrSlot'][data_cnt'.off] = MacByte(commands, data_cnt)
      <4>1. (old_ack' <=> ack) /\ (stb_ack' <=> ack /\ ~old_ack) /\ (buffer_wr' <=> stb_ack)
        BY <1>1, <3>1 DEF TargetClk, AckEdges, SectorBuffer, TypeOK, ShakeType, BusType
      <4>2. Pulse
        BY <3>5, <4>1, PulseStep DEF Pulse
      <4>3. (old_ack \/ ~ack) /\ ~stb_ack
        BY <3>5, <4>1
      <4>4. CASE buffer_wr
        <5>1. buf[wrSlot] \in [Offset -> Byte]
          BY <2>4, <2>8 DEF TypeOK, BufferType
        <5>2. din = MacByte(commands, data_cnt)
          BY <2>1, <3>1, <4>2 DEF HalvesHold
        <5> QED
          BY <1>4, <2>1, <2>2, <3>1, <4>4, <5>1, <5>2, WriteStores
      <4>5. CASE ~buffer_wr
        BY <1>4, <2>1, <3>1, <4>2, <4>3, <4>5, WriteStores DEF HalvesHold
      <4> QED
        BY <4>4, <4>5
    <3> QED
      BY <1>4, <2>12, <3>1, <3>2, <3>3, <3>4, <3>5 DEF HalvesHold
  <2> QED
    BY <2>10, <2>11, <2>12 DEF writing
<1> QED
  BY <1>3, <1>4, WritingFrom

\* What a device that serves a write does to the image.
LEMMA CollectMoves ==
  ASSUME TypeOK, HpsClk, hps.op = "write", hps.st # "idle"
  PROVE  /\ hps'.st = "ack" /\ hps'.done =>
              hps.st = "ack" /\ ((hps.done /\ disk' = disk) \/ HpsCollect)
         /\ hps'.st = "idle" => hps.st = "ack" /\ hps.done /\ disk' = disk
<1> USE DEF TypeOK, HpsType
<1>1. CASE HpsQuiet
  BY <1>1 DEF HpsQuiet
<1>2. CASE HpsPoll
  BY <1>2 DEF HpsPoll
<1>3. CASE HpsOpenWindow
  BY <1>3 DEF HpsOpenWindow, HpsAt
<1>4. CASE HpsStream
  BY <1>4 DEF HpsStream, HpsAt
<1>5. CASE HpsCollect
  BY <1>5 DEF HpsCollect, HpsAt
<1>6. CASE HpsCloseWindow
  BY <1>6 DEF HpsCloseWindow, HpsAt
<1> QED
  BY <1>1, <1>2, <1>3, <1>4, <1>5, <1>6 DEF HpsClk, HpsMove

\* A clock changes the image at most at the sector in flight, and then to the
\* bytes sent for it.
LEMMA ImageMoves ==
  ASSUME FlushInv, Next, resets = 0, writing, tlen # Zero, HalvesHold
  PROVE  /\ disk' = disk \/ HpsCollect
         /\ HpsCollect =>
              /\ inFlight /\ lba = cmd.lba + flushed
              /\ lba \in Lba => disk'[lba] = sectorSent(flushed)
              /\ \A l \in Lba : l # lba => disk'[l] = disk[l]
<1> USE FlushParts
<1>1. disk' = disk \/ HpsCollect
  BY DeviceMoves DEF Next
<1>2. ASSUME HpsCollect
      PROVE  /\ inFlight /\ lba = cmd.lba + flushed
             /\ lba \in Lba => disk'[lba] = sectorSent(flushed)
             /\ \A l \in Lba : l # lba => disk'[l] = disk[l]
  <2>1. inFlight /\ hps.lba = lba
    BY <1>2 DEF HpsCollect, FlushesBelong, inFlight
  <2>2. flushed \in Nat /\ lba = cmd.lba + flushed /\ flushed < data_cnt.blk
    BY <2>1, FlushInside
  <2>3. hps_slot = flushed % 2
    BY DEF hps_slot, FlushInv, SectorsAddUp, writing
  <2>4. buf[flushed % 2] = sectorSent(flushed)
    <3>1. flushed \in flushed .. data_cnt.blk - 1
      BY <2>2 DEF TypeOK, ShakeType, Count
    <3> QED
      BY <3>1 DEF HalvesHold
  <2>5. disk \in [Lba -> [Offset -> Byte]]
    BY DEF TypeOK, HpsType
  <2> QED
    BY <1>2, <2>1, <2>2, <2>3, <2>4, <2>5 DEF HpsCollect
<1> QED
  BY <1>1, <1>2

LEMMA StepImage ==
  ASSUME FlushInv, Next, resets = 0, writing /\ tlen # Zero => HalvesHold /\ ImageHolds,
         writing', tlen' # Zero
  PROVE  ImageHolds'
<1> USE FlushParts
<1>1. TargetClk /\ HpsClk
  BY DEF Next
<1>2. CASE phase = "CMD_IN" /\ cmd_cpl /\ phase' = "DATA_IN"
  <2>1. Still'
    BY <1>2, StillStays DEF BetweenCommands, Still, LinesOff
  <2>2. lba' = cmd.lba /\ cmd' = cmd /\ cmd.lba \in Nat
    BY <1>2, CommandKept, WritingFrom DEF TypeOK, ShakeType, CommandBlock
  <2>3. flushed' = 0
    BY <2>2 DEF flushed
  <2> QED
    BY <2>1, <2>3 DEF ImageHolds, Still
<1>3. CASE writing /\ tlen' = tlen /\ commands' = commands
  <2>1. SectorsAddUp /\ tlen # Zero /\ cmd' = cmd /\ HalvesHold /\ ImageHolds
    BY <1>3, WritingFrom DEF FlushInv
  <2>2. lba \in Nat /\ cmd.lba \in Nat /\ flushed \in Nat
    <3>1. lba \in Nat /\ cmd.lba \in Nat
      BY <1>3, WriteLength DEF TypeOK, ShakeType
    <3> QED
      BY <2>1, <3>1 DEF SectorsAddUp, flushed
  <2>3. lba' = lba + One(ackFall) /\ flushed' = flushed + One(ackFall) /\ One(ackFall) \in {0, 1}
    <3>1. lba' = lba + One(ackFall) /\ One(ackFall) \in {0, 1}
      BY <1>3, <2>1, FlushMoves DEF One
    <3> QED
      BY <2>1, <2>2, <3>1 DEF flushed
  <2>4. \A k : sectorSent(k)' = sectorSent(k)
    BY <1>3 DEF sectorSent
  <2>5. /\ disk' = disk \/ HpsCollect
        /\ HpsCollect => /\ lba = cmd.lba + flushed
                         /\ lba \in Lba => disk'[lba] = sectorSent(flushed)
                         /\ \A l \in Lba : l # lba => disk'[l] = disk[l]
    BY <1>3, <2>1, ImageMoves
  <2>6. \A j \in 0 .. flushed - 1 : cmd.lba + j \in Lba => disk'[cmd.lba + j] = sectorSent(j)
    <3> TAKE j \in 0 .. flushed - 1
    <3>1. cmd.lba + j # cmd.lba + flushed
      BY <2>2
    <3> QED
      BY <2>1, <2>5, <3>1 DEF ImageHolds
  <2>7. CASE ackFall
    <3>1. hps.st = "idle" /\ old_io_ack /\ inFlight
      BY <1>3, <2>1, <2>7, FlushMoves
    <3>2. disk' = disk /\ lba = cmd.lba + flushed
      BY <1>3, <2>1, <2>5, <3>1, FlushInside DEF HpsCollect
    <3>3. lba \in Lba => disk'[lba] = sectorSent(flushed)
      BY <2>1, <3>1, <3>2 DEF ImageHolds
    <3>4. \A j \in 0 .. flushed' - 1 : cmd'.lba + j \in Lba => disk'[cmd'.lba + j] = sectorSent(j)'
      <4> TAKE j \in 0 .. flushed' - 1
      <4>1. j \in 0 .. flushed - 1 \/ j = flushed
        BY <2>2, <2>3, <2>7 DEF One
      <4> QED
        BY <2>1, <2>4, <2>6, <3>2, <3>3, <4>1
    <3>5. ~old_io_ack' /\ hps'.st # "ack"
      BY <1>1, <2>7, <3>1, EngineMoves, DeviceMoves DEF ackFall
    <3> QED
      BY <3>4, <3>5 DEF ImageHolds
  <2>8. CASE ~ackFall
    <3>1. lba' = lba /\ flushed' = flushed
      BY <2>2, <2>3, <2>8 DEF One
    <3>2. \A j \in 0 .. flushed' - 1 : cmd'.lba + j \in Lba => disk'[cmd'.lba + j] = sectorSent(j)'
      BY <2>1, <2>4, <2>6, <3>1
    <3>3. ASSUME (hps'.st = "ack" /\ hps'.done) \/ (hps'.st = "idle" /\ old_io_ack'), lba \in Lba
          PROVE  disk'[lba] = sectorSent(flushed)
      <4>1. hps.st # "idle"
        BY <1>1, <3>3, EngineMoves, DeviceMoves DEF io_ack
      <4>2. hps.op = "write"
        BY <1>3, <4>1 DEF FlushesBelong
      <4>3. (hps.st = "ack" /\ hps.done /\ disk' = disk) \/ HpsCollect
        BY <1>1, <3>3, <4>1, <4>2, CollectMoves
      <4> QED
        BY <2>1, <2>5, <3>3, <4>3 DEF ImageHolds
    <3> QED
      BY <2>4, <3>1, <3>2, <3>3 DEF ImageHolds
  <2> QED
    BY <2>7, <2>8
<1> QED
  BY <1>2, <1>3, WritingFrom

LEMMA StepReaches ==
  ASSUME FlushInv, Next, resets = 0, WriteReachesDisk,
         writing /\ tlen # Zero => HalvesHold /\ ImageHolds
  PROVE  WriteReachesDisk'
<1> USE FlushParts
<1> SUFFICES ASSUME phase' = "MESSAGE_OUT", cmd_write'
             PROVE  \A k \in 0 .. cmd'.len.blk - 1 :
                      cmd'.lba + k \in Lba => disk'[cmd'.lba + k] = sectorSent(k)'
  BY DEF WriteReachesDisk, sectorSent
<1>1. (phase = "STATUS_OUT" /\ status_sent) \/ phase = "MESSAGE_OUT"
  BY PhaseFrom
<1>2. cmd' = cmd /\ cmd_write
  BY <1>1, CommandKept DEF cmd_write
<1>3. commands' = commands
  BY <1>1 DEF Next, IniClk, IniMove, IniWait, Select, RaiseReset, ReleaseSel, RaiseAck, DropAck,
     DropReset, bsy
<1>4. ~wr_pending /\ ~inFlight
  BY <1>1, <1>2 DEF FlushesBelong
<1>5. disk' = disk
  BY <1>4, DeviceMoves DEF Next, inFlight
<1>6. \A k : sectorSent(k)' = sectorSent(k)
  BY <1>3 DEF sectorSent
<1>7. CASE phase = "MESSAGE_OUT"
  BY <1>2, <1>5, <1>6, <1>7 DEF WriteReachesDisk, sectorSent
<1>8. CASE phase = "STATUS_OUT" /\ status_sent
  <2>1. writing /\ tlen = cmd.len /\ cmd.len \in Count
    BY <1>2, <1>8, WriteLength DEF writing, FlushesBelong
  <2>2. CASE tlen = Zero
    BY <1>2, <2>1, <2>2 DEF Zero
  <2>3. CASE tlen # Zero
    <3>1. SectorsAddUp /\ ImageHolds
      BY <2>1, <2>3 DEF FlushInv
    <3>2. lba \in Nat /\ cmd.lba \in Nat /\ lba >= cmd.lba
      BY <2>1, <3>1, WriteLength DEF SectorsAddUp, TypeOK, ShakeType
    <3>3. cmd.len.blk = flushed
      <4>1. ~edge /\ data_cnt = tlen
        BY <1>8, <3>1 DEF SectorsAddUp, edge
      <4>2. flushed \in Nat
        BY <3>2 DEF flushed
      <4> QED
        BY <1>4, <2>1, <3>1, <4>1, <4>2 DEF SectorsAddUp, One
    <3> QED
      BY <1>2, <1>5, <1>6, <3>1, <3>3 DEF ImageHolds
  <2> QED
    BY <2>2, <2>3
<1> QED
  BY <1>1, <1>7, <1>8

LEMMA StepWrite ==
  ASSUME ~Polled PROVE WriteInv /\ [Next]_vars => WriteInv'
<1> SUFFICES ASSUME WriteInv, [Next]_vars PROVE WriteInv'
  OBVIOUS
<1>1. FlushInv /\ FlushInv' /\ TypeOK
  BY StepFlush DEF WriteInv, FlushInv, ReadInv, RingInv, QuietInv, CountInv, FrontierInv
<1>2. CASE UNCHANGED vars
  <2>1. WriteReachesDisk => WriteReachesDisk'
    BY <1>2 DEF WriteReachesDisk, cmd_write, vars, hpsVars, shakeVars, iniVars
  <2>2. HalvesHold => HalvesHold'
    BY <1>2 DEF HalvesHold, flushed, sectorSent, wrSlot, Pulse, vars, busVars, shakeVars, engineVars,
       bufferVars, iniVars
  <2>3. ImageHolds => ImageHolds'
    BY <1>2 DEF ImageHolds, flushed, sectorSent, vars, hpsVars, shakeVars, engineVars, iniVars
  <2>4. (writing' => writing) /\ tlen' = tlen /\ resets' = resets
    BY <1>2 DEF writing, cmd_write, vars, shakeVars, iniVars
  <2> QED
    BY <1>1, <2>1, <2>2, <2>3, <2>4 DEF WriteInv
<1>3. CASE Next
  <2>1. resets' = 0 => resets = 0
    BY <1>1, <1>3, ResetMoves, StepType DEF Next, TypeOK, IniType
  <2> QED
    BY <1>1, <1>3, <2>1, StepHalves, StepImage, StepReaches DEF WriteInv
<1> QED
  BY <1>2, <1>3

\* When a write command completes, every sector it covers holds the bytes sent
\* for it, for every sector size, transfer length and device timing, provided
\* the initiator paces on the DMA request and has never reset the bus.
THEOREM WritesArrive == ASSUME ~Polled PROVE Spec => []WriteReachesDisk
<1>1. Init => WriteInv
  BY InitFlush DEF WriteInv, Init, TargetInit, WriteReachesDisk, writing
<1>2. WriteInv => WriteReachesDisk
  BY DEF WriteInv, WriteReachesDisk
<1> QED
  BY <1>1, <1>2, StepWrite, PTL DEF Spec

\* Without bus resets the target asks the device only for sectors of the
\* command it serves: a fetch for each sector of a read and none past its end,
\* a flush for each sector of a write.
THEOREM RequestsInRange ==
  ASSUME ~Polled, MaxEmpty = 0, MaxResets = 0 PROVE Spec => RequestsStayInRange
<1> DEFINE Inv == FlushInv /\ resets = 0
<1>1. Init => Inv
  BY InitFlush DEF Init
<1>2. Inv /\ [Next]_vars => Inv'
  <2> SUFFICES ASSUME Inv, [Next]_vars PROVE Inv'
    OBVIOUS
  <2>1. resets' = 0
    BY FlushParts DEF Next, IniClk, IniMove, IniWait, Select, RaiseReset, ReleaseSel, RaiseAck, DropAck,
       DropReset, vars, iniVars
  <2> QED
    BY <2>1, StepFlush
<1>3. ASSUME Inv, [Next]_vars, hps.st = "idle", hps'.st = "taken"
      PROVE  (cmd_read \/ cmd_write) /\ InRange(hps'.lba, cmd)
  <2> USE <1>3, FlushParts
  <2>1. Next /\ HpsClk
    BY DEF vars, hpsVars, Next
  <2>2. (io_rd \/ io_wr) /\ hps'.lba = lba
    BY <2>1, DeviceMoves
  <2>3. cmd.lba \in Nat /\ cmd.len.blk \in Nat /\ rd_hps_blk \in Nat
    BY DEF TypeOK, ShakeType, EngineType, CommandBlock, Count
  <2>4. CASE io_wr
    <3>1. writing /\ flushed \in Nat /\ lba = cmd.lba + flushed /\ flushed < cmd.len.blk
      BY <2>4, FlushInside DEF FlushesBelong, inFlight
    <3> QED
      BY <2>2, <2>3, <3>1 DEF InRange, writing
  <2>5. CASE io_rd
    <3>1. reading /\ tlen = cmd.len
      BY <2>5 DEF Served, reading, dataPhase
    <3>2. rd_hps_blk < tlen.blk /\ lba = cmd.lba + rd_hps_blk
      BY <2>5, <3>1 DEF FlushInv, ReadInv, RingInv, OneFetch, RightSector
    <3> QED
      BY <2>2, <2>3, <3>1, <3>2 DEF InRange, reading
  <2> QED
    BY <2>2, <2>4, <2>5
<1> QED
  BY <1>1, <1>2, <1>3, PTL DEF Spec, RequestsStayInRange
=============================================================================
