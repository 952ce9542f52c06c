---------------------------- MODULE ScsiDmaProofs ----------------------------
(***************************************************************************)
(* Proofs about ScsiDma, for every sector size, ring depth, command, set   *)
(* of units, gap and sampling delay.                                       *)
(***************************************************************************)
EXTENDS ScsiDma, TLAPS

USE EmptyAssumption, SectorAssumption, RingAssumption, CommandAssumption, DriverAssumption

One(b) == IF b THEN 1 ELSE 0

\* A count of bytes as one number.
bytes(c) == c.blk * SectorBytes + c.off

\* What the CPU has taken ahead of the bytes it has moved: the second half of
\* a longword.
ahead == IF pc = "second" THEN 2 ELSE 0

\* A bus cycle is over and the controller is about to see it; for all but the
\* second half of a longword a train of that many pulses begins.
over   == cpu.st = "off" /\ (old_dma_rd \/ old_dma_wr)
begins == over /\ (old_dma_wr \/ ~dma_suppress_ack)
unit   == IF old_dma_rd /\ dma_longword THEN 4 ELSE IF dma_word THEN 2 ELSE 1

\* Pulses of the train the target has not counted yet: those to come, the one
\* on the bus and the two in the target's edge registers.
left == (dma_ack_holdoff + 1) \div 2 + One(dma_ack) + One(dma_settle = 4) + One(dma_settle = 3)
due  == left + IF begins THEN unit ELSE 0

polling  == pc \in {"poll", "ack", "done"}
dataOf   == AfterCommand(cmd)

-----------------------------------------------------------------------------
(* The invariant behind the counts *)

CpuCycle == [st : {"off", "wait", "dtack"}, dir : {"read", "write"}, word : BOOLEAN,
             long : BOOLEAN, second : BOOLEAN, hi : Byte, lo : Byte, timer : Nat]

Kinds ==
  /\ TypeOK
  /\ cpu \in CpuCycle /\ phase \in Phases /\ cmd \in Commands /\ cdb = cmd /\ rst = FALSE /\ sel = FALSE
  /\ data_cnt \in Count /\ tlen \in Count /\ commands \in Nat
  /\ {data_complete, icr_ack, ack, old_ack, stb_ack, stb_adv, status_sent, message_sent,
      old_dma_rd, old_dma_wr, dma_word, dma_longword, dma_second_word, dma_suppress_ack,
      dma_longword_second_pending, pmatch_d, rst_rd} \subseteq BOOLEAN

\* The train as its three counters show it, and the target's edge registers
\* two clocks behind the acknowledge.
Train ==
  /\ ack <=> icr_ack \/ dma_ack
  /\ dma_ack => dma_ack_holdoff % 2 = 0 /\ dma_settle \in {0, 3}
  /\ dma_ack_holdoff % 2 = 1 => ~dma_ack /\ dma_settle = 4
  /\ dma_ack_holdoff > 0 /\ dma_ack_holdoff % 2 = 0 => dma_ack
  /\ cpu.st = "dtack" \/ over => ~dma_ack_busy
  /\ IF polling THEN ~dma_ack /\ dma_ack_holdoff = 0 /\ dma_settle < 3
                ELSE /\ ~icr_ack
                     /\ (old_ack <=> dma_settle = 4) /\ (stb_ack <=> dma_settle = 4)
                     /\ (stb_adv <=> dma_settle = 3)

\* The cycle the CPU drives and the controller's latches of it.
Cycle ==
  /\ old_dma_rd => cmd_read
  /\ old_dma_wr => cmd_write /\ ~dma_longword
  /\ over => gap = MinGap /\ pc \in {"move", "second", "off"}
  /\ over /\ old_dma_rd =>
       IF pc = "second" THEN dma_word /\ dma_longword /\ ~dma_suppress_ack /\ ~dma_second_word
                        ELSE dma_longword => dma_suppress_ack
  /\ over /\ old_dma_wr => pc # "second"
  /\ pc = "second" => cmd_read
  /\ pc = "second" /\ ~(cpu.st # "off" /\ old_dma_rd) => dma_longword_second_pending
  /\ cpu.st # "off" =>
       /\ pc \in {"move", "second"} /\ (cpu.second <=> pc = "second")
       /\ IF cpu.dir = "read" THEN cmd_read /\ ~old_dma_wr ELSE cmd_write /\ ~old_dma_rd /\ ~cpu.long
       /\ (cpu.long => cpu.word) /\ (cpu.second => cpu.long)
       /\ cpu.st = "dtack" \/ cpu.timer = 0 => old_dma_rd \/ old_dma_wr
       /\ old_dma_rd \/ old_dma_wr =>
            /\ (dma_word <=> cpu.word) /\ (dma_longword <=> cpu.long) /\ (dma_second_word <=> cpu.second)
            /\ old_dma_rd => /\ dma_suppress_ack <=> cpu.second
                             /\ cpu.long /\ ~cpu.second => dma_longword_second_pending

\* How far a cycle goes.
size == IF cpu.long THEN 4 ELSE IF cpu.word THEN 2 ELSE 1
InBounds == /\ moved + ahead <= length
            /\ cpu.st # "off" /\ pc = "move" => moved + size <= length

\* What the driver and the target know of each other's place in the dialog.
Places ==
  /\ phase = "CMD_IN" => /\ pc = "tcr" /\ data_cnt = Zero /\ ~data_complete
                         /\ ~status_sent /\ ~message_sent
  /\ phase \in {"CMD_IN", "DATA_OUT", "DATA_IN"} => ~status_sent /\ ~message_sent
  /\ status_sent \/ message_sent => polling
  /\ phase # "CMD_IN" => tlen = cmd.len
  /\ dataPhase => phase = dataOf
  /\ pc = "tcr" => tcr = {"cd"} /\ moved = 0 /\ due = 0
  /\ pc # "tcr" => /\ dataOf \in {"DATA_OUT", "DATA_IN"} /\ tcr = Lines(dataOf)
                   /\ phase # "CMD_IN"
  /\ pc \in {"mode", "start"} => moved = 0 /\ due = 0
  /\ mr_dma <=> (pc \in {"start", "move", "second", "off"})
  /\ pc \in {"move", "second", "off"} => dma_en
  /\ pc \in {"off", "sleep"} \/ polling => moved = length
  /\ pc = "sleep" \/ polling => ~over
  /\ polling => ~dataPhase
  /\ phase \in {"MESSAGE_OUT", "IDLE"} => polling
  /\ cpu.st # "off" /\ pc = "move" => dataPhase

\* The bytes the target has counted and those still due are those the CPU has
\* moved; the data phase lasts as long as a byte is missing.
Counts ==
  /\ dataPhase => /\ bytes(data_cnt) + due = moved + ahead
                  /\ data_complete => data_cnt = tlen
                  /\ data_cnt = tlen => data_done
  /\ ~dataPhase => due = 0
  /\ ~dataPhase /\ pc # "tcr" => moved + ahead = length

\* An interrupt is armed by the start of a transfer and fires once, when the
\* data phase is over.
Interrupt ==
  /\ dma_armed => /\ pc \in {"move", "second", "off", "sleep"} /\ ~irq_latch
                  /\ \/ dataPhase
                     \/ phase = "STATUS_OUT" /\ pmatch_d /\ data_complete
                     \/ phase = "STATUS_OUT" /\ ~pmatch_d /\ length = 0
  /\ irq_latch => /\ phase = "STATUS_OUT" /\ data_complete
                  /\ pc \in {"move", "second", "off", "sleep"} \/ (pc = "poll" /\ rst_rd)
  /\ dataPhase /\ dma_armed => length # 0
  /\ pc # "tcr" /\ length = 0 => /\ phase = "STATUS_OUT" /\ ~pmatch_d /\ ~irq_latch
                                 /\ pc \in {"mode", "start", "move"} /\ cpu.st = "off"

CountInv == Kinds /\ Train /\ Cycle /\ InBounds /\ Places /\ Counts /\ Interrupt

-----------------------------------------------------------------------------
(* Counts as numbers *)

LEMMA BytesType ==
  ASSUME NEW c \in Count PROVE bytes(c) \in Nat /\ c.blk \in Nat /\ c.off \in Offset
  BY DEF bytes, Count, Offset

LEMMA BytesZero == Zero \in Count /\ bytes(Zero) = 0
  BY DEF Zero, Count, Offset, bytes

LEMMA BytesBump ==
  ASSUME NEW c \in Count PROVE Bump(c) \in Count /\ bytes(Bump(c)) = bytes(c) + 1
<1>1. c.blk \in Nat /\ c.off \in 0 .. SectorBytes - 1
  BY DEF Count, Offset
<1>2. (c.blk + 1) * SectorBytes = c.blk * SectorBytes + SectorBytes
  BY <1>1
<1> QED
  BY <1>1, <1>2 DEF Bump, Count, Offset, bytes

\* What a quotient and a remainder say of a number.
LEMMA Divide ==
  ASSUME NEW b \in Nat, NEW o \in 0 .. SectorBytes - 1
  PROVE  (b * SectorBytes + o) \div SectorBytes = b /\ (b * SectorBytes + o) % SectorBytes = o
  BY SMT

LEMMA PlaceOf ==
  ASSUME NEW c \in Count PROVE place(bytes(c)) = c
<1>1. c = [blk |-> c.blk, off |-> c.off] /\ c.blk \in Nat /\ c.off \in 0 .. SectorBytes - 1
  BY DEF Count, Offset
<1>2. place(bytes(c)) = [blk |-> c.blk, off |-> c.off]
  BY <1>1, Divide DEF place, bytes
<1> QED
  BY <1>1, <1>2

LEMMA PlaceType ==
  ASSUME NEW n \in Nat
  PROVE  place(n) \in Count /\ bytes(place(n)) = n
<1>1. n \div SectorBytes \in Nat /\ n % SectorBytes \in 0 .. SectorBytes - 1
  BY SMT
<1>2. n = (n \div SectorBytes) * SectorBytes + (n % SectorBytes)
  BY SMT
<1> QED
  BY <1>1, <1>2 DEF place, bytes, Count, Offset

LEMMA BytesApart ==
  ASSUME NEW c \in Count, NEW d \in Count, bytes(c) = bytes(d) PROVE c = d
  BY PlaceOf

-----------------------------------------------------------------------------
(* What a clock does *)

\* The driver's actions in one formula each cites.
LEMMA CpuActions ==
  ASSUME CpuClk
  PROVE  \/ Arm \/ BeginCycle \/ BeginSecond \/ Assert \/ SeeDtack \/ EndCycle
         \/ ModeOff \/ WakeUp \/ ReadCsr \/ MoveAck \/ Wait
  BY DEF CpuClk, CpuMove

\* What a clock does to the cycle the CPU drives.
SameCycle == /\ cpu'.dir = cpu.dir /\ cpu'.word = cpu.word /\ cpu'.long = cpu.long
             /\ cpu'.second = cpu.second /\ cpu'.hi = cpu.hi /\ cpu'.lo = cpu.lo
LEMMA CycleMoves ==
  ASSUME Kinds, Next
  PROVE  \/ BeginCycle \/ BeginSecond \/ EndCycle
         \/ cpu.st = "off" /\ cpu' = cpu
         \/ /\ SameCycle /\ pc' = pc /\ moved' = moved /\ cpu.st # "off"
            /\ \/ cpu'.st = cpu.st /\ cpu'.timer = cpu.timer
               \/ cpu'.st = cpu.st /\ cpu.timer > 0 /\ cpu'.timer = cpu.timer - 1
               \/ cpu.st = "wait" /\ cpu.timer = 0 /\ dreq /\ cpu'.st = "dtack"
         \/ /\ pc # "move" /\ pc # "second" /\ cpu' = cpu
<1>1. CpuClk /\ cpu \in CpuCycle
  BY DEF Next, Kinds
<1>2. CASE Wait \/ Assert
  BY <1>1, <1>2 DEF Wait, Assert, SameCycle, CpuCycle
<1>3. CASE SeeDtack
  BY <1>1, <1>3 DEF SeeDtack, SameCycle, CpuCycle
<1>4. CASE Arm \/ ModeOff \/ WakeUp \/ ReadCsr \/ MoveAck
  BY <1>4 DEF Arm, ModeOff, WakeUp, ReadCsr, MoveAck
<1> QED
  BY <1>1, <1>2, <1>3, <1>4, CpuActions

\* What begins and ends a cycle.
LEMMA CycleStates ==
  ASSUME Kinds, Next
  PROVE  /\ BeginCycle => /\ pc = "move" /\ cpu.st = "off" /\ pc' = pc /\ moved' = moved /\ gap = 0
                          /\ cpu'.st = "wait" /\ cpu'.timer = 1 /\ ~cpu'.second
                          /\ cpu'.dir = (IF cmd_read THEN "read" ELSE "write")
                          /\ cpu'.hi = MacByte(commands, place(moved))
                          /\ cpu'.word => cpu'.lo = MacByte(commands, place(moved + 1))
                          /\ cpu'.long => cpu'.word /\ cmd.op # "write"
                          /\ cmd.op \in {"read", "write"}
                          /\ moved < length /\ moved + size' <= length
                          /\ <<cmd.op, size', moved % SectorBytes>> \in Units
         /\ BeginSecond => /\ pc = "second" /\ cpu.st = "off" /\ pc' = pc /\ moved' = moved /\ gap = 0
                           /\ cpu'.st = "wait" /\ cpu'.timer = 1 /\ cpu'.dir = "read"
                           /\ cpu'.word /\ cpu'.long /\ cpu'.second
         /\ EndCycle => cpu.st = "dtack" /\ cpu.timer = 0 /\ cpu'.st = "off"
<1>1. CASE BeginCycle
  <2>1. PICK s \in {1, 2, 4} :
          /\ <<cmd.op, s, moved % SectorBytes>> \in Units /\ moved + s <= length
          /\ cpu' = [st |-> "wait", dir |-> IF cmd_read THEN "read" ELSE "write",
                  word |-> s > 1, long |-> s = 4, second |-> FALSE,
                  hi |-> MacByte(commands, place(moved)),
                  lo |-> IF s = 1 THEN MacByte(commands, place(moved))
                                     ELSE MacByte(commands, place(moved + 1)),
                  timer |-> 1]
    BY <1>1 DEF BeginCycle
  <2>2. (cpu'.word <=> s > 1) /\ (cpu'.long <=> s = 4) /\ cpu'.st = "wait" /\ cpu'.timer = 1 /\ ~cpu'.second
        /\ cpu'.dir = (IF cmd_read THEN "read" ELSE "write")
        /\ cpu'.hi = MacByte(commands, place(moved))
        /\ cpu'.lo = IF s = 1 THEN MacByte(commands, place(moved)) ELSE MacByte(commands, place(moved + 1))
    BY <2>1
  <2>3. size' = s /\ (cpu'.word => s # 1) /\ (cpu'.long => cpu'.word)
    BY <2>2 DEF size
  <2>4. s = 4 => cmd.op # "write"
    <3> SUFFICES ASSUME s = 4, cmd.op = "write" PROVE FALSE
      OBVIOUS
    <3>1. <<"write", 4, moved % SectorBytes>> \in Units
      BY <2>1
    <3>2. <<"write", 4>> \in {<<u[1], u[2]>> : u \in Units}
      BY <3>1
    <3> QED
      BY <3>2
  <2>5. cmd.op \in {"read", "write"}
    BY <2>1
  <2>6. pc = "move" /\ cpu.st = "off" /\ pc' = pc /\ moved' = moved /\ gap = 0 /\ moved < length
    BY <1>1 DEF BeginCycle
  <2>7. ~(BeginSecond \/ EndCycle)
    BY <2>6 DEF BeginSecond, EndCycle
  <2> QED
    BY <2>1, <2>2, <2>3, <2>4, <2>5, <2>6, <2>7
<1>2. CASE BeginSecond
  <2>1. Off = [st |-> "off", dir |-> "read", word |-> FALSE, long |-> FALSE, second |-> FALSE,
               hi |-> Blank, lo |-> Blank, timer |-> 0]
    BY DEF Off
  <2>2. cpu' = [st |-> "wait", dir |-> "read", word |-> TRUE, long |-> TRUE, second |-> TRUE,
                hi |-> Blank, lo |-> Blank, timer |-> 1]
    BY <1>2, <2>1 DEF BeginSecond
  <2>3. pc = "second" /\ cpu.st = "off" /\ pc' = pc /\ moved' = moved /\ gap = 0
    BY <1>2 DEF BeginSecond
  <2>4. ~(BeginCycle \/ EndCycle)
    BY <2>3 DEF BeginCycle, EndCycle
  <2> QED
    BY <2>2, <2>3, <2>4
<1>3. CASE EndCycle
  BY <1>3 DEF EndCycle, Off, BeginCycle, BeginSecond
<1> QED
  BY <1>1, <1>2, <1>3

\* The driver leaves SEL and RST alone and sends one command.
LEMMA LinesKept ==
  ASSUME Kinds, Next
  PROVE  rst' = FALSE /\ sel' = FALSE /\ cdb' = cdb /\ cmd' = cmd /\ length' = length /\ commands' = commands
<1>1. CpuClk /\ TargetClk
  BY DEF Next
<1>2. rst' = rst /\ sel' = sel /\ cdb' = cdb
  BY <1>1, CpuActions DEF KeepRegs, Wait, Arm, BeginCycle, BeginSecond, Assert, SeeDtack, EndCycle,
     ModeOff, WakeUp, ReadCsr, MoveAck
<1>3. cmd' = cmd
  BY <1>1 DEF TargetClk, CommandBytes, Kinds
<1> QED
  BY <1>2, <1>3 DEF Kinds, length, Next

\* The train's counters and the target's edge registers.
LEMMA TrainMoves ==
  ASSUME Kinds, Next
  PROVE  /\ ack' <=> icr_ack' \/ dma_ack'
         /\ old_ack' <=> ack
         /\ stb_ack' <=> ack /\ ~old_ack
         /\ stb_adv' <=> old_ack /\ ~ack
         /\ dma_settle' = IF dma_ack THEN 4 ELSE IF dma_settle # 0 THEN dma_settle - 1 ELSE 0
         /\ dma_ack' <=> IF dma_ack_holdoff # 0 THEN dma_ack_holdoff % 2 = 1
                         ELSE trainStart /\ dma_en /\ bsr_pmatch
         /\ dma_ack_holdoff' = IF dma_ack_holdoff # 0 THEN dma_ack_holdoff - 1
                               ELSE IF trainStart /\ dma_en /\ bsr_pmatch THEN holdoff ELSE 0
<1>1. AckEdges /\ AckTrain /\ DataOut
  BY DEF Next, TargetClk
<1>2. (old_ack' <=> ack) /\ (stb_ack' <=> ack /\ ~old_ack) /\ (stb_adv' <=> old_ack /\ ~ack)
  BY <1>1, Zenon DEF AckEdges
<1>3. ack' <=> icr_ack' \/ dma_ack'
  BY <1>1, Zenon DEF DataOut
<1>4. dma_settle' = IF dma_ack THEN 4 ELSE IF dma_settle # 0 THEN dma_settle - 1 ELSE 0
  BY <1>1, Zenon DEF AckTrain
<1>5. dma_ack' = IF dma_ack_holdoff # 0 THEN dma_ack_holdoff % 2 = 1
                 ELSE trainStart /\ dma_en /\ bsr_pmatch
  BY <1>1, Zenon DEF AckTrain
<1>6. dma_ack_holdoff' = IF dma_ack_holdoff # 0 THEN dma_ack_holdoff - 1
                         ELSE IF trainStart /\ dma_en /\ bsr_pmatch THEN holdoff ELSE 0
  BY <1>1, Zenon DEF AckTrain
<1> QED
  BY <1>2, <1>3, <1>4, <1>5, <1>6

\* The latches of the pseudo-DMA engine.
LEMMA LatchMoves ==
  ASSUME Kinds, Next
  PROVE  /\ old_dma_rd' <=> i_dma_rd
         /\ old_dma_wr' <=> i_dma_wr
         /\ rdStart \/ wrStart => /\ dma_word' = cpu.word /\ dma_longword' = cpu.long
                                  /\ dma_second_word' = cpu.second
         /\ ~rdStart /\ ~wrStart => UNCHANGED <<dma_word, dma_longword, dma_second_word>>
         /\ rdStart => /\ dma_suppress_ack' <=> dma_longword_second_pending /\ cpu.second
                       /\ dma_longword_second_pending' <=>
                            /\ ~(dma_longword_second_pending /\ cpu.second)
                            /\ cpu.word /\ cpu.long /\ ~cpu.second
         /\ ~rdStart => UNCHANGED <<dma_suppress_ack, dma_longword_second_pending>>
<1>1. DmaCycles
  BY DEF Next
<1>2. (old_dma_rd' <=> i_dma_rd) /\ (old_dma_wr' <=> i_dma_wr)
  BY <1>1, Zenon DEF DmaCycles
<1>3. /\ rdStart \/ wrStart => /\ dma_word' = cpu.word /\ dma_longword' = cpu.long
                               /\ dma_second_word' = cpu.second
      /\ ~rdStart /\ ~wrStart => UNCHANGED <<dma_word, dma_longword, dma_second_word>>
  BY <1>1, Zenon DEF DmaCycles
<1>4. /\ rdStart => /\ dma_suppress_ack' <=> dma_longword_second_pending /\ cpu.second
                    /\ dma_longword_second_pending' <=>
                         /\ ~(dma_longword_second_pending /\ cpu.second)
                         /\ cpu.word /\ cpu.long /\ ~cpu.second
      /\ ~rdStart => UNCHANGED <<dma_suppress_ack, dma_longword_second_pending>>
  BY <1>1, Zenon DEF DmaCycles
<1> QED
  BY <1>2, <1>3, <1>4

\* Phase, counter and end-of-transfer interrupt.
LEMMA PhaseMoves ==
  ASSUME Kinds, Next
  PROVE  /\ phase = "IDLE" => phase' = "IDLE"
         /\ phase = "CMD_IN" => phase' = IF cmd_cpl THEN dataOf ELSE "CMD_IN"
         /\ dataPhase => phase' = IF data_done THEN "STATUS_OUT" ELSE phase
         /\ phase = "STATUS_OUT" => phase' = IF status_sent THEN "MESSAGE_OUT" ELSE "STATUS_OUT"
         /\ phase = "MESSAGE_OUT" => phase' = IF message_sent THEN "IDLE" ELSE "MESSAGE_OUT"
         /\ status_sent' <=> phase = "STATUS_OUT" /\ (stb_adv \/ status_sent)
         /\ message_sent' <=> phase = "MESSAGE_OUT" /\ (stb_adv \/ message_sent)
         /\ tlen' = IF cmd_cpl /\ phase = "CMD_IN" THEN cmd.len ELSE tlen
<1>1. PhaseFsm /\ SentFlags /\ Parameters /\ rst = FALSE /\ sel = FALSE
  BY DEF Next, TargetClk, Kinds
<1>2. (status_sent' <=> phase = "STATUS_OUT" /\ (stb_adv \/ status_sent))
      /\ (message_sent' <=> phase = "MESSAGE_OUT" /\ (stb_adv \/ message_sent))
  BY <1>1, Zenon DEF SentFlags
<1>3. tlen' = IF cmd_cpl /\ phase = "CMD_IN" THEN cmd.len ELSE tlen
  BY <1>1 DEF Parameters
<1>4. /\ phase = "IDLE" => phase' = "IDLE"
      /\ phase = "CMD_IN" => phase' = IF cmd_cpl THEN dataOf ELSE "CMD_IN"
      /\ dataPhase => phase' = IF data_done THEN "STATUS_OUT" ELSE phase
      /\ phase = "STATUS_OUT" => phase' = IF status_sent THEN "MESSAGE_OUT" ELSE "STATUS_OUT"
      /\ phase = "MESSAGE_OUT" => phase' = IF message_sent THEN "IDLE" ELSE "MESSAGE_OUT"
  BY <1>1 DEF PhaseFsm, dataOf, AfterCommand, data_phase_complete, dataPhase
<1> QED
  BY <1>2, <1>3, <1>4

LEMMA CountMoves ==
  ASSUME Kinds, Next
  PROVE  /\ ~transferPhase => data_cnt' = Zero /\ data_complete' = FALSE
         /\ transferPhase /\ stb_adv => /\ data_cnt' = IF data_complete THEN data_cnt ELSE Bump(data_cnt)
                                        /\ data_complete' <=> Bump(data_cnt) = data_len
         /\ transferPhase /\ ~stb_adv => UNCHANGED <<data_cnt, data_complete>>
<1>1. DataCount
  BY DEF Next, TargetClk
<1> QED
  BY <1>1, Zenon DEF DataCount

LEMMA InterruptMoves ==
  ASSUME Kinds, Next
  PROVE  LET start == pc = "start" /\ pc' = "move"
             fires == dma_armed /\ pmatch_d /\ ~bsr_pmatch
         IN  /\ pmatch_d' <=> bsr_pmatch
             /\ irq_latch' <=> fires \/ (irq_latch /\ ~rst_rd)
             /\ dma_armed' <=> ~fires /\ (dma_armed \/ start)
             /\ dma_en' <=> mr_dma /\ (dma_en \/ start)
<1>1. EndOfTransfer(pc = "start" /\ pc' = "move") /\ DmaEnable(pc = "start" /\ pc' = "move") /\ ~rst
  BY DEF Next, Kinds
<1> QED
  BY <1>1, Zenon DEF EndOfTransfer, DmaEnable

-----------------------------------------------------------------------------
(* Every register keeps a value of its kind *)

LEMMA ByteKinds ==
  /\ Blank \in Byte /\ \A n \in Nat, p \in Count : MacByte(n, p) \in Byte
<1>1. \A n \in Nat, p \in Count : MacByte(n, p) \in {"mac"} \X Nat \X Count
  BY DEF MacByte
<1> QED
  BY <1>1 DEF Byte

LEMMA LengthType ==
  ASSUME Kinds
  PROVE  /\ length \in Nat /\ length = bytes(cmd.len) /\ cmd.len \in Count /\ moved \in Nat
         /\ cmd.op \in Ops /\ cmd.lba \in Nat
<1>1. cmd \in CommandBlock
  BY DEF Kinds
<1>2. cmd.len \in Count /\ cmd.op \in Ops /\ cmd.lba \in Nat
  BY <1>1 DEF CommandBlock
<1>3. bytes(cmd.len) \in Nat
  BY <1>2, BytesType
<1> QED
  BY <1>2, <1>3 DEF length, bytes, Kinds, TypeOK

\* The timer is the only part of a cycle a clock may change alone.
LEMMA TimerSet ==
  ASSUME NEW c \in CpuCycle, NEW s \in {"off", "wait", "dtack"}, NEW n \in Nat
  PROVE  /\ [c EXCEPT !.timer = n] \in CpuCycle
         /\ [c EXCEPT !.st = s, !.timer = n] \in CpuCycle
  BY DEF CpuCycle

LEMMA InitKinds == Init => Kinds
<1> SUFFICES ASSUME Init PROVE Kinds
  OBVIOUS
<1> USE DEF Init, TargetQuiet, HpsInit, NcrInit
<1>1. cmd \in CommandBlock
  OBVIOUS
<1>2. cmd.len \in Count
  BY <1>1 DEF CommandBlock
<1>3. length \in Nat
  BY <1>2, BytesType DEF length, bytes
<1>4. cpu \in CpuCycle
  BY ByteKinds DEF CpuCycle, Off
<1>5. TypeOK
  <2>1. 0 \in 0 .. 6 /\ 0 \in 0 .. 4 /\ 0 \in 0 .. MinGap /\ 0 \in 0 .. length
    BY <1>3
  <2>2. Lines("CMD_IN") \subseteq {"msg", "cd", "io"}
    BY DEF Lines
  <2>3. cpu.st \in {"off", "wait", "dtack"}
    BY <1>4 DEF CpuCycle
  <2> QED
    BY <2>1, <2>2, <2>3 DEF TypeOK
<1>6. {data_complete, icr_ack, ack, old_ack, stb_ack, stb_adv, status_sent, message_sent,
       old_dma_rd, old_dma_wr, dma_word, dma_longword, dma_second_word, dma_suppress_ack,
       dma_longword_second_pending, pmatch_d, rst_rd} \subseteq BOOLEAN
  OBVIOUS
<1> QED
  BY <1>1, <1>4, <1>5, <1>6, BytesZero DEF Kinds, Phases

\* The driver's registers.
LEMMA StepDriverKinds ==
  ASSUME Kinds, Cycle, InBounds, Next
  PROVE  /\ cpu' \in CpuCycle /\ cpu'.st \in {"off", "wait", "dtack"}
         /\ gap' \in 0 .. MinGap /\ tcr' \subseteq {"msg", "cd", "io"}
         /\ moved' \in 0 .. length
         /\ pc' \in {"tcr", "mode", "start", "move", "second", "off", "sleep", "poll", "ack", "done"}
         /\ {mr_dma', csr_rd', rst_rd', icr_ack'} \subseteq BOOLEAN
<1>1. CpuClk
  BY DEF Next
<1>2. length \in Nat /\ moved \in 0 .. length /\ gap \in 0 .. MinGap /\ MinGap \in Nat /\ commands \in Nat
  BY LengthType DEF Kinds, TypeOK
<1>3. cpu' \in CpuCycle
  <2>1. CASE BeginCycle
    <3>1. place(moved) \in Count /\ place(moved + 1) \in Count
      BY <1>2, PlaceType
    <3>2. MacByte(commands, place(moved)) \in Byte /\ MacByte(commands, place(moved + 1)) \in Byte
      BY <1>2, <3>1, ByteKinds
    <3> QED
      BY <2>1, <3>2 DEF BeginCycle, CpuCycle
  <2>2. CASE BeginSecond \/ EndCycle
    <3>1. Off \in CpuCycle
      BY ByteKinds DEF Off, CpuCycle
    <3>2. [Off EXCEPT !.st = "wait", !.word = TRUE, !.long = TRUE, !.second = TRUE, !.timer = 1] \in CpuCycle
      BY ByteKinds DEF Off, CpuCycle
    <3> QED
      BY <2>2, <3>1, <3>2 DEF BeginSecond, EndCycle
  <2>3. CASE SeeDtack
    <3>1. PICK delay \in 0 .. LatchDelay : cpu' = [cpu EXCEPT !.st = "dtack", !.timer = delay]
      BY <2>3 DEF SeeDtack
    <3>2. delay \in Nat
      OBVIOUS
    <3> QED
      BY <3>1, <3>2, TimerSet DEF Kinds
  <2>4. CASE Assert \/ Wait
    <3>1. cpu \in CpuCycle /\ cpu.timer \in Nat
      BY DEF Kinds, CpuCycle
    <3>2. cpu' = cpu \/ (cpu.timer > 0 /\ cpu' = [cpu EXCEPT !.timer = cpu.timer - 1])
      BY <2>4 DEF Assert, Wait
    <3>3. cpu.timer > 0 => cpu.timer - 1 \in Nat
      BY <3>1
    <3> QED
      BY <3>1, <3>2, <3>3, TimerSet
  <2>5. CASE Arm \/ ModeOff \/ WakeUp \/ ReadCsr \/ MoveAck
    BY <2>5 DEF Arm, ModeOff, WakeUp, ReadCsr, MoveAck, Kinds
  <2> QED
    BY <1>1, <2>1, <2>2, <2>3, <2>4, <2>5, CpuActions
<1>4. gap' \in 0 .. MinGap
  <2>1. gap' = gap \/ gap' = MinGap \/ gap' = IF gap = 0 THEN 0 ELSE gap - 1
    BY <1>1, CpuActions DEF Wait, Arm, BeginCycle, BeginSecond, Assert, SeeDtack, EndCycle,
       ModeOff, WakeUp, ReadCsr, MoveAck
  <2> QED
    BY <1>2, <2>1
<1>5. moved' \in 0 .. length
  <2>1. CASE EndCycle
    <3>1. moved' = moved + (IF cpu.word THEN 2 ELSE 1) /\ cpu.st # "off"
      BY <2>1 DEF EndCycle
    <3>2. pc = "move" => moved + (IF cpu.word THEN 2 ELSE 1) <= length
      BY <1>2, <3>1 DEF InBounds, size
    <3>3. pc # "move" => pc = "second" \/ moved' = moved
      BY <3>1 DEF Cycle
    <3> QED
      BY <1>2, <3>1, <3>2, <3>3 DEF InBounds, ahead
  <2>2. CASE ~EndCycle
    BY <1>1, <1>2, <2>2, CpuActions DEF Wait, Arm, BeginCycle, BeginSecond, Assert, SeeDtack,
       ModeOff, WakeUp, ReadCsr, MoveAck
  <2> QED
    BY <2>1, <2>2
<1>6. /\ pc' \in {"tcr", "mode", "start", "move", "second", "off", "sleep", "poll", "ack", "done"}
      /\ {mr_dma', csr_rd', rst_rd', icr_ack'} \subseteq BOOLEAN /\ tcr' \subseteq {"msg", "cd", "io"}
  BY <1>1, CpuActions DEF Wait, Arm, BeginCycle, BeginSecond, Assert, SeeDtack, EndCycle,
     ModeOff, WakeUp, ReadCsr, MoveAck, NoStrobes, KeepRegs, regVars, Kinds, TypeOK, Lines
<1> QED
  BY <1>3, <1>4, <1>5, <1>6 DEF CpuCycle

LEMMA StepKinds ==
  ASSUME Kinds, Train, Cycle, InBounds, Next
  PROVE  Kinds'
<1>1. dma_ack_holdoff' \in 0 .. 6 /\ dma_settle' \in 0 .. 4
  <2>1. dma_ack_holdoff \in 0 .. 6 /\ dma_settle \in 0 .. 4 /\ holdoff \in {0, 2, 6}
    BY DEF holdoff, Kinds, TypeOK
  <2>2. dma_ack_holdoff' \in {dma_ack_holdoff - 1, holdoff, 0} /\ (dma_ack_holdoff = 0 => dma_ack_holdoff' \in {holdoff, 0})
    BY TrainMoves, Zenon
  <2>3. dma_settle' \in {4, 0, dma_settle - 1} /\ (dma_settle = 0 => dma_settle' \in {4, 0})
    BY TrainMoves, Zenon
  <2> QED
    BY <2>1, <2>2, <2>3
<1>2. {dma_ack', ack', old_ack', stb_ack', stb_adv'} \subseteq BOOLEAN
  <2>1. AckTrain /\ DataOut /\ AckEdges
    BY DEF Next, TargetClk
  <2>2. dma_ack' \in BOOLEAN
    BY <2>1, Zenon DEF AckTrain
  <2>3. ack' \in BOOLEAN /\ old_ack' \in BOOLEAN /\ stb_ack' \in BOOLEAN /\ stb_adv' \in BOOLEAN
    BY <2>1, Zenon DEF DataOut, AckEdges, Kinds
  <2> QED
    BY <2>2, <2>3
<1>3. {dma_en', irq_latch', dma_armed', pmatch_d', req_deferred'} \subseteq BOOLEAN
  <2>1. /\ EndOfTransfer(pc = "start" /\ pc' = "move") /\ DmaEnable(pc = "start" /\ pc' = "move")
        /\ DeferredReq
    BY DEF Next
  <2>2. /\ dma_en' \in BOOLEAN /\ irq_latch' \in BOOLEAN /\ dma_armed' \in BOOLEAN
        /\ pmatch_d' \in BOOLEAN /\ req_deferred' \in BOOLEAN
    BY <2>1, Zenon DEF EndOfTransfer, DmaEnable, DeferredReq, bsr_pmatch
  <2> QED
    BY <2>2
<1>4. {old_dma_rd', old_dma_wr', dma_word', dma_longword', dma_second_word', dma_suppress_ack',
       dma_longword_second_pending'} \subseteq BOOLEAN
  <2>1. DmaCycles /\ cpu \in CpuCycle
    BY DEF Next, Kinds
  <2>2. cpu.word \in BOOLEAN /\ cpu.long \in BOOLEAN /\ cpu.second \in BOOLEAN
    BY <2>1 DEF CpuCycle
  <2>3. /\ old_dma_rd' \in BOOLEAN /\ old_dma_wr' \in BOOLEAN /\ dma_suppress_ack' \in BOOLEAN
        /\ dma_longword_second_pending' \in BOOLEAN
    BY <2>1, Zenon DEF DmaCycles, i_dma_rd, i_dma_wr, Kinds
  <2>4. dma_word' \in BOOLEAN /\ dma_longword' \in BOOLEAN /\ dma_second_word' \in BOOLEAN
    BY <2>2, LatchMoves DEF Kinds
  <2> QED
    BY <2>3, <2>4
<1>5. {data_complete', status_sent', message_sent'} \subseteq BOOLEAN /\ data_cnt' \in Count
  <2>1. DataCount /\ SentFlags
    BY DEF Next, TargetClk
  <2>2. data_complete' \in BOOLEAN
    BY <2>1, Zenon DEF DataCount, Kinds
  <2>3. status_sent' \in BOOLEAN /\ message_sent' \in BOOLEAN
    BY <2>1, Zenon DEF SentFlags
  <2>4. data_cnt \in Count /\ Bump(data_cnt) \in Count /\ Zero \in Count
    BY BytesBump, BytesZero DEF Kinds
  <2>5. data_cnt' \in Count
    BY <2>1, <2>4, Zenon DEF DataCount
  <2> QED
    BY <2>2, <2>3, <2>5
<1>6. phase' \in Phases /\ tlen' \in Count
  BY PhaseMoves, LengthType DEF Kinds, Phases, dataOf, AfterCommand, dataPhase
<1>7. rst' = FALSE /\ sel' = FALSE /\ cdb' = cdb /\ cmd' = cmd /\ length' = length /\ commands' = commands
  BY LinesKept
<1>8. TypeOK'
  BY <1>1, <1>2, <1>3, <1>7, StepDriverKinds DEF TypeOK
<1> QED
  BY <1>2, <1>3, <1>4, <1>5, <1>6, <1>7, <1>8, StepDriverKinds DEF Kinds

-----------------------------------------------------------------------------
(* The train *)

\* A train begins only when a cycle is over, and then the controller and the
\* target still are in the data phase.
LEMMA TrainBegins ==
  ASSUME Kinds, Train, Cycle, Places, Counts
  PROVE  /\ rdEnd \/ wrEnd <=> over
         /\ trainStart <=> begins
         /\ begins => dma_en /\ bsr_pmatch /\ ~dma_ack_busy /\ dataPhase
         /\ begins => holdoff = 2 * (unit - 1) /\ unit \in {1, 2, 4}
<1>1. cpu \in CpuCycle
  BY DEF Kinds
<1>2. over => dma_ack_holdoff = 0 /\ ~dma_ack /\ dma_settle = 0
  BY DEF Train, dma_ack_busy
<1>3. rdEnd \/ wrEnd <=> over
  BY <1>1 DEF rdEnd, wrEnd, i_dma_rd, i_dma_wr, over, Cycle, CpuCycle, cmd_read, cmd_write
<1>4. trainStart <=> begins
  BY <1>1, <1>2 DEF trainStart, rdEnd, wrEnd, i_dma_rd, i_dma_wr, begins, over, Cycle, CpuCycle,
     cmd_read, cmd_write
<1>5. ASSUME begins PROVE dma_en /\ bsr_pmatch /\ ~dma_ack_busy /\ dataPhase
  <2>1. over /\ pc \in {"move", "second", "off"}
    BY <1>5 DEF begins, Cycle
  <2>2. left \in Nat /\ unit \in {1, 2, 4}
    BY DEF left, unit, One, Kinds, TypeOK
  <2>3. due = left + unit
    BY <1>5 DEF due
  <2>4. due # 0
    BY <2>2, <2>3
  <2>5. dataPhase
    BY <2>4 DEF Counts
  <2> QED
    BY <2>1, <2>5 DEF Train, Places, bsr_pmatch
<1>6. ASSUME begins PROVE holdoff = 2 * (unit - 1) /\ unit \in {1, 2, 4}
  <2>1. /\ over /\ (old_dma_rd \/ old_dma_wr) /\ ~(old_dma_rd /\ old_dma_wr)
        /\ rdEnd <=> old_dma_rd
    BY <1>6 DEF begins, over, Cycle, cmd_read, cmd_write, rdEnd, i_dma_rd
  <2> QED
    BY <2>1 DEF holdoff, unit
<1> QED
  BY <1>3, <1>4, <1>5, <1>6

LEMMA StepTrain ==
  ASSUME CountInv, Next
  PROVE  Train'
<1>1. Kinds /\ Train /\ Cycle /\ Places /\ Counts /\ InBounds /\ Interrupt
  BY DEF CountInv
<1> USE <1>1
<1>2. CpuClk /\ dma_ack_holdoff \in 0 .. 6 /\ dma_settle \in 0 .. 4
  BY DEF Next, Kinds, TypeOK
<1>3. dma_ack => dma_ack_holdoff % 2 = 0 /\ dma_settle \in {0, 3}
  BY DEF Train
<1>4. ack' <=> icr_ack' \/ dma_ack'
  BY TrainMoves
<1>5. /\ dma_settle' = IF dma_ack THEN 4 ELSE IF dma_settle # 0 THEN dma_settle - 1 ELSE 0
      /\ dma_ack' <=> IF dma_ack_holdoff # 0 THEN dma_ack_holdoff % 2 = 1 ELSE begins
      /\ dma_ack_holdoff' = IF dma_ack_holdoff # 0 THEN dma_ack_holdoff - 1
                            ELSE IF begins THEN 2 * (unit - 1) ELSE 0
  BY TrainMoves, TrainBegins
<1>6. begins => dma_ack_holdoff = 0 /\ dma_settle = 0 /\ ~dma_ack /\ unit \in {1, 2, 4}
  BY TrainBegins DEF dma_ack_busy
<1>7. /\ dma_ack' => dma_ack_holdoff' % 2 = 0 /\ dma_settle' \in {0, 3}
      /\ dma_ack_holdoff' % 2 = 1 => ~dma_ack' /\ dma_settle' = 4
      /\ dma_ack_holdoff' > 0 /\ dma_ack_holdoff' % 2 = 0 => dma_ack'
  BY <1>2, <1>3, <1>5, <1>6 DEF Train
<1>8. ASSUME cpu'.st = "dtack" \/ over' PROVE ~dma_ack_busy'
  <2>1. cpu.st = "dtack" \/ (cpu.st = "wait" /\ dreq)
    <3>1. over' => cpu.st # "off"
      BY LatchMoves DEF over, i_dma_rd, i_dma_wr
    <3>2. cpu'.st = "dtack" => cpu.st = "dtack" \/ (cpu.st = "wait" /\ dreq)
      BY CycleMoves, CycleStates
    <3>3. cpu'.st = "off" /\ cpu.st # "off" => cpu.st = "dtack"
      BY CycleMoves, CycleStates
    <3> QED
      BY <1>8, <3>1, <3>2, <3>3 DEF over
  <2>2. ~dma_ack_busy /\ ~begins
    BY <2>1 DEF Train, dreq, begins, over
  <2> QED
    BY <1>2, <1>5, <2>2 DEF dma_ack_busy
<1>9. CASE polling'
  <2>1. polling \/ (pc = "sleep" /\ irq_latch)
    BY <1>2, <1>9, CpuActions DEF polling, Wait, Arm, BeginCycle, BeginSecond, Assert, SeeDtack, EndCycle,
       ModeOff, WakeUp, ReadCsr, MoveAck, KeepRegs
  <2>2. ~dataPhase /\ ~over
    BY <2>1 DEF Interrupt, Places, polling, dataPhase
  <2>3. due = 0
    BY <2>2 DEF Counts
  <2>4. dma_ack_holdoff = 0 /\ ~dma_ack /\ dma_settle < 3
    BY <1>2, <2>3, <2>2 DEF due, left, One, begins
  <2> QED
    BY <1>2, <1>4, <1>5, <1>7, <1>8, <1>9, <2>2, <2>4 DEF Train, begins
<1>10. CASE ~polling'
  <2>1. ~polling /\ ~icr_ack'
    <3>1. ~polling
      BY <1>2, <1>10, CpuActions DEF polling, Wait, Arm, BeginCycle, BeginSecond, Assert, SeeDtack, EndCycle,
       ModeOff, WakeUp, ReadCsr, MoveAck, KeepRegs, Cycle
    <3>2. ~icr_ack
      BY <3>1 DEF Train
    <3>3. ~MoveAck
      BY <3>1 DEF MoveAck, polling
    <3>4. icr_ack' = icr_ack
      BY <1>2, <3>3, CpuActions DEF Wait, Arm, BeginCycle, BeginSecond, Assert, SeeDtack, EndCycle,
       ModeOff, WakeUp, ReadCsr, KeepRegs, regVars
    <3> QED
      BY <3>1, <3>2, <3>4
  <2>2. /\ ~icr_ack /\ (ack <=> dma_ack) /\ (old_ack <=> dma_settle = 4)
    BY <2>1 DEF Train
  <2>3. (old_ack' <=> dma_settle' = 4) /\ (stb_ack' <=> dma_settle' = 4) /\ (stb_adv' <=> dma_settle' = 3)
    BY <1>2, <1>3, <1>5, <2>2, TrainMoves
  <2> QED
    BY <1>4, <1>7, <1>8, <1>10, <2>1, <2>3 DEF Train
<1> QED
  BY <1>9, <1>10

-----------------------------------------------------------------------------
(* The cycle and what it moves *)

\* Between two clocks the pulses to come are one fewer when the target's edge
\* register shows one, and as many more as the train that begins has.
LEMMA LeftMoves ==
  ASSUME CountInv, Next
  PROVE  left \in Nat /\ left' \in Nat /\ due \in Nat /\ left' + One(dma_settle = 3) = due
<1>1. Kinds /\ Train /\ Cycle /\ Places /\ Counts
  BY DEF CountInv
<1>2. dma_ack_holdoff \in 0 .. 6 /\ dma_settle \in 0 .. 4 /\ dma_ack \in BOOLEAN
  BY <1>1 DEF Kinds, TypeOK
<1>3. /\ dma_ack => dma_ack_holdoff % 2 = 0 /\ dma_settle \in {0, 3}
      /\ dma_ack_holdoff % 2 = 1 => ~dma_ack /\ dma_settle = 4
      /\ dma_ack_holdoff > 0 /\ dma_ack_holdoff % 2 = 0 => dma_ack
  BY <1>1 DEF Train
<1>4. /\ dma_settle' = IF dma_ack THEN 4 ELSE IF dma_settle # 0 THEN dma_settle - 1 ELSE 0
      /\ dma_ack' <=> IF dma_ack_holdoff # 0 THEN dma_ack_holdoff % 2 = 1 ELSE begins
      /\ dma_ack_holdoff' = IF dma_ack_holdoff # 0 THEN dma_ack_holdoff - 1
                            ELSE IF begins THEN 2 * (unit - 1) ELSE 0
  BY <1>1, TrainMoves, TrainBegins
<1>5. begins => dma_ack_holdoff = 0 /\ dma_settle = 0 /\ ~dma_ack /\ unit \in {1, 2, 4}
  BY <1>1, TrainBegins DEF dma_ack_busy
<1>6. CASE begins
  <2>1. left = 0 /\ due = unit
    BY <1>5, <1>6 DEF left, due, One
  <2>2. dma_settle' = 0 /\ dma_ack' /\ dma_ack_holdoff' = 2 * (unit - 1)
    BY <1>4, <1>5, <1>6
  <2>3. left' = unit
    BY <1>5, <1>6, <2>2 DEF left, One
  <2> QED
    BY <1>5, <1>6, <2>1, <2>3 DEF One
<1>7. CASE ~begins
  <2>1. left \in Nat /\ due = left
    BY <1>2, <1>7 DEF left, due, One
  <2>2. CASE dma_ack_holdoff = 0
    <3>1. dma_ack_holdoff' = 0 /\ ~dma_ack'
      BY <1>4, <1>7, <2>2
    <3>2. left = One(dma_ack) + One(dma_settle = 4) + One(dma_settle = 3)
      BY <1>2, <2>2 DEF left, One
    <3>3. left' = One(dma_settle' = 4) + One(dma_settle' = 3)
      BY <3>1 DEF left, One
    <3>4. dma_settle' = IF dma_ack THEN 4 ELSE IF dma_settle # 0 THEN dma_settle - 1 ELSE 0
      BY <1>4
    <3>5. dma_ack => dma_settle # 4
      BY <1>3
    <3> QED
      BY <1>2, <2>1, <3>2, <3>3, <3>4, <3>5 DEF One
  <2>3. CASE dma_ack_holdoff # 0
    <3>1. dma_ack_holdoff' = dma_ack_holdoff - 1 /\ (dma_ack' <=> dma_ack_holdoff % 2 = 1)
      BY <1>4, <2>3
    <3>2. dma_ack_holdoff \in {1, 2, 3, 4, 5, 6}
      BY <1>2, <2>3
    <3>3. CASE dma_ack_holdoff % 2 = 1
      <4>1. left = (dma_ack_holdoff + 1) \div 2 + 1 /\ dma_settle = 4 /\ ~dma_ack
        BY <1>2, <1>3, <3>3 DEF left, One
      <4>2. dma_settle' = 3 /\ dma_ack'
        BY <1>4, <3>1, <3>3, <4>1
      <4>3. left' = (dma_ack_holdoff - 1 + 1) \div 2 + 1 + 1
        BY <3>1, <4>2 DEF left, One
      <4>4. dma_ack_holdoff \in {1, 3, 5}
        BY <3>2, <3>3
      <4> QED
        BY <2>1, <4>1, <4>3, <4>4 DEF One
    <3>4. CASE dma_ack_holdoff % 2 # 1
      <4>1. dma_ack_holdoff \in {2, 4, 6} /\ dma_ack /\ dma_settle \in {0, 3}
        BY <1>3, <3>2, <3>4
      <4>2. left = (dma_ack_holdoff + 1) \div 2 + 1 + One(dma_settle = 3)
        BY <4>1 DEF left, One
      <4>3. dma_settle' = 4 /\ ~dma_ack'
        BY <1>4, <3>1, <3>4, <4>1
      <4>4. left' = (dma_ack_holdoff - 1 + 1) \div 2 + 1
        BY <3>1, <4>3 DEF left, One
      <4> QED
        BY <2>1, <4>1, <4>2, <4>4 DEF One
    <3> QED
      BY <3>3, <3>4
  <2> QED
    BY <2>2, <2>3
<1> QED
  BY <1>6, <1>7

\* What the end of a cycle moves: the CPU's count, and, but for the second half
\* of a longword, a train of as many pulses.
LEMMA EndMoves ==
  ASSUME CountInv, Next
  PROVE  /\ over' => EndCycle
         /\ begins' => /\ EndCycle /\ pc = "move" /\ dataPhase /\ moved + ahead < length
                       /\ unit' = size /\ unit' \in Nat
         /\ moved' + ahead' = moved + ahead + (IF begins' THEN unit' ELSE 0)
<1>1. Kinds /\ Train /\ Cycle /\ Places /\ Counts /\ InBounds /\ CpuClk
  BY DEF CountInv, Next
<1>2. cpu \in CpuCycle /\ moved \in Nat /\ length \in Nat
  BY <1>1, LengthType DEF Kinds
<1>3. over' => EndCycle
  <2>1. over' => cpu.st # "off" /\ cpu'.st = "off"
    BY <1>1, LatchMoves DEF over, i_dma_rd, i_dma_wr
  <2> QED
    BY <1>1, <2>1, CycleMoves, CycleStates
<1>4. CASE EndCycle
  <2>1. /\ cpu.st = "dtack" /\ moved' = moved + (IF cpu.word THEN 2 ELSE 1) /\ cpu'.st = "off"
        /\ pc' = IF cpu.long /\ ~cpu.second THEN "second" ELSE IF moved' = length THEN "off" ELSE "move"
    BY <1>4 DEF EndCycle, Off
  <2>2. /\ pc \in {"move", "second"} /\ (cpu.second <=> pc = "second")
        /\ IF cpu.dir = "read" THEN cmd_read /\ old_dma_rd /\ ~old_dma_wr
                               ELSE cmd_write /\ old_dma_wr /\ ~old_dma_rd /\ ~cpu.long
        /\ (cpu.long => cpu.word) /\ (cpu.second => cpu.long)
        /\ (dma_word <=> cpu.word) /\ (dma_longword <=> cpu.long)
        /\ cpu.dir = "read" => (dma_suppress_ack <=> cpu.second)
    BY <1>1, <2>1 DEF Cycle
  <2>3. ~rdStart /\ ~wrStart /\ (cpu.dir = "read" <=> i_dma_rd) /\ (cpu.dir = "write" <=> i_dma_wr)
    BY <1>2, <2>1, <2>2 DEF rdStart, wrStart, i_dma_rd, i_dma_wr, CpuCycle
  <2>4. /\ (old_dma_rd' <=> cpu.dir = "read") /\ (old_dma_wr' <=> cpu.dir = "write")
        /\ (dma_word' <=> cpu.word) /\ (dma_longword' <=> cpu.long)
        /\ cpu.dir = "read" => (dma_suppress_ack' <=> cpu.second)
    BY <1>1, <2>2, <2>3, LatchMoves
  <2>5. cpu.dir \in {"read", "write"} /\ cpu.word \in BOOLEAN
    BY <1>2 DEF CpuCycle
  <2>6. begins' <=> pc = "move"
    BY <2>1, <2>2, <2>4, <2>5 DEF begins, over
  <2>7. unit' = IF cpu.long THEN 4 ELSE IF cpu.word THEN 2 ELSE 1
    BY <2>2, <2>4, <2>5 DEF unit
  <2>8. moved' + ahead' = moved + ahead + (IF begins' THEN unit' ELSE 0)
    BY <1>2, <2>1, <2>2, <2>6, <2>7 DEF ahead
  <2>9. pc = "move" => dataPhase /\ moved + ahead < length
    BY <1>1, <1>2, <2>1 DEF Places, InBounds, size, ahead
  <2>10. unit' = size /\ unit' \in Nat
    BY <2>7 DEF size
  <2> QED
    BY <1>3, <1>4, <2>6, <2>8, <2>9, <2>10
<1>5. CASE ~EndCycle
  <2>1. moved' = moved /\ (pc' = "second" <=> pc = "second")
    BY <1>1, <1>5, CpuActions DEF Wait, Arm, BeginCycle, BeginSecond, Assert, SeeDtack,
       ModeOff, WakeUp, ReadCsr, MoveAck
  <2>2. ~begins'
    BY <1>3, <1>5 DEF begins
  <2> QED
    BY <1>2, <1>3, <1>5, <2>1, <2>2 DEF ahead
<1> QED
  BY <1>4, <1>5

LEMMA StepCycle ==
  ASSUME CountInv, Next
  PROVE  Cycle'
<1>1. Kinds /\ Cycle /\ CpuClk /\ cpu \in CpuCycle
  BY DEF CountInv, Next, Kinds
<1>2. cmd_read' = cmd_read /\ cmd_write' = cmd_write
  BY <1>1, LinesKept DEF cmd_read, cmd_write
<1>3. /\ old_dma_rd' <=> cpu.st # "off" /\ cpu.dir = "read"
      /\ old_dma_wr' <=> cpu.st # "off" /\ cpu.dir = "write"
  BY <1>1, LatchMoves DEF i_dma_rd, i_dma_wr
<1>4. /\ cpu.dir \in {"read", "write"} /\ (cmd_read => ~cmd_write)
      /\ rdStart <=> cpu.st # "off" /\ cpu.dir = "read" /\ ~old_dma_rd
      /\ wrStart <=> cpu.st # "off" /\ cpu.dir = "write" /\ ~old_dma_wr
  BY <1>1 DEF CpuCycle, rdStart, wrStart, i_dma_rd, i_dma_wr, cmd_read, cmd_write
<1>5. CASE cpu.st = "off"
  <2>1. ~old_dma_rd' /\ ~old_dma_wr' /\ ~rdStart /\ ~wrStart
    BY <1>3, <1>4, <1>5
  <2>2. ~EndCycle
    BY <1>5 DEF EndCycle
  <2>3. dma_longword_second_pending' = dma_longword_second_pending
    BY <1>1, <2>1, LatchMoves
  <2>4. pc' = "second" <=> pc = "second"
    BY <1>1, <2>2, CpuActions DEF Wait, Arm, BeginCycle, BeginSecond, Assert, SeeDtack,
       ModeOff, WakeUp, ReadCsr, MoveAck
  <2>5. pc = "second" => cmd_read /\ dma_longword_second_pending
    BY <1>1, <1>5 DEF Cycle
  <2>6. ASSUME cpu'.st # "off"
        PROVE  /\ pc' \in {"move", "second"} /\ (cpu'.second <=> pc' = "second")
               /\ IF cpu'.dir = "read" THEN cmd_read ELSE cmd_write /\ ~cpu'.long
               /\ (cpu'.long => cpu'.word) /\ (cpu'.second => cpu'.long)
               /\ cpu'.st = "wait" /\ cpu'.timer = 1
    <3>1. BeginCycle \/ BeginSecond
      BY <1>1, <1>5, <2>2, <2>6, CycleMoves
    <3>2. CASE BeginCycle
      BY <1>1, <3>2, CycleStates DEF cmd_read, cmd_write
    <3>3. CASE BeginSecond
      BY <1>1, <2>5, <3>3, CycleStates
    <3> QED
      BY <3>1, <3>2, <3>3
  <2> QED
    <3>1. ~over'
      BY <2>1 DEF over
    <3>2. pc' = "second" => cmd_read' /\ dma_longword_second_pending'
      BY <1>2, <2>3, <2>4, <2>5
    <3>3. cpu'.st # "off" =>
            /\ pc' \in {"move", "second"} /\ (cpu'.second <=> pc' = "second")
            /\ IF cpu'.dir = "read" THEN cmd_read' /\ ~old_dma_wr' ELSE cmd_write' /\ ~old_dma_rd' /\ ~cpu'.long
            /\ (cpu'.long => cpu'.word) /\ (cpu'.second => cpu'.long)
            /\ cpu'.st = "wait" /\ cpu'.timer = 1
      BY <1>2, <2>1, <2>6
    <3> QED
      BY <2>1, <3>1, <3>2, <3>3 DEF Cycle
<1>6. CASE EndCycle
  <2>1. /\ cpu.st = "dtack" /\ cpu'.st = "off" /\ gap' = MinGap
        /\ pc' = IF cpu.long /\ ~cpu.second THEN "second" ELSE IF moved' = length THEN "off" ELSE "move"
    BY <1>6 DEF EndCycle, Off
  <2>2. /\ pc \in {"move", "second"} /\ (cpu.second <=> pc = "second")
        /\ IF cpu.dir = "read" THEN cmd_read /\ old_dma_rd ELSE cmd_write /\ old_dma_wr /\ ~cpu.long
        /\ (cpu.long => cpu.word) /\ (cpu.second => cpu.long)
        /\ (dma_word <=> cpu.word) /\ (dma_longword <=> cpu.long) /\ (dma_second_word <=> cpu.second)
        /\ cpu.dir = "read" => /\ dma_suppress_ack <=> cpu.second
                               /\ cpu.long /\ ~cpu.second => dma_longword_second_pending
    BY <1>1, <2>1 DEF Cycle
  <2>3. ~rdStart /\ ~wrStart
    BY <1>4, <2>2
  <2>4. UNCHANGED <<dma_word, dma_longword, dma_second_word, dma_suppress_ack, dma_longword_second_pending>>
    BY <1>1, <2>3, LatchMoves
  <2>5. (old_dma_rd' <=> cpu.dir = "read") /\ (old_dma_wr' <=> cpu.dir = "write")
    BY <1>3, <2>1
  <2> QED
    BY <1>2, <1>4, <2>1, <2>2, <2>4, <2>5 DEF Cycle, over
<1>7. CASE cpu.st # "off" /\ ~EndCycle
  <2>1. SameCycle /\ pc' = pc /\ moved' = moved
    BY <1>1, <1>7, CycleMoves, CycleStates DEF Cycle
  <2>2. cpu'.st # "off"
    BY <1>1, <1>7, CycleMoves, CycleStates DEF Cycle
  <2>3. /\ pc \in {"move", "second"} /\ (cpu.second <=> pc = "second")
        /\ IF cpu.dir = "read" THEN cmd_read /\ ~old_dma_wr ELSE cmd_write /\ ~old_dma_rd /\ ~cpu.long
        /\ (cpu.long => cpu.word) /\ (cpu.second => cpu.long)
        /\ old_dma_rd \/ old_dma_wr =>
            /\ (dma_word <=> cpu.word) /\ (dma_longword <=> cpu.long) /\ (dma_second_word <=> cpu.second)
            /\ old_dma_rd => /\ dma_suppress_ack <=> cpu.second
                             /\ cpu.long /\ ~cpu.second => dma_longword_second_pending
        /\ pc = "second" /\ ~old_dma_rd => dma_longword_second_pending
    BY <1>1, <1>7 DEF Cycle
  <2>4. (old_dma_rd' <=> cpu.dir = "read") /\ (old_dma_wr' <=> cpu.dir = "write")
    BY <1>3, <1>7
  <2>5. /\ (dma_word' <=> cpu.word) /\ (dma_longword' <=> cpu.long) /\ (dma_second_word' <=> cpu.second)
        /\ cpu.dir = "read" => /\ dma_suppress_ack' <=> cpu.second
                               /\ cpu.long /\ ~cpu.second => dma_longword_second_pending'
    <3>1. CASE rdStart \/ wrStart
      <4>1. dma_word' = cpu.word /\ dma_longword' = cpu.long /\ dma_second_word' = cpu.second
        BY <1>1, <3>1, LatchMoves
      <4>2. ASSUME cpu.dir = "read"
            PROVE  /\ dma_suppress_ack' <=> cpu.second
                   /\ cpu.long /\ ~cpu.second => dma_longword_second_pending'
        <5>1. rdStart
          BY <1>4, <3>1, <4>2
        <5>2. cpu.second => dma_longword_second_pending
          BY <1>4, <2>3, <4>2, <5>1
        <5> QED
          BY <1>1, <2>3, <5>1, <5>2, LatchMoves
      <4> QED
        BY <4>1, <4>2
    <3>2. CASE ~rdStart /\ ~wrStart
      <4>1. UNCHANGED <<dma_word, dma_longword, dma_second_word, dma_suppress_ack, dma_longword_second_pending>>
        BY <1>1, <3>2, LatchMoves
      <4>2. IF cpu.dir = "read" THEN old_dma_rd ELSE old_dma_wr
        BY <1>4, <1>7, <3>2
      <4> QED
        BY <2>3, <4>1, <4>2
    <3> QED
      BY <3>1, <3>2
  <2>6. SameCycle
    BY <2>1
  <2>7. /\ (cpu'.second <=> pc' = "second") /\ (cpu'.long => cpu'.word) /\ (cpu'.second => cpu'.long)
        /\ IF cpu'.dir = "read" THEN cmd_read /\ ~old_dma_wr' ELSE cmd_write /\ ~old_dma_rd' /\ ~cpu'.long
    BY <1>4, <2>1, <2>3, <2>4 DEF SameCycle
  <2>8. old_dma_wr' => ~dma_longword'
    BY <1>4, <2>3, <2>4, <2>5
  <2>9. pc' = "second" => cmd_read /\ old_dma_rd'
    BY <1>4, <2>1, <2>3, <2>4
  <2>10. /\ (dma_word' <=> cpu'.word) /\ (dma_longword' <=> cpu'.long) /\ (dma_second_word' <=> cpu'.second)
         /\ old_dma_rd' => /\ dma_suppress_ack' <=> cpu'.second
                           /\ cpu'.long /\ ~cpu'.second => dma_longword_second_pending'
    BY <2>1, <2>4, <2>5 DEF SameCycle
  <2>11. (old_dma_rd' => cmd_read) /\ (old_dma_wr' => cmd_write)
    BY <1>4, <2>3, <2>4
  <2>12. pc' \in {"move", "second"} /\ (old_dma_rd' \/ old_dma_wr') /\ ~over'
    BY <1>4, <2>1, <2>2, <2>3, <2>4 DEF over
  <2> QED
    BY <1>2, <2>2, <2>7, <2>8, <2>9, <2>10, <2>11, <2>12, ZenonT(30) DEF Cycle
<1> QED
  BY <1>5, <1>6, <1>7

LEMMA StepInBounds ==
  ASSUME CountInv, Next
  PROVE  InBounds'
<1>1. Kinds /\ Cycle /\ CpuClk /\ InBounds /\ length' = length
  BY LinesKept DEF CountInv, Next
<1>2. moved \in Nat /\ length \in Nat
  BY <1>1, LengthType DEF Kinds
<1>3. CASE EndCycle
  <2>1. /\ cpu.st = "dtack" /\ moved' = moved + (IF cpu.word THEN 2 ELSE 1) /\ cpu'.st = "off"
        /\ pc' = IF cpu.long /\ ~cpu.second THEN "second" ELSE IF moved' = length THEN "off" ELSE "move"
    BY <1>3 DEF EndCycle, Off
  <2>2. /\ pc \in {"move", "second"} /\ (cpu.second <=> pc = "second")
        /\ (cpu.long => cpu.word) /\ (cpu.second => cpu.long)
    BY <1>1, <2>1 DEF Cycle
  <2> QED
    BY <1>1, <1>2, <2>1, <2>2 DEF InBounds, size, ahead
<1>4. CASE ~EndCycle
  <2>1. moved' = moved /\ (pc' = "second" <=> pc = "second")
    BY <1>1, <1>4, CpuActions DEF Wait, Arm, BeginCycle, BeginSecond, Assert, SeeDtack,
       ModeOff, WakeUp, ReadCsr, MoveAck
  <2>2. ASSUME cpu'.st # "off", pc' = "move" PROVE moved' + size' <= length
    <3>1. CASE BeginCycle
      BY <1>1, <3>1, <2>1, CycleStates
    <3>2. CASE ~BeginCycle
      <4>1. SameCycle /\ pc = "move" /\ cpu.st # "off"
        <5>1. ~BeginSecond
          BY <1>1, <2>2, CycleStates
        <5> QED
          BY <1>1, <1>4, <2>2, <3>2, <5>1, CycleMoves DEF Cycle, SameCycle
      <4> QED
        BY <1>1, <2>1, <4>1 DEF SameCycle, InBounds, size
    <3> QED
      BY <3>1, <3>2
  <2> QED
    BY <1>1, <2>1, <2>2 DEF InBounds, ahead
<1> QED
  BY <1>3, <1>4

-----------------------------------------------------------------------------
(* The dialog *)

\* While a byte of the data phase is missing the target stays in it.
LEMMA DoneMeans ==
  ASSUME CountInv, dataPhase
  PROVE  data_done <=> bytes(data_cnt) = length
<1>1. Kinds /\ Places /\ Counts
  BY DEF CountInv
<1>2. tlen = cmd.len /\ data_cnt \in Count /\ tlen \in Count /\ length = bytes(tlen)
  BY <1>1, LengthType DEF Places, Kinds, dataPhase
<1>3. (data_complete => data_cnt = tlen) /\ (data_cnt = tlen => data_done)
  BY <1>1 DEF Counts
<1>4. CASE data_complete
  BY <1>2, <1>3, <1>4 DEF data_done
<1>5. CASE ~data_complete /\ data_len = Zero
  <2>1. length = 0 /\ data_done
    BY <1>2, <1>5, BytesZero DEF data_len, data_done
  <2>2. bytes(data_cnt) \in Nat /\ due \in Nat /\ moved + ahead <= length
        /\ bytes(data_cnt) + due = moved + ahead /\ moved \in Nat /\ ahead \in Nat
    <3>1. InBounds /\ left \in Nat /\ unit \in Nat
      BY <1>1 DEF CountInv, left, One, unit, Kinds, TypeOK
    <3> QED
      BY <1>1, <1>2, <3>1, BytesType, LengthType DEF InBounds, Counts, due, ahead
  <2> QED
    BY <2>1, <2>2
<1>6. CASE ~data_complete /\ data_len # Zero
  <2>1. ~data_done
    BY <1>6 DEF data_done
  <2>2. data_cnt # tlen
    BY <1>3, <2>1
  <2> QED
    BY <1>2, <2>1, <2>2, BytesApart
<1> QED
  BY <1>4, <1>5, <1>6

\* The polled part of the dialog is never left, and only the interrupt or the
\* poll itself leads to it.
LEMMA PollMoves ==
  ASSUME CountInv, Next
  PROVE  /\ polling => polling'
         /\ polling' => polling \/ (pc = "sleep" /\ irq_latch)
<1>1. CpuClk /\ Cycle
  BY DEF Next, CountInv
<1>2. CASE EndCycle
  BY <1>1, <1>2 DEF EndCycle, Cycle, polling
<1>3. CASE Wait \/ BeginCycle \/ BeginSecond \/ Assert \/ SeeDtack
  BY <1>3 DEF Wait, BeginCycle, BeginSecond, Assert, SeeDtack, polling
<1>4. CASE Arm \/ ModeOff \/ WakeUp
  BY <1>4 DEF Arm, ModeOff, WakeUp, polling
<1>5. CASE ReadCsr \/ MoveAck
  BY <1>5 DEF ReadCsr, MoveAck, polling
<1> QED
  BY <1>1, <1>2, <1>3, <1>4, <1>5, CpuActions

\* Where the driver goes.
LEMMA PcMoves ==
  ASSUME CountInv, Next
  PROVE  \/ pc' = pc /\ moved' = moved /\ tcr' = tcr /\ mr_dma' = mr_dma
         \/ EndCycle /\ tcr' = tcr /\ mr_dma' = mr_dma /\ pc \in {"move", "second"} /\ pc' \in {"move", "second", "off"}
            /\ (pc' = "off" => moved' = length)
         \/ moved' = moved /\ cpu' = cpu /\
            \/ pc = "tcr" /\ pc' = "mode" /\ dataPhase /\ tcr' = Lines(phase) /\ mr_dma' = mr_dma
            \/ pc = "mode" /\ pc' = "start" /\ tcr' = tcr /\ mr_dma'
            \/ pc = "start" /\ pc' = "move" /\ tcr' = tcr /\ mr_dma' = mr_dma
            \/ pc = "off" /\ pc' = "sleep" /\ tcr' = tcr /\ mr_dma' = FALSE
            \/ pc = "sleep" /\ pc' = "poll" /\ irq_latch /\ rst_rd' /\ tcr' = tcr /\ mr_dma' = mr_dma
            \/ polling /\ polling' /\ tcr' = tcr /\ mr_dma' = mr_dma
<1>1. CpuClk /\ Cycle
  BY DEF Next, CountInv
<1>2. CASE EndCycle
  BY <1>1, <1>2 DEF EndCycle, KeepRegs, regVars, Cycle
<1>3. CASE Wait \/ BeginCycle \/ BeginSecond \/ Assert \/ SeeDtack
  BY <1>3 DEF Wait, BeginCycle, BeginSecond, Assert, SeeDtack, KeepRegs, regVars
<1>4. CASE Arm
  BY <1>4 DEF Arm
<1>5. CASE ModeOff \/ WakeUp
  BY <1>5 DEF ModeOff, WakeUp
<1>6. CASE ReadCsr \/ MoveAck
  BY <1>6 DEF ReadCsr, MoveAck, KeepRegs, regVars, polling
<1> QED
  BY <1>1, <1>2, <1>3, <1>4, <1>5, <1>6, CpuActions

\* A clock with no pulse due brings none unless a cycle ends in it.
LEMMA NoneDue ==
  ASSUME CountInv, Next, due = 0
  PROVE  /\ left' = 0 /\ dma_settle # 3
         /\ ~polling => ~stb_adv
         /\ due' = IF begins' THEN unit' ELSE 0
<1>1. left' = 0 /\ dma_settle # 3
  <2>1. left' \in Nat /\ left' + One(dma_settle = 3) = 0
    BY LeftMoves
  <2>2. One(dma_settle = 3) = IF dma_settle = 3 THEN 1 ELSE 0
    BY DEF One
  <2>3. dma_settle # 3
    <3> SUFFICES ASSUME dma_settle = 3 PROVE FALSE
      OBVIOUS
    <3>1. One(dma_settle = 3) = 1
      BY <2>2
    <3> QED
      BY <2>1, <3>1
  <2>4. One(dma_settle = 3) = 0
    BY <2>2, <2>3
  <2> QED
    BY <2>1, <2>3, <2>4
<1>2. ~polling => ~stb_adv
  BY <1>1 DEF CountInv, Train
<1>3. begins' => unit' \in Nat
  BY EndMoves
<1> QED
  BY <1>1, <1>2, <1>3 DEF due

\* An initiator in the middle of its transfer finds the target in the data
\* phase, and the target stays there.
LEMMA StaysInData ==
  ASSUME CountInv, Next, pc \in {"move", "second"}, moved + ahead < length
  PROVE  dataPhase /\ ~data_done /\ phase' = phase /\ dataPhase'
<1>1. Kinds /\ Places /\ Counts
  BY DEF CountInv
<1>2. dataPhase
  <2>1. ~dataPhase => moved + ahead = length
    BY <1>1 DEF Counts
  <2>2. moved + ahead # length
    BY <1>1, LengthType DEF ahead
  <2> QED
    BY <2>1, <2>2
<1>3. bytes(data_cnt) \in Nat /\ due \in Nat /\ bytes(data_cnt) + due = moved + ahead
  BY <1>1, <1>2, LeftMoves, BytesType DEF Counts, Kinds
<1>4. bytes(data_cnt) # length
  BY <1>1, <1>3, LengthType DEF ahead
<1>5. ~data_done
  BY <1>2, <1>4, DoneMeans
<1>6. phase' = phase
  BY <1>1, <1>2, <1>5, PhaseMoves
<1> QED
  BY <1>2, <1>5, <1>6 DEF dataPhase

LEMMA SentOnlyPolled ==
  ASSUME CountInv, Next
  PROVE  /\ status_sent' \/ message_sent' => polling /\ polling'
         /\ ~polling => (phase = "STATUS_OUT" => phase' = "STATUS_OUT")
         /\ phase' \in {"MESSAGE_OUT", "IDLE"} => polling
         /\ phase' = "CMD_IN" => phase = "CMD_IN" /\ ~cmd_cpl
         /\ dataPhase' => (phase = "CMD_IN" /\ cmd_cpl /\ phase' = dataOf)
                          \/ (dataPhase /\ phase' = phase /\ ~data_done)
<1>1. Kinds /\ Places /\ Counts /\ phase \in Phases
  BY DEF CountInv, Kinds
<1>2. status_sent' \/ message_sent' => polling
  <2>1. ASSUME status_sent' \/ message_sent' PROVE polling
    <3>1. phase \in {"STATUS_OUT", "MESSAGE_OUT"} /\ (stb_adv \/ status_sent \/ message_sent)
      BY <1>1, <2>1, PhaseMoves
    <3>2. due = 0
      BY <1>1, <3>1 DEF Counts, dataPhase
    <3>3. ~polling => ~stb_adv /\ ~status_sent /\ ~message_sent
      BY <1>1, <3>2, NoneDue DEF Places
    <3> QED
      BY <3>1, <3>3
  <2> QED
    BY <2>1
<1>3. status_sent => polling
  BY <1>1 DEF Places
<1>4. message_sent => polling
  BY <1>1 DEF Places
<1>5. phase \in {"MESSAGE_OUT", "IDLE"} => polling
  BY <1>1 DEF Places
<1>6. dataOf \in {"DATA_OUT", "DATA_IN", "STATUS_OUT"}
  BY DEF dataOf, AfterCommand
<1>7. /\ phase = "IDLE" => phase' = "IDLE"
      /\ phase = "CMD_IN" => phase' = IF cmd_cpl THEN dataOf ELSE "CMD_IN"
      /\ dataPhase => phase' = IF data_done THEN "STATUS_OUT" ELSE phase
      /\ phase = "STATUS_OUT" => phase' = IF status_sent THEN "MESSAGE_OUT" ELSE "STATUS_OUT"
      /\ phase = "MESSAGE_OUT" => phase' = IF message_sent THEN "IDLE" ELSE "MESSAGE_OUT"
  BY <1>1, PhaseMoves
<1>8. ~polling => (phase = "STATUS_OUT" => phase' = "STATUS_OUT")
  BY <1>3, <1>7
<1>9. phase' \in {"MESSAGE_OUT", "IDLE"} => polling
  BY <1>1, <1>3, <1>5, <1>6, <1>7 DEF Phases, dataPhase
<1>10. phase' = "CMD_IN" => phase = "CMD_IN" /\ ~cmd_cpl
  BY <1>1, <1>6, <1>7 DEF Phases, dataPhase
<1>11. dataPhase' => (phase = "CMD_IN" /\ cmd_cpl /\ phase' = dataOf)
                     \/ (dataPhase /\ phase' = phase /\ ~data_done)
  BY <1>1, <1>6, <1>7 DEF Phases, dataPhase
<1> QED
  BY <1>2, <1>8, <1>9, <1>10, <1>11, PollMoves

LEMMA StepPlaces ==
  ASSUME CountInv, Next
  PROVE  Places'
<1>1. Kinds /\ Places /\ Counts /\ Cycle /\ InBounds /\ Interrupt /\ phase \in Phases
  BY DEF CountInv, Kinds
<1>2. cmd' = cmd /\ length' = length /\ dataOf' = dataOf /\ moved \in Nat /\ length \in Nat
  BY <1>1, LinesKept, LengthType DEF dataOf
<1>3. phase' = "CMD_IN" => /\ pc' = "tcr" /\ data_cnt' = Zero /\ ~data_complete'
  <2> SUFFICES ASSUME phase' = "CMD_IN" PROVE pc' = "tcr" /\ data_cnt' = Zero /\ ~data_complete'
    OBVIOUS
  <2>1. phase = "CMD_IN" /\ pc = "tcr"
    BY <1>1, SentOnlyPolled DEF Places
  <2>2. ~transferPhase /\ ~dataPhase
    BY <2>1 DEF transferPhase, dataPhase
  <2>3. pc' = "tcr"
    BY <1>1, <2>1, <2>2, PcMoves, Zenon DEF polling
  <2> QED
    BY <1>1, <2>2, <2>3, CountMoves
<1>4. phase' \in {"CMD_IN", "DATA_OUT", "DATA_IN"} => ~status_sent' /\ ~message_sent'
  <2>1. phase' \in {"CMD_IN", "DATA_OUT", "DATA_IN"} => phase \in {"CMD_IN", "DATA_OUT", "DATA_IN"}
    BY SentOnlyPolled DEF dataPhase
  <2> QED
    BY <1>1, <2>1, PhaseMoves
<1>5. status_sent' \/ message_sent' => polling'
  BY SentOnlyPolled
<1>6. phase' # "CMD_IN" => tlen' = cmd'.len
  BY <1>1, <1>2, PhaseMoves DEF Places
<1>7. dataPhase' => phase' = dataOf'
  BY <1>1, <1>2, SentOnlyPolled DEF Places
<1>8. ASSUME due = 0, pc \in {"tcr", "mode", "start"} PROVE due' = 0
  <2>1. ~EndCycle
    BY <1>1, <1>8 DEF EndCycle, Cycle
  <2> QED
    BY <1>8, <2>1, EndMoves, NoneDue
<1>9. pc' = "tcr" => tcr' = {"cd"} /\ moved' = 0 /\ due' = 0
  <2>1. pc' = "tcr" => pc = "tcr" /\ tcr' = tcr /\ moved' = moved
    BY PcMoves DEF polling
  <2> QED
    BY <1>1, <1>8, <2>1 DEF Places
<1>10. pc' # "tcr" => /\ dataOf' \in {"DATA_OUT", "DATA_IN"} /\ tcr' = Lines(dataOf')
                      /\ phase' # "CMD_IN"
  <2>1. CASE pc = "tcr" /\ pc' # "tcr"
    <3>1. dataPhase /\ tcr' = Lines(phase)
      BY <2>1, PcMoves DEF polling
    <3>2. phase = dataOf
      BY <1>1, <3>1 DEF Places
    <3> QED
      BY <1>2, <3>1, <3>2, SentOnlyPolled DEF dataPhase
  <2>2. CASE pc # "tcr"
    <3>1. tcr' = tcr
      BY <2>2, PcMoves
    <3> QED
      BY <1>1, <1>2, <2>2, <3>1, SentOnlyPolled DEF Places
  <2> QED
    BY <2>1, <2>2
<1>11. pc' \in {"mode", "start"} => moved' = 0 /\ due' = 0
  <2>1. pc' \in {"mode", "start"} => pc \in {"tcr", "mode", "start"} /\ moved' = moved
    BY PcMoves DEF polling
  <2> QED
    BY <1>1, <1>8, <2>1 DEF Places
<1>12. mr_dma' <=> (pc' \in {"start", "move", "second", "off"})
  <2>1. mr_dma <=> (pc \in {"start", "move", "second", "off"})
    BY <1>1 DEF Places
  <2>2. CASE mr_dma' = mr_dma /\ (pc' \in {"start", "move", "second", "off"}
                                  <=> pc \in {"start", "move", "second", "off"})
    BY <2>1, <2>2
  <2>3. CASE mr_dma' /\ pc' = "start"
    BY <2>3
  <2>4. CASE ~mr_dma' /\ pc' = "sleep"
    BY <2>4
  <2> QED
    BY <2>2, <2>3, <2>4, PcMoves DEF polling
<1>13. pc' \in {"move", "second", "off"} => dma_en'
  <2>1. pc' \in {"move", "second", "off"} => pc \in {"move", "second", "off"} \/ (pc = "start" /\ pc' = "move")
    BY PcMoves DEF polling
  <2>2. dma_en' <=> mr_dma /\ (dma_en \/ (pc = "start" /\ pc' = "move"))
    BY <1>1, InterruptMoves
  <2> QED
    BY <1>1, <2>1, <2>2 DEF Places
<1>14. pc' \in {"off", "sleep"} \/ polling' => moved' = length'
  <2>1. pc' \in {"off", "sleep"} \/ polling' =>
          \/ pc' = "off" /\ moved' = length
          \/ moved' = moved /\ (pc \in {"off", "sleep"} \/ polling)
    BY PcMoves DEF polling
  <2> QED
    BY <1>1, <1>2, <2>1 DEF Places
<1>15. pc' = "sleep" \/ polling' => ~over'
  <2>1. EndCycle => pc' \in {"move", "second", "off"}
    BY DEF EndCycle
  <2> QED
    BY <2>1, EndMoves DEF polling
<1>16. polling' => ~dataPhase'
  <2>1. ASSUME polling', dataPhase' PROVE FALSE
    <3>1. phase = "CMD_IN" \/ dataPhase
      BY <2>1, SentOnlyPolled
    <3>2. polling \/ (pc = "sleep" /\ phase = "STATUS_OUT")
      BY <1>1, <2>1, PollMoves DEF Interrupt
    <3>3. ~polling
      BY <1>1, <3>1 DEF Places, polling
    <3> QED
      BY <3>1, <3>2, <3>3 DEF dataPhase
  <2> QED
    BY <2>1
<1>17. phase' \in {"MESSAGE_OUT", "IDLE"} => polling'
  BY SentOnlyPolled, PollMoves
<1>18. cpu'.st # "off" /\ pc' = "move" => dataPhase'
  <2> SUFFICES ASSUME cpu'.st # "off", pc' = "move" PROVE dataPhase'
    OBVIOUS
  <2>1. moved < length /\ pc = "move"
    <3>1. CASE BeginCycle
      BY <1>1, <3>1, CycleStates
    <3>2. CASE ~BeginCycle
      <4>1. ~BeginSecond /\ ~EndCycle
        BY <1>1, CycleStates
      <4>2. cpu.st # "off"
        BY <1>1, <3>2, <4>1, CycleMoves
      <4>3. pc = "move"
        BY <1>1, <4>1, <4>2, PcMoves DEF Cycle, polling
      <4> QED
        BY <1>1, <1>2, <4>2, <4>3 DEF InBounds, size
    <3> QED
      BY <3>1, <3>2
  <2> QED
    BY <1>2, <2>1, StaysInData DEF ahead
<1> QED
  BY <1>3, <1>4, <1>5, <1>6, <1>7, <1>9, <1>10, <1>11, <1>12, <1>13, <1>14, <1>15, <1>16, <1>17, <1>18 DEF Places

LEMMA StepCounts ==
  ASSUME CountInv, Next
  PROVE  Counts'
<1>1. Kinds /\ Places /\ Counts /\ InBounds /\ data_cnt \in Count /\ tlen \in Count
  BY DEF CountInv, Kinds
<1>2. /\ moved \in Nat /\ length \in Nat /\ left' \in Nat /\ due \in Nat /\ due = left' + One(dma_settle = 3)
      /\ ahead \in Nat /\ bytes(data_cnt) \in Nat
  BY <1>1, LengthType, LeftMoves, BytesType DEF ahead
<1>3. moved' + ahead' = moved + ahead + (IF begins' THEN unit' ELSE 0)
  BY EndMoves
<1>4. due' = left' + (IF begins' THEN unit' ELSE 0)
  BY DEF due
<1>5. begins' => pc = "move" /\ dataPhase /\ moved + ahead < length /\ unit' \in Nat
  BY EndMoves
<1>10. \E n \in Nat : moved' + ahead' = moved + ahead + n /\ due' = left' + n
  <2>1. CASE begins'
    BY <1>3, <1>4, <1>5, <2>1
  <2>2. CASE ~begins'
    BY <1>3, <1>4, <2>2
  <2> QED
    BY <2>1, <2>2
<1>12. /\ moved \in Nat /\ length \in Nat /\ left' \in Nat /\ due \in Nat
       /\ ahead \in Nat /\ bytes(data_cnt) \in Nat
  BY <1>2
<1>11. One(dma_settle = 3) = IF dma_settle = 3 THEN 1 ELSE 0
  BY DEF One
<1>6. begins' => dataPhase /\ ~data_done /\ dataPhase'
  BY <1>5, StaysInData
<1>7. CASE phase = "CMD_IN"
  <2>1. pc = "tcr" /\ due = 0 /\ moved = 0 /\ ~transferPhase /\ ~dataPhase
    BY <1>1, <1>7 DEF Places, transferPhase, dataPhase
  <2>2. ~begins' /\ due' = 0
    BY <1>6, <2>1, NoneDue
  <2>3. data_cnt' = Zero /\ ~data_complete'
    BY <1>1, <2>1, CountMoves
  <2>4. moved' + ahead' = 0
    BY <1>3, <2>1, <2>2 DEF ahead
  <2>5. pc' = "tcr"
    BY <2>1, PcMoves DEF polling
  <2>6. data_cnt' = tlen' => data_done'
    BY <2>3 DEF data_done, data_len
  <2>7. bytes(data_cnt)' = 0
    BY <2>3, BytesZero
  <2> QED
    BY <2>2, <2>3, <2>4, <2>5, <2>6, <2>7 DEF Counts
<1>8. CASE dataPhase /\ ~data_done
  <2>1. /\ ~data_complete /\ transferPhase /\ ~polling /\ phase' = phase /\ data_len = tlen /\ data_cnt # tlen
    BY <1>1, <1>8, PhaseMoves DEF data_done, transferPhase, Places, data_len, Counts
  <2>2. dataPhase' /\ tlen' = tlen
    BY <1>1, <1>8, <2>1, PhaseMoves DEF dataPhase
  <2>3. stb_adv <=> dma_settle = 3
    BY <2>1 DEF CountInv, Train
  <2>4. bytes(data_cnt) + due = moved + ahead
    BY <1>1, <1>8 DEF Counts
  <2>5. CASE stb_adv
    <3>1. data_cnt' = Bump(data_cnt) /\ (data_complete' <=> Bump(data_cnt) = tlen)
      BY <1>1, <2>1, <2>5, CountMoves
    <3>2. bytes(data_cnt)' = bytes(data_cnt) + 1
      BY <1>1, <3>1, BytesBump
    <3>3. due = left' + 1
      BY <1>2, <1>11, <2>3, <2>5
    <3>4. bytes(data_cnt)' + due' = moved' + ahead'
      <4>1. PICK n \in Nat : moved' + ahead' = moved + ahead + n /\ due' = left' + n
        BY <1>10
      <4>2. bytes(data_cnt)' + due' = bytes(data_cnt) + 1 + left' + n
        BY <1>2, <3>2, <4>1
      <4>3. moved' + ahead' = bytes(data_cnt) + left' + 1 + n
        BY <1>12, <2>4, <3>3, <4>1
      <4> QED
        BY <1>2, <4>2, <4>3
    <3>5. (data_complete' => data_cnt' = tlen') /\ (data_cnt' = tlen' => data_done')
      BY <2>2, <3>1 DEF data_done
    <3> QED
      BY <2>2, <3>4, <3>5 DEF Counts
  <2>6. CASE ~stb_adv
    <3>1. data_cnt' = data_cnt /\ data_complete' = data_complete
      BY <1>1, <2>1, <2>6, CountMoves
    <3>2. bytes(data_cnt)' = bytes(data_cnt)
      BY <3>1
    <3>3. due = left'
      BY <1>2, <1>11, <2>3, <2>6
    <3>4. bytes(data_cnt)' + due' = moved' + ahead'
      BY <1>2, <1>10, <2>4, <3>2, <3>3
    <3> QED
      BY <2>1, <2>2, <3>1, <3>4 DEF Counts
  <2> QED
    BY <2>5, <2>6
<1>9. CASE ~(phase = "CMD_IN") /\ ~(dataPhase /\ ~data_done)
  <2>1. ~dataPhase' /\ ~begins'
    BY <1>6, <1>9, SentOnlyPolled
  <2>2. due = 0 /\ (pc # "tcr" => moved + ahead = length)
    <3>1. CASE ~dataPhase
      BY <1>1, <3>1 DEF Counts
    <3>2. CASE dataPhase /\ data_done
      <4>1. bytes(data_cnt) = length
        BY <3>2, DoneMeans
      <4>2. bytes(data_cnt) + due = moved + ahead /\ moved + ahead <= length
        BY <1>1, <3>2 DEF Counts, InBounds
      <4> QED
        BY <1>2, <4>1, <4>2
    <3> QED
      BY <1>9, <3>1, <3>2
  <2>3. due' = 0
    BY <2>1, <2>2, NoneDue
  <2>4. pc' # "tcr" => moved' + ahead' = length
    <3>1. CASE pc = "tcr" /\ pc' # "tcr"
      <4>1. dataPhase /\ data_done /\ moved = 0 /\ ahead = 0
        BY <1>1, <1>9, <3>1, PcMoves DEF polling, Places, ahead
      <4>2. bytes(data_cnt) = length /\ bytes(data_cnt) + due = 0
        BY <1>1, <4>1, DoneMeans DEF Counts
      <4> QED
        BY <1>2, <1>3, <2>1, <2>2, <4>1, <4>2
    <3>2. CASE pc # "tcr"
      BY <1>2, <1>3, <2>1, <2>2, <3>2
    <3> QED
      BY <3>1, <3>2
  <2> QED
    BY <1>1, <2>1, <2>3, <2>4, LinesKept DEF Counts
<1> QED
  BY <1>7, <1>8, <1>9

\* What TCR is compared with.
LEMMA LinesApart ==
  /\ Lines("STATUS_OUT") = {"cd", "io"} /\ Lines("CMD_IN") = {"cd"}
  /\ Lines("DATA_OUT") = {"io"} /\ Lines("DATA_IN") = {}
  /\ \A p \in {"DATA_OUT", "DATA_IN"} : Lines(p) # Lines("STATUS_OUT") /\ Lines(p) # {"cd"}
  BY DEF Lines

LEMMA StepInterrupt ==
  ASSUME CountInv, Next
  PROVE  Interrupt'
<1>1. Kinds /\ Places /\ Counts /\ Cycle /\ InBounds /\ Interrupt
  BY DEF CountInv
<1>2. length' = length /\ moved \in Nat /\ length \in Nat
  BY <1>1, LinesKept, LengthType
<1> DEFINE fires == dma_armed /\ pmatch_d /\ ~bsr_pmatch
           start == pc = "start" /\ pc' = "move"
<1>3. /\ pmatch_d' <=> bsr_pmatch
      /\ irq_latch' <=> fires \/ (irq_latch /\ ~rst_rd)
      /\ dma_armed' <=> ~fires /\ (dma_armed \/ start)
  BY <1>1, InterruptMoves
<1> HIDE DEF fires
<1>4. pc # "tcr" => (dataPhase => bsr_pmatch) /\ (phase = "STATUS_OUT" => ~bsr_pmatch)
  BY <1>1, LinesApart DEF Places, bsr_pmatch, dataPhase
<1>5. ASSUME phase = "STATUS_OUT", ~polling PROVE phase' = "STATUS_OUT" /\ data_complete' = data_complete
  <2>1. due = 0 /\ transferPhase
    BY <1>1, <1>5 DEF Counts, dataPhase, transferPhase
  <2>2. ~stb_adv
    BY <1>5, <2>1, NoneDue
  <2> QED
    BY <1>1, <1>5, <2>1, <2>2, SentOnlyPolled, CountMoves
<1>6. fires => phase = "STATUS_OUT" /\ data_complete /\ pc \in {"move", "second", "off", "sleep"}
  <2>1. fires => pc \in {"move", "second", "off", "sleep"} /\ ~dataPhase /\ pmatch_d
    BY <1>1, <1>4 DEF fires, Interrupt
  <2> QED
    BY <1>1, <2>1 DEF fires, Interrupt
<1>7. ASSUME pc # "tcr", dataPhase PROVE length # 0
  BY <1>1, <1>7 DEF Interrupt, dataPhase
<1>8. ASSUME dma_armed', ~dma_armed
      PROVE  /\ pc' = "move" /\ ~irq_latch'
             /\ dataPhase' \/ (phase' = "STATUS_OUT" /\ ~pmatch_d' /\ length = 0)
  <2>1. pc = "start" /\ pc' = "move"
    BY <1>3, <1>8
  <2>2. ~irq_latch' /\ moved = 0 /\ ahead = 0 /\ due = 0
    BY <1>1, <1>3, <1>8, <2>1 DEF Interrupt, Places, fires, ahead
  <2>3. CASE dataPhase
    <3>1. bytes(data_cnt) = 0
      <4>1. bytes(data_cnt) \in Nat /\ bytes(data_cnt) + 0 = 0 + 0
        BY <1>1, <2>2, <2>3, BytesType DEF Counts, Kinds
      <4> QED
        BY <4>1
    <3>2. ~data_done
      BY <1>7, <2>1, <2>3, <3>1, DoneMeans
    <3> QED
      BY <1>1, <2>1, <2>2, <2>3, <3>2, PhaseMoves DEF dataPhase
  <2>4. CASE ~dataPhase
    <3>1. length = 0
      BY <1>1, <2>1, <2>2, <2>4 DEF Counts
    <3>2. phase = "STATUS_OUT" /\ ~polling
      BY <1>1, <2>1, <3>1 DEF Interrupt, polling
    <3> QED
      BY <1>3, <1>4, <1>5, <2>1, <2>2, <3>1, <3>2
  <2> QED
    BY <2>3, <2>4
<1>9. ASSUME dma_armed', dma_armed
      PROVE  /\ pc' \in {"move", "second", "off", "sleep"} /\ ~irq_latch'
             /\ \/ dataPhase'
                \/ phase' = "STATUS_OUT" /\ pmatch_d' /\ data_complete'
                \/ phase' = "STATUS_OUT" /\ ~pmatch_d' /\ length = 0
  <2>1. ~fires /\ ~irq_latch /\ pc \in {"move", "second", "off", "sleep"} /\ ~polling
    BY <1>1, <1>3, <1>9 DEF Interrupt, polling
  <2>2. ~irq_latch' /\ pc' \in {"move", "second", "off", "sleep"}
    BY <1>3, <2>1, PcMoves
  <2>3. CASE dataPhase
    <3>1. CASE data_done
      <4>1. length # 0 /\ pmatch_d' /\ phase' = "STATUS_OUT"
        BY <1>1, <1>3, <1>4, <1>7, <2>1, <2>3, <3>1, PhaseMoves
      <4>2. tlen # Zero
        BY <1>1, <2>3, <4>1, LengthType, BytesZero DEF Places, dataPhase
      <4>3. data_complete
        BY <3>1, <4>2 DEF data_done, data_len
      <4>4. due = 0
        <5>1. bytes(data_cnt) = length
          BY <2>3, <3>1, DoneMeans
        <5>2. bytes(data_cnt) + due = moved + ahead /\ moved + ahead <= length
          BY <1>1, <2>3 DEF Counts, InBounds
        <5>3. due \in Nat /\ ahead \in Nat
          BY LeftMoves DEF ahead
        <5> QED
          BY <1>2, <5>1, <5>2, <5>3
      <4>5. data_complete'
        BY <1>1, <2>1, <2>3, <4>3, <4>4, NoneDue, CountMoves DEF transferPhase
      <4> QED
        BY <2>2, <4>1, <4>5
    <3>2. CASE ~data_done
      BY <1>1, <2>2, <2>3, <3>2, PhaseMoves DEF dataPhase
    <3> QED
      BY <3>1, <3>2
  <2>4. CASE ~dataPhase
    <3>1. phase = "STATUS_OUT" /\ ~pmatch_d /\ length = 0
      <4>1. phase = "STATUS_OUT" /\ ((pmatch_d /\ data_complete) \/ (~pmatch_d /\ length = 0))
        BY <1>1, <1>9, <2>4 DEF Interrupt
      <4>2. ~pmatch_d
        BY <1>4, <1>9, <2>1, <4>1 DEF fires
      <4> QED
        BY <4>1, <4>2
    <3> QED
      BY <1>3, <1>4, <1>5, <2>1, <2>2, <3>1
  <2> QED
    BY <2>3, <2>4
<1>10. irq_latch' => /\ phase' = "STATUS_OUT" /\ data_complete'
                     /\ pc' \in {"move", "second", "off", "sleep"} \/ (pc' = "poll" /\ rst_rd')
  <2> SUFFICES ASSUME irq_latch'
               PROVE  /\ phase' = "STATUS_OUT" /\ data_complete'
                      /\ pc' \in {"move", "second", "off", "sleep"} \/ (pc' = "poll" /\ rst_rd')
    OBVIOUS
  <2>1. phase = "STATUS_OUT" /\ data_complete /\ pc \in {"move", "second", "off", "sleep"}
    BY <1>1, <1>3, <1>6 DEF Interrupt
  <2>2. pc' \in {"move", "second", "off", "sleep"} \/ (pc' = "poll" /\ rst_rd')
    BY <2>1, PcMoves DEF polling
  <2> QED
    BY <1>5, <2>1, <2>2 DEF polling
<1>11. pc' # "tcr" /\ length = 0 => /\ phase' = "STATUS_OUT" /\ ~pmatch_d' /\ ~irq_latch'
                                    /\ pc' \in {"mode", "start", "move"} /\ cpu'.st = "off"
  <2> SUFFICES ASSUME pc' # "tcr", length = 0
               PROVE  /\ phase' = "STATUS_OUT" /\ ~pmatch_d' /\ ~irq_latch'
                      /\ pc' \in {"mode", "start", "move"} /\ cpu'.st = "off"
    OBVIOUS
  <2>1. CASE pc = "tcr"
    <3>1. dataPhase /\ pc' = "mode" /\ cpu' = cpu /\ tcr = {"cd"} /\ cpu.st = "off"
      BY <1>1, <2>1, PcMoves DEF polling, Places, Cycle
    <3>2. data_done
      <4>1. tlen = cmd.len /\ tlen \in Count /\ bytes(tlen) = 0
        BY <1>1, <3>1, LengthType DEF Places, Kinds, dataPhase
      <4>2. tlen = Zero
        BY <4>1, BytesZero, BytesApart
      <4> QED
        BY <4>2 DEF data_done, data_len
    <3>3. phase' = "STATUS_OUT"
      BY <1>1, <3>1, <3>2, PhaseMoves
    <3>4. ~bsr_pmatch
      BY <3>1, LinesApart DEF bsr_pmatch, dataPhase
    <3>5. ~irq_latch /\ ~dma_armed
      BY <1>1, <2>1 DEF Interrupt
    <3> QED
      BY <1>3, <3>1, <3>3, <3>4, <3>5 DEF fires
  <2>2. CASE pc # "tcr"
    <3>1. /\ phase = "STATUS_OUT" /\ ~pmatch_d /\ ~irq_latch
          /\ pc \in {"mode", "start", "move"} /\ cpu.st = "off"
      BY <1>1, <2>2 DEF Interrupt
    <3>2. phase' = "STATUS_OUT"
      BY <1>5, <3>1 DEF polling
    <3>3. ~pmatch_d' /\ ~irq_latch'
      BY <1>3, <1>4, <2>2, <3>1 DEF fires
    <3>4. ~BeginCycle /\ ~BeginSecond /\ ~EndCycle
      BY <1>1, <1>2, <3>1, CycleStates
    <3>5. cpu' = cpu
      BY <1>1, <3>1, <3>4, CycleMoves
    <3>6. pc' \in {"mode", "start", "move"}
      BY <2>2, <3>1, <3>4, PcMoves DEF polling
    <3> QED
      BY <3>1, <3>2, <3>3, <3>5, <3>6
  <2> QED
    BY <2>1, <2>2
<1>12. dataPhase' /\ dma_armed' => length # 0
  <2>1. dma_armed' => pc' # "tcr"
    BY <1>8, <1>9
  <2> QED
    BY <1>11, <2>1 DEF dataPhase
<1> QED
  BY <1>2, <1>8, <1>9, <1>10, <1>11, <1>12 DEF Interrupt

-----------------------------------------------------------------------------
(* The invariant and what follows from it *)

LEMMA InitCount == Init => CountInv
<1> SUFFICES ASSUME Init PROVE CountInv
  OBVIOUS
<1>1. Kinds
  BY InitKinds
<1> USE DEF Init, TargetQuiet, HpsInit, NcrInit
<1>2. /\ cpu = Off /\ cpu.st = "off" /\ pc = "tcr" /\ moved = 0 /\ phase = "CMD_IN" /\ ~dataPhase
      /\ length \in Nat /\ tcr = {"cd"}
  BY <1>1, LengthType, LinesApart DEF Off, dataPhase
<1>3. ahead = 0 /\ due = 0
  <2>1. ~begins
    BY DEF begins, over
  <2>2. left = 0
    BY DEF left, One
  <2> QED
    BY <1>2, <2>1, <2>2 DEF ahead, due
<1>4. Train
  BY <1>2 DEF Train, polling, over, dma_ack_busy
<1>5. Cycle /\ InBounds
  BY <1>2, <1>3 DEF Cycle, over, InBounds
<1>6. Places
  BY <1>2, <1>3 DEF Places, over, polling
<1>7. Counts /\ Interrupt
  BY <1>2, <1>3 DEF Counts, Interrupt
<1> QED
  BY <1>1, <1>4, <1>5, <1>6, <1>7 DEF CountInv

LEMMA StepCount == CountInv /\ [Next]_vars => CountInv'
<1> SUFFICES ASSUME CountInv, [Next]_vars PROVE CountInv'
  OBVIOUS
<1>1. CASE Next
  BY <1>1, StepKinds, StepTrain, StepCycle, StepInBounds, StepPlaces, StepCounts, StepInterrupt
  DEF CountInv
<1>2. CASE UNCHANGED vars
  <2> USE <1>2 DEF vars, busVars, hpsVars, shakeVars, engineVars, bufferVars, cycleVars, regVars,
          trainVars, irqVars, pathVars, driverVars
  <2>1. Kinds'
    BY DEF CountInv, Kinds, TypeOK, length, CpuCycle
  <2>2. Train'
    BY DEF CountInv, Train, over, polling, dma_ack_busy
  <2>3. Cycle'
    BY DEF CountInv, Cycle, over, cmd_read, cmd_write
  <2>4. InBounds'
    BY DEF CountInv, InBounds, ahead, size, length
  <2>5. left' = left /\ due' = due /\ dataPhase' = dataPhase
    BY DEF left, due, begins, over, unit, dataPhase
  <2>6. Places'
    BY <2>5 DEF CountInv, Places, over, polling, length, dataOf
  <2>7. Counts'
    BY <2>5 DEF CountInv, Counts, bytes, ahead, length, data_done, data_len
  <2>8. Interrupt'
    BY <2>5 DEF CountInv, Interrupt, length
  <2> QED
    BY <2>1, <2>2, <2>3, <2>4, <2>6, <2>7, <2>8 DEF CountInv
<1> QED
  BY <1>1, <1>2

\* The counts, the dialog and the train hold together in every state.
LEMMA CountHolds == Spec => []CountInv
  BY InitCount, StepCount, PTL DEF Spec

\* Every register keeps a value of its kind, and the settle and holdoff
\* counters their three bits, for every driver and every command.
THEOREM DmaTypeCorrect == Spec => []TypeOK
<1>1. CountInv => TypeOK
  BY DEF CountInv, Kinds
<1> QED
  BY <1>1, CountHolds, PTL

\* Whatever mix of bytes, words and longwords the driver uses, the target has
\* counted what the CPU has moved whenever the port is at rest.
THEOREM DmaCountsRight == Spec => []DmaCountsAgree
<1>1. CountInv => DmaCountsAgree
  <2> SUFFICES ASSUME CountInv, dataPhase, cpu.st = "off", gap = 0, ~dma_ack_busy
               PROVE  data_cnt = place(moved + ahead)
    BY DEF DmaCountsAgree, ahead
  <2>1. Kinds /\ Counts /\ Cycle /\ data_cnt \in Count
    BY DEF CountInv, Kinds
  <2>2. due = 0
    <3>1. ~begins
      BY <2>1 DEF begins, Cycle
    <3>2. left = 0
      BY DEF left, One, dma_ack_busy
    <3> QED
      BY <3>1, <3>2 DEF due
  <2>3. bytes(data_cnt) = moved + ahead
    <3>1. bytes(data_cnt) + 0 = moved + ahead
      BY <2>1, <2>2 DEF Counts
    <3>2. bytes(data_cnt) \in Nat
      BY <2>1, BytesType
    <3> QED
      BY <3>1, <3>2
  <2> QED
    BY <2>1, <2>3, PlaceOf
<1> QED
  BY <1>1, CountHolds, PTL

\* No interrupt comes before the target has counted the last byte and left the
\* data phase: the driver that wakes up has moved all it asked for.
THEOREM IrqRight == Spec => []IrqMeansMoved
<1>1. CountInv => IrqMeansMoved
  BY DEF CountInv, Interrupt, IrqMeansMoved, dataPhase
<1> QED
  BY <1>1, CountHolds, PTL
=============================================================================
