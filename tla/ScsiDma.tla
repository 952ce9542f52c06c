------------------------------- MODULE ScsiDma -------------------------------
(***************************************************************************)
(* A disk driver moving the data phase of one command through the          *)
(* pseudo-DMA port: the CPU's bus cycles, the controller of Ncr5380, the   *)
(* target of ScsiTarget and the device of HpsDevice, clocked together.     *)
(*                                                                         *)
(* The dialog starts where the last byte of the command block has been     *)
(* counted.  The driver programs the controller, moves the data in bytes,  *)
(* words and longwords of its choice, each when DTACK answers, waits for   *)
(* the end-of-transfer interrupt with DMA mode already off, and then takes *)
(* the status and the message byte by polling the CSR.                     *)
(***************************************************************************)
EXTENDS Ncr5380, Sequences

CONSTANTS
  Units,       \* what the driver uses: <<operation, size, place in its sector>>
  LatchDelay,  \* most clocks from DTACK to the CPU's data latch
  MinGap       \* clocks the CPU's strobe is away between two bus cycles, less one

ASSUME DriverAssumption ==
  /\ Units \subseteq {"read", "write"} \X {1, 2, 4} \X Nat
  /\ <<"write", 4>> \notin {<<u[1], u[2]>> : u \in Units}
  \* the controller has seen one cycle end before the next begins
  /\ LatchDelay \in Nat /\ MinGap \in Nat \ {0}

VARIABLES
  pc,     \* where the driver is
  gap,    \* clocks left before the next bus cycle may begin
  moved,  \* bytes of the data phase the CPU has read or written
  taken   \* what the last read cycle returned: its place and its bytes

driverVars == <<pc, gap, moved, taken>>
vars == <<busVars, hpsVars, shakeVars, engineVars, bufferVars, commands, empties,
          cycleVars, regVars, trainVars, irqVars, pathVars, driverVars>>

-----------------------------------------------------------------------------
(* The driver.  Every action is one clock and names all it leaves alone.    *)

Off == [st |-> "off", dir |-> "read", word |-> FALSE, long |-> FALSE, second |-> FALSE,
        hi |-> Blank, lo |-> Blank, timer |-> 0]

place(n)  == [blk |-> n \div SectorBytes, off |-> n % SectorBytes]
length    == cmd.len.blk * SectorBytes + cmd.len.off
NoStrobes == csr_rd' = FALSE /\ rst_rd' = FALSE
KeepRegs  == UNCHANGED <<regVars, rst, sel, cdb>>

Wait ==
  /\ gap' = IF gap = 0 THEN 0 ELSE gap - 1
  /\ cpu' = IF cpu.st = "dtack" /\ cpu.timer > 0 THEN [cpu EXCEPT !.timer = @ - 1] ELSE cpu
  /\ NoStrobes /\ KeepRegs /\ UNCHANGED <<pc, moved, taken>>

\* A register write, in the order of the HD SC driver: TCR, then the mode
\* register, then a start register.
Arm ==
  /\ cpu.st = "off" /\ gap = 0
  /\ \/ pc = "tcr"   /\ dataPhase /\ tcr' = Lines(phase) /\ UNCHANGED mr_dma /\ pc' = "mode"
     \/ pc = "mode"  /\ mr_dma' = TRUE /\ UNCHANGED tcr /\ pc' = "start"
     \/ pc = "start" /\ UNCHANGED <<tcr, mr_dma>> /\ pc' = "move"
  /\ gap' = MinGap
  /\ NoStrobes /\ UNCHANGED <<cpu, icr_ack, icr_data, rst, sel, cdb, moved, taken>>

BeginCycle ==
  /\ pc = "move" /\ cpu.st = "off" /\ gap = 0 /\ moved < length
  /\ \E size \in {1, 2, 4} :
       /\ <<cmd.op, size, moved % SectorBytes>> \in Units /\ moved + size <= length
       /\ cpu' = [st |-> "wait", dir |-> IF cmd_read THEN "read" ELSE "write",
                  word |-> size > 1, long |-> size = 4, second |-> FALSE,
                  hi |-> MacByte(commands, place(moved)),
                  lo |-> IF size = 1 THEN MacByte(commands, place(moved))
                                     ELSE MacByte(commands, place(moved + 1)),
                  timer |-> 1]
  /\ NoStrobes /\ KeepRegs /\ UNCHANGED <<pc, gap, moved, taken>>

\* The second bus cycle of a longword read
BeginSecond ==
  /\ pc = "second" /\ cpu.st = "off" /\ gap = 0
  /\ cpu' = [Off EXCEPT !.st = "wait", !.word = TRUE, !.long = TRUE, !.second = TRUE, !.timer = 1]
  /\ NoStrobes /\ KeepRegs /\ UNCHANGED <<pc, gap, moved, taken>>

SeeDtack ==
  /\ cpu.st = "wait" /\ cpu.timer = 0 /\ dreq
  /\ \E delay \in 0 .. LatchDelay : cpu' = [cpu EXCEPT !.st = "dtack", !.timer = delay]
  /\ NoStrobes /\ KeepRegs /\ UNCHANGED <<pc, gap, moved, taken>>

\* The cycle has been asserted for a clock before DTACK is looked at.
Assert ==
  /\ cpu.st = "wait" /\ cpu.timer > 0
  /\ cpu' = [cpu EXCEPT !.timer = @ - 1]
  /\ NoStrobes /\ KeepRegs /\ UNCHANGED <<pc, gap, moved, taken>>

EndCycle ==
  /\ cpu.st = "dtack" /\ cpu.timer = 0
  /\ cpu' = Off /\ gap' = MinGap
  /\ moved' = moved + (IF cpu.word THEN 2 ELSE 1)
  /\ taken' = IF cpu.dir = "read" THEN [at |-> moved, bytes |-> IF cpu.word THEN scsi_din_reg
                                                  ELSE <<scsi_din_reg[1]>>]
                                  ELSE taken
  /\ pc' = IF cpu.long /\ ~cpu.second THEN "second"
           ELSE IF moved' = length THEN "off" ELSE "move"
  /\ NoStrobes /\ KeepRegs

\* The driver turns DMA mode off and sleeps until the interrupt.
ModeOff ==
  /\ pc = "off" /\ gap = 0
  /\ mr_dma' = FALSE /\ pc' = "sleep"
  /\ NoStrobes /\ UNCHANGED <<cpu, icr_ack, icr_data, tcr, rst, sel, cdb, gap, moved, taken>>

WakeUp ==
  /\ pc = "sleep" /\ irq_latch
  /\ rst_rd' = TRUE /\ csr_rd' = FALSE /\ pc' = "poll" /\ icr_data' = FALSE /\ gap' = MinGap
  /\ UNCHANGED <<cpu, icr_ack, mr_dma, tcr, rst, sel, cdb, moved, taken>>

\* One read of the CSR; what it shows decides what the driver does next.
ReadCsr ==
  /\ pc = "poll" /\ gap = 0 /\ ~csr_rd
  /\ csr_rd' = TRUE /\ rst_rd' = FALSE
  /\ pc' = IF csr_req # icr_ack THEN "ack" ELSE "poll"
  /\ KeepRegs /\ UNCHANGED <<cpu, gap, moved, taken>>

\* ACK follows REQ: up when REQ was seen, down when it was seen gone.
MoveAck ==
  /\ pc = "ack"
  /\ icr_ack' = ~icr_ack /\ gap' = MinGap
  /\ pc' = IF icr_ack /\ phase = "MESSAGE_OUT" THEN "done" ELSE "poll"
  /\ NoStrobes /\ UNCHANGED <<cpu, icr_data, mr_dma, tcr, rst, sel, cdb, moved, taken>>

CpuMove == \/ Arm \/ BeginCycle \/ BeginSecond \/ Assert \/ SeeDtack \/ EndCycle
           \/ ModeOff \/ WakeUp \/ ReadCsr \/ MoveAck
           \/ Wait /\ (gap > 0 \/ (cpu.st = "dtack" /\ cpu.timer > 0) \/ csr_rd)
CpuClk  == Wait \/ CpuMove

-----------------------------------------------------------------------------
\* The state in which the last byte of a command block has been counted, the
\* latches of the pseudo-DMA port still as an earlier transfer left them.  A
\* driver that will send data drives the bus.
Init ==
  /\ phase = "CMD_IN" /\ cmd \in Commands /\ cmd_cnt = cmd.bytes /\ TargetQuiet
  /\ HpsInit /\ NcrInit
  /\ ack = FALSE /\ rst = FALSE /\ sel = FALSE /\ cdb = cmd /\ din = Blank
  /\ icr_data = cmd_write /\ tcr = Lines("CMD_IN") /\ pmatch_d = TRUE
  /\ dma_word \in BOOLEAN /\ dma_longword \in BOOLEAN
  /\ dma_second_word \in BOOLEAN /\ dma_suppress_ack \in BOOLEAN
  /\ dma_lowbyte = Blank
  /\ cpu = Off /\ pc = "tcr" /\ gap = 0 /\ moved = 0 /\ taken = [at |-> 0, bytes |-> <<>>]

Next ==
  LET start == pc = "start" /\ pc' = "move"
  IN  /\ CpuClk /\ HpsClk /\ TargetClk /\ UNCHANGED commands
      /\ DmaCycles /\ AckTrain /\ DataOut /\ DmaEnable(start) /\ EndOfTransfer(start)
      /\ DeferredReq /\ ReadPath

Spec == Init /\ [][Next]_vars

\* The clock runs, the device answers what it has taken, and the CPU goes on
\* with what it has begun.
FairSpec == Spec /\ WF_vars(Next) /\ WF_vars(Next /\ HpsMove) /\ WF_vars(Next /\ CpuMove)

-----------------------------------------------------------------------------
(* Properties *)

\* Every register holds a value of its kind: the settle and holdoff counters
\* stay in their three bits and the train never outlives them.
TypeOK ==
  /\ dma_ack_holdoff \in 0 .. 6 /\ dma_settle \in 0 .. 4 /\ gap \in 0 .. MinGap
  /\ tcr \subseteq {"msg", "cd", "io"} /\ moved \in 0 .. length
  /\ {dma_ack, dma_en, mr_dma, irq_latch, dma_armed, req_deferred, csr_rd} \subseteq BOOLEAN
  /\ pc \in {"tcr", "mode", "start", "move", "second", "off", "sleep", "poll", "ack", "done"}
  /\ cpu.st \in {"off", "wait", "dtack"}

\* "Holding dma_ack_busy through the settle window makes DREQ mean presented
\* data is valid": what the CPU latches is the data of the disk at the place
\* it has reached, for every mix of widths and every sampling delay.
DmaReadsServeDisk ==
  \A i \in 1 .. Len(taken.bytes) :
    LET at == place(taken.at + i - 1) IN taken.bytes[i] = SectorAt(cmd.lba + at.blk)[at.off]

\* When the driver has its completion, the sectors of a write command hold the
\* bytes the CPU wrote, in order.
DmaWritesReachDisk ==
  pc = "done" /\ cmd_write =>
    \A k \in 0 .. cmd.len.blk - 1 : \A o \in Offset :
      cmd.lba + k \in Lba => disk[cmd.lba + k][o] = MacByte(commands, [blk |-> k, off |-> o])

\* Between two bus cycles, once the pulses have settled, the target has
\* counted exactly the bytes the CPU has moved; while the second half of a
\* longword is due, those of the whole longword.
DmaCountsAgree ==
  dataPhase /\ cpu.st = "off" /\ gap = 0 /\ ~dma_ack_busy =>
    data_cnt = place(moved + (IF pc = "second" THEN 2 ELSE 0))

\* The end-of-transfer interrupt comes after the last byte and never before.
IrqMeansMoved == irq_latch => data_complete /\ ~dataPhase

\* A transfer that was started ends: no bus cycle waits for DTACK for ever,
\* the interrupt comes although DMA mode is off by then, and the polled status
\* and message bytes get through the deferred REQ.
TransferEnds == <>(pc = "done")

=============================================================================
