------------------------------- MODULE Ncr5380 -------------------------------
(***************************************************************************)
(* The SCSI controller, rtl/ncr5380.sv, around the target of ScsiTarget:   *)
(* the pseudo-DMA engine that turns one bus cycle of the CPU into a train  *)
(* of ACK pulses, the DMA part of the register file, the end-of-transfer   *)
(* interrupt and the deferred REQ bit of the CSR.                          *)
(*                                                                         *)
(* The CPU's side is the record cpu: which cycle it drives, if any, and    *)
(* with what data.  Bus lines are the set of those asserted.               *)
(***************************************************************************)
EXTENDS HpsDevice

VARIABLES
  \* the CPU's bus cycle: [st, dir, word, long, second, hi, lo, timer]
  cpu, csr_rd, rst_rd,
  \* registers the driver writes
  icr_ack, icr_data, mr_dma, tcr, dma_en, odr,
  \* pseudo-DMA engine
  old_dma_rd, old_dma_wr, dma_wr, dma_ack, dma_ack_holdoff, dma_settle,
  dma_longword, dma_second_word, dma_suppress_ack,
  dma_longword_second_pending, dma_second_word_data,
  \* end-of-transfer interrupt and deferred REQ
  irq_latch, dma_armed, pmatch_d, req_deferred, old_req_bus, old_csr_rd,
  \* read path: buffer outputs and the registered copy of rdata
  q, scsi_din_reg

cycleVars == <<cpu, csr_rd, rst_rd>>
regVars   == <<icr_ack, icr_data, mr_dma, tcr>>
trainVars == <<old_dma_rd, old_dma_wr, dma_wr, dma_ack, dma_ack_holdoff, dma_settle,
               dma_longword, dma_second_word, dma_suppress_ack,
               dma_longword_second_pending, dma_second_word_data, dma_en, odr>>
irqVars   == <<irq_latch, dma_armed, pmatch_d, req_deferred, old_req_bus, old_csr_rd>>
pathVars  == <<q, scsi_din_reg>>

-----------------------------------------------------------------------------
(* Wires *)

i_dma_rd == cpu.st # "off" /\ cpu.dir = "read"
i_dma_wr == cpu.st # "off" /\ cpu.dir = "write"
rdStart  == i_dma_rd /\ ~old_dma_rd
wrStart  == i_dma_wr /\ ~old_dma_wr
rdEnd    == old_dma_rd /\ ~i_dma_rd
wrEnd    == old_dma_wr /\ ~i_dma_wr

\* MSG, C/D and I/O as the phase drives them; a free bus drives none
Lines(p) == (IF p = "MESSAGE_OUT" THEN {"msg"} ELSE {})
       \cup (IF p \in {"CMD_IN", "STATUS_OUT", "MESSAGE_OUT"} THEN {"cd"} ELSE {})
       \cup (IF p \in {"DATA_OUT", "STATUS_OUT", "MESSAGE_OUT"} THEN {"io"} ELSE {})

bsr_pmatch   == tcr = Lines(phase)
dma_ack_busy == dma_ack \/ dma_ack_holdoff # 0 \/ dma_settle # 0

\* mutant: the settle window is not part of the busy term
dreqNoSettle == req /\ dma_en /\ ~(dma_ack \/ dma_ack_holdoff # 0)
dreq == req /\ dma_en /\ ~dma_ack_busy

\* REQ in the CSR is hidden until one CSR read has gone by.
csr_req == req_bus /\ ~req_deferred

\* The byte pair at the initiator's place and the pair after it.
here          == data_cnt.off % 2
din_pair      == <<q[here], q[here + 1]>>
din_pair_next == <<q[here + 2], q[here + 3]>>

\* mutant: the second half of a longword is read after the train
rdataNoLatch == IF dma_word THEN din_pair ELSE <<q[here], q[here]>>
rdata == IF dma_word THEN IF dma_suppress_ack THEN dma_second_word_data ELSE din_pair
                     ELSE <<q[here], q[here]>>

-----------------------------------------------------------------------------
(* The always-blocks *)

DmaCycles ==
  /\ old_dma_rd' = i_dma_rd /\ old_dma_wr' = i_dma_wr /\ dma_wr' = wrStart
  /\ IF rdStart \/ wrStart
     THEN dma_word' = cpu.word /\ dma_longword' = cpu.long /\ dma_second_word' = cpu.second
     ELSE UNCHANGED <<dma_word, dma_longword, dma_second_word>>
  /\ IF rdStart
     THEN /\ dma_suppress_ack' = (dma_longword_second_pending /\ cpu.second)
          /\ dma_longword_second_pending' =
               (~(dma_longword_second_pending /\ cpu.second) /\ cpu.word /\ cpu.long /\ ~cpu.second)
     ELSE UNCHANGED <<dma_suppress_ack, dma_longword_second_pending>>
  /\ dma_lowbyte' = IF wrStart THEN cpu.lo ELSE dma_lowbyte

\* How many clocks of pulses follow the first ACK of a train
holdoff == IF rdEnd /\ dma_longword THEN 6 ELSE IF dma_word THEN 2 ELSE 0

\* mutant: the second half of a longword is acknowledged again
trainStartAgain == dma_ack_holdoff = 0 /\ (wrEnd \/ rdEnd)

trainStart == dma_ack_holdoff = 0 /\ (wrEnd \/ (rdEnd /\ ~dma_suppress_ack))

\* mutant: the settle counter runs on below zero
AckTrainNoFloor ==
  /\ dma_settle' = IF dma_ack THEN 4 ELSE dma_settle - 1
  /\ dma_ack' = IF dma_ack_holdoff # 0 THEN dma_ack_holdoff % 2 = 1
                ELSE trainStart /\ dma_en /\ bsr_pmatch
  /\ dma_ack_holdoff' = IF dma_ack_holdoff # 0 THEN dma_ack_holdoff - 1
                        ELSE IF trainStart /\ dma_en /\ bsr_pmatch THEN holdoff ELSE 0
  /\ UNCHANGED dma_second_word_data

AckTrain ==
  /\ dma_settle' = IF dma_ack THEN 4 ELSE IF dma_settle # 0 THEN dma_settle - 1 ELSE 0
  /\ dma_ack' = IF dma_ack_holdoff # 0 THEN dma_ack_holdoff % 2 = 1
                ELSE trainStart /\ dma_en /\ bsr_pmatch
  /\ dma_ack_holdoff' = IF dma_ack_holdoff # 0 THEN dma_ack_holdoff - 1
                        ELSE IF trainStart /\ dma_en /\ bsr_pmatch THEN holdoff ELSE 0
  /\ dma_second_word_data' =
       IF trainStart /\ rdEnd /\ dma_longword /\ dma_word /\ ~dma_second_word
       THEN din_pair_next ELSE dma_second_word_data

\* The data register, and the byte it puts on the bus: the low byte of a word
\* only in the clock before the second ACK.
DataOut ==
  /\ odr' = IF dma_wr THEN cpu.hi ELSE odr
  /\ din' = IF ~icr_data' THEN Blank
            ELSE IF dma_ack_holdoff' = 1 /\ dma_word' THEN dma_lowbyte' ELSE odr'
  /\ ack' = (icr_ack' \/ dma_ack')

\* Starting a DMA needs the mode bit; losing it ends the DMA.  start is the
\* write to a start register.
DmaEnable(start) == dma_en' = (mr_dma /\ (dma_en \/ start))

\* mutant: any phase mismatch interrupts, started or not
EndOfTransferUnarmed(start) ==
  LET ended == pmatch_d /\ ~bsr_pmatch
  IN  /\ pmatch_d' = bsr_pmatch
      /\ irq_latch' = (~rst /\ (ended \/ (irq_latch /\ ~rst_rd)))
      /\ dma_armed' = (~rst /\ ~ended /\ (dma_armed \/ start))

\* mutant: the interrupt needs the DMA mode at the phase change
EndOfTransferGated(start) ==
  LET ended == dma_armed /\ pmatch_d /\ ~bsr_pmatch
  IN  /\ pmatch_d' = bsr_pmatch
      /\ irq_latch' = (~rst /\ ((ended /\ mr_dma) \/ (irq_latch /\ ~rst_rd)))
      /\ dma_armed' = (~rst /\ ~ended /\ (dma_armed \/ start))

EndOfTransfer(start) ==
  LET ended == dma_armed /\ pmatch_d /\ ~bsr_pmatch
  IN  /\ pmatch_d' = bsr_pmatch
      /\ irq_latch' = (~rst /\ (ended \/ (irq_latch /\ ~rst_rd)))
      /\ dma_armed' = (~rst /\ ~ended /\ (dma_armed \/ start))

DeferredReq ==
  /\ old_req_bus' = req_bus /\ old_csr_rd' = csr_rd
  /\ req_deferred' =
       (req_bus /\ (~old_req_bus \/ (req_deferred /\ ~(old_csr_rd /\ ~csr_rd))))

\* The two bytes of a word of the ring, and those of the next two words: the
\* buffer outputs follow the address by one clock.
RingByte(n) == buf[(n \div SectorBytes) % RingBlocks][n % SectorBytes]
ReadPath ==
  /\ LET word == data_cnt.blk * SectorBytes + data_cnt.off - here
     IN  q' = IF cmd_read /\ phase = "DATA_OUT" THEN [i \in 0 .. 5 |-> RingByte(word + i)] ELSE q
  /\ scsi_din_reg' = rdata

NcrInit ==
  /\ csr_rd = FALSE /\ rst_rd = FALSE
  /\ icr_ack = FALSE /\ mr_dma = FALSE /\ dma_en = FALSE /\ odr = Blank
  /\ old_dma_rd = FALSE /\ old_dma_wr = FALSE /\ dma_wr = FALSE
  /\ dma_ack = FALSE /\ dma_ack_holdoff = 0 /\ dma_settle = 0
  /\ dma_longword_second_pending = FALSE /\ dma_second_word_data = <<Blank, Blank>>
  /\ irq_latch = FALSE /\ dma_armed = FALSE /\ req_deferred = FALSE
  /\ old_req_bus = FALSE /\ old_csr_rd = FALSE
  /\ q = [i \in 0 .. 5 |-> Blank] /\ scsi_din_reg = <<Blank, Blank>>
=============================================================================
