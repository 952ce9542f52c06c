-------------------------------- MODULE Sdram --------------------------------
(***************************************************************************)
(* The memory slots of rtl/addrController_top.v and the SDRAM controller   *)
(* rtl/sdram.v that serves them.                                           *)
(*                                                                         *)
(* A slot (busCycle) is four system clocks (busPhase).  The controller is  *)
(* in step with it: it samples the command and opens the row in the middle *)
(* of phase 0, gives the column, the byte mask and the data of that moment *)
(* in the middle of phase 1, and has the word of a read at the end of      *)
(* phase 2.  A location is a <<row, column>> pair.                         *)
(***************************************************************************)
EXTENDS Naturals

CONSTANTS
  Rows, Columns,  \* the locations of the chip
  Lanes,          \* the two bytes of a word
  Values          \* what a byte may hold

VARIABLES
  busPhase, busCycle,
  mem,                             \* the chip
  oe_latch, we_latch, addr_latch,  \* the command of this slot
  sd_data,                         \* the word the chip sends back
  dout, dout_addr                  \* the last word read, and where it is from

sdramVars == <<mem, oe_latch, we_latch, addr_latch, sd_data, dout, dout_addr>>

Location == Rows \X Columns
Word     == [Lanes -> Values]

videoBusControl == busCycle = 0
cpuBusControl   == busCycle \in {1, 3}
dioBusControl   == busCycle = 2
slotEnd         == busPhase = 3      \* clk8_en_p, memoryLatch

Phases == /\ busPhase' = (busPhase + 1) % 4
          /\ busCycle' = IF busPhase = 3 THEN (busCycle + 1) % 4 ELSE busCycle

\* A command is [oe, we, addr, lanes, data]: the arbiter's lines of this clock.
Sample(c) == oe_latch' = c.oe /\ we_latch' = c.we /\ addr_latch' = c.addr

\* mutant: the command is sampled one clock before its slot begins
CommandStartEarly(c) == IF busPhase = 3 THEN Sample(c)
                                        ELSE UNCHANGED <<oe_latch, we_latch, addr_latch>>
CommandStart(c) == IF busPhase = 0 THEN Sample(c)
                                   ELSE UNCHANGED <<oe_latch, we_latch, addr_latch>>

\* The column is that of this moment, in the row that was opened.
CommandContinue(c) ==
  LET at == <<addr_latch[1], c.addr[2]>>
  IN  /\ mem' = IF busPhase = 1 /\ we_latch
                THEN [mem EXCEPT ![at] = [b \in Lanes |-> IF b \in c.lanes THEN c.data[b] ELSE @[b]]]
                ELSE mem
      /\ sd_data' = IF busPhase = 1 /\ oe_latch /\ ~we_latch THEN mem[at] ELSE sd_data

DataReady ==
  IF busPhase = 2 /\ oe_latch THEN dout' = sd_data /\ dout_addr' = addr_latch
                              ELSE UNCHANGED <<dout, dout_addr>>

Controller(c) == CommandStart(c) /\ CommandContinue(c) /\ DataReady

SdramInit ==
  /\ busPhase = 0 /\ busCycle = 0
  /\ oe_latch = FALSE /\ we_latch = FALSE
=============================================================================
