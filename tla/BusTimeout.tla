------------------------------ MODULE BusTimeout ------------------------------
(***************************************************************************)
(* How a bus cycle that no memory answers ends: the state machine of       *)
(* rtl/tg68k/tg68k.v, and from LBMacTwo.sv the acknowledge lines it waits  *)
(* for and the counter that is to answer a cycle nobody has decoded with a *)
(* bus error.                                                              *)
(*                                                                         *)
(* Places: a hole in the map, a hole whose address bits 23 to 21 are ones, *)
(* an empty NuBus slot, a VIA, and the SCSI pseudo-DMA port.               *)
(*                                                                         *)
(* The substitution for a rerun cycle (LBMacTwo.sv:1185-1205) is left out: *)
(* it is armed by the return from a bus error.                             *)
(***************************************************************************)
EXTENDS Integers

Place == {"hole", "highHole", "slot", "via", "dma"}

VARIABLES
  phi,               \* busPhase[0]: phi1 on even clocks, phi2 on odd ones
  s_state, as, addr, \* the processor's cycle
  wanted,            \* the place the kernel wants to reach, or none
  eCntr, en_E, Vpai, vma, \* its E clock and the synchronous handshake
  turbo_dtack_en, nubus_timeout, scsiDREQ,
  berr_counter, berr_out

cpuVars == <<s_state, as, addr, wanted, eCntr, en_E, Vpai, vma>>
vars == <<phi, cpuVars, turbo_dtack_en, nubus_timeout, scsiDREQ, berr_counter, berr_out>>

NobodyWants == "none"
BerrLimit   == 251

phi1 == phi = 0
phi2 == phi = 1

viaAccess == as /\ addr = "via"
noCard    == as /\ addr = "slot"
vpa       == as /\ addr \in {"via", "highHole"}

\* An empty slot is answered after four clocks, with ones for data
nubusAck == noCard /\ nubus_timeout >= 4

\* The acknowledge of an address that is not RAM or ROM needs no select
rawDtack == as /\ addr # "highHole" /\ turbo_dtack_en
dtack == CASE addr = "slot" -> nubusAck
           [] addr = "dma"  -> as /\ scsiDREQ
           [] addr = "via"  -> FALSE
           [] OTHER -> rawDtack

xVma == vma /\ eCntr = 8 /\ en_E
any_select == viaAccess \/ nubusAck \/ (as /\ addr = "dma")

--------------------------------------------------------------------------------
\* State 4 is left when somebody answers
Processor ==
  LET idle  == wanted = NobodyWants
      moves == s_state # 4 \/ (phi2 /\ (dtack \/ xVma \/ berr_out))
  IN /\ s_state' = IF idle THEN 0 ELSE IF moves THEN (s_state + 1) % 8 ELSE s_state
     /\ as' = IF phi1 /\ s_state = 1 /\ ~idle THEN TRUE ELSE as /\ ~(phi2 /\ s_state = 6)
     /\ addr' = wanted
     \* the kernel goes on at the end of a cycle, or when it has none
     /\ wanted' \in IF phi1 /\ (s_state = 7 \/ idle) THEN Place \cup {NobodyWants} ELSE {wanted}

EClock ==
  /\ en_E' = IF phi1 THEN ~en_E ELSE en_E
  /\ Vpai' = IF phi1 THEN vpa ELSE Vpai
  /\ eCntr' = IF phi2 /\ en_E THEN (eCntr + 1) % 10 ELSE eCntr
  /\ vma' = IF phi2 /\ s_state # 0 /\ Vpai /\ eCntr = 3 /\ en_E THEN TRUE
            ELSE vma /\ ~(phi1 /\ eCntr = 0 /\ en_E)

Acknowledges ==
  /\ turbo_dtack_en' = as
  /\ nubus_timeout' = IF ~as THEN 0
                      ELSE IF noCard /\ nubus_timeout < 15 THEN nubus_timeout + 1
                      ELSE nubus_timeout
  /\ scsiDREQ' \in BOOLEAN

\* A cycle without a select for BerrLimit clocks gets a bus error, held until
\* the strobe goes
BusError ==
  IF ~as THEN berr_counter' = 0 /\ berr_out' = FALSE
  ELSE IF berr_out THEN UNCHANGED <<berr_counter, berr_out>>
  ELSE /\ berr_counter' = IF any_select \/ berr_counter = BerrLimit THEN 0
                          ELSE berr_counter + 1
       /\ berr_out' = (~any_select /\ berr_counter = BerrLimit)

Init ==
  /\ phi = 0 /\ s_state = 0 /\ as = FALSE /\ addr = NobodyWants /\ wanted = NobodyWants
  /\ eCntr = 0 /\ en_E = TRUE /\ Vpai = FALSE /\ vma = FALSE
  /\ turbo_dtack_en = FALSE /\ nubus_timeout = 0 /\ scsiDREQ = FALSE
  /\ berr_counter = 0 /\ berr_out = FALSE

Next == phi' = 1 - phi /\ Processor /\ EClock /\ Acknowledges /\ BusError

Spec == Init /\ [][Next]_vars

--------------------------------------------------------------------------------
\* "Bus error timeout - undecoded addresses trigger bus error after ~8us"
\* (LBMacTwo.sv:1122): a cycle at an undecoded address ends with one.
UndecodedFaults ==
  [][as /\ ~as' /\ addr \in {"hole", "highHole"} => berr_out]_vars
=============================================================================
