------------------------------ MODULE PramStore ------------------------------
(***************************************************************************)
(* The parameter RAM and its image: the memory of rtl/rtc.v, the load and  *)
(* save machine of LBMacTwo.sv, its staging buffer, the reset it may ask   *)
(* for, and, outside the core, hps_io and the user's menu.                 *)
(*                                                                         *)
(* One step is one system clock.  The memory has Words 16-bit words, the   *)
(* staging buffer and the first sector of every file as many.  The Mac     *)
(* writes its clock chip whenever it runs.                                 *)
(***************************************************************************)
EXTENDS Naturals

CONSTANTS
  Words,        \* words of parameter RAM (128 in the code)
  Values,       \* what a byte may hold, 0 among them
  Nvrs, Others, \* files of at most 4096 bytes; disks, and the empty slot
  Tick,         \* system clocks between two clk8_en_p
  Hold,         \* length of the reset pulse
  Settle,       \* clk8_en_p ticks before the machine is released
  MacWrites, Menus, Mounts   \* bounds: writes, menu events and mounts

NoMount == "no event"

ASSUME PramAssumption ==
  /\ Words \in Nat \ {0} /\ 0 \in Values
  /\ Nvrs \cap Others = {} /\ "none" \in Others /\ NoMount \notin Nvrs \cup Others
  /\ Tick \in Nat \ {0} /\ Hold \in Nat /\ Hold + 1 >= Tick
  /\ Settle \in Nat

VARIABLES
  fsm,                    \* the registers of the load and save machine
  pram, save_q, ser,      \* rtc.v: memory, port B's output, port A's write
  buf, pbuf_q, fill_lo,   \* the staging buffer, its output, the packed low byte
  n_reset, rst_cnt, tick,
  hps, mounted, file,     \* the window of hps_io, the mounted file, all files
  clear_done,             \* the RAM is cleared (LBMacTwo.sv, elsewhere)
  left,                   \* what is left of the bounds
  raced, quiet, live      \* history: what a Mac write met; whether the last mount found
                          \* the machine at rest, and the Mac running ever since

ramVars == <<pram, save_q, buf, pbuf_q, fill_lo>>
vars == <<fsm, ramVars, ser, n_reset, rst_cnt, tick, hps, mounted, file,
          clear_done, left, raced, quiet, live>>

Addr  == 0 .. 2 * Words - 1
Index == 0 .. Words - 1
Files == Nvrs \cup Others
NoWrite == [we |-> FALSE, addr |-> 0, data |-> 0]
Zero    == <<0, 0>>

States == {"P_IDLE", "P_LD_RD", "P_LD_DAT", "P_LD_ADDR", "P_LD_B0", "P_LD_B1",
           "P_FILL", "P_FILL2", "P_FILL3", "P_SV_WR", "P_SV_DAT", "P_CLR", "P_RST"}
Flags  == {"rd", "wr_req", "load_wr", "ena", "dirty", "rst_after", "load_pending",
           "flush_pending", "clr_pending", "late_load", "ready", "force_reset", "old_pack"}

pram_ack == hps.window # "closed"
machine(s) == fsm.pst = s

--------------------------------------------------------------------------------
(* The load and save machine.  What an input sets in a clock comes first, the  *)
(* state's own assignments after it, so that the latter win.                   *)

Latched(mount, osd, rf, backstop) ==
  [fsm EXCEPT
    !.old_pack = pram_ack, !.load_wr = FALSE,
    !.dirty = @ \/ ser.we,
    !.ena = mount \in Nvrs \/ (@ /\ mount \notin Others),
    !.load_pending = @ \/ mount \in Nvrs,
    !.late_load = IF mount \in Nvrs THEN fsm.ready ELSE @,
    !.ready = @ \/ mount \in Others \/ backstop,
    !.flush_pending = @ \/ (osd /\ fsm.dirty /\ fsm.ena),
    !.clr_pending = @ \/ rf,
    !.force_reset = @ /\ fsm.rst_hold # 0,
    !.rst_hold = IF fsm.force_reset /\ @ # 0 THEN @ - 1 ELSE @]

Idle(e) ==
  /\ machine("P_IDLE")
  /\ fsm' = CASE fsm.clr_pending   -> [e EXCEPT !.clr_pending = FALSE, !.pcnt = 0, !.pst = "P_CLR"]
              [] fsm.load_pending /\ ~fsm.clr_pending
                                   -> [e EXCEPT !.load_pending = FALSE, !.rd = TRUE, !.pst = "P_LD_RD"]
              [] fsm.flush_pending /\ ~fsm.clr_pending /\ ~fsm.load_pending
                                   -> [e EXCEPT !.flush_pending = FALSE, !.rst_after = FALSE,
                                                !.pcnt = 0, !.pst = "P_FILL"]
              [] OTHER             -> e

\* mutant: whether the load is late is forgotten when its window opens
LoadRequestForgets(e) ==
  /\ machine("P_LD_RD")
  /\ fsm' = IF pram_ack THEN [e EXCEPT !.rd = FALSE, !.late_load = FALSE, !.pst = "P_LD_DAT"] ELSE e
LoadRequest(e) ==
  /\ machine("P_LD_RD")
  /\ fsm' = IF pram_ack THEN [e EXCEPT !.rd = FALSE, !.pst = "P_LD_DAT"] ELSE e

windowEnds == fsm.old_pack /\ ~pram_ack

LoadData(e) ==
  /\ machine("P_LD_DAT")
  /\ fsm' = IF windowEnds THEN [e EXCEPT !.pcnt = 0, !.pst = "P_LD_ADDR"] ELSE e

LoadWord(e) ==
  /\ machine("P_LD_ADDR")
  /\ fsm' = [e EXCEPT !.pst = "P_LD_B0"]

LoadByte(e, s, b) ==
  [e EXCEPT !.load_wr = TRUE, !.load_addr = 2 * (fsm.pcnt \div 2) + b,
            !.load_data = pbuf_q[b + 1], !.pst = s]

LoadLow(e) == machine("P_LD_B0") /\ fsm' = LoadByte(e, "P_LD_B1", 0)

loadEnds == machine("P_LD_B1") /\ fsm.pcnt \div 2 = Words - 1

LoadHigh(e) ==
  /\ machine("P_LD_B1")
  /\ fsm' = IF loadEnds
            THEN [LoadByte(e, IF fsm.late_load THEN "P_RST" ELSE "P_IDLE", 1)
                    EXCEPT !.dirty = FALSE, !.ena = TRUE, !.ready = TRUE, !.late_load = FALSE]
            ELSE [LoadByte(e, "P_LD_ADDR", 1) EXCEPT !.pcnt = @ + 2]

\* mutant: the wait for the clock chip's registered output is left out
FillHasty(e) ==
  /\ machine("P_FILL")
  /\ fsm' = [e EXCEPT !.save_addr = fsm.pcnt, !.pst = "P_FILL3"]
Fill(e) ==
  /\ machine("P_FILL")
  /\ fsm' = [e EXCEPT !.save_addr = fsm.pcnt, !.pst = "P_FILL2"]

FillWait(e) ==
  /\ machine("P_FILL2")
  /\ fsm' = [e EXCEPT !.pst = "P_FILL3"]

\* mutant: the last byte's number is one too high
FillNextPastEnd(e) ==
  /\ machine("P_FILL3")
  /\ fsm' = IF fsm.pcnt = 2 * Words THEN [e EXCEPT !.pst = "P_SV_WR"]
                                    ELSE [e EXCEPT !.pcnt = @ + 1, !.pst = "P_FILL"]
FillNext(e) ==
  /\ machine("P_FILL3")
  /\ fsm' = IF fsm.pcnt = 2 * Words - 1 THEN [e EXCEPT !.pst = "P_SV_WR"]
                                        ELSE [e EXCEPT !.pcnt = @ + 1, !.pst = "P_FILL"]

SaveRequest(e) ==
  /\ machine("P_SV_WR")
  /\ fsm' = IF pram_ack THEN [e EXCEPT !.wr_req = FALSE, !.pst = "P_SV_DAT"]
                        ELSE [e EXCEPT !.wr_req = TRUE]

\* mutant: the reset that was to follow the save is forgotten
SaveDataNoReset(e) ==
  /\ machine("P_SV_DAT")
  /\ fsm' = IF windowEnds THEN [e EXCEPT !.dirty = FALSE, !.rst_after = FALSE, !.pst = "P_IDLE"] ELSE e
SaveData(e) ==
  /\ machine("P_SV_DAT")
  /\ fsm' = IF ~windowEnds THEN e
            ELSE [e EXCEPT !.dirty = FALSE, !.rst_after = FALSE,
                           !.pst = IF fsm.rst_after THEN "P_RST" ELSE "P_IDLE"]

\* mutant: the erased memory is saved without looking for an image
ClearSaves(e) ==
  LET c == [e EXCEPT !.load_wr = TRUE, !.load_addr = fsm.pcnt, !.load_data = 0]
  IN  /\ machine("P_CLR")
      /\ fsm' = IF fsm.pcnt < 2 * Words - 1 THEN [c EXCEPT !.pcnt = @ + 1]
                ELSE [c EXCEPT !.rst_after = TRUE, !.pst = "P_SV_WR"]
Clear(e) ==
  LET c == [e EXCEPT !.load_wr = TRUE, !.load_addr = fsm.pcnt, !.load_data = 0]
  IN  /\ machine("P_CLR")
      /\ fsm' = CASE fsm.pcnt < 2 * Words - 1 -> [c EXCEPT !.pcnt = @ + 1]
                  [] fsm.pcnt = 2 * Words - 1 /\ fsm.ena  -> [c EXCEPT !.rst_after = TRUE, !.pst = "P_SV_WR"]
                  [] fsm.pcnt = 2 * Words - 1 /\ ~fsm.ena -> [c EXCEPT !.pst = "P_RST"]

\* mutant: the pulse is one clock long
AskResetShort(e) ==
  /\ machine("P_RST")
  /\ fsm' = [e EXCEPT !.force_reset = TRUE, !.rst_hold = 0, !.pst = "P_IDLE"]
AskReset(e) ==
  /\ machine("P_RST")
  /\ fsm' = [e EXCEPT !.force_reset = TRUE, !.rst_hold = Hold, !.pst = "P_IDLE"]

Machine(e) ==
  \/ Idle(e)
  \/ LoadRequest(e) \/ LoadData(e) \/ LoadWord(e) \/ LoadLow(e) \/ LoadHigh(e)
  \/ Fill(e) \/ FillWait(e) \/ FillNext(e) \/ SaveRequest(e) \/ SaveData(e)
  \/ Clear(e) \/ AskReset(e)

--------------------------------------------------------------------------------
(* rtl/rtc.v: port A belongs to the serial engine, port B to the machine above. *)

serAt(a)  == ser.we /\ ser.addr = a
loadAt(a) == fsm.load_wr /\ fsm.load_addr = a
bAddr     == IF fsm.load_wr THEN fsm.load_addr ELSE fsm.save_addr

\* Two writes to one address leave either, a read that meets the other port's
\* write returns anything.
Memory ==
  /\ \E first \in BOOLEAN :
       pram' = [a \in Addr |->
                 CASE serAt(a) /\ (first \/ ~loadAt(a))  -> ser.data
                   [] loadAt(a) /\ ~(serAt(a) /\ first)  -> fsm.load_data
                   [] OTHER                              -> pram[a]]
  /\ save_q' \in IF serAt(bAddr) THEN Values ELSE {pram[bAddr]}

(* The staging buffer of LBMacTwo.sv: one write port, one read port. *)
\* mutant: erasing parameter RAM leaves the staging buffer alone
BufferWriteKeep ==
  LET w == fsm.pcnt \div 2
  IN  buf' = CASE hps.strobe -> [buf EXCEPT ![hps.at] = file[mounted][hps.at]]
               [] ~hps.strobe /\ machine("P_FILL3") /\ fsm.pcnt % 2 = 1
                             -> [buf EXCEPT ![w] = <<fill_lo, save_q>>]
               [] OTHER      -> buf
BufferWrite ==
  LET w == fsm.pcnt \div 2
  IN  buf' = CASE hps.strobe                            -> [buf EXCEPT ![hps.at] = file[mounted][hps.at]]
               [] ~hps.strobe /\ machine("P_FILL3") /\ fsm.pcnt % 2 = 1
                                                        -> [buf EXCEPT ![w] = <<fill_lo, save_q>>]
               [] ~hps.strobe /\ machine("P_CLR")       -> [buf EXCEPT ![w] = Zero]
               [] OTHER                                 -> buf

BufferRead ==
  LET loading == fsm.pst \in {"P_LD_ADDR", "P_LD_B0", "P_LD_B1"}
  IN  pbuf_q' = buf[IF loading THEN fsm.pcnt \div 2 ELSE hps.at]

Buffer ==
  /\ BufferWrite
  /\ BufferRead
  /\ fill_lo' = IF machine("P_FILL3") /\ fsm.pcnt % 2 = 0 THEN save_q ELSE fill_lo

(* The release of the Mac: every clk8_en_p, once RAM and parameter RAM are ready. *)
held == ~clear_done \/ fsm.force_reset \/ ~fsm.ready

\* mutant: the release counter is loaded and never counts
ReleaseStuck ==
  /\ tick' = (tick + 1) % Tick
  /\ IF tick # 0
     THEN UNCHANGED <<n_reset, rst_cnt>>
     ELSE /\ rst_cnt' = IF held THEN Settle ELSE rst_cnt
          /\ n_reset' = (~held /\ (rst_cnt = 0 \/ n_reset))
Release ==
  /\ tick' = (tick + 1) % Tick
  /\ IF tick # 0
     THEN UNCHANGED <<n_reset, rst_cnt>>
     ELSE /\ rst_cnt' = IF held THEN Settle ELSE IF rst_cnt > 0 THEN rst_cnt - 1 ELSE 0
          /\ n_reset' = (~held /\ (rst_cnt = 0 \/ n_reset))

--------------------------------------------------------------------------------
(* Outside: hps_io serves one request at a time, and mounts between two of them. *)

closed == [window |-> "closed", at |-> 0, strobe |-> FALSE, valid |-> FALSE]

HpsOpen ==
  /\ hps.window = "closed" /\ (fsm.rd \/ fsm.wr_req)
  /\ hps' = [hps EXCEPT !.window = IF fsm.rd THEN "read" ELSE "write", !.at = 0,
                        !.strobe = fsm.rd, !.valid = FALSE]
  /\ UNCHANGED file

HpsStream ==
  /\ hps.window = "read" /\ hps.strobe
  /\ hps' = IF hps.at < Words - 1 THEN [hps EXCEPT !.at = @ + 1] ELSE [hps EXCEPT !.strobe = FALSE]
  /\ UNCHANGED file

HpsSettle ==
  /\ hps.window = "write" /\ ~hps.valid
  /\ hps' = [hps EXCEPT !.valid = TRUE]
  /\ UNCHANGED file

HpsCollect ==
  /\ hps.window = "write" /\ hps.valid
  /\ file' = IF mounted = "none" THEN file ELSE [file EXCEPT ![mounted][hps.at] = pbuf_q]
  /\ hps' = IF hps.at < Words - 1 THEN [hps EXCEPT !.at = @ + 1, !.valid = FALSE] ELSE closed

HpsClose ==
  /\ hps.window = "read" /\ ~hps.strobe
  /\ hps' = closed
  /\ UNCHANGED file

HpsWait == hps.window = "closed" /\ UNCHANGED <<hps, file>>

Hps == HpsOpen \/ HpsStream \/ HpsSettle \/ HpsCollect \/ HpsClose \/ HpsWait

Mount(mount) ==
  /\ IF mount = NoMount THEN UNCHANGED mounted
     ELSE hps.window = "closed" /\ left.mounts > 0 /\ mounted' = mount

\* The Mac writes a byte of its clock chip: one clock later the memory has it.
MacWrite ==
  ser' \in {NoWrite} \cup
           IF n_reset /\ left.writes > 0 THEN [we : {TRUE}, addr : Addr, data : Values] ELSE {}

--------------------------------------------------------------------------------
events(osd, rf) == (IF osd THEN 1 ELSE 0) + (IF rf THEN 1 ELSE 0)

Spend(mount, osd, rf) ==
  left' = [writes |-> left.writes - (IF ser'.we THEN 1 ELSE 0),
           mounts |-> left.mounts - (IF mount = NoMount THEN 0 ELSE 1),
           menus  |-> left.menus - events(osd, rf)]

\* What a Mac write of this clock has met.
meets(pst) == IF ~ser.we THEN "nothing"
              ELSE IF pst \in {"P_FILL", "P_FILL2", "P_FILL3", "P_SV_WR", "P_SV_DAT", "P_CLR"}
                   THEN "save" ELSE "load"

History(mount) ==
  /\ raced' = CASE ~machine("P_IDLE")                       -> IF ser.we THEN meets(fsm.pst) ELSE raced
                [] machine("P_IDLE") /\ fsm'.pst = "P_IDLE" -> raced
                [] OTHER                                    -> meets(fsm'.pst)
  /\ quiet' = IF mount = NoMount THEN quiet
              ELSE machine("P_IDLE") /\ fsm'.pst = "P_IDLE" /\ ~fsm.load_pending /\ ~fsm'.flush_pending
  /\ live' = (n_reset' /\ IF mount = NoMount THEN live ELSE n_reset)

Clk(mount, osd, rf, backstop) ==
  /\ Machine(Latched(mount, osd, rf, backstop))
  /\ Memory /\ Buffer /\ Release
  /\ Hps /\ Mount(mount) /\ MacWrite
  /\ clear_done' \in {clear_done, TRUE}
  /\ Spend(mount, osd, rf) /\ History(mount)

Registers == {"pcnt", "load_addr", "load_data", "save_addr", "rst_hold"}

Init ==
  /\ fsm = [f \in Flags \cup Registers \cup {"pst"} |->
             CASE f = "pst" -> "P_IDLE" [] f \in Flags -> FALSE [] f \in Registers -> 0]
  /\ \E v \in Values \ {0} : pram = [a \in Addr |-> v]
  /\ save_q = 0 /\ ser = NoWrite
  /\ buf = [w \in Index |-> Zero] /\ pbuf_q = Zero /\ fill_lo = 0
  /\ n_reset = FALSE /\ rst_cnt = Settle /\ tick = 0
  /\ hps = closed /\ mounted = "none"
  /\ LET saved == CHOOSE v \in Values : v # 0 IN file = [f \in Files |-> [w \in Index |-> IF f \in Nvrs THEN <<0, saved>> ELSE <<saved, 0>>]]
  /\ clear_done = FALSE
  /\ left = [writes |-> MacWrites, mounts |-> Mounts, menus |-> Menus]
  /\ raced = "nothing" /\ quiet = TRUE /\ live = FALSE

Next ==
  \E mount \in Files \cup {NoMount}, osd, rf, backstop \in BOOLEAN :
    /\ events(osd, rf) <= left.menus
    /\ backstop => ~fsm.ready
    /\ Clk(mount, osd, rf, backstop)

Spec     == Init /\ [][Next]_vars
\* The clock runs, hps_io opens a requested window, the RAM is cleared and the
\* boot's backstop expires, both in the end.
FairSpec == /\ Spec
            /\ WF_vars(Next /\ clear_done' /\ fsm'.ready)
            /\ WF_vars(Next /\ HpsOpen)

--------------------------------------------------------------------------------
\* TypeOK: every register, memory and file keeps a value of its kind.
TypeOK ==
  /\ fsm.pst \in States /\ \A f \in Flags : fsm[f] \in BOOLEAN
  /\ fsm.pcnt \in Addr /\ fsm.load_addr \in Addr /\ fsm.save_addr \in Addr
  /\ fsm.load_data \in Values /\ fsm.rst_hold \in 0 .. Hold
  /\ pram \in [Addr -> Values] /\ save_q \in Values
  /\ ser \in [we : BOOLEAN, addr : Addr, data : Values]
  /\ buf \in [Index -> Values \X Values] /\ pbuf_q \in Values \X Values /\ fill_lo \in Values
  /\ n_reset \in BOOLEAN /\ rst_cnt \in 0 .. Settle /\ tick \in 0 .. Tick - 1
  /\ hps \in [window : {"closed", "read", "write"}, at : Index, strobe : BOOLEAN, valid : BOOLEAN]
  /\ mounted \in Files /\ file \in [Files -> [Index -> Values \X Values]]

holdsPram(f) == \A w \in Index : file[f][w] = <<pram[2 * w], pram[2 * w + 1]>>

\* The machine is at rest on an image, and nothing is marked for saving.
clean == /\ machine("P_IDLE") /\ fsm.ena /\ mounted \in Nvrs
         /\ ~fsm.dirty /\ ~fsm.load_pending /\ ~fsm.load_wr /\ ser = NoWrite

\* CleanMeansSaved: a clean machine's image holds the parameter RAM byte for
\* byte, unless the Mac wrote its clock chip in the middle of the last load or
\* save: the packing of two bytes into a word, the registered outputs on both
\* sides and the dirty mark agree.
CleanMeansSaved == clean /\ raced = "nothing" => holdsPram(mounted)

\* ResetErases: the reset that follows "Reset PRAM & Core" comes when
\* parameter RAM and the image, if there still is one, are zero.
ResetErases ==
  [][machine("P_SV_DAT") /\ fsm'.pst = "P_RST" /\ raced' = "nothing"
       => /\ \A a \in Addr : pram'[a] = 0
          /\ mounted # "none" => \A w \in Index : file'[mounted][w] = Zero]_vars

\* ResetIsTaken: the reset pulse does not end before clk8_en_p has seen it
\* and the Mac is in reset.
ResetIsTaken == [][fsm.force_reset /\ ~fsm'.force_reset => ~n_reset']_vars

\* RefusedIsLeft: a disk mounted into the slot by accident while the machine
\* is at rest keeps its first sector through menu openings, "Reset PRAM & Core"
\* and Mac writes ("Refuse: no load, never flushed", LBMacTwo.sv:483).
RefusedIsLeft ==
  [][quiet /\ mounted \in Others => file'[mounted] = file[mounted]]_vars

\* LateLoadReboots: a load that ends on a Mac which has been running since
\* before the image came goes on to reset it ("the Mac reboots once and reads
\* the freshly loaded PRAM", LBMacTwo.sv:505-506).
LateLoadReboots == [][loadEnds /\ quiet /\ live => fsm'.pst = "P_RST"]_vars

\* MenuResetComes: "Reset PRAM & Core" ends in a reset.
MenuResetComes == fsm.clr_pending ~> fsm.force_reset

\* BootIsReleased: the Mac is let go in the end, image or no image.
BootIsReleased == <>[]n_reset
=============================================================================
